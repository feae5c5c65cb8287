------------------------------- MODULE WebPage -------------------------------
(***************************************************************************)
(* webpage.cc and the text that RssReader::dump makes of an article: a     *)
(* page is written with its fields between tags and taken apart by         *)
(* searching for them.  A text is a sequence of tags and words.            *)
(***************************************************************************)
EXTENDS Naturals, Sequences, SequencesExt

Tags == {"<doc>", "</doc>", "<docid>", "</docid>", "<url>", "</url>",
         "<title>", "</title>", "<content>", "</content>"}

\* The elements of a sequence that are in a set, in their order.
Only(seq, S) ==
    LET some[k \in 0 .. Len(seq)] ==
            IF k = 0 THEN <<>>
            ELSE IF seq[k] \in S THEN Append(some[k - 1], seq[k]) ELSE some[k - 1]
    IN  some[Len(seq)]

\* boost::regex_replace(content, "<.*?>", ""); the faulty variant keeps the
\* content as it is.
WithTags(content) == content
WithoutTags(content) == Only(content, Range(content) \ Tags)

\* The text of page d in the page library.
Text(d, article) ==
    <<"<doc>", "<docid>", ToString(d), "</docid>">>
    \o <<"<url>">> \o article.link \o <<"</url>">>
    \o <<"<title>">> \o article.title \o <<"</title>">>
    \o <<"<content>">> \o WithoutTags(article.content) \o <<"</content>", "</doc>">>

\* doc.find
Position(doc, tag) == CHOOSE i \in DOMAIN doc : doc[i] = tag /\ \A j \in 1 .. i - 1 : doc[j] # tag

\* substr(bpos + size, epos - bpos - size): a length below zero wraps, and the
\* rest of the text is taken.
Between(doc, begin, end) ==
    LET bpos == Position(doc, begin)
        epos == Position(doc, end)
    IN  SubSeq(doc, bpos + 1, IF bpos < epos THEN epos - 1 ELSE Len(doc))

\* A text that has all the tags, as every text written has.
processDoc(doc) ==
    [docId   |-> Between(doc, "<docid>", "</docid>"),
     url     |-> Between(doc, "<url>", "</url>"),
     title   |-> Between(doc, "<title>", "</title>"),
     content |-> Between(doc, "<content>", "</content>")]

\* The first seven pieces of the content that have a word of the query.
MaxLines == 7

summary(page, queryWords) ==
    LET lines == Only(page.content, queryWords) IN
    SubSeq(lines, 1, IF Len(lines) < MaxLines THEN Len(lines) ELSE MaxLines)

\* Titles and links are not freed of tags.
Plain(article) == \A x \in Range(article.link \o article.title) : x \notin Tags
==============================================================================

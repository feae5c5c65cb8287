------------------------------- MODULE Library -------------------------------
(***************************************************************************)
(* preparation/rssreader.cc, which makes a library of RSS items, and       *)
(* RssSearch::loadLibrary, which the search engine reads it with when it   *)
(* starts.  The two are processes of their own; three files are all that   *)
(* is between them, and either may run, end or be killed at any time.      *)
(*                                                                         *)
(* What a run of createlib writes is determined by its items, so a file is *)
(* the run that opened it last and the part that has reached the disk:     *)
(* pieces of the pages, lines of the offsets, entries of the index.        *)
(***************************************************************************)
EXTENDS WebPage, FiniteSets

CONSTANTS
    Corpora,     \* what createlib may find: a set of sequences of items
    Near(_, _),  \* Simhasher::isEqual of two fingerprints
    MaxRuns      \* bound: how often createlib is run

\* lacks: what the item has no element for ("link"), or an empty one ("text"),
\* or "nothing".  title, link, content: its texts; hash: its fingerprint; size:
\* in how many pieces its page reaches the disk.
Items == UNION {{c[i] : i \in DOMAIN c} : c \in Corpora}

ASSUME CorporaAssumption ==
    /\ \A c \in Corpora : c \in Seq(Items)
    /\ \A x \in Items :
        /\ x.lacks \in {"nothing", "link", "text"} /\ x.size \in Nat \ {0}
        /\ \A text \in {x.title, x.link, x.content} : text \in Seq(Range(text))
\* The number of a page is not taken for a tag.
ASSUME NumberAssumption == \A c \in Corpora : \A d \in DOMAIN c : ToString(d) \notin Tags
ASSUME NearAssumption ==
    \A x, y \in Items : Near(x.hash, x.hash) /\ (Near(x.hash, y.hash) => Near(y.hash, x.hash))
ASSUME MaxRunsAssumption == MaxRuns \in Nat

Files == {"pages", "offsets", "index"}
None == [run |-> 0, part |-> {}]

VARIABLES
    runs,       \* the items that each run of createlib was given
    disk,       \* the files; one that does not exist is of run 0
    builder,    \* the file that createlib is at, or "idle"
    opened,     \* it has opened it
    server,     \* what the search engine has loaded, or does
    pagelib,    \* the string pagelib of loadLibrary
    pageLib,    \* _pageLib: the pieces of pagelib that each page was made of
    index,      \* _invertIndexTable: run, docId and word of each posting
    loaded,     \* history: the files as they were when loading began
    disturbed   \* history: createlib ran while they were loaded

libraryVars == <<pagelib, pageLib, index, loaded>>
vars == <<runs, disk, builder, opened, server, disturbed, libraryVars>>

NoPages == [d \in {} |-> None]

Init ==
    /\ runs = <<>>
    /\ disk = [f \in Files |-> None]
    /\ builder = "idle"
    /\ opened = FALSE
    /\ server = "down"
    /\ pagelib = None
    /\ pageLib = NoPages
    /\ index = {}
    /\ loaded = disk
    /\ disturbed = FALSE
-----------------------------------------------------------------------------
(* What a run writes                                                       *)

\* parseRss: an item without title or link is passed over.  One without any
\* text is kept: the test that was to drop it never holds (rssreader.cc:142).
Wanted(item) == item.lacks = "nothing"
parseRss(items) == Only(items, {x \in Range(items) : Wanted(x)})

\* std::string of the NULL that GetText returns for an empty element throws,
\* and the first of no articles cannot be read: either ends the process.
Fatal(items) == (\E i \in DOMAIN items : items[i].lacks = "text") \/ parseRss(items) = <<>>

\* deduplication; the faulty variant compares with the last page only.
KnownAsLast(pages, a) == Near(pages[Len(pages)].hash, a.hash)
Known(pages, a) == \E pos \in DOMAIN pages : Near(pages[pos].hash, a.hash)

deduplication(articles) ==
    LET new[k \in DOMAIN articles] ==
            IF k = 1 THEN <<articles[1]>>
            ELSE IF Known(new[k - 1], articles[k]) THEN new[k - 1]
            ELSE Append(new[k - 1], articles[k])
    IN  new[Len(articles)]

Pages(items) == deduplication(parseRss(items))

\* tellp() before page d is written, and the page's length.
Offset(pages, d) ==
    LET end[k \in 0 .. Len(pages)] == IF k = 0 THEN 0 ELSE end[k - 1] + pages[k].size
    IN  end[d - 1]
Length(pages, d) == pages[d].size

\* The pieces of a page.
Pieces(pages, d) == Offset(pages, d) + 1 .. Offset(pages, d) + Length(pages, d)

\* simhasher.extract of the content
Words(article) == Range(WithoutTags(article.content))

Content(f, items) ==
    LET pages == Pages(items) IN
    CASE f = "pages"   -> 1 .. Offset(pages, Len(pages)) + Length(pages, Len(pages))
      [] f = "offsets" -> DOMAIN pages
      [] f = "index"   -> UNION {{d} \X Words(pages[d]) : d \in DOMAIN pages}
-----------------------------------------------------------------------------
(* createlib                                                               *)

\* The files in the order of dump, which begins with the pages, and what it does
\* if one does not open.  The faulty variant writes the offsets last.
AfterIndexEarly == [f \in Files |-> CASE f = "pages" -> "index" [] f = "index" -> "offsets" [] f = "offsets" -> "idle"]
After == [f \in Files |-> CASE f = "pages" -> "offsets" [] f = "offsets" -> "index" [] f = "index" -> "idle"]
AfterFailure == [f \in Files |-> IF f = "offsets" THEN "index" ELSE "idle"]

\* The articles are in memory before dump opens the first file; the faulty
\* variant opens it first.
EvenWithout(items) == TRUE
HasArticles(items) == ~Fatal(items)

Begin(items) ==
    /\ builder = "idle" /\ Len(runs) < MaxRuns
    /\ runs' = Append(runs, items)
    /\ builder' = IF HasArticles(items) THEN "pages" ELSE "idle"
    /\ disturbed' = (disturbed \/ server \in {"pages", "offsets"})
    /\ UNCHANGED <<disk, opened, server, libraryVars>>

\* std::ofstream truncates.
Open(f) ==
    /\ builder = f /\ ~opened
    /\ opened' = TRUE
    /\ disk' = [disk EXCEPT ![f] = [run |-> Len(runs), part |-> {}]]
    /\ UNCHANGED <<runs, builder, server, disturbed, libraryVars>>

OpenFails(f) ==
    /\ builder = f /\ ~opened
    /\ builder' = AfterFailure[f]
    /\ UNCHANGED <<runs, disk, opened, server, disturbed, libraryVars>>

\* The stream hands on what it has buffered: pages and offsets in order, the
\* index in that of the hash table.  That a write fails is not modelled.
Write(f) ==
    /\ builder = f /\ opened
    /\ LET rest == Content(f, Last(runs)) \ disk[f].part IN
       \E u \in rest :
        /\ f # "index" => \A v \in rest : u <= v
        /\ disk' = [disk EXCEPT ![f].part = @ \union {u}]
    /\ UNCHANGED <<runs, builder, opened, server, disturbed, libraryVars>>

Close(f) ==
    /\ builder = f /\ opened /\ disk[f].part = Content(f, Last(runs))
    /\ builder' = After[f]
    /\ opened' = FALSE
    /\ UNCHANGED <<runs, disk, server, disturbed, libraryVars>>

Kill ==
    /\ builder # "idle"
    /\ builder' = "idle"
    /\ opened' = FALSE
    /\ UNCHANGED <<runs, disk, server, disturbed, libraryVars>>
-----------------------------------------------------------------------------
(* The search engine                                                       *)

Missing(f) == disk[f] = None

LoadPages ==
    /\ server = "down"
    /\ server' = IF Missing("pages") THEN "serving" ELSE "pages"
    /\ pagelib' = disk["pages"]
    /\ loaded' = disk
    /\ disturbed' = (builder # "idle")
    /\ UNCHANGED <<runs, disk, builder, opened, pageLib, index>>

\* pagelib.substr(ibegin, ilength), for each line of the offsets; the faulty
\* variant forgets the length.
SubstrToEnd(d) ==
    LET pages == Pages(runs[disk["offsets"].run]) IN
    [run |-> pagelib.run, part |-> {b \in pagelib.part : b > Offset(pages, d)}]
Substr(d) ==
    [run |-> pagelib.run,
     part |-> pagelib.part \cap Pieces(Pages(runs[disk["offsets"].run]), d)]

PageText(run, d) == [run |-> run, part |-> Pieces(Pages(runs[run]), d)]

\* substr and WebPage throw if there is nothing; of a page that was cut or is
\* made of the pieces of others they may make anything, or throw.
LoadOffsets ==
    /\ server = "pages"
    /\ LET docs == disk["offsets"].part
           whole == {PageText(pagelib.run, d) : d \in DOMAIN Pages(runs[pagelib.run])} IN
       IF Missing("offsets") THEN server' = "serving" /\ UNCHANGED pageLib
       ELSE /\ pageLib' = [d \in docs |-> Substr(d)]
            /\ \/ /\ \A d \in docs : Substr(d).part # {}
                  /\ server' = "offsets"
               \/ /\ \E d \in docs : Substr(d) \notin whole
                  /\ server' = "dead"
    /\ UNCHANGED <<runs, disk, builder, opened, disturbed, pagelib, index, loaded>>

LoadIndex ==
    /\ server = "offsets"
    /\ server' = "serving"
    /\ index' = {<<disk["index"].run, p[1], p[2]>> : p \in disk["index"].part}
    /\ UNCHANGED <<runs, disk, builder, opened, disturbed, pagelib, pageLib, loaded>>

\* makeJson takes _pageLib[docId] of every document found: operator[] makes a
\* WebPage of an empty string where there is none, which throws.
Found(w) == {p[2] : p \in {q \in index : q[3] = w}}

Query(w) ==
    /\ server = "serving"
    /\ ~(Found(w) \subseteq DOMAIN pageLib)
    /\ server' = "dead"
    /\ UNCHANGED <<runs, disk, builder, opened, disturbed, libraryVars>>

Restart ==
    /\ server \in {"serving", "dead"}
    /\ server' = "down"
    /\ pagelib' = None
    /\ pageLib' = NoPages
    /\ index' = {}
    /\ UNCHANGED <<runs, disk, builder, opened, disturbed, loaded>>

Next ==
    \/ \E items \in Corpora : Begin(items)
    \/ \E f \in Files : Open(f) \/ OpenFails(f) \/ Write(f) \/ Close(f)
    \/ Kill
    \/ LoadPages \/ LoadOffsets \/ LoadIndex \/ Restart
    \/ \E w \in UNION {Words(x) : x \in Items} : Query(w)

Spec == Init /\ [][Next]_vars
-----------------------------------------------------------------------------
\* The runs that came to dump.
Dumps == {run \in DOMAIN runs : ~Fatal(runs[run])}

\* Among the types: a run of nothing, or one that met an empty element, has
\* ended before it touched a file (rssreader.cc:126, 163).
TypeOK ==
    /\ runs \in Seq(Corpora) /\ Len(runs) <= MaxRuns
    /\ builder \in Files \union {"idle"} /\ opened \in BOOLEAN /\ disturbed \in BOOLEAN
    /\ server \in {"down", "pages", "offsets", "serving", "dead"}
    /\ \A f \in Files :
        disk[f] = None \/ (disk[f].run \in Dumps /\ disk[f].part \subseteq Content(f, runs[disk[f].run]))

IsWhole(files, run) == \A f \in Files : files[f] = [run |-> run, part |-> Content(f, runs[run])]

\* What a search engine serves that was started beside a finished library is
\* that library: every page and every posting, of one run.
ServesWholeLibrary ==
    server = "serving" /\ ~disturbed =>
        \A run \in Dumps : IsWhole(loaded, run) =>
            /\ pageLib = [d \in DOMAIN Pages(runs[run]) |-> PageText(run, d)]
            /\ index = {<<run, p[1], p[2]>> : p \in Content("index", runs[run])}

\* Wherever a run of createlib was killed, or whichever of its files did not
\* open, the search engine serves whole pages of that run and none that is
\* missing, as long as no file of an earlier run is left, and what is written to
\* an open file reaches it unless the run is killed: dump writes the offsets after the pages and the index
\* after both, and loadLibrary stops at the first file it does not find
\* (rssreader.cc:85-88, rsssearch.cc:146, 159).
InterruptedRunIsSafe ==
    ~disturbed /\ (\E run \in Dumps : \A f \in Files : loaded[f].run \in {0, run}) =>
        /\ server # "dead"
        /\ \A d \in DOMAIN pageLib : \E run \in Dumps :
            d \in DOMAIN Pages(runs[run]) /\ pageLib[d] = PageText(run, d)
        /\ server = "serving" => \A p \in index : p[2] \in DOMAIN pageLib

\* No two pages served are near each other, and each item that was complete
\* has one near it, although nearness is not transitive (rssreader.cc:161-176).
PagesAreDistinct ==
    server = "serving" /\ ~disturbed =>
        \A run \in Dumps : IsWhole(loaded, run) =>
            /\ \A d, e \in DOMAIN pageLib : d # e => ~Near(Pages(runs[run])[d].hash, Pages(runs[run])[e].hash)
            /\ \A i \in DOMAIN runs[run] : Wanted(runs[run][i]) =>
                \E d \in DOMAIN pageLib : Near(Pages(runs[run])[d].hash, runs[run][i].hash)

\* A page that is found by a word is shown with the title and the link of its
\* item and with a summary that has the word, unless a tag of the format is in
\* the title or the link, which nothing takes out (rssreader.cc:146, 153-155,
\* webpage.cc:72-87).
FoundPagesAreShown ==
    server = "serving" /\ ~disturbed =>
        \A run \in Dumps : IsWhole(loaded, run) =>
            \A p \in index : Plain(Pages(runs[run])[p[2]]) =>
                LET article == Pages(runs[run])[p[2]]
                    page == processDoc(Text(p[2], article))
                IN  /\ page.docId = <<ToString(p[2])>>
                    /\ page.title = article.title /\ page.url = article.link
                    /\ summary(page, {p[3]}) # <<>>
==============================================================================

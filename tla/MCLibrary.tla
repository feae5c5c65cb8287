------------------------------ MODULE MCLibrary ------------------------------
EXTENDS Library, Integers

\* Fingerprints on a line: 2 is near 1 and 3, which are not near each other.
MCNear(h, k) == h - k \in -1 .. 1

Item(hash, size, content) ==
    [lacks |-> "nothing", hash |-> hash, size |-> size, title |-> <<"t">>, link |-> <<"l">>,
     content |-> content]
NoLink == [Item(1, 1, <<"a">>) EXCEPT !.lacks = "link"]
EmptyTitle == [Item(1, 1, <<"a">>) EXCEPT !.lacks = "text"]
AboutTags == [Item(1, 1, <<"a">>) EXCEPT !.title = <<"t", "<content>", "</title>">>]

\* A chain of near items, whose pages have another size in the second corpus;
\* a single one; items that end the run; no item that is complete.
MCCorpora ==
    {<<Item(1, 2, <<"a">>), Item(2, 1, <<"b">>), Item(3, 1, <<"a", "</content>", "b">>),
       Item(1, 1, <<>>)>>,
     <<NoLink, Item(3, 1, <<"b">>), AboutTags, Item(5, 2, <<>>)>>,
     <<Item(4, 1, <<"a">>)>>,
     <<Item(4, 1, <<"a">>), EmptyTitle>>,
     <<NoLink>>}
==============================================================================

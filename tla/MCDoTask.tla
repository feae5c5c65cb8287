------------------------------ MODULE MCDoTask ------------------------------
EXTENDS DoTask

\* The first library has not all words of the second query.
MCWords == [q1 |-> {"a"}, q2 |-> {"a", "b"}]
MCQueries == DOMAIN MCWords
MCLexicon == <<{"a"}, {"a", "b"}>>
=============================================================================

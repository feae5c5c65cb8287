----------------------------- MODULE MCSocketIO -----------------------------
EXTENDS SocketIO

\* A line, a line longer than the buffer, two lines at once, the two halves of
\* a line, and a zero.
MCSegments ==
    {<<"char", "nl">>, <<"char", "char", "char", "nl">>, <<"nl", "char", "nl">>,
     <<"char">>, <<"nl">>, <<"nul">>}
=============================================================================

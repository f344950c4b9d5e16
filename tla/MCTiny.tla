------------------------------- MODULE MCTiny -------------------------------
EXTENDS Tiny

\* A header of exactly MaxLine - 1 bytes before its end, and one that is none.
MCRequest == {
    <<"static", "nl", "h", "nl", "nl">>,
    <<"dynamic", "nl", "nl">>,
    <<"post", "nl", "h", "nl", "nl">>,
    <<"baduri", "nl", "c", "nl", "nl">>,
    <<"static", "nl", "h", "c", "c", "nl", "h", "nl", "nl">>}
=============================================================================

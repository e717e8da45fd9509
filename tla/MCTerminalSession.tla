------------------------- MODULE MCTerminalSession -------------------------
EXTENDS TerminalSession

Session(strict, callback, auto, sandbox) ==
    [strict |-> strict, callback |-> callback, auto |-> auto, sandbox |-> sandbox]

TerminalSessions == {
    Session(TRUE,  TRUE,  FALSE, TRUE),     \* a user is asked
    Session(TRUE,  FALSE, FALSE, FALSE),    \* nobody can be asked
    Session(TRUE,  FALSE, TRUE,  FALSE),    \* an evaluation
    Session(FALSE, FALSE, TRUE,  TRUE)}     \* scoped_auto
=============================================================================

---------------------------- MODULE MCGlobalWal ----------------------------
(* A small instance of GlobalWal. *)
EXTENDS GlobalWal

CONSTANTS e1, e2, e3, e4

\* The entries without a separator are interchangeable, and starting an append
\* is not a fair step: the behaviours that start them in this order stand for
\* all others, for the temporal property too.
InOrder ==
    \A i \in 2 .. 4 : <<e1, e2, e3, e4>>[i] \in tried => <<e1, e2, e3, e4>>[i - 1] \in tried
=============================================================================

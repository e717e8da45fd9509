----------------------------- MODULE MCRunTask -----------------------------
(***************************************************************************)
(* Small instances of RunTask: two runs over two files of at most two      *)
(* lines, the second run free to resume the first.                         *)
(***************************************************************************)
EXTENDS RunTask, TLC

Write(path, text) == [type |-> "write_text", path |-> path, text |-> text]
Patch(path, search, replace) ==
    [type |-> "patch_text", path |-> path, search |-> search, replace |-> replace]
Refused(path) ==
    [type |-> "refused", path |-> path, status |-> "halted", reason |-> "sovereignty_breach"]

OnePath == {"p"}
TwoPaths == {"p", "q"}

One(action, mode) == [plan |-> <<action>>, multi |-> FALSE, mode |-> mode]
Many(plan, mode) == [plan |-> plan, multi |-> TRUE, mode |-> mode]

\* A write and a patch, two writes, a plan over budget, a patch that still
\* applies after it was applied, one whose result does not compile, one that is
\* ambiguous, a refused action.
MixedRequests ==
    { Many(<< Write("p", <<"a">>), Patch("q", <<"a", "a">>, <<"b">>) >>, "wal"),
      One(Patch("p", <<"a">>, <<"a", "b">>), "full"),
      One(Patch("p", <<"a">>, <<"a", "b">>), "wal"),
      Many(<< Patch("q", <<"a", "a">>, <<"x">>), Write("q", <<"b">>) >>, "full"),
      One(Patch("q", <<"a">>, <<"b">>), "wal"),
      One(Refused("p"), "full"),
      Many(<< Write("p", <<"b">>), Write("q", <<"a">>) >>, "full"),
      Many(<< Write("p", <<"b">>), Write("q", <<"a", "a", "a">>) >>, "full") }
BrokenLines == {"x"}
MixedInitial == { [p |-> <<"a">>, q |-> <<"a", "a">>] }
MixedContents == { <<"a", "a">>, Missing }
=============================================================================

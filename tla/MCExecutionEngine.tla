------------------------- MODULE MCExecutionEngine -------------------------
(***************************************************************************)
(* All plans of three steps made of a few kinds of step and a few shapes   *)
(* of dependencies, a cycle and an unknown step among them.                *)
(***************************************************************************)
EXTENDS ExecutionEngine

Files == {"p", "q"}
Plain == [deps |-> {}, reads |-> {}, writes |-> {}, gate |-> "open", tag |-> None,
          breach |-> FALSE, malformed |-> FALSE, forbidden |-> FALSE]

Kinds ==
    { [Plain EXCEPT !.writes = {"p"}, !.gate = "guarded"],
      [Plain EXCEPT !.reads = {"p"}],
      [Plain EXCEPT !.writes = {"q"}],
      [Plain EXCEPT !.gate = "mcp"] }
OddKinds ==
    { [Plain EXCEPT !.writes = {"p"}, !.breach = TRUE],
      [Plain EXCEPT !.writes = {"p"}, !.tag = <<"kan", "li">>],
      [Plain EXCEPT !.malformed = TRUE],
      [Plain EXCEPT !.forbidden = TRUE] }

Shapes == { << {}, {}, {} >>, << {}, {1}, {1} >>, << {}, {1}, {2} >>, << {}, {3}, {2} >>,
            << {}, {9}, {1} >> }

Plan(a, b, c, shape) ==
    << [a EXCEPT !.deps = shape[1]], [b EXCEPT !.deps = shape[2]], [c EXCEPT !.deps = shape[3]] >>
ThreeStepPlans ==
    { Plan(a, b, c, shape) : a \in Kinds, b \in Kinds \cup OddKinds, c \in Kinds, shape \in Shapes }
=============================================================================

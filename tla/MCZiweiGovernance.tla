-------------------------- MODULE MCZiweiGovernance --------------------------
EXTENDS ZiweiGovernance

Task(scale, environment, there, testing, long, grader) ==
    [scale |-> scale, environment |-> environment, exists |-> there,
     testing |-> testing, long |-> long, grader |-> grader]

\* Every kind of task, of the smallest bureau and of the largest.
EveryTask ==
    {Task(scale, environment, there, testing, long, grader) :
        scale \in {100, 2500}, environment \in {"autonomous", "degraded"},
        there \in BOOLEAN, testing \in BOOLEAN, long \in BOOLEAN,
        grader \in {"none", "sandbox", "host"}}
=============================================================================

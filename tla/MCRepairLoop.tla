---------------------------- MODULE MCRepairLoop ----------------------------
EXTENDS RepairLoop

Task(max, bureau, graded, sandbox, testing, binary) ==
    [max_repair_attempts |-> max, bureau_turn_budget |-> bureau, graded |-> graded,
     sandbox |-> sandbox, testing |-> testing, binary |-> binary]

RepairTasks == {
    Task(3, 4, TRUE,  TRUE,  FALSE, FALSE),
    Task(6, 8, TRUE,  FALSE, FALSE, FALSE),
    Task(2, 3, TRUE,  FALSE, TRUE,  TRUE),
    Task(2, 3, FALSE, TRUE,  FALSE, FALSE),
    Task(2, 3, FALSE, FALSE, FALSE, FALSE),
    Task(0, 3, TRUE,  FALSE, FALSE, FALSE)}
Same(score) == [b \in BOOLEAN |-> score]
Scores == {Same(s) : s \in {20, 30, 60, 90, 100}} \cup
          {[b \in BOOLEAN |-> IF b THEN 60 ELSE 30]}
=============================================================================

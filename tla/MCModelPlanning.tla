-------------------------- MODULE MCModelPlanning --------------------------
(* Instances of ModelPlanning for TLC. *)
EXTENDS ModelPlanning, TLC

Plain(dir, stem, py) == [dir |-> dir, stem |-> stem, py |-> py, spelled |-> "plain"]
A == Plain("src", "a", TRUE)
B == Plain("src", "export", TRUE)
D == Plain("top", "rows", FALSE)
T == Plain("tests", "test_a", TRUE)
N == Plain("tests", "test_n", TRUE)
AnyA == Plain("top", "a", TRUE)
MCPaths == {A, B, D, T, N}

\* The same files under other spellings.
Inner(p) == [p EXCEPT !.spelled = "inner"]
Dot(p) == [p EXCEPT !.spelled = "dot"]

\* What the payloads are made of.
Field(items) == [is |-> "list", items |-> items]
Absent == [is |-> "absent", items |-> <<>>]
Empty == [assets |-> Absent, patches |-> Absent,
          loose |-> [assets |-> <<>>, patches |-> <<>>],
          plan |-> [is |-> "absent", extra |-> FALSE, steps |-> <<>>],
          no_action |-> "absent", newTests |-> FALSE]
Asset(p) == [is |-> "object", path |-> p, content |-> "text", extra |-> FALSE,
             flaws |-> {}, imports |-> {}]
Patch(p) == [is |-> "object", path |-> p, search |-> "text", replace |-> "lines",
             extra |-> FALSE]
Steps(calls) == [is |-> "object", extra |-> FALSE,
                 steps |-> <<[id |-> "s", sound |-> TRUE, calls |-> calls]>>]
Tool(tool, p) == [tool |-> tool, path |-> p, sound |-> TRUE]
Assets(ps) == [Empty EXCEPT !.assets = Field([i \in DOMAIN ps |-> Asset(ps[i])])]
Patches(ps) == [Empty EXCEPT !.patches = Field([i \in DOMAIN ps |-> Patch(ps[i])])]
Text(text, payload) == [content |-> TRUE, length |-> FALSE, text |-> text, payload |-> payload]
Says(payload) == Text("whole", payload)

NoAction == [Empty EXCEPT !.no_action = "given"]

MCAnswers ==
    {Says(Assets(<<A>>)), Says(Assets(<<A, B>>)), Says(Patches(<<A, Dot(A)>>)),
     Says(Assets(<<Inner(A)>>)), Says(Assets(<<Inner(B)>>)),
     Says([Assets(<<N>>) EXCEPT !.patches = Field(<<Patch(B)>>)]),
     Says(Assets(<<Dot(T)>>)),
     Says([Patches(<<Inner(T)>>) EXCEPT !.newTests = TRUE]),
     Says([Empty EXCEPT !.loose.assets = <<Asset(B)>>]),
     Says([Empty EXCEPT !.loose.assets = <<[Asset(B) EXCEPT !.imports = {"missing"}]>>]),
     Says([Assets(<<B>>) EXCEPT !.plan = Steps(<<Tool("list_files", NoPath)>>)]),
     Says([Assets(<<A>>) EXCEPT !.plan = Steps(<<Tool("write_text", B)>>)]),
     Says([Empty EXCEPT !.plan = Steps(<<Tool("run_command", NoPath)>>)]),
     Says(NoAction),
     Text("within", [Assets(<<A>>) EXCEPT !.no_action = "given"]),
     Text("cut", Empty), Text("prose", Empty),
     [Text("whole", Empty) EXCEPT !.content = FALSE]}

Task == [required |-> {}, protected |-> {}, attempts |-> 0, mode |-> "strict",
         explicit |-> FALSE, asks |-> FALSE, shows |-> FALSE, newTests |-> FALSE,
         sandbox |-> FALSE, host |-> FALSE, data |-> {}, degraded |-> FALSE,
         fallback |-> FALSE, patient |-> TRUE, route |-> TRUE, api |-> "chat"]
MCTasks ==
    {[Task EXCEPT !.required = {A, B}, !.protected = {N}, !.attempts = 1,
                  !.sandbox = TRUE, !.host = TRUE, !.data = {D}],
     [Task EXCEPT !.required = {B}, !.protected = {AnyA}, !.attempts = 2,
                  !.explicit = TRUE, !.asks = TRUE, !.shows = TRUE,
                  !.degraded = TRUE],
     [Task EXCEPT !.required = {B, N}, !.protected = {A, T}, !.attempts = 2,
                  !.explicit = TRUE, !.mode = "scoped_auto", !.patient = FALSE],
     [Task EXCEPT !.attempts = 1, !.explicit = TRUE, !.fallback = TRUE,
                  !.api = "responses"],
     [Task EXCEPT !.sandbox = TRUE, !.route = FALSE]}
MCInitial == {[files |-> {A, T}, delivered |-> {A}]}
MCCodes == {400, 403, 503}
=============================================================================

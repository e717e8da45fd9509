---------------------------- MODULE PlanParsing ----------------------------
(***************************************************************************)
(* From what a model answered to a plan, or to the reason there is none    *)
(* (kernel/model_provider.py, kernel/preset_tests.py): finding the JSON    *)
(* object in the text, mending the field names models get wrong, and       *)
(* refusing what a plan must not do.  Operators only; ModelPlanning calls  *)
(* the model.                                                              *)
(*                                                                         *)
(* A path is [dir, stem, py, spelled]: its top directory ("top" for none), *)
(* its file name without the suffix, whether the suffix is .py, and how it *)
(* is spelled, "plain", with something redundant inside ("inner", src//a)  *)
(* or in front ("dot", ./src/a).  NoPath stands for whatever is not a      *)
(* non-empty string.                                                       *)
(*                                                                         *)
(* A payload keeps, of the fields of the object:                           *)
(*   assets, patches  [is, items], is "absent", "null", "list" or "other"  *)
(*   loose            the entries the top-level fields spell, path/target  *)
(*                    with content and patch or the two blocks             *)
(*   plan             [is, extra, steps], is "object" instead of "list"    *)
(*   no_action        "absent", "empty", "given" or "other"                *)
(*   newTests         whether the task it names reads as one for tests only*)
(***************************************************************************)
EXTENDS Naturals, Sequences, SequencesExt, FiniteSets

NoPath == [dir |-> "none", stem |-> "", py |-> FALSE, spelled |-> "plain"]

\* resolve_target: the file a path names, however it is spelled.
File(path) ==
    IF path.spelled = "plain" THEN path
    ELSE [dir |-> path.dir, stem |-> path.stem, py |-> path.py, spelled |-> "plain"]

Tools == {"list_files", "read_text", "search_text", "glob_files", "outline",
          "git_status", "git_diff", "git_commit", "run_command", "write_text",
          "patch_text"}

\* Those of a sequence that are good, in their order.
Those(seq, good) ==
    LET kept[i \in 0 .. Len(seq)] ==
            IF i = 0 THEN <<>>
            ELSE IF seq[i] \in good THEN Append(kept[i - 1], seq[i])
            ELSE kept[i - 1]
    IN kept[Len(seq)]

----------------------------------------------------------------------------
\* Test files.

is_preset_test_path(path) == path.dir = "tests"

Shadows == {"unittest", "pytest", "conftest", "sitecustomize", "usercustomize"}

\* Mutant: an existing test may be written over.
new_test_asset_allowed_Existing(path, existing) ==
    is_preset_test_path(path) /\ path.py /\ path.stem \notin Shadows

new_test_asset_allowed(path, existing) ==
    /\ is_preset_test_path(path) /\ path.py
    /\ path.stem \notin Shadows
    /\ File(path) \notin existing

\* preset_test_hashes: the test files there are.
PresetTests(files) == {path \in files : is_preset_test_path(path) /\ path.py}

\* workspace_python_modules: what `src` may be asked for, wherever it lies.
workspace_python_modules(files) ==
    {path.stem : path \in {p \in files : p.py /\ p.dir # "top"}} \ {"__init__"}

----------------------------------------------------------------------------
\* The object in the text.

\* json_object_from_model_text, after the fences are off.  "whole": the text is
\* JSON; "within": an object decodes from its first brace on; "broken": nothing
\* decodes there, "cut" when the text does not even end in a brace; "prose":
\* there is no brace.
ObjectIn(text) ==
    CASE text \in {"whole", "within"} -> "object"
      [] text = "cut" -> "truncated"
      [] text \in {"broken", "prose"} -> "not_json"
      [] text = "list" -> "not_object"

\* parse_response of the two providers: only a chat completion says that it
\* stopped for its length.
TextOutcome(api, answer) ==
    IF ~answer.content THEN "no_content"
    ELSE IF ObjectIn(answer.text) = "not_json" /\ api = "chat" /\ answer.length
         THEN "truncated"
         ELSE ObjectIn(answer.text)

----------------------------------------------------------------------------
\* normalize_model_plan_payload.

IsEntry(entry) == entry.is = "object"

\* A list of lines becomes text; an empty one is an empty text.
Joined(block) == IF block = "lines" THEN "text" ELSE block

Mended(patch) == [patch EXCEPT !.search = Joined(@), !.replace = Joined(@)]

\* The list a field stands for; the loose entries only when it is absent.
Listed(field, loose) ==
    CASE field.is = "absent" -> loose
      [] field.is = "null" -> <<>>
      [] field.is = "list" -> Those(field.items, {e \in Range(field.items) : IsEntry(e)})
      [] field.is = "other" -> <<>>

Normalized(payload) ==
    LET Mend(i) == Mended(Listed(payload.patches, payload.loose.patches)[i])
        patches == Listed(payload.patches, payload.loose.patches)
    IN [malformed |-> "other" \in {payload.assets.is, payload.patches.is},
        assets  |-> Listed(payload.assets, payload.loose.assets),
        patches |-> [i \in DOMAIN patches |-> Mend(i)],
        plan    |-> IF \/ payload.plan.is = "null"
                       \/ payload.plan.is = "object" /\ payload.plan.steps = <<>>
                    THEN [payload.plan EXCEPT !.is = "absent"] ELSE payload.plan,
        no_action |-> IF payload.no_action = "empty" THEN "absent"
                      ELSE payload.no_action,
        newTests |-> payload.newTests]

----------------------------------------------------------------------------
\* What is refused.

Writes(tool) == tool \in {"write_text", "patch_text"}

\* validate_tool_call; of the paths of a commit, `path` is a test file if one is.
CallIsRefused(call) ==
    \/ ~call.sound
    \/ call.tool \notin Tools
    \/ /\ Writes(call.tool) \/ call.tool = "git_commit"
       /\ is_preset_test_path(call.path)

\* validate_execution_plan; `sound` is the form of the other fields.
StepsAreRefused(plan) ==
    \/ plan.is = "other" \/ plan.extra
    \/ \E i \in DOMAIN plan.steps :
          LET step == plan.steps[i] IN
          \/ ~step.sound \/ step.calls = <<>>
          \/ \E j \in 1 .. i - 1 : plan.steps[j].id = step.id
          \/ \E k \in DOMAIN step.calls : CallIsRefused(step.calls[k])

\* _reject_unusable_python_assets: an entry's flaws, and the modules of `src`
\* it imports.
Unusable(assets, known) ==
    LET paths == {assets[i].path : i \in DOMAIN assets}
        modules == known \cup ({p.stem : p \in {q \in paths : q.py}} \ {"__init__"})
    IN \E i \in DOMAIN assets :
          /\ assets[i].path.py
          /\ \/ assets[i].flaws \cap {"syntax", "pytest", "_exit"} # {}
             \/ "unittest" \in assets[i].flaws /\ ~is_preset_test_path(assets[i].path)
             \/ ~(assets[i].imports \subseteq modules)

AssetsAreRefused(assets, files) ==
    \/ \E i \in DOMAIN assets :
          \/ assets[i].extra
          \/ assets[i].path = NoPath \/ assets[i].content # "text"
          \/ /\ is_preset_test_path(assets[i].path)
             /\ ~new_test_asset_allowed(assets[i].path, PresetTests(files))
          \/ \E j \in 1 .. i - 1 : assets[j].path = assets[i].path
    \/ Unusable(assets, workspace_python_modules(files))

\* Whether a patch may touch the tests is up to the task the answer names, not
\* to the task that was given.
PatchesAreRefused(patches, newTests) ==
    \E i \in DOMAIN patches :
        \/ patches[i].extra
        \/ patches[i].path = NoPath
        \/ patches[i].search # "text" \/ patches[i].replace # "text"
        \/ is_preset_test_path(patches[i].path) /\ ~newTests

\* validate_model_plan: "plan", or why it is none.
Verdict(n, files) ==
    LET steps == n.plan.is # "absent"
        acts == n.assets # <<>> \/ n.patches # <<>> \/ steps
    IN IF n.malformed \/ (steps /\ StepsAreRefused(n.plan)) THEN "refused"
       ELSE IF n.no_action # "absent" /\ acts THEN "combined"
       ELSE IF \/ n.no_action = "other"
               \/ n.no_action = "absent" /\ ~acts
               \/ AssetsAreRefused(n.assets, files)
               \/ PatchesAreRefused(n.patches, n.newTests)
            THEN "refused" ELSE "plan"

----------------------------------------------------------------------------
\* traced_provider_plan: the failure kind of an answer, or "plan".

\* Only these are asked for again within the same step (_same_step_retry).
Retried(verdict) == verdict \in {"not_json", "combined"}

FailureKind(verdict) ==
    CASE verdict = "no_content" -> "model_provider_error"
      [] verdict = "truncated" -> "resource_budget_exceeded"
      [] OTHER -> "invalid_model_plan"

PlanOf(n) ==
    [assets |-> [i \in DOMAIN n.assets |-> n.assets[i].path],
     patches |-> [i \in DOMAIN n.patches |-> n.patches[i].path],
     steps |-> IF n.plan.is = "absent" THEN <<>> ELSE n.plan.steps,
     no_action |-> n.no_action # "absent"]

\* create_plan: the verdict on an answer, and the plan it gives.
Reading(api, answer, files) ==
    LET text == TextOutcome(api, answer)
        n == Normalized(answer.payload)
        verdict == IF text = "object" THEN Verdict(n, files) ELSE text
    IN [verdict |-> verdict, plan |-> PlanOf(n)]
=============================================================================

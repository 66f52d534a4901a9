------------------------------ MODULE Versions ------------------------------
(***************************************************************************)
(* patching, hello_patch and worker_versioning: one execution of a         *)
(* workflow while its code is replaced under it.                           *)
(*                                                                         *)
(* External: a worker replays the history whenever it has not the          *)
(* workflow in its cache, so always after a change of version; the code    *)
(* must ask again for the commands the history holds, apart from the       *)
(* markers of a patch that it deprecates or that was deprecated.           *)
(* workflow.patched is true if the history has the marker, or if nothing   *)
(* has been done yet; its first answer stands for the whole run.  A pinned *)
(* execution stays on the version that started it.                         *)
(***************************************************************************)
EXTENDS Integers, Sequences

CONSTANT MaxSignals      \* bound: do-activity signals

VARIABLES
  sample,                \* which workflow
  started, current,      \* the versions that started it, and that is deployed
  history,               \* the commands, in order
  signals,               \* do-activity signals sent
  conclude,              \* nothing more is to come
  pc

vars == <<sample, started, current, history, signals, conclude, pc>>

Commands == {"pre_patch_activity", "post_patch_activity", "compose_greeting", "sleep",
             "some_activity", "some_incompatible_activity", "patch", "deprecate"}

Times(n, c) == [i \in 1 .. n |-> c]

\* The commands of each version of the code, after n signals; p is what
\* workflow.patched answers, and last that the run concludes.
Initial == <<"pre_patch_activity">>
Patched(p) == IF p THEN <<"patch", "post_patch_activity">> ELSE <<"pre_patch_activity">>
PatchDeprecated == <<"deprecate", "post_patch_activity">>
PatchComplete == <<"post_patch_activity">>
MyWorkflow == <<"compose_greeting">>
MyWorkflowPatched(p) == IF p THEN <<"patch", "compose_greeting", "sleep">> ELSE MyWorkflow
MyWorkflowPatchDeprecated == <<"deprecate", "compose_greeting", "sleep">>
AutoUpgradingWorkflowV1(n) == Times(n, "some_activity")
\* Variant: changed without a patch.
Unpatched(n, p) == Times(n, "some_incompatible_activity")
AutoUpgradingWorkflowV1b(n, p) ==
  IF n = 0 THEN <<>>
  ELSE IF p THEN <<"patch">> \o Times(n, "some_incompatible_activity")
       ELSE Times(n, "some_activity")
PinnedWorkflowV1(last) == IF last THEN <<"some_activity">> ELSE <<>>
PinnedWorkflowV2(last) ==
  <<"some_activity">> \o IF last THEN <<"some_incompatible_activity">> ELSE <<>>

Code(p) ==
  [patching |-> <<Initial, Patched(p), PatchDeprecated, PatchComplete>>,
   hello |-> <<MyWorkflow, MyWorkflowPatched(p), MyWorkflowPatchDeprecated>>,
   auto |-> <<AutoUpgradingWorkflowV1(signals), AutoUpgradingWorkflowV1b(signals, p),
              AutoUpgradingWorkflowV1b(signals, p)>>,
   pinned |-> <<PinnedWorkflowV1(conclude), PinnedWorkflowV1(conclude),
                PinnedWorkflowV2(conclude)>>]

LastVersion == [patching |-> 4, hello |-> 3, auto |-> 3, pinned |-> 3]

\* The name under which a worker of that version knows the workflow; the last
\* version of hello_patch is registered as "patch-worklow".
Name(v) == IF sample = "hello" /\ v = 3 THEN "patch-worklow" ELSE sample

Init ==
  /\ sample \in DOMAIN LastVersion
  /\ current \in 1 .. LastVersion[sample] /\ started = current
  /\ history = <<>> /\ signals = 0 /\ conclude = (sample \in {"patching", "hello"})
  /\ pc = "open"

-----------------------------------------------------------------------------
(* Replay. *)

Serving == IF sample = "pinned" THEN started ELSE current

HasMarker(s, m) == \E n \in DOMAIN s : s[n] = m

Asked == Code(history = <<>> \/ HasMarker(history, "patch"))[sample][Serving]

\* What counts when the two are compared: a marker is only ever the first.
Deprecates == HasMarker(Asked, "deprecate")
Visible(s) ==
  IF s # <<>> /\ (s[1] = "deprecate" \/ (Deprecates /\ s[1] = "patch")) THEN Tail(s) ELSE s

Replays == /\ Name(Serving) = Name(started)
           /\ Len(Visible(history)) <= Len(Visible(Asked))
           /\ \A n \in 1 .. Len(Visible(history)) : Visible(history)[n] = Visible(Asked)[n]

\* The code asks for more than the history holds.
AsksForMore == Len(Visible(history)) < Len(Visible(Asked))

-----------------------------------------------------------------------------
(* The client, the operator and the workers. *)

SendSignal ==
  /\ sample \in {"auto", "pinned"} /\ pc = "open" /\ ~conclude
  /\ \/ sample = "auto" /\ signals < MaxSignals
        /\ signals' = signals + 1 /\ UNCHANGED conclude
     \/ conclude' = TRUE /\ UNCHANGED signals
  /\ UNCHANGED <<sample, started, current, history, pc>>

\* Stages of patching follow each other when the workflows of the stage before
\* the last have ended.
Deploy ==
  /\ current < LastVersion[sample]
  /\ sample \in {"patching", "hello"} /\ pc = "open" => started = current
  /\ current' = current + 1
  /\ UNCHANGED <<sample, started, history, signals, conclude, pc>>

\* A task asks for the next activity or timer, with the marker before it.
WorkflowTask ==
  /\ pc = "open" /\ Replays /\ AsksForMore
  /\ history' = IF history # <<>>
                THEN Append(history, Visible(Asked)[Len(Visible(history)) + 1])
                ELSE IF Asked[1] \in {"patch", "deprecate"} THEN <<Asked[1], Asked[2]>>
                ELSE <<Asked[1]>>
  /\ UNCHANGED <<sample, started, current, signals, conclude, pc>>

Complete ==
  /\ pc = "open" /\ Replays /\ ~AsksForMore /\ conclude
  /\ pc' = "completed"
  /\ UNCHANGED <<sample, started, current, history, signals, conclude>>

Next == SendSignal \/ Deploy \/ WorkflowTask \/ Complete

\* Workers work; the client need not conclude, nor the operator deploy.
Fairness == WF_vars(WorkflowTask \/ Complete)

Spec == Init /\ [][Next]_vars /\ Fairness

-----------------------------------------------------------------------------
(* Properties *)

\* Every variable has its type.
TypeOK ==
  /\ sample \in DOMAIN LastVersion
  /\ started \in 1 .. LastVersion[sample] /\ current \in started .. LastVersion[sample]
  /\ history \in Seq(Commands)
  /\ signals \in 0 .. MaxSignals /\ conclude \in BOOLEAN
  /\ pc \in {"open", "completed"}

\* A history, of an open or of a closed execution, replays on each version that
\* may be asked to: on the next stage of patching (patching/README.md, stages 3
\* and 4), on every later version of the auto-upgrading workflow, and on its own
\* of a pinned one.  The exception is the misspelt name in hello_patch.
EveryVersionReplays ==
  /\ sample \in {"auto", "pinned"} => Replays
  /\ sample \in {"patching", "hello"} /\ current <= started + 1
       => Replays \/ Name(current) # Name(started)

\* An execution that is to conclude does, unless no worker knows its name.
RunConcludes == conclude ~> pc = "completed" \/ Name(Serving) # Name(started)
=============================================================================

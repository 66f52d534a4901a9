--------------------------- MODULE FileProcessing ---------------------------
(***************************************************************************)
(* worker_specific_task_queues: workflows that download a file, work on it *)
(* and delete it, in activities on one host's task queue.                  *)
(*                                                                         *)
(* An attempt that exceeds start_to_close_timeout is not stopped: it goes  *)
(* on beside its retry.  The workers seed random with a constant, so all   *)
(* of them listen on the same queue and use the same directory.            *)
(***************************************************************************)
CONSTANT Workflows

Retried == {"download", "clean up"}

VARIABLES
  pc,            \* the activity each run awaits
  files,         \* the files on disk, by the workflow whose uuid they carry
  late,          \* activities of which an attempt goes on after its timeout
  slow,          \* activities of which an attempt has timed out (bound: one each)
  checksum       \* what the run will return

vars == <<pc, files, late, slow, checksum>>

Init ==
  /\ pc = [w \in Workflows |-> "select"]
  /\ files = {}
  /\ late = [w \in Workflows |-> {}] /\ slow = [w \in Workflows |-> {}]
  /\ checksum = [w \in Workflows |-> "none"]

Goto(w, p) == pc' = [pc EXCEPT ![w] = p]

AfterWork == "clean up"

-----------------------------------------------------------------------------
\* get_available_task_queue returns the queue.
Select(w) ==
  /\ pc[w] = "select" /\ Goto(w, "download")
  /\ UNCHANGED <<files, late, slow, checksum>>

Download(w) ==
  /\ pc[w] = "download"
  /\ files' = files \cup {w} /\ Goto(w, "work")
  /\ UNCHANGED <<late, slow, checksum>>

Work(w) ==
  /\ pc[w] = "work" /\ w \in files
  /\ checksum' = [checksum EXCEPT ![w] = "computed"] /\ Goto(w, "clean up")
  /\ UNCHANGED <<files, late, slow>>

\* The only attempt finds no file, or times out: the finally block is run, and
\* the run fails after it.
WorkFails(w) ==
  /\ pc[w] = "work"
  /\ checksum' = [checksum EXCEPT ![w] = "failed"] /\ Goto(w, AfterWork)
  /\ UNCHANGED <<files, late, slow>>

\* unlink raises when there is no file, and the activity is retried for ever.
CleanUp(w) ==
  /\ pc[w] = "clean up" /\ w \in files
  /\ files' = files \ {w} /\ Goto(w, "closed")
  /\ UNCHANGED <<late, slow, checksum>>

-----------------------------------------------------------------------------
\* The retry begins while the first attempt goes on ...
TimeOut(w) ==
  /\ pc[w] \in Retried \ slow[w]
  /\ late' = [late EXCEPT ![w] = @ \cup {pc[w]}]
  /\ slow' = [slow EXCEPT ![w] = @ \cup {pc[w]}]
  /\ UNCHANGED <<pc, files, checksum>>

\* ... and writes, or deletes, whenever it gets there.
FinishLate(w) ==
  /\ \/ /\ "download" \in late[w]
        /\ late' = [late EXCEPT ![w] = @ \ {"download"}]
        /\ files' = files \cup {w}
     \/ /\ "clean up" \in late[w]
        /\ late' = [late EXCEPT ![w] = @ \ {"clean up"}]
        /\ files' = files \ {w}
  /\ UNCHANGED <<pc, slow, checksum>>

-----------------------------------------------------------------------------
RunStep(w) == Select(w) \/ Download(w) \/ Work(w) \/ WorkFails(w) \/ CleanUp(w)

Next == \E w \in Workflows : RunStep(w) \/ TimeOut(w) \/ FinishLate(w)

Fairness == \A w \in Workflows : WF_vars(RunStep(w))

Spec == Init /\ [][Next]_vars /\ Fairness

-----------------------------------------------------------------------------
(* Properties *)

\* Every variable has its type, and only retried activities go on late.
TypeOK ==
  /\ pc \in [Workflows -> {"select", "download", "work", "clean up", "closed"}]
  /\ files \subseteq Workflows
  /\ late \in [Workflows -> SUBSET Retried] /\ slow \in [Workflows -> SUBSET Retried]
  /\ checksum \in [Workflows -> {"none", "computed", "failed"}]
  /\ \A w \in Workflows : late[w] \subseteq slow[w]

\* The file is there while its run works on it and is gone when the run has
\* closed, also if the work failed, unless an attempt to download it came after
\* the run had given it up.
FileLivesWithItsRun ==
  \A w \in Workflows :
    /\ pc[w] = "work" => w \in files
    /\ pc[w] = "closed" /\ w \in files => "download" \in slow[w]

\* A run closes, unless an attempt to clean up exceeded its timeout: it may
\* delete the file its retry then looks for in vain.
RunCloses ==
  \A w \in Workflows : <>(pc[w] = "closed" \/ "clean up" \in slow[w])
=============================================================================

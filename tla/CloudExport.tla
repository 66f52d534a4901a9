----------------------------- MODULE CloudExport -----------------------------
(***************************************************************************)
(* cloud_export_to_parquet: every hour a workflow converts the histories   *)
(* that were exported in an earlier hour, file by file.                    *)
(*                                                                         *)
(* External: the schedule starts no run while one is open; the first task  *)
(* of a run may be handled late; an attempt whose worker dies, or whose    *)
(* answer is lost, is made again, up to maximum_attempts.  The files of an *)
(* hour are complete num_delay_hour later; there may be none.  S3 lists    *)
(* them in order, a page at most for each call of list_objects_v2.         *)
(***************************************************************************)
EXTENDS Integers, Sequences, FiniteSets

CONSTANTS
  PageSize,              \* the most keys list_objects_v2 answers
  num_delay_hour, maximum_attempts,
  MaxFiles, MaxHour, MaxLost       \* bounds

VARIABLES
  exported,              \* how many files each hour has
  unreadable,            \* the <<hour, file>> whose conversion raises, one at most
  clock, fired,          \* the hour, and the last one the schedule acted on
  pc, hour,              \* of the run: the await it is in, and the hour it reads
  readers,               \* how many runs have read each hour
  key, attempt,          \* the file it is at, and its attempt
  landed,                \* objects put for each <<hour, file>>, names are unique
  ended,                 \* the hours of the runs that ended, and how
  lost

vars == <<exported, unreadable, clock, fired, pc, hour, readers, key, attempt, landed,
          ended, lost>>
Hours == 0..(MaxHour - num_delay_hour)      \* those that are read
Files == Hours \X (1..MaxFiles)

\* No continuation token is read: what does not fit in the page is left out.
Listed(h) == IF exported[h] < PageSize THEN exported[h] ELSE PageSize

Init ==
  /\ exported \in [Hours -> 0..MaxFiles]
  /\ unreadable \in {{}} \cup {{f} : f \in Hours \X {1}}
  /\ clock = num_delay_hour /\ fired = clock - 1 /\ pc = "none" /\ hour = 0
  /\ readers = [h \in Hours |-> 0]
  /\ key = 0 /\ attempt = 1 /\ landed = [f \in Files |-> 0] /\ ended = {} /\ lost = 0

Tick == /\ clock < MaxHour /\ fired = clock /\ clock' = clock + 1
        /\ UNCHANGED <<exported, unreadable, fired, pc, hour, readers, key, attempt, landed,
                       ended, lost>>

\* create_schedule; an open run makes the schedule skip the hour.
create_schedule ==
  /\ fired < clock /\ fired' = clock
  /\ pc' = IF pc = "none" THEN "start" ELSE pc
  /\ UNCHANGED <<exported, unreadable, clock, hour, readers, key, attempt, landed, ended,
                 lost>>

\* workflow.now() is the time of the first task, not that of the schedule.
run ==
  /\ pc = "start" /\ pc' = "get_object_keys" /\ hour' = clock - num_delay_hour
  /\ readers' = [readers EXCEPT ![hour'] = @ + 1] /\ attempt' = 1
  /\ UNCHANGED <<exported, unreadable, clock, fired, key, landed, ended, lost>>

EndRun(how) == /\ pc' = "none" /\ key' = 0 /\ attempt' = 1
            /\ ended' = ended \cup {[hour |-> hour, how |-> how]}

\* The next file, or the end of the loop.
NextKey ==
  IF key = Listed(hour) THEN EndRun("returned")
  ELSE pc' = "data_trans_and_land" /\ key' = key + 1 /\ attempt' = 1 /\ UNCHANGED ended

Fails ==
  IF attempt = maximum_attempts THEN EndRun("failed")
  ELSE attempt' = attempt + 1 /\ UNCHANGED <<pc, key, ended>>

get_object_keys ==
  /\ pc = "get_object_keys"
  /\ \/ exported[hour] > 0 /\ NextKey
     \/ exported[hour] = 0 /\ Fails                    \* FileNotFoundError
  /\ UNCHANGED <<exported, unreadable, clock, fired, hour, readers, landed, lost>>

\* convert_proto_to_parquet_flatten raises, save_to_sink is not reached.
ConversionFails ==
  /\ pc = "data_trans_and_land" /\ <<hour, key>> \in unreadable /\ Fails
  /\ UNCHANGED <<exported, unreadable, clock, fired, hour, readers, landed, lost>>

save_to_sink ==
  /\ pc = "data_trans_and_land" /\ <<hour, key>> \notin unreadable
  /\ landed' = [landed EXCEPT ![<<hour, key>>] = @ + 1]
  /\ \/ NextKey /\ UNCHANGED lost
     \/ lost < MaxLost /\ lost' = lost + 1 /\ Fails     \* put, but not told
  /\ UNCHANGED <<exported, unreadable, clock, fired, hour, readers>>

\* S3 cannot be read or written, or the worker dies.
AttemptFails ==
  /\ pc \in {"get_object_keys", "data_trans_and_land"} /\ lost < MaxLost
  /\ lost' = lost + 1 /\ Fails
  /\ UNCHANGED <<exported, unreadable, clock, fired, hour, readers, landed>>

RunStep == run \/ get_object_keys \/ ConversionFails \/ save_to_sink
Next == Tick \/ create_schedule \/ RunStep \/ AttemptFails

Fairness == WF_vars(Tick) /\ WF_vars(create_schedule) /\ WF_vars(RunStep)
Spec == Init /\ [][Next]_vars /\ Fairness

-----------------------------------------------------------------------------
TypeOK ==
  /\ exported \in [Hours -> 0..MaxFiles] /\ unreadable \subseteq Hours \X {1}
  /\ clock \in 0..MaxHour /\ fired \in -1..clock /\ hour \in Hours
  /\ pc \in {"none", "start", "get_object_keys", "data_trans_and_land"}
  /\ key \in 0..Listed(hour) /\ attempt \in 1..maximum_attempts
  /\ landed \in [Files -> 0..(MaxLost + MaxHour + 1)] /\ lost \in 0..MaxLost

\* A run that returned has landed every file that the first page of its hour
\* lists, one at least; nothing is landed of an hour whose files are not complete,
\* or that is not in the page.  Each run that read the hour lands a file once, and
\* once more only for an attempt that was lost.  (A run whose first task is late
\* reads the next hour: then one is left out and another read twice.)  A run fails
\* only on an hour without files, on a file that cannot be converted, or on lost
\* attempts.
EveryFileLands ==
  /\ \A e \in ended : e.how = "returned" =>
       Listed(e.hour) > 0 /\ \A k \in 1..Listed(e.hour) : landed[<<e.hour, k>>] > 0
  /\ \A f \in Files :
       /\ landed[f] > 0 =>
            f[1] + num_delay_hour <= clock /\ f \notin unreadable /\ f[2] <= Listed(f[1])
       /\ landed[f] <= readers[f[1]] + lost
  /\ \A e \in ended : e.how = "failed" =>
       \/ lost > 0 \/ exported[e.hour] = 0
       \/ \E k \in 1..Listed(e.hour) : <<e.hour, k>> \in unreadable

\* Each run ends.
RunEnds == pc = "start" ~> pc = "none"
=============================================================================

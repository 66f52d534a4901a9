---------------------------- MODULE KnowledgeBase ----------------------------
(***************************************************************************)
(* openai_agents/tools/setup_knowledge_base.py: a script that writes its   *)
(* documents to temporary files, uploads them, has a vector store made of  *)
(* them, and writes the id of the store into the sample that searches it.  *)
(*                                                                         *)
(* External: a file cannot be written or removed, a call to the service    *)
(* fails.  Each may happen at any time.                                    *)
(***************************************************************************)
EXTENDS Integers, Sequences, Functions

CONSTANTS Documents, NoStore    \* the names in KNOWLEDGE_BASE, as a sequence

VARIABLES
  pc, i,                 \* the statement main is in, and the file it is at
  disk,                  \* temporary files there are
  temp_files, file_ids,
  stores,                \* what the vector stores made contain
  workflow_file,         \* the store that run_file_search_workflow.py names
  trouble                \* files that could not be written, uploaded or removed

vars == <<pc, i, disk, temp_files, file_ids, stores, workflow_file, trouble>>

Init == /\ pc = "write" /\ i = 1 /\ disk = {} /\ temp_files = <<>> /\ file_ids = <<>>
        /\ stores = <<>> /\ workflow_file = NoStore
        /\ trouble = [write |-> {}, upload |-> {}, unlink |-> {}]

Troubled(where, name) == trouble' = [trouble EXCEPT ![where] = @ \cup {name}]

GoTo(p) == pc' = p /\ i' = 1

\* delete=False: the file is there once it is named, and listed once written.
temporary_files ==
  /\ pc = "write"
  /\ IF i > Len(Documents)
       THEN GoTo("upload") /\ UNCHANGED <<disk, temp_files, trouble>>
       ELSE /\ disk' = disk \cup {Documents[i]}
            /\ \/ temp_files' = Append(temp_files, Documents[i]) /\ i' = i + 1
                  /\ UNCHANGED <<pc, trouble>>
               \/ GoTo("finally") /\ Troubled("write", Documents[i])
                  /\ UNCHANGED temp_files
  /\ UNCHANGED <<file_ids, stores, workflow_file>>

\* A file that fails is left out.  With none uploaded main returns.
upload_files_to_openai ==
  /\ pc = "upload"
  /\ IF i > Len(temp_files)
       THEN /\ GoTo(IF file_ids = <<>> THEN "finally" ELSE "store")
            /\ UNCHANGED <<file_ids, trouble>>
       ELSE /\ i' = i + 1 /\ UNCHANGED pc
            /\ \/ file_ids' = Append(file_ids, temp_files[i]) /\ UNCHANGED trouble
               \/ Troubled("upload", temp_files[i]) /\ UNCHANGED file_ids
  /\ UNCHANGED <<disk, temp_files, stores, workflow_file>>

\* The store is made with the assistant; the call may fail before or after,
\* or answer without the id.
create_vector_store_with_assistant ==
  /\ pc = "store"
  /\ \/ stores' = Append(stores, file_ids) /\ \/ GoTo("update")
                                              \/ GoTo("finally")
     \/ GoTo("finally") /\ UNCHANGED stores
  /\ UNCHANGED <<disk, temp_files, file_ids, workflow_file, trouble>>

\* The file may be missing, match no pattern, or refuse to be written.
update_workflow_files ==
  /\ pc = "update" /\ GoTo("finally")
  /\ \/ workflow_file' = Len(stores)
     \/ UNCHANGED workflow_file
  /\ UNCHANGED <<disk, temp_files, file_ids, stores, trouble>>

Unlink ==
  /\ pc = "finally"
  /\ IF i > Len(temp_files) THEN GoTo("ended") /\ UNCHANGED <<disk, trouble>>
     ELSE /\ i' = i + 1 /\ UNCHANGED pc
          /\ \/ disk' = disk \ {temp_files[i]} /\ UNCHANGED trouble
             \/ Troubled("unlink", temp_files[i]) /\ UNCHANGED disk
  /\ UNCHANGED <<temp_files, file_ids, stores, workflow_file>>

Next == \/ temporary_files \/ upload_files_to_openai \/ create_vector_store_with_assistant
        \/ update_workflow_files \/ Unlink

Fairness == WF_vars(Next)
Spec == Init /\ [][Next]_vars /\ Fairness

-----------------------------------------------------------------------------
Names == Range(Documents)

TypeOK ==
  /\ pc \in {"write", "upload", "store", "update", "finally", "ended"}
  /\ i \in 1..(Len(Documents) + 1) /\ disk \subseteq Names
  /\ Range(temp_files) \subseteq Names /\ Range(file_ids) \subseteq Names
  /\ workflow_file \in {NoStore} \cup DOMAIN stores

\* However main ends, what it leaves on the disk is a file it could not remove
\* or the one whose writing failed; and the sample names a store only when that
\* has every document that could be uploaded, and at least one.
FilesAreCleanedUp ==
  /\ pc = "ended" => disk = trouble.unlink \cup trouble.write
  /\ workflow_file # NoStore =>
       /\ Range(stores[workflow_file]) = Names \ trouble.upload
       /\ stores[workflow_file] # <<>>
  /\ Len(stores) <= 1

ScriptEnds == <>(pc = "ended")
=============================================================================

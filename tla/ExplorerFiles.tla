---------------------------- MODULE ExplorerFiles ----------------------------
(***************************************************************************)
(* The session file of the combat explorer beside the session it is taken  *)
(* from: a save reads the jobs and the tree in two uses of the session's   *)
(* lock, the file is replaced by renaming a temporary one, and a new       *)
(* server loads it after a crash.                                          *)
(***************************************************************************)
EXTENDS ExplorerSessions

CONSTANT MaxCrashes   \* bound on server restarts

ASSUME CrashAssumption == MaxCrashes \in Nat

VARIABLES
  up,              \* the server runs and holds the session
  saving,          \* a save between its two uses of the lock and the rename
  file,            \* what was saved since the session was made or loaded, or Nil
  crashes

disk == <<up, saving, file, crashes>>
allVars == <<vars, disk>>

\* deleted is auxiliary: a node was deleted between the two uses of the lock.
NotSaving == [place |-> "idle", jobs |-> <<>>, tree |-> {}, deleted |-> FALSE]

Interrupted(job) ==
  IF job.status = "running"
  THEN [job EXCEPT !.status = "interrupted", !.cancel = FALSE] ELSE job

\* jobs_for_save, under the lock.
SaveJobs ==
  /\ up /\ saving.place = "idle"
  /\ file = Nil                  \* a bound: the instances load what they saved
  /\ saving' = [NotSaving EXCEPT
                  !.place = "jobs",
                  !.jobs = [j \in Listed |-> Interrupted(jobs[j])]]
  /\ UNCHANGED <<vars, up, file, crashes>>

\* session_document, under the lock.
SaveTree ==
  /\ saving.place = "jobs"
  /\ saving' = [saving EXCEPT !.place = "tree", !.tree = tree]
  /\ UNCHANGED <<vars, up, file, crashes>>

\* atomic_write_json: the file is replaced at once, or not at all.
Rename ==
  /\ saving.place = "tree"
  /\ file' \in {saving, file}
  /\ saving' = NotSaving
  /\ UNCHANGED <<vars, up, crashes>>

\* What validate_document demands of the jobs.
Loadable(document) ==
  \A j \in DOMAIN document.jobs :
    {document.jobs[j].source, document.jobs[j].leaf} \subseteq document.tree

\* Everything but the file is lost with the server.
Crash ==
  /\ up /\ crashes < MaxCrashes
  /\ crashes' = crashes + 1
  /\ up' = FALSE
  /\ tree' = {} /\ checkpoint' = Nil /\ writer' = Nil
  /\ jobs' = [j \in Jobs |-> Nil]
  /\ idempotency' = [r \in Requests |-> Nil]
  /\ effects' = [r \in Requests |-> {}]
  /\ worker' = [j \in Jobs |-> Idle]
  /\ loading' = {} /\ saving' = NotSaving
  /\ UNCHANGED <<file, deletes>>

\* A new server loads the file: reconstruct and job_from_document.
Load ==
  /\ ~up /\ file # Nil /\ Loadable(file)
  /\ up' = TRUE
  /\ tree' = file.tree
  /\ checkpoint' \in Checkpoints \union {Nil}
  /\ jobs' = [j \in Jobs |->
                IF j \in DOMAIN file.jobs THEN file.jobs[j] ELSE Nil]
  /\ file' = Nil
  /\ UNCHANGED <<writer, requests, worker, loading, deletes, saving, crashes>>

\* What the session does while the server runs.
SessionStep ==
  /\ up /\ Next
  /\ saving' = [saving EXCEPT
       !.deleted = @ \/ (saving.place = "jobs" /\ ~(tree \subseteq tree'))]
  /\ UNCHANGED <<up, file, crashes>>

FilesInit == Init /\ up = TRUE /\ saving = NotSaving /\ file = Nil /\ crashes = 0

FilesNext == SessionStep \/ SaveJobs \/ SaveTree \/ Rename \/ Crash \/ Load

FilesSpec == FilesInit /\ [][FilesNext]_allVars

------------------------------------------------------------------------------

\* A session file can be loaded again, whatever ran or crashed while it was
\* written; only a node deleted between the two halves of the save spoils it.
LoadsUnlessDeleted ==
  file # Nil /\ ~file.deleted => Loadable(file)

\* What delete_node says of the files: they can be loaded whatever is deleted.
SavedFileLoads == file # Nil => Loadable(file)
==============================================================================

-------------------------- MODULE ExplorerSessions --------------------------
(***************************************************************************)
(* One session of the combat explorer (rl/combat_explorer): a tree of      *)
(* branches under a lock, requests that may be retried under a request id, *)
(* continuation jobs that a worker thread advances between two uses of the *)
(* lock, and the checkpoint that scores their choices.                     *)
(*                                                                         *)
(* A handler that holds the lock throughout is one action; one that lets   *)
(* it go is several.  A request that is refused, or answered from the      *)
(* idempotency table, changes nothing.                                     *)
(***************************************************************************)
EXTENDS Naturals, FiniteSets, SequencesExt

CONSTANTS
  Offered,         \* Offered[d]: the actions of the d-th decision of a combat;
                   \* a node behind the last one has an outcome
  Checkpoints,     \* model checkpoints that can be loaded
  Jobs,            \* job ids
  Requests,        \* request ids
  MaxDecisions,    \* max_decisions of every job
  MaxDeletes,      \* bound on deletions
  Nil

ASSUME ExplorerAssumption ==
  /\ Offered \in Seq(SUBSET Nat)
  /\ {MaxDecisions, MaxDeletes} \subseteq Nat
  /\ Nil \notin Checkpoints \union Jobs \union Requests

VARIABLES
  tree,            \* session.nodes
  checkpoint,      \* session.model
  writer,          \* session.writer_job_id
  jobs,            \* jobs[j]: its [status, source, leaf, generated, cancel], or Nil
  idempotency,     \* idempotency[r]: the node or job answered to r, or Nil
  worker,          \* worker[j]: the thread that runs job j
  loading,         \* checkpoints being loaded, the session unlocked
  effects,         \* auxiliary: what each request id made that still exists
  deletes

requests == <<idempotency, effects>>
vars == <<tree, checkpoint, writer, jobs, requests, worker, loading, deletes>>

\* A node is its place in the tree and, because a node made after a deletion
\* has another id than the one deleted there, the deletions before it.
Actions == UNION {Offered[d] : d \in DOMAIN Offered}
Nodes == [path : UNION {[1..n -> Actions] : n \in 0..Len(Offered)},
          born : 0..MaxDeletes]
Root == [path |-> <<>>, born |-> 0]
Settled == {"completed", "cancelled", "failed", "interrupted"}
Idle == [place |-> "idle", at |-> Root, choice |-> Nil]

\* ContinueJob
JobRecords ==
  [status : Settled \union {"running"}, source : Nodes, leaf : Nodes,
   generated : Nat, cancel : BOOLEAN]

ASSUME NilAssumption == Nil \notin Nodes \union JobRecords

Over(n) == Len(n.path) = Len(Offered)
\* action_indices of the node's decision
Legal(n) == Offered[Len(n.path) + 1]
Below(n, m) == Len(n.path) <= Len(m.path)
                 /\ SubSeq(m.path, 1, Len(n.path)) = n.path
Listed == {j \in Jobs : jobs[j] # Nil}
Running(j) == jobs[j] # Nil /\ jobs[j].status = "running"

\* Mutant: an action that was taken before is taken anew.
ChildAnew(n, a) == [path |-> Append(n.path, a), born |-> deletes]

\* _equivalent_child: the child an action already has is used again.
Child(n, a) ==
  LET path == Append(n.path, a)
  IN IF \E m \in tree : m.path = path
     THEN CHOOSE m \in tree : m.path = path
     ELSE [path |-> path, born |-> deletes]

------------------------------------------------------------------------------
(* Requests under the lock *)

\* Mutant: a session is written to while a job writes to it.
Writable == writer = Nil

\* Not answered before under this request id; without one every call is new.
Unanswered(r) == r # Nil => idempotency[r] = Nil

Remember(r, result) ==
  IF r = Nil THEN UNCHANGED requests
  ELSE /\ idempotency' = [idempotency EXCEPT ![r] = result]
       /\ effects' = [effects EXCEPT ![r] = @ \union ({result} \ tree)]

\* act, and model_step, which scores and samples under the lock.
Move(r, n, a) ==
  /\ Unanswered(r) /\ Writable
  /\ n \in tree /\ ~Over(n) /\ a \in Legal(n)
  /\ tree' = tree \union {Child(n, a)}
  /\ Remember(r, Child(n, a))
  /\ UNCHANGED <<checkpoint, writer, jobs, worker, loading, deletes>>

\* start_continue
Continue(r, n, j) ==
  /\ Unanswered(r) /\ Writable
  /\ n \in tree /\ ~Over(n)
  /\ checkpoint # Nil
  /\ jobs[j] = Nil /\ worker[j] = Idle
  /\ jobs' = [jobs EXCEPT ![j] =
                [status |-> "running", source |-> n, leaf |-> n,
                 generated |-> 0, cancel |-> FALSE]]
  /\ writer' = j
  /\ worker' = [worker EXCEPT ![j] = [place |-> "loop", at |-> n, choice |-> Nil]]
  /\ Remember(r, j)
  /\ UNCHANGED <<tree, checkpoint, loading, deletes>>

Cancel(j) ==
  /\ Running(j)
  /\ jobs' = [jobs EXCEPT ![j].cancel = TRUE]
  /\ UNCHANGED <<tree, checkpoint, writer, requests, worker, loading,
                 deletes>>

\* Mutant: what a request made is deleted, its answer is kept.
ForgottenNothing(removed, stale) == {}
Forgotten(removed, stale) ==
  {r \in Requests : idempotency[r] \in removed \union stale}

\* Mutant: only the jobs that started in the branch go with it.
StaleBySource(removed) == {j \in Listed : jobs[j].source \in removed}

\* Jobs that started or ended in what is removed go with it.
Stale(removed) ==
  {j \in Listed : jobs[j].source \in removed \/ jobs[j].leaf \in removed}

\* delete_node
Delete(n) ==
  /\ Writable
  /\ n \in tree \ {Root}
  /\ deletes < MaxDeletes
  /\ LET removed == {m \in tree : Below(n, m)}
         stale == Stale(removed)
     IN /\ tree' = tree \ removed
        /\ jobs' = [j \in Jobs |-> IF j \in stale THEN Nil ELSE jobs[j]]
        /\ idempotency' = [r \in Requests |->
                             IF r \in Forgotten(removed, stale) THEN Nil
                             ELSE idempotency[r]]
        /\ effects' = [r \in Requests |-> effects[r] \ (removed \union stale)]
  /\ deletes' = deletes + 1
  /\ UNCHANGED <<checkpoint, writer, worker, loading>>

------------------------------------------------------------------------------
(* The checkpoint: tested, loaded without the lock, tested again *)

BeginLoad(c) ==
  /\ Writable
  /\ loading' = loading \union {c}
  /\ UNCHANGED <<tree, checkpoint, writer, jobs, requests, worker, deletes>>

\* Mutant: the session is not tested again once the checkpoint is loaded.
InstalledUntested(c) == c
Installed(c) == IF writer = Nil THEN c ELSE checkpoint

EndLoad(c) ==
  /\ c \in loading
  /\ loading' = loading \ {c}
  /\ checkpoint' = Installed(c)
  /\ UNCHANGED <<tree, writer, jobs, requests, worker, deletes>>

------------------------------------------------------------------------------
(* _run_continue *)

\* Mutant: a thread that leaves frees the session whoever writes to it.
ReleasedByAny(j) == Nil
\* Mutant: a thread does not take the mark off the session.
ReleasedNever(j) == writer
Released(j) == IF writer = j THEN Nil ELSE writer

\* _finish_job and _fail_job; nobody looks at the cancellation any more.
Settle(j, status) ==
  /\ writer' = Released(j)
  /\ jobs' = [jobs EXCEPT ![j].status = status, ![j].leaf = worker[j].at,
                          ![j].cancel = FALSE]
  /\ worker' = [worker EXCEPT ![j].place = "leaving"]
  /\ UNCHANGED tree

GoTo(j, place) ==
  worker' = [worker EXCEPT ![j].place = place] /\ UNCHANGED <<tree, writer>>

AtLimit(j) == jobs[j].generated >= MaxDecisions

Loop(j) ==
  /\ worker[j].place = "loop"
  /\ IF jobs[j].cancel THEN Settle(j, "cancelled")
     ELSE IF Over(worker[j].at) \/ AtLimit(j) THEN Settle(j, "completed")
     ELSE GoTo(j, "score") /\ UNCHANGED jobs

\* The policy scores the node without the lock, or fails.
Score(j) ==
  /\ worker[j].place = "score"
  /\ \/ Settle(j, "failed")
     \/ /\ \E a \in Legal(worker[j].at) :
             worker' = [worker EXCEPT ![j].place = "apply", ![j].choice = a]
        /\ UNCHANGED <<tree, writer, jobs>>

\* The node is looked up again; the game may refuse the action.
Apply(j) ==
  /\ worker[j].place = "apply"
  /\ \/ Settle(j, "failed")
     \/ /\ worker[j].at \in tree
        /\ LET child == Child(worker[j].at, worker[j].choice)
           IN /\ tree' = tree \union {child}
              /\ worker' = [worker EXCEPT ![j] =
                   [place |-> "count", at |-> child, choice |-> Nil]]
        /\ UNCHANGED <<writer, jobs>>

\* The job's record is written without the lock.
Count(j) ==
  /\ worker[j].place = "count"
  /\ jobs' = [jobs EXCEPT ![j].generated = @ + 1]
  /\ GoTo(j, "leaf")

MoveLeaf(j) ==
  /\ worker[j].place = "leaf"
  /\ jobs' = [jobs EXCEPT ![j].leaf = worker[j].at]
  /\ GoTo(j, "loop")

\* The finally clause; another job may have started meanwhile.
Leave(j) ==
  /\ worker[j].place = "leaving"
  /\ writer' = Released(j)
  /\ worker' = [worker EXCEPT ![j] = Idle]
  /\ UNCHANGED <<tree, jobs>>

Work(j) ==
  /\ Loop(j) \/ Score(j) \/ Apply(j) \/ Count(j) \/ MoveLeaf(j) \/ Leave(j)
  /\ UNCHANGED <<checkpoint, requests, loading, deletes>>

------------------------------------------------------------------------------

Init ==
  /\ tree = {Root}
  /\ checkpoint \in Checkpoints \union {Nil}
  /\ writer = Nil
  /\ jobs = [j \in Jobs |-> Nil]
  /\ idempotency = [r \in Requests |-> Nil]
  /\ effects = [r \in Requests |-> {}]
  /\ worker = [j \in Jobs |-> Idle]
  /\ loading = {}
  /\ deletes = 0

Next ==
  \/ \E r \in Requests \union {Nil}, n \in tree :
       \/ \E a \in Actions : Move(r, n, a)
       \/ \E j \in Jobs : Continue(r, n, j)
  \/ \E n \in tree : Delete(n)
  \/ \E c \in Checkpoints : BeginLoad(c) \/ EndLoad(c)
  \/ \E j \in Jobs : Cancel(j) \/ Work(j)

\* The executor runs every job it was given; nobody has to do anything else.
Spec == Init /\ [][Next]_vars /\ \A j \in Jobs : WF_vars(Work(j))

------------------------------------------------------------------------------

\* Every branch hangs on the root, and an action taken twice from one node, by
\* whatever users and jobs, still leads to one node.
TreeIsWhole ==
  \A n \in tree :
    /\ n # Root => \E m \in tree : m.path = Front(n.path)
    /\ \A m \in tree : m.path = n.path => m = n

\* A session is marked busy exactly while its job runs, whatever threads of
\* earlier jobs are still on their way out, so a settled job never leaves the
\* session refusing every request and never frees it for two writers.
BusyWhileRunning == \A j \in Jobs : Running(j) <=> writer = j

\* The checkpoint and the branches a job builds on stay as it found them: a
\* request that arrives while it runs, or began before it, changes neither.
JobHasSessionToItself ==
  [][\A j \in Jobs :
       writer = j /\ writer' = j =>
         /\ checkpoint' = checkpoint
         /\ \A n \in tree : n \in tree'
         /\ \A n \in tree' \ tree : n = worker'[j].at]_vars

\* The job a session lists leads from a node of the tree to a node of the tree
\* below it, and once it has settled has counted the decisions between them.
JobsPointIntoTree ==
  \A j \in Listed :
    LET job == jobs[j]
        distance == Len(job.leaf.path) - Len(job.source.path)
    IN /\ {job.source, job.leaf} \subseteq tree
       /\ Below(job.source, job.leaf)
       /\ \/ job.generated = distance
          \/ job.status \in {"running", "interrupted"}
             /\ job.generated = distance + 1

\* A request id that is used again never makes a second branch or starts a
\* second job beside what it made, and is never answered with what is gone.
RetryIsExact ==
  \A r \in Requests :
    /\ Cardinality(effects[r]) <= 1
    /\ idempotency[r] \in tree \union Listed \union {Nil}

\* A continuation job settles and lets go of its session.
JobSettles == \A j \in Jobs : (writer = j) ~> (writer # j)
==============================================================================

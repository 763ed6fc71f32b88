---------------------------- MODULE ExplorerProofs ----------------------------
(***************************************************************************)
(* Proofs about the combat explorer for any combat, any number of jobs,    *)
(* requests and checkpoints, any limits, and any number of crashes.        *)
(***************************************************************************)
EXTENDS ExplorerFiles, SequenceTheorems, FiniteSetTheorems, TLAPS

Paths == {p \in Seq(Actions) : Len(p) <= Len(Offered)}

Places == {"idle", "loop", "score", "apply", "count", "leaf", "leaving"}
Working == {"loop", "score", "apply", "count", "leaf"}
Workers == [place : Places, at : Nodes, choice : Actions \union {Nil}]

Types ==
  /\ tree \in SUBSET Nodes
  /\ checkpoint \in Checkpoints \union {Nil}
  /\ writer \in Jobs \union {Nil}
  /\ jobs \in [Jobs -> JobRecords \union {Nil}]
  /\ idempotency \in [Requests -> Nodes \union Jobs \union {Nil}]
  /\ effects \in [Requests -> SUBSET (Nodes \union Jobs)]
  /\ worker \in [Jobs -> Workers]
  /\ loading \in SUBSET Checkpoints
  /\ deletes \in 0..MaxDeletes

\* What a request made is what it is answered with.
EffectsAnswered ==
  \A r \in Requests :
    /\ effects[r] \subseteq {idempotency[r]} \ {Nil}
    /\ idempotency[r] \in tree \union Listed \union {Nil}

Distance(n, m) == Len(m.path) - Len(n.path)

\* The branch of a job and the decisions it has counted.
Counted(job) ==
  /\ Below(job.source, job.leaf)
  /\ \/ job.generated = Distance(job.source, job.leaf)
     \/ /\ job.status \in {"running", "interrupted"}
        /\ job.generated = Distance(job.source, job.leaf) + 1

Fits(job, t) == {job.source, job.leaf} \subseteq t /\ Counted(job)

\* A job at work stands at its leaf, or one decision below it with the count
\* and the leaf still to be moved.
AtWork(job, w, t) ==
  /\ w.at \in t
  /\ Below(job.source, w.at)
  /\ w.place \in {"loop", "score", "apply"} =>
       /\ w.at = job.leaf
       /\ job.generated = Distance(job.source, w.at)
  /\ w.place \in {"score", "apply"} => ~Over(w.at)
  /\ w.place = "apply" => w.choice \in Legal(w.at)
  /\ w.place \in {"count", "leaf"} => Distance(job.leaf, w.at) = 1
  /\ w.place = "count" => job.generated + 1 = Distance(job.source, w.at)
  /\ w.place = "leaf" => job.generated = Distance(job.source, w.at)

JobsAtWork ==
  \A j \in Jobs :
    /\ Running(j) <=> worker[j].place \in Working
    /\ Running(j) => AtWork(jobs[j], worker[j], tree)

\* The inductive invariant of a session.
IInv ==
  /\ Types
  /\ TreeIsWhole
  /\ EffectsAnswered
  /\ BusyWhileRunning
  /\ JobsPointIntoTree
  /\ JobsAtWork

------------------------------------------------------------------------------
(* Paths *)

\* A node is a path of legal length and the number of deletions before it.
LEMMA NodeType ==
  ASSUME NEW n
  PROVE  n \in Nodes <=> n \in [path : Paths, born : 0..MaxDeletes]
<1>1. ASSUME NEW k \in 0..Len(Offered), NEW p \in [1..k -> Actions]
      PROVE  p \in Paths
  <2>1. Len(Offered) \in Nat
    BY ExplorerAssumption
  <2>2. k \in Nat /\ k <= Len(Offered)
    BY <2>1
  <2>3. p \in Seq(Actions)
    BY <2>2, SeqDef
  <2>4. Len(p) = k
    BY <2>2, <2>3, LenProperties
  <2> QED BY <2>2, <2>3, <2>4 DEF Paths
<1>2. ASSUME NEW p \in Paths
      PROVE  \E k \in 0..Len(Offered) : p \in [1..k -> Actions]
  <2>1. p \in Seq(Actions) /\ Len(p) <= Len(Offered)
    BY DEF Paths
  <2>2. Len(Offered) \in Nat /\ Len(p) \in Nat
    BY <2>1, ExplorerAssumption
  <2>3. p \in [1..Len(p) -> Actions] /\ Len(p) \in 0..Len(Offered)
    BY <2>1, <2>2, LenProperties
  <2> QED BY <2>3
<1>3. UNION {[1..k -> Actions] : k \in 0..Len(Offered)} = Paths
  BY <1>1, <1>2
<1> QED BY <1>3 DEF Nodes

\* What a node's path is.
LEMMA NodePath ==
  ASSUME NEW n \in Nodes
  PROVE  /\ n.path \in Seq(Actions)
         /\ Len(n.path) \in Nat
         /\ Len(n.path) <= Len(Offered)
         /\ n.born \in 0..MaxDeletes
         /\ n = [path |-> n.path, born |-> n.born]
<1>1. n \in [path : Paths, born : 0..MaxDeletes]
  BY NodeType
<1> QED BY <1>1 DEF Paths

\* A path and one action more.
LEMMA LongerPath ==
  ASSUME NEW p \in Seq(Actions), NEW a \in Actions
  PROVE  /\ Append(p, a) \in Seq(Actions)
         /\ Len(Append(p, a)) = Len(p) + 1
         /\ Front(Append(p, a)) = p
<1>1. /\ Append(p, a) \in Seq(Actions)
      /\ Len(Append(p, a)) = Len(p) + 1
  BY AppendProperties
<1>2. SubSeq(Append(p, a), 1, Len(p)) = p
  BY <1>1
<1> QED BY <1>1, <1>2 DEF Front

\* What lies below a node lies below all its branches: prefixes of prefixes.
LEMMA BelowLonger ==
  ASSUME NEW n \in Nodes, NEW p \in Nodes, NEW m \in Nodes,
         m.path # <<>>, p.path = Front(m.path), Below(n, p)
  PROVE  Below(n, m)
<1>1. /\ n.path \in Seq(Actions) /\ Len(n.path) \in Nat
      /\ m.path \in Seq(Actions) /\ Len(m.path) \in Nat
      /\ p.path \in Seq(Actions) /\ Len(p.path) \in Nat
  BY NodePath
<1>2. Len(m.path) # 0
  BY <1>1
<1>3. p.path = SubSeq(m.path, 1, Len(m.path) - 1)
  BY DEF Front
<1>4. /\ Len(p.path) = Len(m.path) - 1
      /\ \A i \in 1..Len(p.path) : p.path[i] = m.path[i]
  BY <1>1, <1>2, <1>3
<1>5. /\ Len(n.path) <= Len(p.path)
      /\ SubSeq(p.path, 1, Len(n.path)) = n.path
  BY DEF Below
<1>6. \A i \in 1..Len(n.path) : n.path[i] = m.path[i]
  BY <1>1, <1>4, <1>5
<1>7. SubSeq(m.path, 1, Len(n.path)) = n.path
  BY <1>1, <1>4, <1>5, <1>6
<1> QED BY <1>1, <1>4, <1>5, <1>7 DEF Below

LEMMA BelowItself ==
  ASSUME NEW n \in Nodes
  PROVE  Below(n, n)
<1>1. n.path \in Seq(Actions)
  BY NodePath
<1> QED BY <1>1, SubSeqFull DEF Below

------------------------------------------------------------------------------
(* The tree *)

\* _equivalent_child: an action leads to one node, one decision further down.
LEMMA ChildType ==
  ASSUME Types, NEW n \in tree, ~Over(n), NEW a \in Legal(n)
  PROVE  /\ Child(n, a) \in Nodes
         /\ Child(n, a).path = Append(n.path, a)
         /\ Len(Child(n, a).path) = Len(n.path) + 1
         /\ Front(Child(n, a).path) = n.path
<1>1. /\ n \in Nodes /\ n.path \in Seq(Actions)
      /\ Len(n.path) \in Nat /\ Len(n.path) <= Len(Offered)
      /\ Len(Offered) \in Nat
  BY NodePath, ExplorerAssumption DEF Types
<1>2. Len(n.path) + 1 <= Len(Offered)
  BY <1>1 DEF Over
<1>3. a \in Actions
  BY <1>1, <1>2, ExplorerAssumption DEF Legal, Actions
<1>4. /\ Append(n.path, a) \in Seq(Actions)
      /\ Len(Append(n.path, a)) = Len(n.path) + 1
      /\ Front(Append(n.path, a)) = n.path
  BY <1>1, <1>3, LongerPath
<1>5. Child(n, a).path = Append(n.path, a)
  BY DEF Child
<1>6. Child(n, a) \in Nodes
  <2>1. CASE \E m \in tree : m.path = Append(n.path, a)
    BY <2>1 DEF Child, Types
  <2>2. CASE ~ \E m \in tree : m.path = Append(n.path, a)
    <3>1. Child(n, a) = [path |-> Append(n.path, a), born |-> deletes]
      BY <2>2 DEF Child
    <3>2. Append(n.path, a) \in Paths
      BY <1>2, <1>4 DEF Paths
    <3> QED BY <3>1, <3>2, NodeType DEF Types
  <2> QED BY <2>1, <2>2
<1> QED BY <1>4, <1>5, <1>6

\* A child is in the tree already or is the only node at its place.
LEMMA TreeGrows ==
  ASSUME Types, TreeIsWhole, NEW n \in tree, ~Over(n), NEW a \in Legal(n),
         tree' = tree \union {Child(n, a)}
  PROVE  TreeIsWhole'
<1> DEFINE c == Child(n, a)
<1>1. /\ c \in Nodes
      /\ c.path = Append(n.path, a)
      /\ Front(c.path) = n.path
  BY ChildType
<1>2. \A m \in tree : m.path = c.path => m = c
  BY <1>1 DEF Child, TreeIsWhole
<1> QED BY <1>1, <1>2 DEF TreeIsWhole

\* What is left when a branch is cut off still hangs on the root.
LEMMA TreeShrinks ==
  ASSUME Types, TreeIsWhole, NEW n \in tree,
         tree' = tree \ {m \in tree : Below(n, m)}
  PROVE  TreeIsWhole'
<1>1. ASSUME NEW m \in tree', m # Root
      PROVE  \E p \in tree' : p.path = Front(m.path)
  <2>1. m \in tree /\ ~Below(n, m)
    OBVIOUS
  <2>2. PICK p \in tree : p.path = Front(m.path)
    BY <1>1, <2>1 DEF TreeIsWhole
  <2>3. n \in Nodes /\ m \in Nodes /\ p \in Nodes
    BY <2>1, <2>2 DEF Types
  <2>4. CASE m.path = <<>>
    <3>1. p.path = m.path
      BY <2>2, <2>4 DEF Front
    <3>2. p = m
      BY <2>1, <2>2, <3>1 DEF TreeIsWhole
    <3> QED BY <2>2, <3>2
  <2>5. CASE m.path # <<>>
    BY <2>1, <2>2, <2>3, <2>5, BelowLonger
  <2> QED BY <2>4, <2>5
<1> QED BY <1>1 DEF TreeIsWhole

------------------------------------------------------------------------------
(* One lemma for each handler *)

\* The job a session lists, in terms of its record.
LEMMA PointsIntoTree ==
  JobsPointIntoTree <=> \A j \in Listed : Fits(jobs[j], tree)
BY DEF JobsPointIntoTree, Fits, Counted, Distance

LEMMA RootIsNode == Root \in Nodes
<1>1. <<>> \in Paths
  BY ExplorerAssumption, EmptySeq DEF Paths
<1> QED BY <1>1, NodeType, ExplorerAssumption DEF Root

LEMMA InitInv == Init => IInv
<1> SUFFICES ASSUME Init PROVE IInv
  OBVIOUS
<1>1. Root \in Nodes
  BY RootIsNode
<1>2. Types
  BY <1>1, ExplorerAssumption DEF Init, Types, Workers, Places, Idle
<1>3. Listed = {}
  BY DEF Init, Listed
<1>4. TreeIsWhole
  BY DEF Init, TreeIsWhole
<1>5. EffectsAnswered
  BY DEF Init, EffectsAnswered
<1>6. BusyWhileRunning
  BY ExplorerAssumption DEF Init, BusyWhileRunning, Running
<1>7. JobsPointIntoTree
  BY <1>3 DEF JobsPointIntoTree
<1>8. JobsAtWork
  BY DEF Init, JobsAtWork, Running, Idle, Working
<1> QED BY <1>2, <1>4, <1>5, <1>6, <1>7, <1>8 DEF IInv

\* What a request leaves of the table and the records when it is answered.
LEMMA RememberAnswer ==
  ASSUME Types, EffectsAnswered,
         NEW r \in Requests \union {Nil}, Unanswered(r),
         NEW result \in Nodes \union Jobs, Remember(r, result),
         tree \union Listed \subseteq (tree \union Listed)',
         result \in (tree \union Listed)'
  PROVE  /\ EffectsAnswered'
         /\ idempotency' \in [Requests -> Nodes \union Jobs \union {Nil}]
         /\ effects' \in [Requests -> SUBSET (Nodes \union Jobs)]
<1>1. CASE r = Nil
  BY <1>1 DEF Remember, requests, EffectsAnswered, Types
<1>2. CASE r # Nil
  <2>1. r \in Requests /\ idempotency[r] = Nil /\ effects[r] = {}
    BY <1>2 DEF Unanswered, EffectsAnswered
  <2>2. /\ idempotency' = [idempotency EXCEPT ![r] = result]
        /\ effects' = [effects EXCEPT ![r] = @ \union ({result} \ tree)]
    BY <1>2 DEF Remember
  <2>3. result # Nil
    BY ExplorerAssumption, NilAssumption
  <2>4. /\ idempotency' \in [Requests -> Nodes \union Jobs \union {Nil}]
        /\ effects' \in [Requests -> SUBSET (Nodes \union Jobs)]
    BY <2>1, <2>2 DEF Types
  <2>5. ASSUME NEW q \in Requests
        PROVE  /\ effects'[q] \subseteq {idempotency'[q]} \ {Nil}
               /\ idempotency'[q] \in (tree \union Listed)' \union {Nil}
    BY <2>1, <2>2, <2>3 DEF Types, EffectsAnswered
  <2> QED BY <2>4, <2>5 DEF EffectsAnswered
<1> QED BY <1>1, <1>2

\* No job runs while the session may be written to.
LEMMA NoJobRuns ==
  ASSUME IInv, Writable
  PROVE  \A j \in Jobs : ~Running(j)
BY ExplorerAssumption DEF IInv, Writable, BusyWhileRunning

LEMMA MoveInv ==
  ASSUME IInv, NEW r \in Requests \union {Nil}, NEW n \in tree, NEW a,
         Move(r, n, a)
  PROVE  IInv'
<1> DEFINE c == Child(n, a)
<1>1. /\ Unanswered(r) /\ Writable /\ ~Over(n) /\ a \in Legal(n)
      /\ tree' = tree \union {c}
      /\ Remember(r, c)
      /\ UNCHANGED <<checkpoint, writer, jobs, worker, loading, deletes>>
  BY DEF Move
<1>2. Types /\ TreeIsWhole /\ EffectsAnswered
  BY DEF IInv
<1>3. c \in Nodes
  BY <1>1, <1>2, ChildType
<1>4. TreeIsWhole'
  BY <1>1, <1>2, TreeGrows
<1>5. Listed' = Listed
  BY <1>1 DEF Listed
<1>6. /\ EffectsAnswered'
      /\ idempotency' \in [Requests -> Nodes \union Jobs \union {Nil}]
      /\ effects' \in [Requests -> SUBSET (Nodes \union Jobs)]
  BY <1>1, <1>2, <1>3, <1>5, RememberAnswer
<1>7. Types'
  BY <1>1, <1>2, <1>3, <1>6 DEF Types
<1>8. BusyWhileRunning'
  BY <1>1 DEF IInv, BusyWhileRunning, Running
<1>9. JobsPointIntoTree'
  BY <1>1, <1>5 DEF IInv, JobsPointIntoTree
<1>10. JobsAtWork'
  BY <1>1 DEF IInv, JobsAtWork, Running, AtWork
<1> QED BY <1>4, <1>6, <1>7, <1>8, <1>9, <1>10 DEF IInv

LEMMA ContinueInv ==
  ASSUME IInv, NEW r \in Requests \union {Nil}, NEW n \in tree, NEW j \in Jobs,
         Continue(r, n, j)
  PROVE  IInv'
<1> DEFINE job == [status |-> "running", source |-> n, leaf |-> n,
                   generated |-> 0, cancel |-> FALSE]
           w == [place |-> "loop", at |-> n, choice |-> Nil]
<1>1. /\ Unanswered(r) /\ Writable
      /\ jobs[j] = Nil
      /\ jobs' = [jobs EXCEPT ![j] = job]
      /\ writer' = j
      /\ worker' = [worker EXCEPT ![j] = w]
      /\ Remember(r, j)
      /\ UNCHANGED <<tree, checkpoint, loading, deletes>>
  BY DEF Continue
<1>2. Types /\ TreeIsWhole /\ EffectsAnswered
  BY DEF IInv
<1>3. n \in Nodes /\ Below(n, n) /\ Distance(n, n) = 0
  BY <1>2, BelowItself, NodePath DEF Types, Distance
<1>4. job \in JobRecords /\ job # Nil /\ w \in Workers
  <2>1. job \in JobRecords
    BY <1>3 DEF JobRecords
  <2>2. w \in Workers
    BY <1>3 DEF Workers, Places
  <2> QED BY <2>1, <2>2, NilAssumption
<1>5. /\ jobs'[j] = job /\ worker'[j] = w
      /\ \A k \in Jobs \ {j} : jobs'[k] = jobs[k] /\ worker'[k] = worker[k]
  BY <1>1, <1>2 DEF Types
<1>6. Listed' = Listed \union {j}
  BY <1>4, <1>5 DEF Listed
<1>7. /\ EffectsAnswered'
      /\ idempotency' \in [Requests -> Nodes \union Jobs \union {Nil}]
      /\ effects' \in [Requests -> SUBSET (Nodes \union Jobs)]
  BY <1>1, <1>2, <1>6, RememberAnswer
<1>8. Types'
  BY <1>1, <1>2, <1>4, <1>7 DEF Types
<1>9. \A k \in Jobs : Running(k)' <=> k = j
  BY <1>1, <1>4, <1>5, NoJobRuns DEF Running
<1>10. BusyWhileRunning'
  BY <1>1, <1>9 DEF BusyWhileRunning
<1>11. JobsPointIntoTree'
  <2>1. Fits(job, tree)
    BY <1>3 DEF Fits, Counted
  <2>2. \A k \in Listed' : Fits(jobs'[k], tree')
    BY <1>1, <1>5, <1>6, <2>1, PointsIntoTree DEF IInv, Listed
  <2> QED BY <2>2 DEF JobsPointIntoTree, Fits, Counted, Distance
<1>12. JobsAtWork'
  <2>1. ASSUME NEW k \in Jobs
        PROVE  (Running(k) <=> worker[k].place \in Working)'
    BY <1>1, <1>5, <1>9, NoJobRuns DEF IInv, JobsAtWork, Working
  <2>2. AtWork(job, w, tree)
    BY <1>3 DEF AtWork
  <2> QED BY <1>1, <1>5, <1>9, <2>1, <2>2 DEF JobsAtWork
<1>13. TreeIsWhole'
  BY <1>1, <1>2 DEF TreeIsWhole
<1> QED BY <1>7, <1>8, <1>10, <1>11, <1>12, <1>13 DEF IInv

LEMMA CancelInv ==
  ASSUME IInv, NEW j \in Jobs, Cancel(j)
  PROVE  IInv'
<1>1. /\ Running(j)
      /\ jobs' = [jobs EXCEPT ![j].cancel = TRUE]
      /\ UNCHANGED <<tree, checkpoint, writer, idempotency, effects, worker,
                     loading, deletes>>
  BY DEF Cancel, requests
<1>2. Types /\ jobs[j] \in JobRecords
  BY <1>1 DEF IInv, Types, Running
<1>3. /\ jobs'[j] = [jobs[j] EXCEPT !.cancel = TRUE]
      /\ \A k \in Jobs \ {j} : jobs'[k] = jobs[k]
  BY <1>1, <1>2 DEF Types
<1>4. /\ jobs'[j] \in JobRecords /\ jobs'[j] # Nil
      /\ jobs'[j].status = jobs[j].status
      /\ jobs'[j].source = jobs[j].source
      /\ jobs'[j].leaf = jobs[j].leaf
      /\ jobs'[j].generated = jobs[j].generated
  BY <1>2, <1>3, NilAssumption DEF JobRecords
<1>5. Types'
  BY <1>1, <1>2, <1>3, <1>4 DEF Types
<1>6. /\ Listed' = Listed
      /\ \A k \in Jobs : Running(k)' <=> Running(k)
  BY <1>1, <1>3, <1>4 DEF Listed, Running
<1>7. BusyWhileRunning'
  BY <1>1, <1>6 DEF IInv, BusyWhileRunning
<1>8. ASSUME NEW k \in Jobs
      PROVE  /\ jobs'[k].status = jobs[k].status
             /\ jobs'[k].source = jobs[k].source
             /\ jobs'[k].leaf = jobs[k].leaf
             /\ jobs'[k].generated = jobs[k].generated
  BY <1>3, <1>4
<1>9. JobsPointIntoTree'
  <2>1. \A k \in Listed' : Fits(jobs[k], tree)
    BY <1>6, PointsIntoTree DEF IInv
  <2>2. \A k \in Listed' : Fits(jobs'[k], tree')
    BY <1>1, <1>8, <2>1 DEF Fits, Counted, Listed
  <2> QED BY <2>2 DEF JobsPointIntoTree, Fits, Counted, Distance
<1>10. JobsAtWork'
  BY <1>1, <1>6, <1>8 DEF IInv, JobsAtWork, AtWork
<1>11. TreeIsWhole' /\ EffectsAnswered'
  BY <1>1, <1>6 DEF IInv, TreeIsWhole, EffectsAnswered
<1> QED BY <1>5, <1>7, <1>9, <1>10, <1>11 DEF IInv

LEMMA DeleteInv ==
  ASSUME IInv, NEW n \in tree, Delete(n)
  PROVE  IInv'
<1> DEFINE removed == {m \in tree : Below(n, m)}
           stale == Stale(removed)
<1>1. /\ Writable /\ deletes < MaxDeletes
      /\ tree' = tree \ removed
      /\ jobs' = [j \in Jobs |-> IF j \in stale THEN Nil ELSE jobs[j]]
      /\ idempotency' = [r \in Requests |->
                           IF r \in Forgotten(removed, stale) THEN Nil
                           ELSE idempotency[r]]
      /\ effects' = [r \in Requests |-> effects[r] \ (removed \union stale)]
      /\ deletes' = deletes + 1
      /\ UNCHANGED <<checkpoint, writer, worker, loading>>
  BY DEF Delete
<1>2. Types
  BY DEF IInv
<1>3. Types'
  BY <1>1, <1>2, ExplorerAssumption DEF Types
<1>4. TreeIsWhole'
  BY <1>1, TreeShrinks DEF IInv
<1>5. Listed' = Listed \ stale
  BY <1>1 DEF Listed
<1>6. EffectsAnswered'
  <2>1. ASSUME NEW r \in Requests
        PROVE  /\ effects'[r] \subseteq {idempotency'[r]} \ {Nil}
               /\ idempotency'[r] \in tree' \union Listed' \union {Nil}
    <3>1. /\ effects[r] \subseteq {idempotency[r]} \ {Nil}
          /\ idempotency[r] \in tree \union Listed \union {Nil}
      BY DEF IInv, EffectsAnswered
    <3> QED BY <1>1, <1>5, <3>1 DEF Forgotten
  <2> QED BY <2>1 DEF EffectsAnswered
<1>7. \A j \in Jobs : ~Running(j) /\ ~Running(j)'
  BY <1>1, NoJobRuns DEF Running
<1>8. BusyWhileRunning'
  BY <1>1, <1>7 DEF IInv, BusyWhileRunning
<1>9. JobsPointIntoTree'
  <2>1. ASSUME NEW j \in Listed'
        PROVE  /\ j \in Listed /\ jobs'[j] = jobs[j]
               /\ jobs[j].source \notin removed /\ jobs[j].leaf \notin removed
    BY <1>1, <1>5 DEF Stale, Listed
  <2>2. \A j \in Listed' : Fits(jobs'[j], tree')
    BY ZenonT(60), <1>1, <2>1, PointsIntoTree DEF IInv, Fits
  <2> QED BY <2>2 DEF JobsPointIntoTree, Fits, Counted, Distance
<1>10. JobsAtWork'
  BY <1>1, <1>7 DEF IInv, JobsAtWork
<1> QED BY <1>3, <1>4, <1>6, <1>8, <1>9, <1>10 DEF IInv

LEMMA LoadInv ==
  ASSUME IInv, NEW c \in Checkpoints, BeginLoad(c) \/ EndLoad(c)
  PROVE  IInv'
<1>1. /\ checkpoint' \in Checkpoints \union {Nil}
      /\ loading' \in SUBSET Checkpoints
      /\ UNCHANGED <<tree, writer, jobs, idempotency, effects, worker, deletes>>
  BY DEF BeginLoad, EndLoad, Installed, requests, IInv, Types
<1>2. Types'
  BY <1>1 DEF IInv, Types
<1>3. Listed' = Listed /\ \A j \in Jobs : Running(j)' <=> Running(j)
  BY <1>1 DEF Listed, Running
<1>4. TreeIsWhole' /\ EffectsAnswered' /\ BusyWhileRunning' /\ JobsPointIntoTree'
  BY <1>1, <1>3 DEF IInv, TreeIsWhole, EffectsAnswered, BusyWhileRunning,
                    JobsPointIntoTree
<1>5. JobsAtWork'
  BY <1>1, <1>3 DEF IInv, JobsAtWork
<1> QED BY <1>2, <1>4, <1>5 DEF IInv

------------------------------------------------------------------------------
(* _run_continue: one lemma for each step of a job *)

\* A step of a job at work leaves every other job and its worker alone.
LEMMA JobStep ==
  ASSUME IInv, NEW j \in Jobs, Running(j),
         NEW job \in JobRecords, NEW w \in Workers,
         jobs' = [jobs EXCEPT ![j] = job],
         worker' = [worker EXCEPT ![j] = w],
         job.status = "running", w.place \in Working,
         Fits(job, tree'), AtWork(job, w, tree'),
         tree \subseteq tree', tree' \in SUBSET Nodes, TreeIsWhole',
         UNCHANGED <<checkpoint, writer, idempotency, effects, loading, deletes>>
  PROVE  IInv'
<1>1. Types /\ jobs[j] # Nil
  BY DEF IInv, Running
<1>2. job # Nil
  BY NilAssumption
<1>3. /\ jobs'[j] = job /\ worker'[j] = w
      /\ \A k \in Jobs \ {j} : jobs'[k] = jobs[k] /\ worker'[k] = worker[k]
  BY <1>1 DEF Types
<1>4. Types'
  BY <1>1 DEF Types
<1>5. Listed' = Listed /\ \A k \in Jobs : Running(k)' <=> Running(k)
  BY <1>1, <1>2, <1>3 DEF Listed, Running
<1>6. EffectsAnswered'
  BY <1>5 DEF IInv, EffectsAnswered
<1>7. BusyWhileRunning'
  BY <1>5 DEF IInv, BusyWhileRunning
<1>8. JobsPointIntoTree'
  <2>1. \A k \in Listed : Fits(jobs[k], tree)
    BY PointsIntoTree DEF IInv
  <2>2. \A k \in Listed' : Fits(jobs'[k], tree')
    BY <1>3, <1>5, <2>1 DEF Fits, Listed
  <2> QED BY <2>2 DEF JobsPointIntoTree, Fits, Counted, Distance
<1>9. JobsAtWork'
  <2>1. ASSUME NEW k \in Jobs \ {j}
        PROVE  /\ Running(k)' <=> worker'[k].place \in Working
               /\ Running(k)' => AtWork(jobs'[k], worker'[k], tree')
    BY <1>3, <1>5 DEF IInv, JobsAtWork, AtWork
  <2>2. /\ Running(j)' <=> worker'[j].place \in Working
        /\ Running(j)' => AtWork(jobs'[j], worker'[j], tree')
    BY <1>3, <1>5
  <2> QED BY <2>1, <2>2 DEF JobsAtWork
<1> QED BY <1>4, <1>6, <1>7, <1>8, <1>9 DEF IInv

\* What a worker that runs its job stands on.
LEMMA WorkerAtWork ==
  ASSUME IInv, NEW j \in Jobs, worker[j].place \in Working
  PROVE  /\ Running(j) /\ writer = j
         /\ jobs[j] \in JobRecords /\ worker[j] \in Workers
         /\ worker[j].at \in tree /\ worker[j].at \in Nodes
         /\ Fits(jobs[j], tree)
         /\ AtWork(jobs[j], worker[j], tree)
<1>1. Running(j) /\ AtWork(jobs[j], worker[j], tree)
  BY DEF IInv, JobsAtWork
<1>2. j \in Listed /\ jobs[j] \in JobRecords /\ worker[j] \in Workers
  BY <1>1 DEF IInv, Types, Running, Listed
<1>3. Fits(jobs[j], tree)
  BY <1>2, PointsIntoTree DEF IInv
<1>4. worker[j].at \in tree /\ worker[j].at \in Nodes
  BY <1>1 DEF AtWork, IInv, Types
<1>5. writer = j
  BY <1>1 DEF IInv, BusyWhileRunning
<1> QED BY <1>1, <1>2, <1>3, <1>4, <1>5

\* A job settles where it stands: the mark comes off with the status.
LEMMA SettleInv ==
  ASSUME IInv, NEW j \in Jobs, NEW status \in Settled \ {"interrupted"},
         worker[j].place \in {"loop", "score", "apply"},
         Settle(j, status),
         UNCHANGED <<checkpoint, idempotency, effects, loading, deletes>>
  PROVE  IInv'
<1> DEFINE job == [jobs[j] EXCEPT !.status = status, !.leaf = worker[j].at,
                                  !.cancel = FALSE]
           w == [worker[j] EXCEPT !.place = "leaving"]
<1>1. /\ Running(j) /\ writer = j
      /\ jobs[j] \in JobRecords /\ worker[j] \in Workers
      /\ worker[j].at \in tree /\ worker[j].at \in Nodes
      /\ Fits(jobs[j], tree)
      /\ AtWork(jobs[j], worker[j], tree)
  BY WorkerAtWork DEF Working
<1>2. Types
  BY DEF IInv
<1>3. /\ writer' = Nil /\ tree' = tree
      /\ jobs' = [jobs EXCEPT ![j] = job]
      /\ worker' = [worker EXCEPT ![j] = w]
  BY <1>1 DEF Settle, Released
<1>4. job \in JobRecords
  BY <1>1 DEF JobRecords
<1>5. job # Nil /\ w \in Workers
  BY <1>1, <1>4, NilAssumption DEF Workers, Places
<1>6. /\ jobs'[j] = job /\ worker'[j] = w
      /\ \A k \in Jobs \ {j} : jobs'[k] = jobs[k] /\ worker'[k] = worker[k]
  BY <1>2, <1>3 DEF Types
<1>7. Types'
  BY <1>2, <1>3, <1>4, <1>5 DEF Types
<1>8. Listed' = Listed
  BY <1>1, <1>5, <1>6 DEF Listed, Running
<1>9. \A k \in Jobs : ~Running(k)'
  <2>1. \A k \in Jobs \ {j} : ~Running(k)
    BY <1>1 DEF IInv, BusyWhileRunning
  <2>2. job.status = status /\ status # "running"
    BY <1>1 DEF JobRecords, Settled
  <2> QED BY <1>6, <2>1, <2>2 DEF Running
<1>10. BusyWhileRunning'
  BY <1>3, <1>9, ExplorerAssumption DEF BusyWhileRunning
<1>11. TreeIsWhole' /\ EffectsAnswered'
  BY <1>3, <1>8 DEF IInv, TreeIsWhole, EffectsAnswered
<1>12. JobsPointIntoTree'
  <2>1. /\ job.source = jobs[j].source /\ job.leaf = worker[j].at
        /\ job.generated = jobs[j].generated
    BY <1>1 DEF JobRecords
  <2>2. Fits(job, tree)
    BY <1>1, <2>1 DEF Fits, Counted, AtWork
  <2>3. \A k \in Listed : Fits(jobs[k], tree)
    BY PointsIntoTree DEF IInv
  <2>4. \A k \in Listed' : Fits(jobs'[k], tree')
    BY <1>3, <1>6, <1>8, <2>2, <2>3 DEF Listed
  <2> QED BY <2>4 DEF JobsPointIntoTree, Fits, Counted, Distance
<1>13. JobsAtWork'
  <2>1. \A k \in Jobs \ {j} : worker'[k].place \notin Working
    BY <1>1, <1>6 DEF IInv, JobsAtWork, BusyWhileRunning
  <2>2. worker'[j].place = "leaving"
    BY <1>1, <1>6 DEF Workers
  <2> QED BY <1>9, <2>1, <2>2 DEF JobsAtWork, Working
<1> QED BY <1>7, <1>10, <1>11, <1>12, <1>13 DEF IInv

\* A step that moves the worker alone, without a decision.
LEMMA GoToInv ==
  ASSUME IInv, NEW j \in Jobs, worker[j].place \in {"loop", "score"},
         NEW w \in Workers, w.at = worker[j].at,
         w.place \in {"score", "apply"}, ~Over(w.at),
         w.place = "apply" => w.choice \in Legal(w.at),
         worker' = [worker EXCEPT ![j] = w],
         UNCHANGED <<tree, checkpoint, writer, jobs, idempotency, effects,
                     loading, deletes>>
  PROVE  IInv'
<1>1. /\ Running(j) /\ jobs[j] \in JobRecords
      /\ Fits(jobs[j], tree)
      /\ AtWork(jobs[j], worker[j], tree)
  BY WorkerAtWork DEF Working
<1>2. Types /\ TreeIsWhole
  BY DEF IInv
<1>3. jobs' = [jobs EXCEPT ![j] = jobs[j]]
  BY <1>2 DEF Types
<1>4. AtWork(jobs[j], w, tree')
  BY <1>1 DEF AtWork
<1>5. jobs[j].status = "running" /\ w.place \in Working
  BY <1>1 DEF Running, Working
<1>6. TreeIsWhole' /\ tree' \in SUBSET Nodes /\ Fits(jobs[j], tree')
  BY <1>1, <1>2 DEF TreeIsWhole, Types
<1> QED BY <1>1, <1>3, <1>4, <1>5, <1>6, JobStep

LEMMA LoopInv ==
  ASSUME IInv, NEW j \in Jobs, Loop(j),
         UNCHANGED <<checkpoint, requests, loading, deletes>>
  PROVE  IInv'
<1>1. worker[j].place = "loop" /\ UNCHANGED <<idempotency, effects>>
  BY DEF Loop, requests
<1>2. CASE jobs[j].cancel
  <2>1. Settle(j, "cancelled")
    BY <1>2 DEF Loop
  <2> QED BY <1>1, <2>1, SettleInv DEF Settled
<1>3. CASE ~jobs[j].cancel /\ (Over(worker[j].at) \/ AtLimit(j))
  <2>1. Settle(j, "completed")
    BY <1>3 DEF Loop
  <2> QED BY <1>1, <2>1, SettleInv DEF Settled
<1>4. CASE ~jobs[j].cancel /\ ~Over(worker[j].at) /\ ~AtLimit(j)
  <2> DEFINE w == [worker[j] EXCEPT !.place = "score"]
  <2>1. /\ worker' = [worker EXCEPT ![j] = w]
        /\ UNCHANGED <<tree, writer, jobs>>
    BY <1>4 DEF Loop, GoTo
  <2>2. worker[j] \in Workers
    BY DEF IInv, Types
  <2>3. w \in Workers /\ w.at = worker[j].at /\ w.place = "score"
    BY <2>2 DEF Workers, Places
  <2> HIDE DEF w
  <2> QED BY <1>1, <1>4, <2>1, <2>3, GoToInv
<1> QED BY <1>2, <1>3, <1>4

LEMMA ScoreInv ==
  ASSUME IInv, NEW j \in Jobs, Score(j),
         UNCHANGED <<checkpoint, requests, loading, deletes>>
  PROVE  IInv'
<1>1. worker[j].place = "score" /\ UNCHANGED <<idempotency, effects>>
  BY DEF Score, requests
<1>2. CASE Settle(j, "failed")
  BY <1>1, <1>2, SettleInv DEF Settled
<1>3. ASSUME NEW a \in Legal(worker[j].at),
             worker' = [worker EXCEPT ![j].place = "apply", ![j].choice = a],
             UNCHANGED <<tree, writer, jobs>>
      PROVE  IInv'
  <2> DEFINE w == [worker[j] EXCEPT !.place = "apply", !.choice = a]
  <2>1. /\ worker[j] \in Workers /\ worker[j].at \in Nodes
        /\ ~Over(worker[j].at)
    BY <1>1, WorkerAtWork DEF Working, AtWork
  <2>2. a \in Actions
    <3>1. Len(worker[j].at.path) + 1 \in 1..Len(Offered)
      BY <2>1, NodePath, ExplorerAssumption DEF Over
    <3> QED BY <3>1, ExplorerAssumption DEF Legal, Actions
  <2>3. /\ w \in Workers /\ w.at = worker[j].at /\ w.place = "apply"
        /\ w.choice = a
    BY <2>1, <2>2 DEF Workers, Places
  <2>4. worker' = [worker EXCEPT ![j] = w]
    BY <1>3, <2>1 DEF Workers, IInv, Types
  <2> HIDE DEF w
  <2> QED BY <1>1, <1>3, <2>1, <2>3, <2>4, GoToInv
<1> QED BY <1>1, <1>2, <1>3 DEF Score

LEMMA ApplyInv ==
  ASSUME IInv, NEW j \in Jobs, Apply(j),
         UNCHANGED <<checkpoint, requests, loading, deletes>>
  PROVE  IInv'
<1>1. worker[j].place = "apply" /\ UNCHANGED <<idempotency, effects>>
  BY DEF Apply, requests
<1>2. CASE Settle(j, "failed")
  BY <1>1, <1>2, SettleInv DEF Settled
<1>3. CASE ~Settle(j, "failed")
  <2> DEFINE n == worker[j].at
             child == Child(n, worker[j].choice)
             w == [place |-> "count", at |-> child, choice |-> Nil]
  <2>1. /\ tree' = tree \union {child}
        /\ worker' = [worker EXCEPT ![j] = w]
        /\ UNCHANGED <<writer, jobs>>
    BY <1>3 DEF Apply
  <2>2. /\ Running(j) /\ jobs[j] \in JobRecords
        /\ n \in tree /\ n \in Nodes
        /\ Fits(jobs[j], tree)
        /\ AtWork(jobs[j], worker[j], tree)
    BY <1>1, WorkerAtWork DEF Working
  <2>3. /\ n = jobs[j].leaf /\ Below(jobs[j].source, n)
        /\ jobs[j].generated = Distance(jobs[j].source, n)
        /\ ~Over(n) /\ worker[j].choice \in Legal(n)
    BY <1>1, <2>2 DEF AtWork
  <2>4. Types /\ TreeIsWhole
    BY DEF IInv
  <2>5. /\ child \in Nodes
        /\ child.path = Append(n.path, worker[j].choice)
        /\ Len(child.path) = Len(n.path) + 1
        /\ Front(child.path) = n.path
    BY <2>2, <2>3, <2>4, ChildType
  <2> HIDE DEF child
  <2>6. jobs[j].source \in Nodes /\ jobs[j].source.path \in Seq(Actions)
    BY <2>2, NodePath DEF JobRecords
  <2>7. child.path # <<>>
    BY <2>2, <2>5, NodePath
  <2>8. Below(jobs[j].source, child)
    BY <2>2, <2>3, <2>5, <2>6, <2>7, BelowLonger
  <2>9. w \in Workers
    BY <2>5 DEF Workers, Places
  <2>10. AtWork(jobs[j], w, tree')
    BY <2>1, <2>2, <2>3, <2>5, <2>6, <2>8, NodePath DEF AtWork, Distance
  <2>11. Fits(jobs[j], tree')
    BY <2>1, <2>2 DEF Fits
  <2>12. TreeIsWhole'
    BY <2>1, <2>2, <2>3, <2>4, TreeGrows DEF child
  <2>13. jobs' = [jobs EXCEPT ![j] = jobs[j]]
    BY <2>1, <2>4 DEF Types
  <2>14. tree' \in SUBSET Nodes /\ tree \subseteq tree'
    BY <2>1, <2>4, <2>5 DEF Types
  <2>15. jobs[j].status = "running" /\ w.place \in Working
    BY <2>2 DEF Running, Working
  <2> HIDE DEF w
  <2> QED BY <1>1, <2>1, <2>2, <2>9, <2>10, <2>11, <2>12, <2>13, <2>14, <2>15,
             JobStep
<1> QED BY <1>2, <1>3

LEMMA CountInv ==
  ASSUME IInv, NEW j \in Jobs, Count(j) \/ MoveLeaf(j),
         UNCHANGED <<checkpoint, requests, loading, deletes>>
  PROVE  IInv'
<1> DEFINE counting == worker[j].place = "count"
           job == IF counting
                  THEN [jobs[j] EXCEPT !.generated = @ + 1]
                  ELSE [jobs[j] EXCEPT !.leaf = worker[j].at]
           w == [worker[j] EXCEPT !.place = IF counting THEN "leaf" ELSE "loop"]
<1>1. /\ worker[j].place \in {"count", "leaf"}
      /\ jobs' = [jobs EXCEPT ![j] = job]
      /\ worker' = [worker EXCEPT ![j] = w]
      /\ UNCHANGED <<tree, writer, idempotency, effects>>
  BY DEF Count, MoveLeaf, GoTo, requests
<1>2. /\ Running(j) /\ jobs[j] \in JobRecords /\ worker[j] \in Workers
      /\ worker[j].at \in tree /\ worker[j].at \in Nodes
      /\ Fits(jobs[j], tree)
      /\ AtWork(jobs[j], worker[j], tree)
  BY <1>1, WorkerAtWork DEF Working
<1>3. /\ jobs[j].source \in Nodes /\ jobs[j].leaf \in Nodes
      /\ Len(jobs[j].source.path) \in Nat /\ Len(jobs[j].leaf.path) \in Nat
      /\ Len(worker[j].at.path) \in Nat
  BY <1>2, NodePath DEF JobRecords
<1>4. /\ Below(jobs[j].source, worker[j].at)
      /\ Distance(jobs[j].leaf, worker[j].at) = 1
      /\ IF counting
         THEN jobs[j].generated + 1 = Distance(jobs[j].source, worker[j].at)
         ELSE jobs[j].generated = Distance(jobs[j].source, worker[j].at)
  BY <1>1, <1>2 DEF AtWork
<1>5. jobs[j].generated \in Nat /\ jobs[j].status = "running"
  BY <1>2 DEF JobRecords, Running
<1>6. /\ job \in JobRecords /\ job.status = "running"
      /\ job.source = jobs[j].source
      /\ job.leaf = IF counting THEN jobs[j].leaf ELSE worker[j].at
      /\ job.generated = IF counting THEN jobs[j].generated + 1
                         ELSE jobs[j].generated
  BY <1>2, <1>5 DEF JobRecords
<1>7. /\ w \in Workers /\ w.at = worker[j].at
      /\ w.place = IF counting THEN "leaf" ELSE "loop"
  BY <1>2 DEF Workers, Places
<1>8. w.place \in Working
  BY <1>7 DEF Working
<1> HIDE DEF job, w
<1>9. AtWork(job, w, tree')
  BY <1>1, <1>2, <1>3, <1>4, <1>6, <1>7 DEF AtWork
<1>10. Fits(job, tree')
  <2>1. {job.source, job.leaf} \subseteq tree'
    BY <1>1, <1>2, <1>6 DEF Fits
  <2>2. CASE counting
    <3>1. Below(job.source, job.leaf)
      BY <1>2, <1>6, <2>2 DEF Fits, Counted
    <3>2. /\ job.generated = jobs[j].generated + 1
          /\ jobs[j].generated + 1 = Distance(jobs[j].source, worker[j].at)
          /\ job.source = jobs[j].source /\ job.leaf = jobs[j].leaf
      BY <1>4, <1>6, <2>2
    <3>3. Distance(jobs[j].source, worker[j].at) =
            Distance(jobs[j].source, jobs[j].leaf) + 1
      BY <1>3, <1>4 DEF Distance
    <3> QED BY <1>6, <2>1, <3>1, <3>2, <3>3 DEF Fits, Counted
  <2>3. CASE ~counting
    BY <1>4, <1>6, <2>1, <2>3 DEF Fits, Counted
  <2> QED BY <2>2, <2>3
<1>11. TreeIsWhole' /\ tree' \in SUBSET Nodes
  BY <1>1 DEF IInv, TreeIsWhole, Types
<1> QED BY <1>1, <1>2, <1>6, <1>7, <1>8, <1>9, <1>10, <1>11, JobStep

LEMMA LeaveInv ==
  ASSUME IInv, NEW j \in Jobs, Leave(j),
         UNCHANGED <<checkpoint, requests, loading, deletes>>
  PROVE  IInv'
<1>1. /\ worker[j].place = "leaving"
      /\ writer' = Released(j)
      /\ worker' = [worker EXCEPT ![j] = Idle]
      /\ UNCHANGED <<tree, jobs, checkpoint, idempotency, effects, loading,
                     deletes>>
  BY DEF Leave, requests
<1>2. Types
  BY DEF IInv
<1>3. writer # j /\ ~Running(j)
  BY <1>1 DEF IInv, JobsAtWork, BusyWhileRunning, Working
<1>4. writer' = writer
  BY <1>1, <1>3 DEF Released
<1>5. Idle \in Workers
  BY RootIsNode DEF Idle, Workers, Places
<1>6. Types'
  BY <1>1, <1>2, <1>4, <1>5 DEF Types
<1>7. Listed' = Listed /\ \A k \in Jobs : Running(k)' <=> Running(k)
  BY <1>1 DEF Listed, Running
<1>8. TreeIsWhole' /\ EffectsAnswered' /\ BusyWhileRunning' /\ JobsPointIntoTree'
  BY <1>1, <1>4, <1>7 DEF IInv, TreeIsWhole, EffectsAnswered,
                          BusyWhileRunning, JobsPointIntoTree
<1>9. JobsAtWork'
  <2>1. worker'[j] = Idle /\ \A k \in Jobs \ {j} : worker'[k] = worker[k]
    BY <1>1, <1>2 DEF Types
  <2> QED BY <1>1, <1>3, <1>7, <2>1 DEF IInv, JobsAtWork, Idle, Working
<1> QED BY <1>6, <1>8, <1>9 DEF IInv

LEMMA NextInv == IInv /\ Next => IInv'
<1> SUFFICES ASSUME IInv, Next PROVE IInv'
  OBVIOUS
<1>1. ASSUME NEW r \in Requests \union {Nil}, NEW n \in tree,
             NEW a \in Actions, Move(r, n, a)
      PROVE  IInv'
  BY <1>1, MoveInv
<1>2. ASSUME NEW r \in Requests \union {Nil}, NEW n \in tree, NEW j \in Jobs,
             Continue(r, n, j)
      PROVE  IInv'
  BY <1>2, ContinueInv
<1>3. ASSUME NEW n \in tree, Delete(n) PROVE IInv'
  BY <1>3, DeleteInv
<1>4. ASSUME NEW c \in Checkpoints, BeginLoad(c) \/ EndLoad(c) PROVE IInv'
  BY <1>4, LoadInv
<1>5. ASSUME NEW j \in Jobs, Cancel(j) PROVE IInv'
  BY <1>5, CancelInv
<1>6. ASSUME NEW j \in Jobs, Work(j) PROVE IInv'
  BY <1>6, LoopInv, ScoreInv, ApplyInv, CountInv, LeaveInv DEF Work
<1> QED BY <1>1, <1>2, <1>3, <1>4, <1>5, <1>6 DEF Next

LEMMA StutterInv == IInv /\ UNCHANGED vars => IInv'
<1> SUFFICES ASSUME IInv, UNCHANGED vars PROVE IInv'
  OBVIOUS
<1>1. UNCHANGED <<tree, checkpoint, writer, jobs, idempotency, effects, worker,
                  loading, deletes>>
  BY DEF vars, requests
<1>2. Listed' = Listed /\ \A j \in Jobs : Running(j)' <=> Running(j)
  BY <1>1 DEF Listed, Running
<1>3. Types'
  BY <1>1 DEF IInv, Types
<1>4. TreeIsWhole' /\ EffectsAnswered' /\ BusyWhileRunning' /\ JobsPointIntoTree'
  BY <1>1, <1>2 DEF IInv, TreeIsWhole, EffectsAnswered, BusyWhileRunning,
                    JobsPointIntoTree
<1>5. JobsAtWork'
  BY <1>1, <1>2 DEF IInv, JobsAtWork
<1> QED BY <1>3, <1>4, <1>5 DEF IInv

------------------------------------------------------------------------------
(* The session *)

LEMMA SessionInvariant == Spec => []IInv
BY InitInv, NextInv, StutterInv, PTL DEF Spec

\* A session is marked busy exactly while a job of its runs.
THEOREM BusyExactly == Spec => []BusyWhileRunning
<1>1. IInv => BusyWhileRunning
  BY DEF IInv
<1> QED BY <1>1, SessionInvariant, PTL

\* Branches hang on the root, one node to an action.
THEOREM TreeStaysWhole == Spec => []TreeIsWhole
<1>1. IInv => TreeIsWhole
  BY DEF IInv
<1> QED BY <1>1, SessionInvariant, PTL

\* Listed jobs point into the tree and have counted their decisions.
THEOREM JobsStayInTree == Spec => []JobsPointIntoTree
<1>1. IInv => JobsPointIntoTree
  BY DEF IInv
<1> QED BY <1>1, SessionInvariant, PTL

LEMMA AnsweredExactly == IInv => RetryIsExact
<1> SUFFICES ASSUME IInv, NEW r \in Requests
             PROVE  /\ Cardinality(effects[r]) <= 1
                    /\ idempotency[r] \in tree \union Listed \union {Nil}
  BY DEF RetryIsExact
<1>1. /\ effects[r] \subseteq {idempotency[r]}
      /\ idempotency[r] \in tree \union Listed \union {Nil}
  BY DEF IInv, EffectsAnswered
<1>2. effects[r] = {} \/ effects[r] = {idempotency[r]}
  BY <1>1
<1>3. Cardinality({}) = 0 /\ Cardinality({idempotency[r]}) = 1
  BY FS_EmptySet, FS_Singleton
<1> QED BY <1>1, <1>2, <1>3

\* A request id makes one thing at most and is not answered with what is gone.
THEOREM RetriesAreExact == Spec => []RetryIsExact
BY AnsweredExactly, SessionInvariant, PTL

\* No step changes the checkpoint or the branches under a job that runs.
THEOREM JobAlone == Spec => JobHasSessionToItself
<1>1. IInv /\ [Next]_vars =>
        [\A j \in Jobs :
           writer = j /\ writer' = j =>
             /\ checkpoint' = checkpoint
             /\ \A n \in tree : n \in tree'
             /\ \A n \in tree' \ tree : n = worker'[j].at]_vars
  <2> SUFFICES ASSUME IInv, Next, NEW j \in Jobs, writer = j, writer' = j
               PROVE  /\ checkpoint' = checkpoint
                      /\ \A n \in tree : n \in tree'
                      /\ \A n \in tree' \ tree : n = worker'[j].at
    OBVIOUS
  <2>1. ~Writable
    BY ExplorerAssumption DEF Writable
  <2>2. ASSUME NEW c \in Checkpoints, BeginLoad(c) \/ EndLoad(c)
        PROVE  checkpoint' = checkpoint /\ tree' = tree
    BY <2>1, <2>2 DEF BeginLoad, EndLoad, Installed, Writable
  <2>3. ASSUME NEW k \in Jobs, Cancel(k)
        PROVE  checkpoint' = checkpoint /\ tree' = tree
    BY <2>3 DEF Cancel
  <2>4. ASSUME NEW k \in Jobs, Work(k)
        PROVE  /\ checkpoint' = checkpoint
               /\ tree' = tree \/ (k = j /\ Apply(k))
    <3>1. CASE Apply(k)
      <4>1. writer = k
        BY <3>1, WorkerAtWork DEF Apply, Working
      <4> QED BY <2>4, <3>1, <4>1 DEF Work
    <3>2. CASE ~Apply(k)
      BY <2>4, <3>2 DEF Work, Loop, Score, Count, MoveLeaf, Leave, Settle, GoTo
    <3> QED BY <3>1, <3>2
  <2>5. ASSUME Apply(j)
        PROVE  /\ \A n \in tree : n \in tree'
               /\ \A n \in tree' \ tree : n = worker'[j].at
    <3>1. worker \in [Jobs -> Workers]
      BY DEF IInv, Types
    <3> QED BY <2>5, <3>1 DEF Apply, Settle
  <2> QED BY <2>1, <2>2, <2>3, <2>4, <2>5 DEF Next, Move, Continue, Delete
<1> QED BY <1>1, SessionInvariant, PTL DEF Spec, JobHasSessionToItself

------------------------------------------------------------------------------
(* The session file *)

Whole(t) ==
  \A n \in t :
    /\ n # Root => \E m \in t : m.path = Front(n.path)
    /\ \A m \in t : m.path = n.path => m = n

\* Jobs as a save writes them: none of them runs.
SavedJobs(saved) ==
  /\ DOMAIN saved \subseteq Jobs
  /\ \A j \in DOMAIN saved : /\ saved[j] \in JobRecords
                             /\ saved[j].status # "running"
                             /\ Counted(saved[j])

SavedTree(t) == t \in SUBSET Nodes /\ Whole(t)

\* A document whose jobs lead from node to node of the tree.
Consistent(saved, t) ==
  \A j \in DOMAIN saved : {saved[j].source, saved[j].leaf} \subseteq t

\* A save keeps what it has read, and its jobs find their nodes in the tree it
\* has still to read unless one was deleted.
SaveInProgress ==
  /\ saving = [place |-> saving.place, jobs |-> saving.jobs,
               tree |-> saving.tree, deleted |-> saving.deleted]
  /\ saving.place \in {"idle", "jobs", "tree"}
  /\ saving.deleted \in BOOLEAN
  /\ saving.place # "idle" => SavedJobs(saving.jobs)
  /\ saving.place = "jobs" /\ ~saving.deleted => Consistent(saving.jobs, tree)
  /\ saving.place = "tree" /\ ~saving.deleted =>
       Consistent(saving.jobs, saving.tree)
  /\ saving.place = "tree" => SavedTree(saving.tree)

FileSound ==
  file # Nil =>
    /\ SavedJobs(file.jobs) /\ SavedTree(file.tree)
    /\ ~file.deleted => Consistent(file.jobs, file.tree)

\* A server that is down has neither session nor save.
Down == ~up => /\ tree = {} /\ jobs = [j \in Jobs |-> Nil]
               /\ saving = NotSaving

FilesInv == IInv /\ up \in BOOLEAN /\ SaveInProgress /\ FileSound /\ Down

LEMMA NotSavingInProgress ==
  ASSUME saving' = NotSaving
  PROVE  SaveInProgress'
BY DEF NotSaving, SaveInProgress

LEMMA FilesInitInv == FilesInit => FilesInv
<1> SUFFICES ASSUME FilesInit PROVE FilesInv
  OBVIOUS
<1>1. IInv
  BY InitInv DEF FilesInit
<1>2. SaveInProgress
  BY DEF FilesInit, SaveInProgress, NotSaving
<1> QED BY <1>1, <1>2 DEF FilesInit, FilesInv, FileSound, Down

\* Only a deletion takes a node from a tree, and the save takes note of it.
LEMMA SessionStepInv ==
  ASSUME FilesInv, SessionStep
  PROVE  FilesInv'
<1> DEFINE gone == saving.place = "jobs" /\ ~(tree \subseteq tree')
<1>1. /\ up /\ Next
      /\ saving' = [saving EXCEPT !.deleted = @ \/ gone]
      /\ UNCHANGED <<up, file, crashes>>
  BY DEF SessionStep
<1>2. IInv'
  BY <1>1, NextInv DEF FilesInv
<1>3. /\ saving'.place = saving.place /\ saving'.jobs = saving.jobs
      /\ saving'.tree = saving.tree
      /\ saving'.deleted = (saving.deleted \/ gone)
      /\ saving' = [place |-> saving'.place, jobs |-> saving'.jobs,
                    tree |-> saving'.tree, deleted |-> saving'.deleted]
  BY <1>1 DEF FilesInv, SaveInProgress
<1>4. saving'.place = "jobs" /\ ~saving'.deleted => Consistent(saving'.jobs, tree')
  BY <1>3 DEF FilesInv, SaveInProgress, Consistent
<1>5. saving.deleted \in BOOLEAN /\ saving'.deleted \in BOOLEAN
  BY <1>3 DEF FilesInv, SaveInProgress
<1>6. SaveInProgress'
  BY <1>3, <1>4, <1>5 DEF FilesInv, SaveInProgress
<1>7. FileSound' /\ Down' /\ up' \in BOOLEAN
  BY <1>1 DEF FilesInv, FileSound, Down
<1> QED BY <1>2, <1>6, <1>7 DEF FilesInv

LEMMA SaveJobsInv ==
  ASSUME FilesInv, SaveJobs
  PROVE  FilesInv'
<1> DEFINE saved == [j \in Listed |-> Interrupted(jobs[j])]
<1>1. /\ up
      /\ saving' = [NotSaving EXCEPT !.place = "jobs", !.jobs = saved]
      /\ UNCHANGED <<vars, up, file, crashes>>
  BY DEF SaveJobs
<1>2. saving' = [place |-> "jobs", jobs |-> saved, tree |-> {},
                 deleted |-> FALSE]
  BY <1>1 DEF NotSaving
<1>3. ASSUME NEW j \in Listed
      PROVE  /\ saved[j] \in JobRecords /\ saved[j].status # "running"
             /\ Counted(saved[j])
             /\ {saved[j].source, saved[j].leaf} \subseteq tree
  <2>1. jobs[j] \in JobRecords
    BY DEF Listed, FilesInv, IInv, Types
  <2>2. Fits(jobs[j], tree)
    BY PointsIntoTree DEF FilesInv, IInv
  <2>3. CASE jobs[j].status = "running"
    <3>1. /\ saved[j] = [jobs[j] EXCEPT !.status = "interrupted", !.cancel = FALSE]
      BY <2>3 DEF Interrupted
    <3>2. /\ saved[j] \in JobRecords /\ saved[j].status = "interrupted"
          /\ saved[j].source = jobs[j].source /\ saved[j].leaf = jobs[j].leaf
          /\ saved[j].generated = jobs[j].generated
      BY <2>1, <3>1 DEF JobRecords, Settled
    <3> HIDE DEF saved
    <3> QED BY <2>2, <3>2 DEF Fits, Counted
  <2>4. CASE jobs[j].status # "running"
    <3>1. saved[j] = jobs[j]
      BY <2>4 DEF Interrupted
    <3> QED BY <2>1, <2>2, <2>4, <3>1 DEF Fits
  <2> QED BY <2>3, <2>4
<1>4. DOMAIN saved = Listed /\ Listed \subseteq Jobs
  BY DEF Listed
<1> HIDE DEF saved
<1>5. SavedJobs(saved) /\ Consistent(saved, tree)
  BY <1>3, <1>4 DEF SavedJobs, Consistent
<1>6. tree' = tree
  BY <1>1 DEF vars
<1>7. SaveInProgress'
  BY <1>2, <1>5, <1>6 DEF SaveInProgress
<1>8. IInv'
  BY <1>1, StutterInv DEF FilesInv
<1> QED BY <1>1, <1>7, <1>8 DEF FilesInv, FileSound, Down

LEMMA SaveTreeInv ==
  ASSUME FilesInv, SaveTree
  PROVE  FilesInv'
<1>1. /\ saving.place = "jobs"
      /\ saving' = [saving EXCEPT !.place = "tree", !.tree = tree]
      /\ UNCHANGED <<vars, up, file, crashes>>
  BY DEF SaveTree
<1>2. saving' = [place |-> "tree", jobs |-> saving.jobs, tree |-> tree,
                 deleted |-> saving.deleted]
  BY <1>1 DEF FilesInv, SaveInProgress
<1>3. SavedTree(tree)
  BY DEF FilesInv, IInv, Types, TreeIsWhole, SavedTree, Whole
<1>4. SaveInProgress'
  BY <1>1, <1>2, <1>3 DEF FilesInv, SaveInProgress
<1>5. IInv'
  BY <1>1, StutterInv DEF FilesInv
<1>6. up
  BY <1>1 DEF FilesInv, Down, NotSaving
<1> QED BY <1>1, <1>4, <1>5, <1>6 DEF FilesInv, FileSound, Down

LEMMA RenameInv ==
  ASSUME FilesInv, Rename
  PROVE  FilesInv'
<1>1. /\ saving.place = "tree"
      /\ file' \in {saving, file}
      /\ saving' = NotSaving
      /\ UNCHANGED <<vars, up, crashes>>
  BY DEF Rename
<1>2. FileSound'
  BY <1>1 DEF FilesInv, FileSound, SaveInProgress
<1>3. IInv'
  BY <1>1, StutterInv DEF FilesInv
<1>4. up
  BY <1>1 DEF FilesInv, Down, NotSaving
<1> QED BY <1>1, <1>2, <1>3, <1>4, NotSavingInProgress DEF FilesInv, Down

\* Nothing runs and nothing is answered in a session without nodes and jobs.
LEMMA EmptySession ==
  ASSUME IInv, jobs = [j \in Jobs |-> Nil], tree = {}
  PROVE  /\ writer = Nil
         /\ \A r \in Requests : idempotency[r] = Nil /\ effects[r] = {}
         /\ \A j \in Jobs : worker[j].place \notin Working
<1>1. \A j \in Jobs : ~Running(j)
  BY DEF Running
<1>2. Listed = {}
  BY DEF Listed
<1> QED BY <1>1, <1>2 DEF IInv, Types, BusyWhileRunning, JobsAtWork, EffectsAnswered

LEMMA CrashInv ==
  ASSUME FilesInv, Crash
  PROVE  FilesInv'
<1>1. /\ up' = FALSE
      /\ tree' = {} /\ checkpoint' = Nil /\ writer' = Nil
      /\ jobs' = [j \in Jobs |-> Nil]
      /\ idempotency' = [r \in Requests |-> Nil]
      /\ effects' = [r \in Requests |-> {}]
      /\ worker' = [j \in Jobs |-> Idle]
      /\ loading' = {} /\ saving' = NotSaving
      /\ UNCHANGED <<file, deletes>>
  BY DEF Crash
<1>2. Types'
  BY <1>1, RootIsNode DEF FilesInv, IInv, Types, Idle, Workers, Places
<1>3. Listed' = {} /\ \A j \in Jobs : ~Running(j)'
  BY <1>1 DEF Listed, Running
<1>4. TreeIsWhole' /\ EffectsAnswered' /\ JobsPointIntoTree'
  BY <1>1, <1>3 DEF TreeIsWhole, EffectsAnswered, JobsPointIntoTree
<1>5. BusyWhileRunning' /\ JobsAtWork'
  BY <1>1, <1>3, ExplorerAssumption DEF BusyWhileRunning, JobsAtWork, Idle, Working
<1>6. IInv'
  BY <1>2, <1>4, <1>5 DEF IInv
<1> QED BY <1>1, <1>6, NotSavingInProgress DEF FilesInv, FileSound, Down

LEMMA LoadFileInv ==
  ASSUME FilesInv, Load
  PROVE  FilesInv'
<1>1. /\ ~up /\ file # Nil /\ Loadable(file)
      /\ up' = TRUE
      /\ tree' = file.tree
      /\ checkpoint' \in Checkpoints \union {Nil}
      /\ jobs' = [j \in Jobs |->
                    IF j \in DOMAIN file.jobs THEN file.jobs[j] ELSE Nil]
      /\ file' = Nil
      /\ UNCHANGED <<writer, idempotency, effects, worker, loading, deletes,
                     saving>>
  BY DEF Load, requests
<1>2. IInv /\ SavedJobs(file.jobs) /\ SavedTree(file.tree)
  BY <1>1 DEF FilesInv, FileSound
<1>3. /\ tree = {} /\ jobs = [j \in Jobs |-> Nil] /\ saving = NotSaving
  BY <1>1 DEF FilesInv, Down
<1>4. /\ writer = Nil
      /\ \A r \in Requests : idempotency[r] = Nil /\ effects[r] = {}
      /\ \A j \in Jobs : worker[j].place \notin Working
  BY <1>2, <1>3, EmptySession
<1>5. \A j \in Jobs : jobs'[j] \in JobRecords \union {Nil} /\ ~Running(j)'
  BY <1>1, <1>2 DEF SavedJobs, Running
<1>6. Types'
  BY <1>1, <1>2, <1>5 DEF IInv, Types, SavedTree
<1>7. TreeIsWhole'
  BY <1>1, <1>2 DEF SavedTree, Whole, TreeIsWhole
<1>8. EffectsAnswered'
  BY <1>1, <1>4 DEF EffectsAnswered
<1>9. BusyWhileRunning' /\ JobsAtWork'
  BY <1>1, <1>4, <1>5, ExplorerAssumption DEF BusyWhileRunning, JobsAtWork
<1>10. JobsPointIntoTree'
  <2>1. Listed' \subseteq DOMAIN file.jobs /\ Listed' \subseteq Jobs
    BY <1>1 DEF Listed
  <2>2. ASSUME NEW j \in Listed'
        PROVE  Fits(jobs'[j], tree')
    <3>1. jobs'[j] = file.jobs[j]
      BY <1>1, <2>1
    <3> QED BY <1>1, <1>2, <2>1, <3>1 DEF Loadable, SavedJobs, Fits
  <2> QED BY <2>2 DEF JobsPointIntoTree, Fits, Counted, Distance
<1>11. IInv'
  BY <1>6, <1>7, <1>8, <1>9, <1>10 DEF IInv
<1>12. SaveInProgress'
  BY <1>1, <1>3, NotSavingInProgress
<1> QED BY <1>1, <1>11, <1>12 DEF FilesInv, FileSound, Down

LEMMA FilesInvariant == FilesSpec => []FilesInv
<1>1. FilesInv /\ FilesNext => FilesInv'
  BY SessionStepInv, SaveJobsInv, SaveTreeInv, RenameInv, CrashInv, LoadFileInv
  DEF FilesNext
<1>2. FilesInv /\ UNCHANGED allVars => FilesInv'
  <2> SUFFICES ASSUME FilesInv, UNCHANGED allVars PROVE FilesInv'
    OBVIOUS
  <2>1. UNCHANGED <<vars, up, saving, file>> /\ tree' = tree /\ jobs' = jobs
    BY DEF allVars, disk, vars
  <2>2. IInv'
    BY <2>1, StutterInv DEF FilesInv
  <2> QED BY <2>1, <2>2 DEF FilesInv, SaveInProgress, FileSound, Down
<1> QED BY FilesInitInv, <1>1, <1>2, PTL DEF FilesSpec

\* A file can be loaded unless a node was deleted between the halves of its save.
THEOREM FileLoads == FilesSpec => []LoadsUnlessDeleted
<1>1. FilesInv => LoadsUnlessDeleted
  BY DEF FilesInv, FileSound, LoadsUnlessDeleted, Loadable, Consistent
<1> QED BY <1>1, FilesInvariant, PTL

\* Crashes and loads leave the session as sound as it was without them.
THEOREM SessionSurvivesRestarts ==
  FilesSpec =>
    [](BusyWhileRunning /\ TreeIsWhole /\ JobsPointIntoTree /\ RetryIsExact)
<1>1. FilesInv =>
        BusyWhileRunning /\ TreeIsWhole /\ JobsPointIntoTree /\ RetryIsExact
  BY AnsweredExactly DEF FilesInv, IInv
<1> QED BY <1>1, FilesInvariant, PTL
==============================================================================

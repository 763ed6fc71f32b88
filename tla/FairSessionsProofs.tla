------------------------- MODULE FairSessionsProofs -------------------------
(***************************************************************************)
(* Proofs about FairSessions for any game, any number of State objects and *)
(* threads, and batches of any size on any number of workers.              *)
(***************************************************************************)
EXTENDS FairSessions, WellFoundedInduction, TLAPS

\* A batch describes each of its states once.
BatchWellFormed ==
  \A t \in Threads : batch[t] # NoBatch =>
    /\ Len(batch[t].outcome) = Len(batch[t].items)
    /\ Len(batch[t].before) = Len(batch[t].items)
    /\ \A j, k \in DOMAIN batch[t].items :
         batch[t].items[j].handle = batch[t].items[k].handle => j = k

\* The inductive invariant: a batch in progress is the only one to step its
\* states, so each of them is where the batch left it.
IInv == TypeOK /\ BatchWellFormed /\ RevisionPinsState /\ BatchStepsAlone

------------------------------------------------------------------------------
(* One step of one environment *)

\* environment.rs step: the answer is one of the listed outcomes.
LEMMA AnswerType ==
  ASSUME NEW e, NEW r, NEW i
  PROVE  Answer(e, r, i) \in Outcomes \ {"Pending"}
BY DEF Answer, Outcomes, Refusals

\* environment.rs step: an accepted request carries the revision of the
\* environment and moves it to a legal, projectable successor.
LEMMA AcceptedAnswer ==
  ASSUME NEW e \in Environments, NEW r, NEW i \in Int, Answer(e, r, i) = "Ok"
  PROVE  /\ r = e.revision
         /\ e.revision < MaxRevision
         /\ Choice(e, i) \in Range(Legal[e.state])
         /\ Successor[e.state][Choice(e, i)] \in Projectable
<1>1. /\ r = e.revision
      /\ e.revision # MaxRevision
      /\ i + 1 \in DOMAIN Legal[e.state]
      /\ Successor[e.state][Choice(e, i)] \in Projectable
  BY DEF Answer
<1>2. e.revision < MaxRevision
  BY <1>1, GameAssumption DEF Environments
<1>3. Choice(e, i) \in Range(Legal[e.state])
  BY <1>1 DEF Choice, Range
<1> QED BY <1>1, <1>2, <1>3

\* environment.rs step: the environment stays well typed, and its revision
\* never falls; it is unchanged unless the revision rises by one.
LEMMA AfterType ==
  ASSUME NEW e \in Environments, NEW r, NEW i \in Int
  PROVE  /\ After(e, r, i) \in Environments
         /\ \/ After(e, r, i) = e
            \/ After(e, r, i).revision = e.revision + 1
<1>1. CASE Answer(e, r, i) = "Ok"
  <2>1. /\ e.revision < MaxRevision
        /\ Successor[e.state][Choice(e, i)] \in RunStates
    BY <1>1, AcceptedAnswer, GameAssumption
  <2>2. e.revision + 1 \in 0..MaxRevision
    BY <2>1, GameAssumption DEF Environments
  <2> QED BY <1>1, <2>1, <2>2 DEF After, At, Environments
<1>2. CASE Answer(e, r, i) # "Ok"
  BY <1>2 DEF After
<1> QED BY <1>1, <1>2

------------------------------------------------------------------------------
(* The inductive invariant *)

\* What a batch in progress knows of one of its states.
LEMMA BatchItem ==
  ASSUME IInv, NEW t \in Threads, batch[t] # NoBatch,
         NEW k \in DOMAIN batch[t].items
  PROVE  /\ batch[t] \in Batches
         /\ batch[t].items[k] \in Requests
         /\ batch[t].outcome[k] \in Outcomes
         /\ k \in DOMAIN batch[t].outcome
         /\ batch[t].before[k] \in Environments
         /\ holder[batch[t].items[k].handle] = t
         /\ env[batch[t].items[k].handle] \in Environments
<1> DEFINE b == batch[t]
<1>1. b \in Batches
  BY DEF IInv, TypeOK
<1>2. /\ Len(b.outcome) = Len(b.items)
      /\ Len(b.before) = Len(b.items)
  BY DEF IInv, BatchWellFormed
<1>3. /\ b.items \in Seq(Requests)
      /\ b.outcome \in Seq(Outcomes)
      /\ b.before \in Seq(Environments)
  BY <1>1 DEF Batches
<1>4. /\ DOMAIN b.outcome = DOMAIN b.items
      /\ DOMAIN b.before = DOMAIN b.items
  BY <1>2, <1>3
<1>5. /\ b.items[k] \in Requests
      /\ b.outcome[k] \in Outcomes
      /\ b.before[k] \in Environments
  BY <1>3, <1>4
<1>6. /\ holder[b.items[k].handle] = t
      /\ env[b.items[k].handle] =
           IF b.outcome[k] = "Pending" THEN b.before[k]
           ELSE After(b.before[k], b.items[k].revision, b.items[k].index)
  BY DEF IInv, BatchStepsAlone
<1>7. b.items[k].index \in Int
  BY <1>5 DEF Requests
<1> QED BY <1>1, <1>4, <1>5, <1>6, <1>7, AfterType

\* A call under the interpreter lock touches no state that a batch borrows, so
\* it leaves every batch where it was.
LEMMA OutsideBatches ==
  ASSUME IInv, NEW h \in Handles, holder[h] = Nobody \/ env[h] = Absent,
         \A g \in Handles \ {h} : env'[g] = env[g],
         UNCHANGED <<holder, batch>>
  PROVE  BatchStepsAlone' /\ BatchWellFormed'
<1>1. BatchWellFormed'
  BY DEF IInv, BatchWellFormed
<1>2. ASSUME NEW t \in Threads, batch[t] # NoBatch,
             NEW k \in DOMAIN batch[t].items
      PROVE  /\ batch[t].items[k].handle \in Handles
             /\ batch[t].items[k].handle # h
  BY <1>2, BatchItem, BatchAssumption, AbsentAssumption DEF Requests
<1>3. ASSUME NEW t \in Threads, batch[t] # NoBatch,
             NEW k \in DOMAIN batch[t].items
      PROVE  env'[batch[t].items[k].handle] = env[batch[t].items[k].handle]
  BY <1>2, <1>3
<1>4. BatchStepsAlone'
  BY <1>3 DEF IInv, BatchStepsAlone
<1> QED BY <1>1, <1>4

\* A State that did not exist has never been seen.
LEMMA UnseenWhileAbsent ==
  ASSUME IInv, NEW h \in Handles, env[h] = Absent, NEW o \in seen
  PROVE  o.handle # h
BY DEF IInv, RevisionPinsState

LEMMA InitInv == Init => IInv
<1> SUFFICES ASSUME Init PROVE IInv
  OBVIOUS
<1>1. TypeOK
  BY DEF Init, Session!Init, TypeOK
<1>2. \A t \in Threads : batch[t] = NoBatch
  BY DEF Init
<1> QED BY <1>1, <1>2 DEF Init, IInv, BatchWellFormed, RevisionPinsState,
                         BatchStepsAlone

\* State.new.
LEMMA ConstructInv ==
  ASSUME IInv, NEW h \in Handles, Construct(h)
  PROVE  IInv'
<1>1. PICK s \in Initial : env' = [env EXCEPT ![h] = At(s, 0)]
  BY DEF Construct, Session!New, Session!At, At
<1>2. At(s, 0) \in Environments
  BY GameAssumption DEF At, Environments
<1>3. TypeOK'
  BY <1>1, <1>2 DEF IInv, TypeOK, Construct
<1>4. BatchStepsAlone' /\ BatchWellFormed'
  BY <1>1, OutsideBatches DEF Construct, Session!New, IInv, TypeOK
<1>5. RevisionPinsState'
  BY <1>1, UnseenWhileAbsent DEF Construct, Session!New, IInv, TypeOK,
                                 RevisionPinsState, Sightings
<1> QED BY <1>3, <1>4, <1>5 DEF IInv

\* State.decision.
LEMMA ReadDecisionInv ==
  ASSUME IInv, NEW h \in Handles, ReadDecision(h)
  PROVE  IInv'
<1>1. env[h] \in Environments
  BY DEF ReadDecision, Free, IInv, TypeOK
<1>2. TypeOK'
  BY <1>1 DEF ReadDecision, Publish, Sighting, Sightings, Environments, IInv,
              TypeOK
<1>3. RevisionPinsState'
  BY <1>1, GameAssumption, AbsentAssumption
     DEF ReadDecision, Publish, Sighting, Environments, IInv, RevisionPinsState
<1>4. BatchStepsAlone' /\ BatchWellFormed'
  BY DEF ReadDecision, IInv, BatchStepsAlone, BatchWellFormed
<1> QED BY <1>2, <1>3, <1>4 DEF IInv

\* State.clone and the synthetic roots: only an unused State changes.
LEMMA CopyInv ==
  ASSUME IInv, NEW copy \in Handles, NEW e \in Environments,
         env[copy] = Absent, env' = [env EXCEPT ![copy] = e],
         UNCHANGED <<holder, batch, seen>>
  PROVE  IInv'
<1>1. TypeOK'
  BY DEF IInv, TypeOK
<1>2. BatchStepsAlone' /\ BatchWellFormed'
  BY OutsideBatches DEF IInv, TypeOK
<1>3. RevisionPinsState'
  BY UnseenWhileAbsent DEF IInv, TypeOK, RevisionPinsState, Sightings
<1> QED BY <1>1, <1>2, <1>3 DEF IInv

\* An environment that moves by one accepted answer still has one state for
\* each revision it has published.
LEMMA AcceptedPins ==
  ASSUME IInv, NEW h \in Handles, NEW r, NEW i \in Int, env[h] # Absent,
         env' = [env EXCEPT ![h] = After(env[h], r, i)], seen' = seen
  PROVE  RevisionPinsState'
<1>1. env[h] \in Environments
  BY DEF IInv, TypeOK
<1>2. /\ After(env[h], r, i) \in Environments
      /\ \/ After(env[h], r, i) = env[h]
         \/ After(env[h], r, i).revision = env[h].revision + 1
  BY <1>1, AfterType
<1>3. /\ env[h].revision \in Nat
      /\ After(env[h], r, i) # Absent
      /\ env'[h] = After(env[h], r, i)
      /\ \A g \in Handles \ {h} : env'[g] = env[g]
  BY <1>1, <1>2, AbsentAssumption DEF Environments, IInv, TypeOK
<1>4. ASSUME NEW o \in seen
      PROVE  /\ env'[o.handle] # Absent
             /\ o.revision <= env'[o.handle].revision
             /\ o.revision = env'[o.handle].revision
                  => o.state = env'[o.handle].state
  <2>1. /\ o.handle \in Handles
        /\ o.revision \in Nat
        /\ env[o.handle] # Absent
        /\ o.revision <= env[o.handle].revision
        /\ o.revision = env[o.handle].revision => o.state = env[o.handle].state
    BY DEF IInv, TypeOK, RevisionPinsState, Sightings
  <2>2. CASE o.handle = h
    BY <1>2, <1>3, <2>1, <2>2
  <2>3. CASE o.handle # h
    BY <1>3, <2>1, <2>3
  <2> QED BY <2>2, <2>3
<1> QED BY <1>4 DEF RevisionPinsState

\* State.step.
LEMMA StepInv ==
  ASSUME IInv, NEW h \in Handles, Step(h)
  PROVE  IInv'
<1>1. PICK token \in seen, i \in 0..Len(Legal[env[h].state]) :
        /\ Answer(env[h], token.revision, i) = "Ok"
        /\ env' = [env EXCEPT ![h] = After(env[h], token.revision, i)]
        /\ seen' = seen \union {Sighting(h, env'[h])}
  BY DEF Step, Publish
<1>2. /\ env[h] \in Environments
      /\ env[h] # Absent /\ holder[h] = Nobody
      /\ i \in Int
      /\ UNCHANGED <<holder, batch>>
  BY <1>1, AbsentAssumption DEF Step, Free, IInv, TypeOK
<1>3. After(env[h], token.revision, i) \in Environments
  BY <1>2, AfterType
<1>4. env'[h] \in Environments /\ Sighting(h, env'[h]) \in Sightings
  BY <1>1, <1>3 DEF IInv, TypeOK, Sighting, Sightings, Environments
<1>5. TypeOK'
  BY <1>1, <1>2, <1>3, <1>4 DEF IInv, TypeOK
<1>6. BatchStepsAlone' /\ BatchWellFormed'
  BY <1>1, <1>2, OutsideBatches DEF IInv, TypeOK
<1>7. \A o \in seen :
        /\ env'[o.handle] # Absent
        /\ o.revision <= env'[o.handle].revision
        /\ o.revision = env'[o.handle].revision => o.state = env'[o.handle].state
  <2> DEFINE r == token.revision
  <2>2. /\ env[h].revision \in Nat
        /\ After(env[h], r, i) # Absent
        /\ env'[h] = After(env[h], r, i)
        /\ \A g \in Handles \ {h} : env'[g] = env[g]
        /\ \/ After(env[h], r, i) = env[h]
           \/ After(env[h], r, i).revision = env[h].revision + 1
    BY <1>1, <1>2, <1>3, AfterType, AbsentAssumption
       DEF Environments, IInv, TypeOK
  <2>3. ASSUME NEW o \in seen
        PROVE  /\ o.handle \in Handles
               /\ o.revision \in Nat
               /\ env[o.handle] # Absent
               /\ o.revision <= env[o.handle].revision
               /\ o.revision = env[o.handle].revision
                    => o.state = env[o.handle].state
    BY DEF IInv, TypeOK, RevisionPinsState, Sightings
  <2> QED BY <2>2, <2>3
<1>8. RevisionPinsState'
  BY <1>1, <1>4, <1>7, AbsentAssumption
     DEF RevisionPinsState, Sighting, Environments
<1> QED BY <1>5, <1>6, <1>8 DEF IInv

\* numeric_steps, the borrow of every state.
LEMMA StartBatchInv ==
  ASSUME IInv, NEW t \in Threads, StartBatch(t)
  PROVE  IInv'
<1>1. PICK n \in 1..MaxBatch :
        \E handles \in [1..n -> {h \in Handles : Free(h)}],
           tokens \in [1..n -> seen], indices \in [1..n -> Indices] :
          /\ IsInjective(handles)
          /\ batch' = [batch EXCEPT ![t] =
               [items   |-> [k \in 1..n |-> [handle   |-> handles[k],
                                             revision |-> tokens[k].revision,
                                             index    |-> indices[k]]],
                outcome |-> [k \in 1..n |-> "Pending"],
                before  |-> [k \in 1..n |-> env[handles[k]]]]]
          /\ holder' = [h \in Handles |-> IF h \in Range(handles) THEN t
                                          ELSE holder[h]]
  BY DEF StartBatch
<1>2. PICK handles \in [1..n -> {h \in Handles : Free(h)}],
           tokens \in [1..n -> seen], indices \in [1..n -> Indices] :
          /\ IsInjective(handles)
          /\ batch' = [batch EXCEPT ![t] =
               [items   |-> [k \in 1..n |-> [handle   |-> handles[k],
                                             revision |-> tokens[k].revision,
                                             index    |-> indices[k]]],
                outcome |-> [k \in 1..n |-> "Pending"],
                before  |-> [k \in 1..n |-> env[handles[k]]]]]
          /\ holder' = [h \in Handles |-> IF h \in Range(handles) THEN t
                                          ELSE holder[h]]
  BY <1>1
<1> DEFINE items   == [k \in 1..n |-> [handle   |-> handles[k],
                                       revision |-> tokens[k].revision,
                                       index    |-> indices[k]]]
           outcome == [k \in 1..n |-> "Pending"]
           before  == [k \in 1..n |-> env[handles[k]]]
           started == [items |-> items, outcome |-> outcome, before |-> before]
<1>3. n \in Nat /\ UNCHANGED <<env, seen>>
  BY <1>1, BatchAssumption DEF StartBatch
<1>4. \A k \in 1..n : /\ items[k] \in Requests
                      /\ env[handles[k]] \in Environments
                      /\ holder[handles[k]] = Nobody
                      /\ handles[k] \in Handles
  <2> TAKE k \in 1..n
  <2>1. handles[k] \in {h \in Handles : Free(h)}
    BY <1>2
  <2>2. /\ env[handles[k]] \in Environments
        /\ holder[handles[k]] = Nobody
        /\ handles[k] \in Handles
    BY <2>1 DEF Free, IInv, TypeOK
  <2>3. tokens[k].revision \in 0..MaxRevision
    BY <1>2 DEF IInv, TypeOK, Sightings
  <2>4. indices[k] \in Int
    BY <1>2, BatchAssumption
  <2> QED BY <2>2, <2>3, <2>4 DEF Requests
<1>5. /\ items \in Seq(Requests) /\ Len(items) = n
      /\ outcome \in Seq(Outcomes) /\ Len(outcome) = n
      /\ before \in Seq(Environments) /\ Len(before) = n
  <2>1. items \in [1..n -> Requests]
    BY <1>4
  <2>2. outcome \in [1..n -> Outcomes]
    BY DEF Outcomes
  <2>3. before \in [1..n -> Environments]
    BY <1>4
  <2> HIDE DEF items, outcome, before
  <2> QED BY <1>3, <2>1, <2>2, <2>3
<1>6. started \in Batches
  BY <1>5 DEF Batches
<1>7. /\ batch' = [batch EXCEPT ![t] = started]
      /\ batch'[t] = started
      /\ \A u \in Threads \ {t} : batch'[u] = batch[u]
  BY <1>2 DEF IInv, TypeOK
<1>8. TypeOK'
  BY <1>2, <1>3, <1>6, <1>7 DEF IInv, TypeOK
<1>9. BatchWellFormed'
  <2>1. \A j, k \in 1..n : handles[j] = handles[k] => j = k
    BY <1>2 DEF IsInjective
  <2>2. \A j, k \in DOMAIN items : items[j].handle = items[k].handle => j = k
    BY <2>1
  <2>3. /\ Len(started.outcome) = Len(started.items)
        /\ Len(started.before) = Len(started.items)
    BY <1>5
  <2> QED BY <1>7, <2>2, <2>3 DEF IInv, BatchWellFormed
<1>10. BatchStepsAlone'
  <2>1. ASSUME NEW k \in DOMAIN started.items
        PROVE  LET r == started.items[k]
               IN  /\ holder'[r.handle] = t
                   /\ started.outcome[k] = "Pending"
                   /\ env'[r.handle] = started.before[k]
    BY <1>2, <1>3, <1>4 DEF Range
  <2>2. ASSUME NEW u \in Threads \ {t}, batch[u] # NoBatch,
               NEW k \in DOMAIN batch[u].items
        PROVE  holder'[batch[u].items[k].handle] = u
    <3>1. /\ batch[u].items[k].handle \in Handles
          /\ holder[batch[u].items[k].handle] = u
      BY <2>2, BatchItem DEF Requests
    <3>2. batch[u].items[k].handle \notin Range(handles)
      BY <1>2, <1>4, <3>1, BatchAssumption DEF Range
    <3> QED BY <1>2, <3>1, <3>2
  <2> QED BY <1>3, <1>7, <2>1, <2>2 DEF IInv, BatchStepsAlone
<1>11. RevisionPinsState'
  BY <1>3 DEF IInv, RevisionPinsState
<1> QED BY <1>8, <1>9, <1>10, <1>11 DEF IInv

\* numeric.rs chunk_sizes: every chunk lies within the batch.
LEMMA ChunkWithin ==
  ASSUME NEW n \in Nat, NEW w \in 1..Workers(n)
  PROVE  Chunk(n, w) \subseteq 1..n
<1> DEFINE W     == Workers(n)
           base  == n \div W
           extra == n % W
           whole == (w - 1) * base
           start == whole + (IF w - 1 < extra THEN w - 1 ELSE extra)
           last  == start + base + (IF w <= extra THEN 1 ELSE 0)
<1>1. W \in Nat \ {0}
  <2>1. n \div MinPerWorker \in Nat
    BY BatchAssumption
  <2> HIDE DEF W
  <2> QED BY <2>1, BatchAssumption DEF Workers, W
<1>2. /\ base \in Nat /\ extra \in Nat
      /\ n = W * base + extra
  <2> HIDE DEF W
  <2> QED BY <1>1
<1>3. w \in Nat /\ 1 <= w /\ w <= W
  BY <1>1
<1>4. /\ whole \in Nat
      /\ whole + base <= W * base
  <2> HIDE DEF W, base
  <2>1. (w - 1) * base + base = w * base
    BY <1>2, <1>3
  <2>2. w * base <= W * base
    BY <1>1, <1>2, <1>3
  <2> QED BY <1>1, <1>2, <1>3, <2>1, <2>2
<1>5. start \in Nat /\ last \in Nat /\ last <= n
  <2> DEFINE all == W * base
  <2>1. all \in Nat /\ n = all + extra /\ whole + base <= all
    <3>1. all \in Nat
      <4> HIDE DEF W, base
      <4> QED BY <1>1, <1>2
    <3>2. n = all + extra
      BY <1>2
    <3>3. whole + base <= all
      BY <1>4
    <3> QED BY <3>1, <3>2, <3>3
  <2> HIDE DEF W, base, extra, whole, all
  <2>2. CASE w <= extra
    BY <1>2, <1>3, <1>4, <2>1, <2>2
  <2>3. CASE ~(w <= extra)
    BY <1>2, <1>3, <1>4, <2>1, <2>3
  <2> QED BY <2>2, <2>3
<1>6. Chunk(n, w) = (start + 1)..last
  BY DEF Chunk
<1> HIDE DEF start, last
<1> QED BY <1>5, <1>6

\* step_chunk on a worker thread.
LEMMA WorkerStepInv ==
  ASSUME IInv, NEW t \in Threads, NEW w, WorkerStep(t, w)
  PROVE  IInv'
<1>1. PICK k \in NextItem(batch[t], w) :
        /\ batch' = [batch EXCEPT ![t].outcome[k] =
             Answer(env[batch[t].items[k].handle], batch[t].items[k].revision,
                    batch[t].items[k].index)]
        /\ env' = [env EXCEPT ![batch[t].items[k].handle] =
             After(env[batch[t].items[k].handle], batch[t].items[k].revision,
                   batch[t].items[k].index)]
  BY DEF WorkerStep
<1> DEFINE b == batch[t]
           r == b.items[k]
           e == env[r.handle]
<1>2. /\ b # NoBatch
      /\ w \in 1..Workers(Len(b.items))
      /\ UNCHANGED <<holder, seen>>
      /\ k \in Chunk(Len(b.items), w)
      /\ b.outcome[k] = "Pending"
  BY <1>1 DEF WorkerStep, NextItem
<1>3. /\ b \in Batches
      /\ Len(b.items) \in Nat
      /\ b.items \in Seq(Requests)
      /\ b.outcome \in Seq(Outcomes)
      /\ Len(b.outcome) = Len(b.items)
  BY <1>2 DEF IInv, TypeOK, BatchWellFormed, Batches
<1>4. k \in DOMAIN b.items /\ k \in DOMAIN b.outcome
  BY <1>2, <1>3, ChunkWithin
<1>5. /\ r \in Requests
      /\ e \in Environments
      /\ e = b.before[k]
      /\ holder[r.handle] = t
  BY <1>2, <1>4, BatchItem DEF IInv, BatchStepsAlone
<1>6. /\ r.handle \in Handles
      /\ r.index \in Int
      /\ env[r.handle] # Absent
      /\ Answer(e, r.revision, r.index) \in Outcomes \ {"Pending"}
      /\ After(e, r.revision, r.index) \in Environments
  BY <1>5, AfterType, AnswerType, AbsentAssumption DEF Requests
<1> DEFINE outcome == [b.outcome EXCEPT ![k] = Answer(e, r.revision, r.index)]
           moved   == [b EXCEPT !.outcome = outcome]
<1>7. /\ batch' = [batch EXCEPT ![t] = moved]
      /\ env' = [env EXCEPT ![r.handle] = After(e, r.revision, r.index)]
  BY <1>1
<1>8. /\ outcome \in Seq(Outcomes)
      /\ Len(outcome) = Len(b.outcome)
      /\ outcome[k] = Answer(e, r.revision, r.index)
      /\ \A j \in DOMAIN b.items \ {k} : outcome[j] = b.outcome[j]
  BY <1>3, <1>4, <1>6
<1>9. /\ moved \in Batches
      /\ moved.items = b.items
      /\ moved.before = b.before
      /\ moved.outcome = outcome
  BY <1>3, <1>8 DEF Batches
<1>10. /\ batch'[t] = moved
       /\ \A u \in Threads \ {t} : batch'[u] = batch[u]
       /\ env'[r.handle] = After(e, r.revision, r.index)
       /\ \A g \in Handles \ {r.handle} : env'[g] = env[g]
  BY <1>6, <1>7 DEF IInv, TypeOK
<1> HIDE DEF outcome, moved
<1>11. TypeOK'
  BY <1>2, <1>6, <1>7, <1>9 DEF IInv, TypeOK
<1>12. BatchWellFormed'
  <2>1. /\ Len(b.outcome) = Len(b.items)
        /\ Len(b.before) = Len(b.items)
        /\ \A i, j \in DOMAIN b.items :
             b.items[i].handle = b.items[j].handle => i = j
    BY <1>2 DEF IInv, BatchWellFormed
  <2>2. /\ Len(moved.outcome) = Len(moved.items)
        /\ Len(moved.before) = Len(moved.items)
        /\ \A i, j \in DOMAIN moved.items :
             moved.items[i].handle = moved.items[j].handle => i = j
    BY <1>8, <1>9, <2>1
  <2> QED BY <1>10, <2>2 DEF IInv, BatchWellFormed
<1>13. RevisionPinsState'
  BY <1>2, <1>6, <1>7, AcceptedPins
<1>14. BatchStepsAlone'
  <2>1. ASSUME NEW j \in DOMAIN b.items
        PROVE  /\ holder[b.items[j].handle] = t
               /\ env'[b.items[j].handle] =
                    IF outcome[j] = "Pending" THEN b.before[j]
                    ELSE After(b.before[j], b.items[j].revision, b.items[j].index)
    <3>1. CASE j = k
      BY <1>5, <1>6, <1>8, <1>10, <3>1
    <3>2. CASE j # k
      <4>1. b.items[j].handle \in Handles \ {r.handle}
        BY <1>2, <1>4, <3>2, BatchItem DEF IInv, BatchWellFormed, Requests
      <4> QED BY <1>2, <1>8, <1>10, <3>2, <4>1 DEF IInv, BatchStepsAlone
    <3> QED BY <3>1, <3>2
  <2>2. ASSUME NEW u \in Threads \ {t}, batch[u] # NoBatch,
               NEW j \in DOMAIN batch[u].items
        PROVE  env'[batch[u].items[j].handle] = env[batch[u].items[j].handle]
    <3>1. batch[u].items[j].handle \in Handles \ {r.handle}
      BY <1>5, <2>2, BatchItem DEF Requests
    <3> QED BY <1>10, <3>1
  <2> QED BY <1>2, <1>9, <1>10, <2>1, <2>2 DEF IInv, BatchStepsAlone
<1> QED BY <1>11, <1>12, <1>13, <1>14 DEF IInv

\* numeric_steps, the return: the borrows end and the successors are shown.
LEMMA FinishBatchInv ==
  ASSUME IInv, NEW t \in Threads, FinishBatch(t)
  PROVE  IInv'
<1> DEFINE b == batch[t]
           shown == {Sighting(b.items[k].handle, env[b.items[k].handle]) :
                       k \in DOMAIN b.items}
<1>1. /\ b # NoBatch
      /\ seen' = seen \/ seen' = seen \union shown
      /\ holder' = [h \in Handles |-> IF holder[h] = t THEN Nobody ELSE holder[h]]
      /\ batch' = [batch EXCEPT ![t] = NoBatch]
      /\ env' = env
  BY DEF FinishBatch
<1>2. ASSUME NEW k \in DOMAIN b.items
      PROVE  /\ b.items[k].handle \in Handles
             /\ env[b.items[k].handle] \in Environments
  BY <1>1, BatchItem DEF Requests
<1>3. /\ shown \subseteq Sightings
      /\ \A o \in shown : /\ env[o.handle] \in Environments
                          /\ o.revision = env[o.handle].revision
                          /\ o.state = env[o.handle].state
  BY <1>2 DEF Sighting, Sightings, Environments
<1> HIDE DEF shown
<1>4. TypeOK'
  BY <1>1, <1>3 DEF IInv, TypeOK
<1>5. /\ batch'[t] = NoBatch
      /\ \A u \in Threads \ {t} : batch'[u] = batch[u]
      /\ BatchWellFormed'
  <2>1. /\ batch'[t] = NoBatch
        /\ \A u \in Threads \ {t} : batch'[u] = batch[u]
    BY <1>1 DEF IInv, TypeOK
  <2> QED BY <2>1 DEF IInv, BatchWellFormed
<1>6. RevisionPinsState'
  <2>1. \A o \in shown : /\ env[o.handle] # Absent
                        /\ o.revision <= env[o.handle].revision
    BY <1>3, AbsentAssumption DEF Environments
  <2> QED BY <1>1, <1>3, <2>1 DEF IInv, RevisionPinsState
<1>7. BatchStepsAlone'
  <2>1. ASSUME NEW u \in Threads \ {t}, batch[u] # NoBatch,
               NEW j \in DOMAIN batch[u].items
        PROVE  holder'[batch[u].items[j].handle] = u
    BY <1>1, <2>1, BatchItem DEF Requests
  <2> QED BY <1>1, <1>5, <2>1 DEF IInv, BatchStepsAlone
<1> QED BY <1>4, <1>5, <1>6, <1>7 DEF IInv

------------------------------------------------------------------------------
(* The theorems *)

LEMMA NextInv == IInv /\ [Next]_vars => IInv'
<1> SUFFICES ASSUME IInv, [Next]_vars PROVE IInv'
  OBVIOUS
<1>1. ASSUME NEW h \in Handles, Construct(h) PROVE IInv'
  BY <1>1, ConstructInv
<1>2. ASSUME NEW h \in Handles, ReadDecision(h) PROVE IInv'
  BY <1>2, ReadDecisionInv
<1>3. ASSUME NEW h \in Handles, Step(h) PROVE IInv'
  BY <1>3, StepInv
<1>4. ASSUME NEW h \in Handles, NEW copy \in Handles, CloneState(h, copy)
      PROVE  IInv'
  <2>1. env[h] \in Environments
    BY <1>4 DEF CloneState, Free, IInv, TypeOK
  <2> QED BY <1>4, <2>1, CopyInv DEF CloneState, Session!Clone
<1>5. ASSUME NEW h \in Handles, NEW copy \in Handles, DeriveRoot(h, copy)
      PROVE  IInv'
  <2>1. PICK s \in Roots[env[h].state] \intersect Projectable :
          /\ env[h].revision < MaxRevision
          /\ env[copy] = Absent
          /\ env' = [env EXCEPT ![copy] = At(s, env[h].revision + 1)]
    BY <1>5 DEF DeriveRoot, Session!SyntheticRoot, Session!At, At
  <2>2. env[h] \in Environments
    BY <1>5 DEF DeriveRoot, Free, IInv, TypeOK
  <2>3. At(s, env[h].revision + 1) \in Environments
    BY <2>1, <2>2, GameAssumption DEF At, Environments
  <2> QED BY <1>5, <2>1, <2>3, CopyInv DEF DeriveRoot
<1>6. ASSUME NEW t \in Threads, StartBatch(t) PROVE IInv'
  BY <1>6, StartBatchInv
<1>7. ASSUME NEW t \in Threads, FinishBatch(t) PROVE IInv'
  BY <1>7, FinishBatchInv
<1>8. ASSUME NEW t \in Threads, NEW w \in 1..MaxWorkers, WorkerStep(t, w)
      PROVE  IInv'
  BY <1>8, WorkerStepInv
<1>9. CASE UNCHANGED vars
  BY <1>9 DEF vars, IInv, TypeOK, BatchWellFormed, RevisionPinsState,
              BatchStepsAlone
<1> QED BY <1>1, <1>2, <1>3, <1>4, <1>5, <1>6, <1>7, <1>8, <1>9 DEF Next

\* Sessions, batches and borrows keep their inductive invariant.
THEOREM Invariance == Spec => []IInv
<1>1. Init => IInv
  BY InitInv
<1>2. IInv /\ [Next]_vars => IInv'
  BY NextInv
<1> QED BY <1>1, <1>2, PTL DEF Spec

\* Every variable keeps its type: no revision overflows its width.
THEOREM TypeCorrect == Spec => []TypeOK
<1>1. IInv => TypeOK
  BY DEF IInv
<1> QED BY <1>1, Invariance, PTL

\* A request carrying a State's revision was made at the state it still has, so
\* comparing revisions refuses every stale request, whatever threads do.
THEOREM StaleRequestsRefused == Spec => []RevisionPinsState
<1>1. IInv => RevisionPinsState
  BY DEF IInv
<1> QED BY <1>1, Invariance, PTL

\* Workers and other threads never change what a batch does to its states.
THEOREM BatchIsolation == Spec => []BatchStepsAlone
<1>1. IInv => BatchStepsAlone
  BY DEF IInv
<1> QED BY <1>1, Invariance, PTL

------------------------------------------------------------------------------
(* The result of a batch *)

\* numeric.rs step_chunk: an answer is what the request deserved alone.
AnswersStand ==
  \A t \in Threads : batch[t] # NoBatch =>
    \A k \in DOMAIN batch[t].items :
      LET b == batch[t]
          r == b.items[k]
      IN  b.outcome[k] # "Pending" =>
            b.outcome[k] = Answer(b.before[k], r.revision, r.index)

\* A worker answers for the state the batch borrowed, and no later step of
\* any thread changes the answer.
LEMMA AnswersStandInv ==
  ASSUME IInv, AnswersStand, [Next]_vars
  PROVE  AnswersStand'
<1>1. CASE UNCHANGED batch
  BY <1>1 DEF AnswersStand
<1>2. ASSUME NEW t \in Threads, StartBatch(t)
      PROVE  AnswersStand'
  <2>1. PICK n \in 1..MaxBatch :
          \E handles \in [1..n -> {h \in Handles : Free(h)}],
             tokens \in [1..n -> seen], indices \in [1..n -> Indices] :
            /\ IsInjective(handles)
            /\ batch' = [batch EXCEPT ![t] =
                 [items   |-> [k \in 1..n |-> [handle   |-> handles[k],
                                               revision |-> tokens[k].revision,
                                               index    |-> indices[k]]],
                  outcome |-> [k \in 1..n |-> "Pending"],
                  before  |-> [k \in 1..n |-> env[handles[k]]]]]
            /\ holder' = [h \in Handles |-> IF h \in Range(handles) THEN t
                                            ELSE holder[h]]
    BY <1>2 DEF StartBatch
  <2>2. PICK items, before :
          /\ DOMAIN items = 1..n
          /\ batch' = [batch EXCEPT ![t] =
               [items |-> items, outcome |-> [k \in 1..n |-> "Pending"],
                before |-> before]]
    BY <2>1
  <2> DEFINE started == [items |-> items, outcome |-> [k \in 1..n |-> "Pending"],
                         before |-> before]
  <2>3. /\ batch'[t] = started
        /\ \A u \in Threads \ {t} : batch'[u] = batch[u]
    BY <2>2 DEF IInv, TypeOK
  <2>4. \A k \in DOMAIN started.items : started.outcome[k] = "Pending"
    BY <2>2
  <2> HIDE DEF started
  <2> QED BY <2>3, <2>4 DEF AnswersStand
<1>3. ASSUME NEW t \in Threads, FinishBatch(t)
      PROVE  AnswersStand'
  <2>1. /\ batch'[t] = NoBatch
        /\ \A u \in Threads \ {t} : batch'[u] = batch[u]
    BY <1>3 DEF FinishBatch, IInv, TypeOK
  <2> QED BY <2>1 DEF AnswersStand
<1>4. ASSUME NEW t \in Threads, NEW w \in 1..MaxWorkers, WorkerStep(t, w)
      PROVE  AnswersStand'
  <2> DEFINE b == batch[t]
  <2>1. PICK k \in NextItem(b, w) :
          batch' = [batch EXCEPT ![t].outcome[k] =
             Answer(env[b.items[k].handle], b.items[k].revision,
                    b.items[k].index)]
    BY <1>4 DEF WorkerStep
  <2>2. /\ b # NoBatch
        /\ w \in 1..Workers(Len(b.items))
        /\ k \in Chunk(Len(b.items), w)
        /\ b.outcome[k] = "Pending"
    BY <1>4, <2>1 DEF WorkerStep, NextItem
  <2>3. b \in Batches /\ Len(b.items) \in Nat
    BY <2>2 DEF IInv, TypeOK, Batches
  <2>4. k \in DOMAIN b.items
    BY <2>2, <2>3, ChunkWithin DEF Batches
  <2>5. /\ k \in DOMAIN b.outcome
        /\ env[b.items[k].handle] = b.before[k]
    BY <2>2, <2>4, BatchItem DEF IInv, BatchStepsAlone
  <2> DEFINE answer == Answer(b.before[k], b.items[k].revision, b.items[k].index)
             moved  == [b EXCEPT !.outcome = [b.outcome EXCEPT ![k] = answer]]
  <2>6. /\ batch'[t] = moved
        /\ \A u \in Threads \ {t} : batch'[u] = batch[u]
    BY <2>1, <2>5 DEF IInv, TypeOK
  <2>7. /\ moved.items = b.items /\ moved.before = b.before
        /\ moved.outcome[k] = answer
        /\ \A j \in DOMAIN b.items \ {k} : moved.outcome[j] = b.outcome[j]
    BY <2>3, <2>5, <2>2, BatchItem DEF Batches
  <2>8. ASSUME NEW j \in DOMAIN moved.items, moved.outcome[j] # "Pending"
        PROVE  moved.outcome[j] =
                 Answer(moved.before[j], moved.items[j].revision,
                        moved.items[j].index)
    BY <2>2, <2>7, <2>8 DEF AnswersStand
  <2> HIDE DEF moved
  <2> QED BY <2>6, <2>8 DEF AnswersStand
<1>5. ASSUME NEW h \in Handles, NEW copy \in Handles,
             \/ Construct(h) \/ ReadDecision(h) \/ Step(h)
             \/ CloneState(h, copy) \/ DeriveRoot(h, copy)
      PROVE  UNCHANGED batch
  BY <1>5 DEF Construct, ReadDecision, Step, CloneState, DeriveRoot
<1>6. CASE UNCHANGED vars
  BY <1>1, <1>6 DEF vars
<1> QED BY <1>1, <1>2, <1>3, <1>4, <1>5, <1>6 DEF Next

\* A nonempty set of numbers has a first one.
LEMMA FirstIsLeast ==
  ASSUME NEW S \in SUBSET Nat, S # {}
  PROVE  FirstOf(S) \in S /\ \A j \in S : FirstOf(S) <= j
<1> DEFINE below == OpToRel(<, Nat)
<1>1. IsWellFoundedOn(below, Nat)
  BY NatLessThanWellFounded
<1>2. PICK x \in S : \A y \in S : ~(<<y, x>> \in below)
  <2> HIDE DEF below
  <2> QED BY <1>1, WFMin
<1>3. ASSUME NEW y \in S
      PROVE  x <= y
  <2>1. <<y, x>> \in Nat \X Nat /\ ~(<<y, x>> \in below)
    BY <1>2
  <2>2. below = {ss \in Nat \X Nat : ss[1] < ss[2]}
    BY DEF OpToRel
  <2>3. ~(y < x)
    <3> HIDE DEF below
    <3> QED BY <2>1, <2>2
  <2> QED BY <2>3
<1> QED BY <1>3 DEF FirstOf

\* numeric.rs chunk_sizes: how many items precede those of worker w.
Before(n, w) ==
  (w - 1) * (n \div Workers(n))
    + (IF w - 1 < n % Workers(n) THEN w - 1 ELSE n % Workers(n))

LEMMA WorkersType ==
  ASSUME NEW n \in Nat
  PROVE  /\ Workers(n) \in Nat \ {0}
         /\ n \div Workers(n) \in Nat
         /\ n % Workers(n) \in 0..(Workers(n) - 1)
         /\ n = Workers(n) * (n \div Workers(n)) + (n % Workers(n))
<1>1. Workers(n) \in Nat \ {0}
  <2>1. n \div MinPerWorker \in Nat
    BY BatchAssumption
  <2> QED BY <2>1, BatchAssumption DEF Workers
<1> QED BY <1>1

\* Each chunk begins where the one before it ends: the first at the start of
\* the batch, the last up to its end.
LEMMA ChunksJoin ==
  ASSUME NEW n \in Nat
  PROVE  /\ Before(n, 1) = 0
         /\ Before(n, Workers(n) + 1) = n
         /\ \A w \in 1..(Workers(n) + 1) : Before(n, w) \in Nat
         /\ \A w \in 1..Workers(n) :
              Chunk(n, w) = (Before(n, w) + 1)..Before(n, w + 1)
         /\ \A v, w \in 1..(Workers(n) + 1) :
              v <= w => Before(n, v) <= Before(n, w)
<1> DEFINE W     == Workers(n)
           base  == n \div W
           extra == n % W
<1>1. W \in Nat \ {0} /\ base \in Nat /\ extra \in 0..(W - 1)
      /\ n = W * base + extra
  BY WorkersType
<1>2. \A w : Before(n, w) = (w - 1) * base
                            + (IF w - 1 < extra THEN w - 1 ELSE extra)
  BY DEF Before
<1>3. \A w : Chunk(n, w) =
        ((w - 1) * base + (IF w - 1 < extra THEN w - 1 ELSE extra) + 1)
        ..((w - 1) * base + (IF w - 1 < extra THEN w - 1 ELSE extra)
           + base + (IF w <= extra THEN 1 ELSE 0))
  BY DEF Chunk
<1> HIDE DEF W, base, extra
<1>4. Before(n, 1) = 0
  BY <1>1, <1>2
<1>5. Before(n, W + 1) = n
  <2>1. W + 1 - 1 = W
    BY <1>1
  <2>2. ~(W + 1 - 1 < extra)
    BY <1>1
  <2> QED BY <1>1, <1>2, <2>1, <2>2
<1>6. ASSUME NEW v \in 1..(W + 1), NEW w \in 1..(W + 1), v <= w
      PROVE  (v - 1) * base \in Nat /\ (v - 1) * base <= (w - 1) * base
  <2>1. v - 1 \in Nat /\ w - 1 \in Nat /\ v - 1 <= w - 1
    BY <1>1, <1>6
  <2> QED BY <1>1, <2>1
<1>7. \A w \in 1..(W + 1) : Before(n, w) \in Nat
  <2> TAKE w \in 1..(W + 1)
  <2> DEFINE whole == (w - 1) * base
  <2>1. whole \in Nat /\ w - 1 \in Nat
    <3>1. w <= w /\ w - 1 \in Nat
      BY <1>1
    <3> QED BY <1>6, <3>1
  <2>2. Before(n, w) = whole + (IF w - 1 < extra THEN w - 1 ELSE extra)
    BY <1>2
  <2> HIDE DEF whole
  <2> QED BY <1>1, <2>1, <2>2
<1>8. ASSUME NEW v \in 1..(W + 1), NEW w \in 1..(W + 1), v <= w
      PROVE  Before(n, v) <= Before(n, w)
  <2> DEFINE p == (v - 1) * base
             q == (w - 1) * base
  <2>1. p \in Nat /\ p <= q
    BY <1>6, <1>8
  <2>2. q \in Nat
    <3>1. w <= w
      BY <1>1
    <3> QED BY <1>6, <3>1
  <2>3. /\ Before(n, v) = p + (IF v - 1 < extra THEN v - 1 ELSE extra)
        /\ Before(n, w) = q + (IF w - 1 < extra THEN w - 1 ELSE extra)
    BY <1>2
  <2>4. v \in Nat /\ w \in Nat /\ extra \in Nat
    BY <1>1
  <2> HIDE DEF p, q
  <2> QED BY <1>8, <2>1, <2>2, <2>3, <2>4
<1>9. ASSUME NEW w \in 1..W
      PROVE  Chunk(n, w) = (Before(n, w) + 1)..Before(n, w + 1)
  <2> DEFINE p == (w - 1) * base
             q == (w + 1 - 1) * base
  <2>1. w \in Nat /\ w + 1 \in 1..(W + 1) /\ w \in 1..(W + 1) /\ w <= w + 1
    BY <1>1
  <2>2. p \in Nat /\ q = p + base
    <3>1. p \in Nat
      BY <1>6, <2>1
    <3>2. (w + 1 - 1) * base = (w - 1) * base + base
      BY <1>1, <2>1
    <3> QED BY <3>1, <3>2
  <2>3. /\ Before(n, w) = p + (IF w - 1 < extra THEN w - 1 ELSE extra)
        /\ Before(n, w + 1) = q + (IF w + 1 - 1 < extra THEN w + 1 - 1 ELSE extra)
        /\ Chunk(n, w) =
             (p + (IF w - 1 < extra THEN w - 1 ELSE extra) + 1)
             ..(p + (IF w - 1 < extra THEN w - 1 ELSE extra)
                + base + (IF w <= extra THEN 1 ELSE 0))
    BY <1>2, <1>3
  <2> HIDE DEF p, q
  <2>4. p + (IF w - 1 < extra THEN w - 1 ELSE extra)
          + base + (IF w <= extra THEN 1 ELSE 0) = Before(n, w + 1)
    <3>1. CASE w <= extra
      <4>1. w - 1 < extra /\ (w < extra \/ w = extra)
        BY <1>1, <2>1, <3>1
      <4> QED BY <1>1, <2>1, <2>2, <2>3, <3>1, <4>1
    <3>2. CASE ~(w <= extra)
      <4>1. (w - 1 < extra => FALSE) /\ ~(w + 1 - 1 < extra)
        BY <1>1, <2>1, <3>2
      <4> QED BY <1>1, <2>1, <2>2, <2>3, <3>2, <4>1
    <3> QED BY <3>1, <3>2
  <2> QED BY <2>3, <2>4
<1> QED BY <1>4, <1>5, <1>7, <1>8, <1>9 DEF W

\* Every item is in the chunk of some worker.
LEMMA ChunksCover ==
  ASSUME NEW n \in Nat, NEW k \in 1..n
  PROVE  \E w \in 1..Workers(n) : k \in Chunk(n, w)
<1> DEFINE W       == Workers(n)
           reached == {w \in 1..W : k <= Before(n, w + 1)}
           w       == FirstOf(reached)
<1>1. W \in Nat \ {0}
  BY WorkersType
<1>2. W \in reached
  BY <1>1, ChunksJoin
<1>3. w \in 1..W /\ k <= Before(n, w + 1) /\ \A v \in reached : w <= v
  <2>1. reached \in SUBSET Nat /\ reached # {}
    BY <1>1, <1>2
  <2>2. w \in reached /\ \A v \in reached : w <= v
    <3> HIDE DEF reached
    <3> QED BY <2>1, FirstIsLeast
  <2> QED BY <2>2
<1> HIDE DEF w
<1>4. Before(n, w) < k
  <2>1. CASE w = 1
    BY <2>1, ChunksJoin
  <2>2. CASE w # 1
    <3>1. w - 1 \in 1..W /\ w - 1 + 1 = w /\ ~(w <= w - 1)
      BY <1>1, <1>3, <2>2
    <3>2. ~(k <= Before(n, w))
      BY <1>3, <3>1
    <3>3. Before(n, w) \in Nat
      BY <1>1, <1>3, ChunksJoin
    <3> QED BY <3>2, <3>3
  <2> QED BY <2>1, <2>2
<1>5. /\ Before(n, w) \in Nat
      /\ Before(n, w + 1) \in Nat
      /\ Chunk(n, w) = (Before(n, w) + 1)..Before(n, w + 1)
  <2>1. w \in 1..(W + 1) /\ w + 1 \in 1..(W + 1)
    BY <1>1, <1>3
  <2> QED BY <1>3, <2>1, ChunksJoin
<1>6. k \in Chunk(n, w)
  BY <1>3, <1>4, <1>5
<1> QED BY <1>3, <1>6

\* The items of a worker precede those of every later one.
LEMMA ChunksOrdered ==
  ASSUME NEW n \in Nat, NEW v \in 1..Workers(n), NEW w \in 1..Workers(n),
         v < w, NEW j \in Chunk(n, v), NEW k \in Chunk(n, w)
  PROVE  j < k
<1> DEFINE W == Workers(n)
<1>1. W \in Nat \ {0}
  BY WorkersType
<1>2. /\ v \in 1..(W + 1) /\ v + 1 \in 1..(W + 1)
      /\ w \in 1..(W + 1) /\ w + 1 \in 1..(W + 1)
      /\ v + 1 <= w
  BY <1>1
<1>3. /\ Before(n, v) \in Nat /\ Before(n, v + 1) \in Nat
      /\ Before(n, w) \in Nat /\ Before(n, w + 1) \in Nat
      /\ Before(n, v + 1) <= Before(n, w)
  BY <1>2, ChunksJoin
<1>4. /\ j \in (Before(n, v) + 1)..Before(n, v + 1)
      /\ k \in (Before(n, w) + 1)..Before(n, w + 1)
  BY ChunksJoin
<1> QED BY <1>3, <1>4

\* numeric.rs: the join over the workers finds the first refusal of the whole
\* batch, else an export that fails anywhere.
LEMMA JoinIsSerial ==
  ASSUME IInv, AnswersStand, NEW t \in Threads, batch[t] # NoBatch,
         Stepped(batch[t])
  PROVE  BatchResult(batch[t]) = SerialResult(batch[t])
<1> DEFINE b       == batch[t]
           n       == Len(b.items)
           W       == 1..Workers(n)
           mine(w) == Chunk(n, w)
           bad(w)  == {k \in mine(w) : b.outcome[k] # "Ok"}
           refused == {k \in 1..n : b.outcome[k] # "Ok"}
           lost(k) == env[b.items[k].handle].state \notin Exportable
           answer(k) == Answer(b.before[k], b.items[k].revision, b.items[k].index)
           refusing == {w \in W : WorkerResult(b, w) \in Refusals}
           failing  == {w \in W : WorkerResult(b, w) = "ExportError"}
<1>1. n \in Nat /\ DOMAIN b.items = 1..n
  BY DEF IInv, TypeOK, Batches
<1>2. ASSUME NEW k \in 1..n
      PROVE  /\ b.outcome[k] = answer(k)
             /\ b.outcome[k] \in Refusals \union {"Ok"}
             /\ lost(k) <=> After(b.before[k], b.items[k].revision,
                                  b.items[k].index).state \notin Exportable
  <2>1. b.outcome[k] # "Pending" /\ b.outcome[k] \in Outcomes
    BY <1>1, <1>2, BatchItem DEF Stepped
  <2>2. b.outcome[k] = answer(k)
    BY <1>1, <2>1 DEF AnswersStand
  <2>3. env[b.items[k].handle] =
          After(b.before[k], b.items[k].revision, b.items[k].index)
    BY <1>1, <2>1 DEF IInv, BatchStepsAlone
  <2> QED BY <2>1, <2>2, <2>3 DEF Outcomes
<1>3. \A w \in W : mine(w) \subseteq 1..n
  BY <1>1, ChunkWithin
<1>4. \A w \in W :
        WorkerResult(b, w) =
          IF bad(w) # {} THEN b.outcome[FirstOf(bad(w))]
          ELSE IF \E k \in mine(w) : lost(k) THEN "ExportError" ELSE "Ok"
  BY DEF WorkerResult
<1>5. /\ BatchResult(b) =
           IF refusing # {} THEN WorkerResult(b, FirstOf(refusing))
           ELSE IF failing # {} THEN "ExportError" ELSE "Ok"
      /\ W \in SUBSET Nat
  BY <1>1, WorkersType DEF BatchResult
<1>6. SerialResult(b) =
        IF refused # {} THEN b.outcome[FirstOf(refused)]
        ELSE IF \E k \in 1..n : lost(k) THEN "ExportError" ELSE "Ok"
  <2>1. {k \in DOMAIN b.items : answer(k) # "Ok"} = refused
    BY <1>1, <1>2
  <2>2. refused # {} => FirstOf(refused) \in 1..n
    <3>1. refused \in SUBSET Nat /\ refused \in SUBSET (1..n)
      BY <1>1
    <3> HIDE DEF refused
    <3> QED BY <3>1, FirstIsLeast
  <2>3. refused # {} => b.outcome[FirstOf(refused)] = answer(FirstOf(refused))
    BY <1>2, <2>2
  <2>4. (\E k \in 1..n : lost(k)) <=>
        \E k \in DOMAIN b.items :
          After(b.before[k], b.items[k].revision, b.items[k].index).state
            \notin Exportable
    BY <1>1, <1>2
  <2>5. SerialResult(b) =
          IF {k \in DOMAIN b.items : answer(k) # "Ok"} # {}
          THEN answer(FirstOf({k \in DOMAIN b.items : answer(k) # "Ok"}))
          ELSE IF \E k \in DOMAIN b.items :
                    After(b.before[k], b.items[k].revision,
                          b.items[k].index).state \notin Exportable
          THEN "ExportError" ELSE "Ok"
    BY DEF SerialResult
  <2> HIDE DEF refused, answer, lost, b, n
  <2> QED BY <2>1, <2>3, <2>4, <2>5
<1>7. "Ok" \notin Refusals /\ "ExportError" \notin Refusals
  BY DEF Refusals
<1>8. ASSUME NEW w \in W, bad(w) # {}
      PROVE  /\ FirstOf(bad(w)) \in bad(w)
             /\ \A k \in bad(w) : FirstOf(bad(w)) <= k
             /\ WorkerResult(b, w) = b.outcome[FirstOf(bad(w))]
             /\ WorkerResult(b, w) \in Refusals
  <2>1. bad(w) \in SUBSET Nat /\ bad(w) \in SUBSET (1..n)
    BY <1>1, <1>3
  <2>2. FirstOf(bad(w)) \in bad(w) /\ \A k \in bad(w) : FirstOf(bad(w)) <= k
    <3> HIDE DEF bad
    <3> QED BY <1>8, <2>1, FirstIsLeast
  <2>3. b.outcome[FirstOf(bad(w))] \in Refusals
    <3>1. FirstOf(bad(w)) \in 1..n /\ b.outcome[FirstOf(bad(w))] # "Ok"
      BY <2>1, <2>2
    <3> QED BY <1>2, <3>1
  <2>4. WorkerResult(b, w) = b.outcome[FirstOf(bad(w))]
    <3> HIDE DEF bad, mine, lost
    <3> QED BY <1>4, <1>8
  <2> QED BY <2>2, <2>3, <2>4
<1>9. ASSUME NEW w \in W, bad(w) = {}
      PROVE  WorkerResult(b, w) =
               IF \E k \in mine(w) : lost(k) THEN "ExportError" ELSE "Ok"
  <2> HIDE DEF bad, mine, lost
  <2> QED BY <1>4, <1>9
<1>10. CASE refused # {}
  <2> DEFINE first == FirstOf(refused)
  <2>1. first \in refused /\ \A k \in refused : first <= k
    <3>1. refused \in SUBSET Nat
      BY <1>1
    <3> HIDE DEF refused
    <3> QED BY <1>10, <3>1, FirstIsLeast
  <2>2. PICK w \in W : first \in mine(w)
    BY <1>1, <2>1, ChunksCover
  <2> HIDE DEF first
  <2>3. first \in bad(w) /\ bad(w) # {}
    BY <2>1, <2>2
  <2>4. FirstOf(bad(w)) = first
    <3>1. FirstOf(bad(w)) \in refused /\ FirstOf(bad(w)) <= first
      BY <1>3, <1>8, <2>3
    <3>2. first <= FirstOf(bad(w))
      BY <2>1, <3>1
    <3>3. first \in Nat /\ FirstOf(bad(w)) \in Nat
      BY <1>1, <2>1, <3>1
    <3> HIDE DEF bad
    <3> QED BY <3>1, <3>2, <3>3
  <2>5. w \in refusing /\ WorkerResult(b, w) = b.outcome[first]
    BY <1>8, <2>3, <2>4
  <2>6. ASSUME NEW v \in refusing
        PROVE  ~(v < w)
    <3>1. bad(v) # {}
      BY <1>7, <1>9, <2>6
    <3>2. PICK j \in mine(v) : j \in refused
      BY <1>3, <3>1
    <3>3. j \in Nat /\ first \in Nat /\ first <= j
      BY <1>1, <2>1, <3>2
    <3>4. v < w => j < first
      BY <1>1, <2>2, <2>6, <3>2, ChunksOrdered
    <3> QED BY <3>3, <3>4
  <2>7. FirstOf(refusing) = w
    <3>1. refusing \in SUBSET Nat /\ refusing # {}
      BY <1>5, <2>5
    <3>2. FirstOf(refusing) \in refusing /\ FirstOf(refusing) <= w
      <4> HIDE DEF refusing
      <4> QED BY <2>5, <3>1, FirstIsLeast
    <3>3. ~(FirstOf(refusing) < w)
      BY <2>6, <3>2
    <3>4. FirstOf(refusing) \in Nat /\ w \in Nat
      BY <1>5, <3>1, <3>2
    <3> HIDE DEF refusing
    <3> QED BY <3>2, <3>3, <3>4
  <2>8. BatchResult(b) = SerialResult(b)
    <3> HIDE DEF refusing, refused, failing, b
    <3> QED BY <1>5, <1>6, <1>10, <2>5, <2>7 DEF first
  <2> QED BY <2>8
<1>11. CASE refused = {}
  <2>1. \A w \in W : bad(w) = {}
    BY <1>3, <1>11
  <2>2. refusing = {}
    BY <1>7, <1>9, <2>1
  <2>3. (\E k \in 1..n : lost(k)) <=> failing # {}
    <3>1. ASSUME NEW k \in 1..n, lost(k)
          PROVE  failing # {}
      <4>1. PICK w \in W : k \in mine(w)
        BY <1>1, ChunksCover
      <4>2. WorkerResult(b, w) = "ExportError"
        BY <1>9, <2>1, <3>1, <4>1
      <4> QED BY <4>2
    <3>2. ASSUME NEW w \in failing
          PROVE  \E k \in 1..n : lost(k)
      <4>1. \E k \in mine(w) : lost(k)
        BY <1>9, <2>1
      <4> QED BY <1>3, <4>1
    <3> QED BY <3>1, <3>2
  <2>4. BatchResult(b) = SerialResult(b)
    <3> HIDE DEF refusing, refused, failing, b, lost
    <3> QED BY <1>5, <1>6, <1>11, <2>2, <2>3
  <2> QED BY <2>4
<1> QED BY <1>10, <1>11

\* The number of workers, and how they interleave, never changes what a batch
\* reports: its result is that of stepping one state after another.
THEOREM ReportsAreSerial == Spec => []BatchReportsSerially
<1>1. Init => AnswersStand
  BY DEF Init, AnswersStand
<1>2. IInv /\ AnswersStand /\ [Next]_vars => AnswersStand'
  BY AnswersStandInv
<1>3. IInv /\ AnswersStand => BatchReportsSerially
  BY JoinIsSerial DEF BatchReportsSerially
<1> QED BY <1>1, <1>2, <1>3, Invariance, PTL DEF Spec

------------------------------------------------------------------------------
(* Refinement *)

\* An accepted answer is a step of the abstract session, a refusal none.
LEMMA AnswerRefines ==
  ASSUME NEW h \in Handles, env[h] \in Environments, NEW r, NEW i \in Int,
         env \in [Handles -> Environments \union {Absent}],
         env' = [env EXCEPT ![h] = After(env[h], r, i)]
  PROVE  Session!Next \/ UNCHANGED env
<1>1. CASE Answer(env[h], r, i) = "Ok"
  <2> DEFINE c == Choice(env[h], i)
  <2>1. /\ env[h].revision < MaxRevision
        /\ c \in Range(Legal[env[h].state])
        /\ Successor[env[h].state][c] \in Projectable
    BY <1>1, AcceptedAnswer
  <2>2. env' = [env EXCEPT ![h] =
                  Session!At(Successor[env[h].state][c], env[h].revision + 1)]
    BY <1>1 DEF After, At, Session!At
  <2>3. env[h] # Absent
    BY AbsentAssumption
  <2>4. Session!Advance(h)
    <3> HIDE DEF c
    <3> QED BY <2>1, <2>2, <2>3 DEF Session!Advance, Session!Range, Range
  <2> QED BY <2>4 DEF Session!Next
<1>2. CASE Answer(env[h], r, i) # "Ok"
  BY <1>2 DEF After
<1> QED BY <1>1, <1>2

\* Threads, batches and workers implement the sequential session of each State.
THEOREM Refinement == Spec => ImplementsSession
<1>1. Init => Session!Init
  BY DEF Init
<1>2. ASSUME IInv, [Next]_vars
      PROVE  [Session!Next]_env
  <2>1. CASE UNCHANGED vars
    BY <2>1 DEF vars
  <2>2. ASSUME NEW h \in Handles, Construct(h) PROVE Session!Next
    BY <2>2 DEF Construct, Session!Next
  <2>3. ASSUME NEW h \in Handles, NEW copy \in Handles,
               CloneState(h, copy) \/ DeriveRoot(h, copy)
        PROVE  Session!Next
    BY <2>3 DEF CloneState, DeriveRoot, Session!Next
  <2>4. ASSUME NEW h \in Handles, Step(h) PROVE Session!Next \/ UNCHANGED env
    <3>1. PICK token \in seen, i \in 0..Len(Legal[env[h].state]) :
            env' = [env EXCEPT ![h] = After(env[h], token.revision, i)]
      BY <2>4 DEF Step
    <3>2. env[h] \in Environments /\ i \in Int
      BY <2>4, <3>1, <1>2 DEF Step, Free, IInv, TypeOK
    <3> QED BY <1>2, <3>1, <3>2, AnswerRefines DEF IInv, TypeOK
  <2>5. ASSUME NEW t \in Threads, NEW w, WorkerStep(t, w)
        PROVE  Session!Next \/ UNCHANGED env
    <3>1. PICK k \in NextItem(batch[t], w) :
            env' = [env EXCEPT ![batch[t].items[k].handle] =
                      After(env[batch[t].items[k].handle],
                            batch[t].items[k].revision, batch[t].items[k].index)]
      BY <2>5 DEF WorkerStep
    <3>2. batch[t] # NoBatch /\ k \in DOMAIN batch[t].items
      BY <1>2, <2>5, <3>1, ChunkWithin
         DEF WorkerStep, NextItem, IInv, TypeOK, Batches
    <3>3. /\ batch[t].items[k] \in Requests
          /\ env[batch[t].items[k].handle] \in Environments
      BY <1>2, <3>2, BatchItem
    <3> QED BY <1>2, <3>1, <3>3, AnswerRefines DEF IInv, TypeOK, Requests
  <2>6. ASSUME Next, ~ \E h \in Handles :
                          \/ Construct(h) \/ Step(h)
                          \/ \E copy \in Handles :
                                CloneState(h, copy) \/ DeriveRoot(h, copy),
               ~ \E t \in Threads : \E w \in 1..MaxWorkers : WorkerStep(t, w)
        PROVE  UNCHANGED env
    BY <2>6 DEF Next, ReadDecision, StartBatch, FinishBatch
  <2> QED BY <1>2, <2>1, <2>2, <2>3, <2>4, <2>5, <2>6
<1> QED BY <1>1, <1>2, Invariance, PTL DEF Spec, ImplementsSession, Session!Spec
==============================================================================

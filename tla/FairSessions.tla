---------------------------- MODULE FairSessions ----------------------------
(***************************************************************************)
(* The fair environment (sts_env/environment.rs) behind the Python binding *)
(* (py_sts): State objects shared by Python threads, single steps under    *)
(* the interpreter lock, and numeric batches that borrow their states,     *)
(* release that lock and step the states on worker threads.                *)
(*                                                                         *)
(* A thread that holds the interpreter lock is one action.  A batch is     *)
(* several: its workers interleave with each other and with every other    *)
(* thread.  A request that is refused changes nothing.                     *)
(***************************************************************************)
EXTENDS PublicGame, Integers, FiniteSets, SequencesExt

CONSTANTS
  Threads,         \* Python threads
  MaxWorkers,      \* STS_NUMERIC_THREADS
  MinPerWorker,    \* MIN_STATES_PER_WORKER, 64 in the code
  MaxBatch,        \* bound on the states of a batch
  Indices,         \* the list indices callers send, negative ones too
  Exportable,      \* states the numeric tables can express
  NoBatch, Nobody

ASSUME BatchAssumption ==
  /\ {MaxWorkers, MinPerWorker, MaxBatch} \subseteq Nat \ {0}
  /\ Indices \subseteq Int
  /\ Nobody \notin Threads
  /\ Exportable \subseteq RunStates

VARIABLES
  env,             \* env[h]: the environment behind handle h
  holder,          \* holder[h]: the thread whose batch borrows h mutably
  batch,           \* batch[t]: the batch thread t runs
  seen             \* auxiliary: every decision published for a handle

vars == <<env, holder, batch, seen>>

\* What each handle promises; the calls below are its steps.
Session == INSTANCE DecisionSession WITH env <- env

Refusals == {"StaleDecision", "RevisionExhausted", "InvalidChoice",
             "DecisionUnavailable"}
Outcomes == {"Pending", "Ok"} \union Refusals
Requests == [handle : Handles, revision : 0..MaxRevision, index : Int]
Batches == [items : Seq(Requests), outcome : Seq(Outcomes),
            before : Seq(Environments)]
Sightings == [handle : Handles, state : RunStates, revision : 0..MaxRevision]

Sighting(h, e) == [handle |-> h, state |-> e.state, revision |-> e.revision]
\* Mutant: a State is used while a batch borrows it.
FreeIgnoringBorrow(h) == env[h] # Absent
Free(h) == env[h] # Absent /\ holder[h] = Nobody

------------------------------------------------------------------------------
(* One step of one environment: its answer and what it becomes *)

Choice(e, index) == Legal[e.state][index + 1]

\* Mutant: the revision counter is not checked before it is advanced.
AnswerUnchecked(e, revision, index) ==
  IF index < 0 THEN "InvalidChoice"
  ELSE IF revision # e.revision THEN "StaleDecision"
  ELSE IF index + 1 \notin DOMAIN Legal[e.state] THEN "InvalidChoice"
  ELSE IF Successor[e.state][Choice(e, index)] \notin Projectable
  THEN "DecisionUnavailable"
  ELSE "Ok"

\* Indices are those of the public list, from 0.
Answer(e, revision, index) ==
  IF index < 0 THEN "InvalidChoice"
  ELSE IF revision # e.revision THEN "StaleDecision"
  ELSE IF e.revision = MaxRevision THEN "RevisionExhausted"
  ELSE IF e.state \notin Projectable THEN "DecisionUnavailable"
  ELSE IF index + 1 \notin DOMAIN Legal[e.state] THEN "InvalidChoice"
  ELSE IF Successor[e.state][Choice(e, index)] = Refused THEN "InvalidChoice"
  ELSE IF Successor[e.state][Choice(e, index)] \notin Projectable
  THEN "DecisionUnavailable"
  ELSE "Ok"

\* Mutant: the new state keeps the old revision.
AfterKeepingRevision(e, revision, index) ==
  IF Answer(e, revision, index) = "Ok"
  THEN At(Successor[e.state][Choice(e, index)], e.revision)
  ELSE e

\* Mutant: the state is committed before its decision is projected.
AfterCommittingFirst(e, revision, index) ==
  IF \/ Answer(e, revision, index) = "Ok"
     \/ /\ Answer(e, revision, index) = "DecisionUnavailable"
        /\ Successor[e.state][Choice(e, index)] \in RunStates
  THEN At(Successor[e.state][Choice(e, index)], e.revision + 1)
  ELSE e

\* State and revision are committed together, after the successor is projected.
After(e, revision, index) ==
  IF Answer(e, revision, index) = "Ok"
  THEN At(Successor[e.state][Choice(e, index)], e.revision + 1)
  ELSE e

------------------------------------------------------------------------------
(* Calls that keep the interpreter lock *)

Publish(h, e) == seen' = seen \union {Sighting(h, e)}

Construct(h) ==
  /\ Session!New(h)
  /\ UNCHANGED <<holder, batch, seen>>

ReadDecision(h) ==
  /\ Free(h)
  /\ env[h].state \in Projectable
  /\ Publish(h, env[h])
  /\ UNCHANGED <<env, holder, batch>>

CloneState(h, copy) ==
  /\ Free(h)
  /\ Session!Clone(h, copy)
  /\ UNCHANGED <<holder, batch, seen>>

DeriveRoot(h, copy) ==
  /\ Free(h)
  /\ Session!SyntheticRoot(h, copy)
  /\ UNCHANGED <<holder, batch, seen>>

\* The request carries the revision of some decision published before, which
\* may be an old one, or that of another handle.
Step(h) ==
  /\ Free(h)
  /\ \E token \in seen, index \in 0..Len(Legal[env[h].state]) :
       /\ Answer(env[h], token.revision, index) = "Ok"
       /\ env' = [env EXCEPT ![h] = After(@, token.revision, index)]
       /\ Publish(h, env'[h])
  /\ UNCHANGED <<holder, batch>>

------------------------------------------------------------------------------
(* Numeric batches *)

Workers(n) ==
  LET wanted == n \div MinPerWorker
      capped == IF wanted < MaxWorkers THEN wanted ELSE MaxWorkers
  IN  IF capped = 0 THEN 1 ELSE capped

\* The items of worker w: contiguous chunks, the first ones longer by one.
Chunk(n, w) ==
  LET base  == n \div Workers(n)
      extra == n % Workers(n)
      start == (w - 1) * base + (IF w - 1 < extra THEN w - 1 ELSE extra)
  IN  (start + 1)..(start + base + (IF w <= extra THEN 1 ELSE 0))

\* All states are borrowed before any is stepped: a repeated or borrowed one
\* refuses the batch.  before: auxiliary, the environments at that moment.
StartBatch(t) ==
  /\ batch[t] = NoBatch
  /\ \E n \in 1..MaxBatch :
       \E handles \in [1..n -> {h \in Handles : Free(h)}],
          tokens \in [1..n -> seen], indices \in [1..n -> Indices] :
         /\ IsInjective(handles)
         /\ batch' = [batch EXCEPT ![t] =
              [items   |-> [k \in 1..n |-> [handle   |-> handles[k],
                                            revision |-> tokens[k].revision,
                                            index    |-> indices[k]]],
               outcome |-> [k \in 1..n |-> "Pending"],
               before  |-> [k \in 1..n |-> env[handles[k]]]]]
         /\ holder' = [h \in Handles |-> IF h \in Range(handles) THEN t
                                         ELSE holder[h]]
  /\ UNCHANGED <<env, seen>>

\* Mutant: a refusal stops every worker.
NextItemUntilRefusal(b, w) ==
  {k \in Chunk(Len(b.items), w) :
     /\ b.outcome[k] = "Pending"
     /\ \A j \in DOMAIN b.items : b.outcome[j] \in {"Pending", "Ok"}}

\* The next state of worker w's chunk; a refusal does not stop the worker.
NextItem(b, w) ==
  {k \in Chunk(Len(b.items), w) :
     /\ b.outcome[k] = "Pending"
     /\ \A j \in Chunk(Len(b.items), w) : j < k => b.outcome[j] # "Pending"}

WorkerStep(t, w) ==
  /\ batch[t] # NoBatch
  /\ w \in 1..Workers(Len(batch[t].items))
  /\ \E k \in NextItem(batch[t], w) :
       LET item == batch[t].items[k]
           e    == env[item.handle]
       IN  /\ batch' = [batch EXCEPT ![t].outcome[k] =
                          Answer(e, item.revision, item.index)]
           /\ env' = [env EXCEPT ![item.handle] =
                        After(e, item.revision, item.index)]
  /\ UNCHANGED <<holder, seen>>

Stepped(b) == \A k \in DOMAIN b.items : b.outcome[k] # "Pending"

FirstOf(S) == CHOOSE k \in S : \A j \in S : k <= j

\* What one worker returns: its first refusal, else whether its part exports.
WorkerResult(b, w) ==
  LET mine    == Chunk(Len(b.items), w)
      refused == {k \in mine : b.outcome[k] # "Ok"}
  IN  IF refused # {} THEN b.outcome[FirstOf(refused)]
      ELSE IF \E k \in mine : env[b.items[k].handle].state \notin Exportable
      THEN "ExportError" ELSE "Ok"

\* Mutant: the first worker that fails decides, whatever its error is.
BatchResultByWorker(b) ==
  LET failed == {w \in 1..Workers(Len(b.items)) : WorkerResult(b, w) # "Ok"}
  IN  IF failed # {} THEN WorkerResult(b, FirstOf(failed)) ELSE "Ok"

\* Workers are joined in input order; a step error anywhere wins over an export
\* error.
BatchResult(b) ==
  LET W       == 1..Workers(Len(b.items))
      refused == {w \in W : WorkerResult(b, w) \in Refusals}
      failed  == {w \in W : WorkerResult(b, w) = "ExportError"}
  IN  IF refused # {} THEN WorkerResult(b, FirstOf(refused))
      ELSE IF failed # {} THEN "ExportError" ELSE "Ok"

\* A batch that succeeds publishes the successor decisions.
FinishBatch(t) ==
  /\ batch[t] # NoBatch
  /\ Stepped(batch[t])
  /\ seen' = IF BatchResult(batch[t]) = "Ok"
             THEN seen \union {Sighting(batch[t].items[k].handle,
                                        env[batch[t].items[k].handle]) :
                                 k \in DOMAIN batch[t].items}
             ELSE seen
  /\ holder' = [h \in Handles |-> IF holder[h] = t THEN Nobody ELSE holder[h]]
  /\ batch' = [batch EXCEPT ![t] = NoBatch]
  /\ UNCHANGED env

RunBatch(t) == FinishBatch(t) \/ \E w \in 1..MaxWorkers : WorkerStep(t, w)

------------------------------------------------------------------------------
Init ==
  /\ Session!Init
  /\ holder = [h \in Handles |-> Nobody]
  /\ batch = [t \in Threads |-> NoBatch]
  /\ seen = {}

Next ==
  \/ \E h \in Handles :
       \/ Construct(h)
       \/ ReadDecision(h)
       \/ Step(h)
       \/ \E copy \in Handles : CloneState(h, copy) \/ DeriveRoot(h, copy)
  \/ \E t \in Threads :
       \/ StartBatch(t)
       \/ FinishBatch(t)
       \/ \E w \in 1..MaxWorkers : WorkerStep(t, w)

\* Worker threads are scheduled, and their scope is joined.
Spec ==
  Init /\ [][Next]_vars /\ \A t \in Threads : WF_vars(RunBatch(t))

------------------------------------------------------------------------------
(* Properties *)

\* Types of every variable.
TypeOK ==
  /\ env \in [Handles -> Environments \union {Absent}]
  /\ holder \in [Handles -> Threads \union {Nobody}]
  /\ batch \in [Threads -> Batches \union {NoBatch}]
  /\ seen \subseteq Sightings

\* A revision names one decision of its handle: a request that carries the
\* handle's revision was made at exactly the state the handle still has.
RevisionPinsState ==
  \A o \in seen :
    /\ env[o.handle] # Absent
    /\ o.revision <= env[o.handle].revision
    /\ o.revision = env[o.handle].revision => o.state = env[o.handle].state

\* A batch does to each of its states what that request alone would have done
\* when the batch started, however workers and other threads interleave.
BatchStepsAlone ==
  \A t \in Threads : batch[t] # NoBatch =>
    \A k \in DOMAIN batch[t].items :
      LET b == batch[t]
          r == b.items[k]
      IN  /\ holder[r.handle] = t
          /\ env[r.handle] = IF b.outcome[k] = "Pending" THEN b.before[k]
                             ELSE After(b.before[k], r.revision, r.index)

\* The result of stepping and then exporting one state after another.
SerialResult(b) ==
  LET answer(k) == Answer(b.before[k], b.items[k].revision, b.items[k].index)
      refused   == {k \in DOMAIN b.items : answer(k) # "Ok"}
  IN  IF refused # {} THEN answer(FirstOf(refused))
      ELSE IF \E k \in DOMAIN b.items :
                After(b.before[k], b.items[k].revision, b.items[k].index).state
                  \notin Exportable
      THEN "ExportError" ELSE "Ok"

\* The number of workers never changes what a batch reports.
BatchReportsSerially ==
  \A t \in Threads : batch[t] # NoBatch /\ Stepped(batch[t]) =>
    BatchResult(batch[t]) = SerialResult(batch[t])

\* Every handle behaves as the abstract session promises.
ImplementsSession == Session!Spec

\* A started batch returns and gives its states back.
BatchReturns == \A t \in Threads : batch[t] # NoBatch ~> batch[t] = NoBatch
==============================================================================

---------------------------- MODULE GameListener ----------------------------
(***************************************************************************)
(* The game's side of the bridge: CommunicationMod's bookkeeping of        *)
(* command attempts and boundaries (GameStateListener), run by the game    *)
(* thread once per frame.  Three handlers run in this order: PreUpdate     *)
(* reads at most one command, PostDungeonUpdate looks for a stable state,  *)
(* PostUpdate publishes one.  Each is a function on the record below.      *)
(***************************************************************************)
EXTENDS Naturals, Sequences

CONSTANTS CommandIds, NoId

ASSUME NoIdAssumption == NoId \notin CommandIds

Verbs == {"state", "play", "abandon", "ready"}
Kinds == {"unsolicited", "settled", "poll", "rejected"}
Boundaries == {"unknown", "interaction_ready", "quiescent", "poll"}
\* What a game that is not ready offers all the same: ABANDON in a run, START
\* (a play) in the menu.
Offers == {"none", "play", "abandon"}
MaybeId == CommandIds \union {NoId}

Listeners ==
  [waiting : BOOLEAN,        \* waitingForCommand
   before : BOOLEAN,         \* waitingBeforeCommand
   boundary : Boundaries,    \* boundaryKind; terminal acts as quiescent
   polled : BOOLEAN,         \* pollPending
   exec : Nat,               \* commandExecutionSeq
   settle : Nat,             \* commandSettlementSeq
   active : MaybeId,         \* activeCommandId
   id : MaybeId,             \* commandResponseId
   kind : Kinds,             \* commandResponseKind
   pending : BOOLEAN,        \* transactionPending
   mustSend : BOOLEAN,       \* mustSendGameState
   stirred : BOOLEAN,        \* the game changed since the last stable state
   endTurn : BOOLEAN]        \* endTurnQueued at the last stable state

\* The main menu has not been presented yet.
Booted ==
  [waiting |-> FALSE, before |-> FALSE, boundary |-> "unknown",
   polled |-> FALSE, exec |-> 0, settle |-> 0, active |-> NoId, id |-> NoId,
   kind |-> "unsolicited", pending |-> FALSE, mustSend |-> FALSE,
   stirred |-> TRUE, endTurn |-> FALSE]

Messages ==
  [error : BOOLEAN, boundary : Boundaries, kind : Kinds, id : MaybeId,
   exec : Nat, settle : Nat, pending : BOOLEAN, ready : BOOLEAN,
   clear : BOOLEAN,          \* no end turn queued, no gameplay effect pending
   offers : Offers]          \* available_commands, where ready does not imply it

------------------------------------------------------------------------------
(* PreUpdate: one command *)

\* Mutant: a transaction begun by an earlier command keeps its identity.
BegunKeepingActive(m, command) ==
  [m EXCEPT !.before = m.waiting, !.waiting = FALSE,
            !.boundary = "unknown", !.polled = FALSE,
            !.exec = @ + 1, !.active = IF m.pending THEN @ ELSE command.id,
            !.pending = TRUE, !.kind = "unsolicited", !.id = NoId]

Begun(m, command) ==
  IF command.verb = "state"
  THEN [m EXCEPT !.polled = TRUE, !.active = command.id]
  ELSE [m EXCEPT !.before = m.waiting, !.waiting = FALSE,
                 !.boundary = "unknown", !.polled = FALSE,
                 !.exec = @ + 1, !.active = command.id,
                 !.pending = TRUE, !.kind = "unsolicited", !.id = NoId]

\* A STATE is always carried out.
CarriedOut(m, command) ==
  IF command.verb = "state" THEN [m EXCEPT !.mustSend = TRUE]
  ELSE [m EXCEPT !.stirred = TRUE]

\* AbandonRunControl carries every ABANDON out in place of the executor; in no
\* run there is nothing to abandon.
Abandoned(m, inRun) == IF inRun THEN [m EXCEPT !.stirred = TRUE] ELSE m

\* Mutant: a refused command leaves the bridge ready whatever it was before.
RefusedReady(m, command) ==
  [m EXCEPT !.waiting = TRUE, !.before = FALSE, !.pending = FALSE,
            !.boundary = "unknown", !.polled = FALSE,
            !.id = command.id, !.kind = "rejected", !.active = NoId]

Refused(m, command) ==
  [m EXCEPT !.waiting = m.before, !.before = FALSE, !.pending = FALSE,
            !.boundary = "unknown", !.polled = FALSE,
            !.id = command.id, !.kind = "rejected", !.active = NoId]

Report(m, error, boundary, clear, offers) ==
  [error |-> error, boundary |-> boundary, kind |-> m.kind, id |-> m.id,
   exec |-> m.exec, settle |-> m.settle, pending |-> m.pending,
   ready |-> m.waiting, clear |-> clear, offers |-> offers]

------------------------------------------------------------------------------
(* PostDungeonUpdate: a stable state *)

Stamped(m) ==
  IF ~m.pending THEN [m EXCEPT !.kind = "unsolicited", !.id = NoId]
  ELSE [m EXCEPT !.settle = @ + 1, !.kind = "settled", !.id = m.active,
                 !.pending = FALSE, !.before = FALSE, !.active = NoId]

\* An owner that waits for input is a boundary inside a queued end of turn.
Detected(m, endTurn) ==
  Stamped([m EXCEPT !.stirred = FALSE, !.waiting = TRUE, !.mustSend = TRUE,
                    !.endTurn = endTurn,
                    !.boundary = IF endTurn THEN "interaction_ready"
                                 ELSE "quiescent"])

\* registerStateChange by a patch of the game.
Stirred(m) == [m EXCEPT !.stirred = TRUE, !.waiting = FALSE]

------------------------------------------------------------------------------
(* PostUpdate: publication *)

HasCompletingBoundary(m) == m.polled \/ m.boundary # "unknown"

Consumed(m) ==
  IF m.polled
  THEN [m EXCEPT !.kind = "poll", !.id = m.active, !.active = NoId,
                 !.polled = FALSE]
  ELSE m

Publishing(m) == m.mustSend /\ HasCompletingBoundary(m)
Published(m) == [Consumed(m) EXCEPT !.mustSend = FALSE]

StateMessage(m, clear, offers) ==
  Report(Consumed(m), FALSE, IF m.polled THEN "poll" ELSE m.boundary, clear, offers)
==============================================================================

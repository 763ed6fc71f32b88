---------------------------- MODULE CommandBridge ----------------------------
(***************************************************************************)
(* The trace bridge (tools/communication/trace_client.js) between the      *)
(* controllers on its TCP socket and the game (GameListener): control      *)
(* ownership, the one command in flight, the schema-7 completion fences,   *)
(* passive polling, observation timeouts, preemption by ABANDON, and the   *)
(* replacement of the bridge process by the game.                          *)
(*                                                                         *)
(* The bridge is one JavaScript thread: a handler runs to its next await.  *)
(* A request that is refused changes nothing; a gameplay command that does *)
(* not name the current state is refused, so the controllers here are      *)
(* those that have read it.                                                *)
(***************************************************************************)
EXTENDS GameListener, FiniteSets, SequencesExt

CONSTANTS
  Controllers,     \* processes that talk to the control socket
  NoOwner, Unread, \* Unread: no state is known yet
  MaxLines,        \* bound on a pipe's unread lines before a timer or the game
                   \* adds to it unasked
  MaxRestarts      \* bound on replacements of the bridge process

\* latestSummary
Summaries ==
  [error : BOOLEAN, ready : BOOLEAN, offers : Offers, exec : Nat, settle : Nat]

ASSUME BridgeAssumption ==
  /\ NoOwner \notin Controllers
  /\ Unread \notin Summaries
  /\ {MaxLines, MaxRestarts} \subseteq Nat

VARIABLES
  polling,         \* TRACE_AUTO_STATE_MS > 0
  latest,          \* latestSummary
  inFlight,        \* commandInFlight
  waiters,         \* commands whose controller waits for the state update
  queue,           \* queuedCommands
  looping,         \* waitForCommand holds the input for the next command
  seen,            \* seenCommandIds
  former,          \* auxiliary: ids accepted by an earlier bridge process
  owner,           \* controlOwner
  told,            \* auxiliary: what the sender of the command was told
  toGame,          \* stdout of the bridge
  toBridge,        \* stdin of the bridge, with pendingLines
  listener,        \* the game's side
  fate,            \* auxiliary: fate[id] as the game knows it
  restarts

bridge == <<latest, inFlight, waiters, queue, looping, seen, owner, told>>
game == <<listener, fate>>
vars == <<polling, bridge, former, toGame, toBridge, game, restarts>>

NoCommand == [id |-> NoId, verb |-> "state", exec |-> 0, settle |-> 0]

Line(command) == [id |-> command.id, verb |-> command.verb]
Told(ids, verdict) ==
  told' = [id \in CommandIds |-> IF id \in ids THEN verdict ELSE told[id]]

------------------------------------------------------------------------------
(* Completion *)

\* Mutant: the answer need not name the command.
CompletesUnnamed(command, msg) ==
  LET attempts == IF command.verb = "state" THEN 0 ELSE 1
      settled == IF msg.error \/ command.verb = "state" THEN 0 ELSE 1
  IN /\ ~msg.pending
     /\ msg.exec = command.exec + attempts
     /\ msg.settle = command.settle + settled

\* stateCompletesCommand with schemaFenceAdvances, at boundary schema 7.
Completes(command, msg) ==
  LET attempts == IF command.verb = "state" THEN 0 ELSE 1
  IN /\ msg.id = command.id /\ ~msg.pending
     /\ msg.exec = command.exec + attempts
     /\ \/ /\ msg.error /\ msg.kind = "rejected"
           /\ msg.settle = command.settle
        \/ /\ ~msg.error /\ command.verb = "state"
           /\ msg.boundary = "poll" /\ msg.kind = "poll" /\ msg.clear
           /\ msg.settle = command.settle
        \/ /\ ~msg.error /\ command.verb # "state"
           /\ msg.boundary \in {"interaction_ready", "quiescent"}
           /\ msg.clear \/ msg.boundary = "interaction_ready"
           /\ msg.kind = "settled" /\ msg.settle = command.settle + 1

\* publishState for the next line, then waitForCommand: the input is held for
\* the next command unless one is in flight.
ReceiveLine ==
  /\ ~looping /\ toBridge # <<>>
  /\ LET msg == Head(toBridge)
         answered == {command \in waiters : Completes(command, msg)}
         done == inFlight # NoCommand /\ Completes(inFlight, msg)
     IN /\ latest' = [error |-> msg.error, ready |-> msg.ready, offers |-> msg.offers,
                      exec |-> msg.exec, settle |-> msg.settle]
        /\ inFlight' = IF done THEN NoCommand ELSE inFlight
        /\ looping' = (done \/ inFlight = NoCommand)
        /\ waiters' = waiters \ answered
        /\ Told({command.id : command \in answered}, "observed")
  /\ toBridge' = Tail(toBridge)
  /\ UNCHANGED <<polling, queue, seen, owner, former, toGame, game, restarts>>

\* The loop of waitForCommand ends with a STATE of its own.
PassivePoll ==
  /\ polling /\ looping
  /\ Len(toGame) < MaxLines
  /\ looping' = FALSE
  /\ toGame' = Append(toGame, [id |-> NoId, verb |-> "state"])
  /\ UNCHANGED <<polling, latest, inFlight, waiters, queue, seen, owner, told,
                 former, toBridge, game, restarts>>

------------------------------------------------------------------------------
(* The control socket *)

MayDrive(c) == owner \in {c, NoOwner}

\* Ids are fresh for every bridge process; a retry may repeat an id.
NewCommand(c, id) ==
  /\ id \notin seen \union former
  /\ queue = <<>> /\ inFlight = NoCommand
  /\ MayDrive(c)

\* A START or a STATE may be the first thing the bridge says.
AtStartup == latest = Unread

Attempt(id, verb) ==
  [id |-> id, verb |-> verb,
   exec |-> IF AtStartup THEN 0 ELSE latest.exec,
   settle |-> IF AtStartup THEN 0 ELSE latest.settle]

\* The commands a game that shows this state allows.
Allowed(verb) ==
  CASE verb = "state"   -> TRUE
    [] verb = "play"    -> IF AtStartup THEN TRUE
                           ELSE \/ latest.ready /\ ~latest.error
                                \/ latest.offers = "play"
    [] verb = "abandon" -> IF AtStartup THEN FALSE
                           ELSE latest.ready \/ latest.offers = "abandon"

Accept(command) ==
  /\ seen' = seen \union {command.id}
  /\ inFlight' = command
  /\ waiters' \in {waiters, waiters \union {command}}

SendNow(command) ==
  /\ toGame' = Append(toGame, Line(command))
  /\ looping' = FALSE
  /\ UNCHANGED queue

\* A waiting loop takes the command at once; otherwise it stays in the queue.
Enqueue(command) ==
  IF looping THEN SendNow(command)
  ELSE queue' = Append(queue, Line(command)) /\ UNCHANGED <<toGame, looping>>

Submit(c, id, verb) ==
  /\ NewCommand(c, id)
  /\ Allowed(verb)
  /\ LET command == Attempt(id, verb)
     IN /\ Accept(command)
        /\ IF AtStartup THEN SendNow(command) ELSE Enqueue(command)
  /\ UNCHANGED <<polling, latest, owner, told, former, toBridge, game, restarts>>

\* Mutant: a command that is still queued can be preempted too.
PreemptableEver == inFlight # NoCommand
Preemptable == inFlight # NoCommand /\ queue = <<>>

\* preempt_in_flight: the ABANDON takes the place of the command in flight.
Preempt(c, id) ==
  /\ id \notin seen \union former
  /\ Preemptable
  /\ MayDrive(c)
  /\ Allowed("abandon")
  /\ Accept(Attempt(id, "abandon"))
  /\ toGame' = Append(toGame, [id |-> id, verb |-> "abandon"])
  /\ UNCHANGED <<polling, latest, queue, looping, owner, told, former,
                 toBridge, game, restarts>>

IsQueued(id) == \E i \in DOMAIN queue : queue[i].id = id
Place(id) == CHOOSE i \in DOMAIN queue : queue[i].id = id

\* Mutant: a command that timed out no longer holds the bridge.
HeldAfterTimeoutNever(id) == IF inFlight.id = id THEN NoCommand ELSE inFlight

\* Only what was cancelled before it was sent stops holding the bridge.
HeldAfterTimeout(id) ==
  IF IsQueued(id) /\ inFlight.id = id THEN NoCommand ELSE inFlight

ObservationTimeout(command) ==
  /\ command \in waiters
  /\ waiters' = waiters \ {command}
  /\ queue' = IF IsQueued(command.id) THEN RemoveAt(queue, Place(command.id))
              ELSE queue
  /\ inFlight' = HeldAfterTimeout(command.id)
  /\ Told({command.id} \intersect {id \in CommandIds : IsQueued(id)}, "cancelled")
  /\ UNCHANGED <<polling, latest, looping, seen, owner, former, toGame,
                 toBridge, game, restarts>>

\* With no owner, the newcomer may have aged queued commands of controllers
\* that are gone cancelled; what they held stays held.
Acquire(c) ==
  /\ owner = NoOwner
  /\ owner' = c
  /\ queue' \in {queue, <<>>}
  /\ UNCHANGED <<polling, latest, inFlight, waiters, looping, seen, told,
                 former, toGame, toBridge, game, restarts>>

\* The lease is older than the newcomer accepts; commands do not renew it.
TakeOver(c) ==
  /\ owner \notin {c, NoOwner}
  /\ owner' = c
  /\ UNCHANGED <<polling, latest, inFlight, waiters, queue, looping, seen,
                 told, former, toGame, toBridge, game, restarts>>

Release(c) ==
  /\ owner = c
  /\ owner' = NoOwner
  /\ UNCHANGED <<polling, latest, inFlight, waiters, queue, looping, seen,
                 told, former, toGame, toBridge, game, restarts>>

------------------------------------------------------------------------------
(* The game *)

Answers(messages) ==
  {messages[i].id : i \in {j \in DOMAIN messages :
                             messages[j].kind # "unsolicited"}}

Judged(read, messages) ==
  [id \in CommandIds |->
     IF id \in Answers(messages) /\ (fate[id] # "none" \/ id \in read)
     THEN "answered"
     ELSE IF id \in read THEN "executed" ELSE fate[id]]

\* PostUpdate after the rest of a frame.
Conclude(m, read, errors, clear, offers) ==
  LET messages == IF Publishing(m) THEN Append(errors, StateMessage(m, clear, offers))
                  ELSE errors
  IN /\ listener' = IF Publishing(m) THEN Published(m) ELSE m
     /\ toBridge' = toBridge \o messages
     /\ fate' = Judged(read, messages)

\* A stable state is found when the game has one; a poll answered before that
\* may show an end of turn or effects still to come.  What it offers tells
\* something only where it is not ready.
Frame(m, read, errors) ==
  \E stable \in BOOLEAN, flag \in BOOLEAN, offers \in Offers :
    /\ stable => m.stirred
    /\ LET found == IF stable THEN Detected(m, flag) ELSE m
           clear == IF found.stirred THEN flag ELSE ~found.endTurn
       IN /\ ~stable /\ ~(Publishing(found) /\ found.stirred) => flag
          /\ found.waiting \/ ~Publishing(found) => offers = "none"
          /\ Conclude(found, read, errors, clear, offers)

\* A frame that reads a command.
ReadFrame ==
  /\ toGame # <<>>
  /\ LET command == Head(toGame)
         begun == Begun(listener, command)
         refused == Refused(begun, command)
         read == {command.id} \ {NoId}
     IN \/ /\ command.verb \in {"state", "play"}
           /\ Frame(CarriedOut(begun, command), read, <<>>)
        \/ /\ command.verb = "abandon"
           /\ \E inRun \in BOOLEAN : Frame(Abandoned(begun, inRun), read, <<>>)
        \/ /\ command.verb \in {"play", "ready"}
           /\ Frame(refused, read, <<Report(refused, TRUE, "unknown", TRUE, "none")>>)
  /\ toGame' = Tail(toGame)
  /\ UNCHANGED <<polling, bridge, former, restarts>>

\* A frame that only finds or publishes a stable state.
StableFrame ==
  /\ listener.stirred \/ Publishing(listener)
  /\ Frame(listener, {}, <<>>)
  /\ listener' # listener
  /\ UNCHANGED <<polling, bridge, former, toGame, restarts>>

\* The game changes by itself while nobody waits for it.
Stir ==
  /\ ~listener.stirred
  /\ Len(toBridge) < MaxLines
  /\ listener' = Stirred(listener)
  /\ UNCHANGED <<polling, bridge, former, toGame, toBridge, fate, restarts>>

\* startExternalProcess: lines the reader thread had taken from the old process
\* stay in readQueue, the first line found there is taken for the signal that
\* the new process is ready, and the signal itself is then read as a command.
Restart ==
  /\ restarts < MaxRestarts
  /\ restarts' = restarts + 1
  /\ \E taken \in 0..Len(toGame) :
       toGame' = IF taken = 0 THEN <<>>
                 ELSE Append(SubSeq(toGame, 2, taken),
                             [id |-> NoId, verb |-> "ready"])
  /\ toBridge' = <<>>
  /\ listener' = [listener EXCEPT !.mustSend = @ \/ listener.waiting]
  /\ former' = former \union seen
  /\ latest' = Unread /\ inFlight' = NoCommand /\ queue' = <<>>
  /\ looping' = FALSE /\ seen' = {} /\ owner' = NoOwner /\ waiters' = {}
  /\ UNCHANGED <<polling, told, fate>>

------------------------------------------------------------------------------

Init ==
  /\ polling \in BOOLEAN
  /\ latest = Unread /\ inFlight = NoCommand /\ waiters = {}
  /\ queue = <<>> /\ looping = FALSE
  /\ seen = {} /\ former = {} /\ owner = NoOwner
  /\ told = [id \in CommandIds |-> "nothing"]
  /\ toGame = <<>> /\ toBridge = <<>>
  /\ listener = Booted
  /\ fate = [id \in CommandIds |-> "none"]
  /\ restarts = 0

Next ==
  \/ ReceiveLine
  \/ PassivePoll
  \/ \E c \in Controllers :
       \/ \E id \in CommandIds :
            \/ \E verb \in {"state", "play", "abandon"} : Submit(c, id, verb)
            \/ Preempt(c, id)
       \/ Acquire(c) \/ TakeOver(c) \/ Release(c)
  \/ \E command \in waiters : ObservationTimeout(command)
  \/ ReadFrame
  \/ StableFrame
  \/ Stir
  \/ Restart

\* The input is read, the game reads its input and its frames find a stable
\* state; nobody has to poll, time out, acquire, release or restart.
Spec ==
  /\ Init /\ [][Next]_vars
  /\ WF_vars(ReceiveLine)
  /\ WF_vars(ReadFrame)
  /\ WF_vars(StableFrame)

------------------------------------------------------------------------------
(* What the bridge promises *)

Sent(id) == \E i \in DOMAIN toGame : toGame[i].id = id

Stage ==
  [id \in CommandIds |->
     IF fate[id] # "none" THEN fate[id]
     ELSE IF Sent(id) THEN "sent"
     ELSE IF IsQueued(id) THEN "queued"
     ELSE IF id \in seen \union former THEN "dropped"
     ELSE "new"]

Lifecycle == INSTANCE CommandLifecycle
               WITH stage <- Stage, holding <- inFlight.id, process <- restarts

\* Every accepted command reaches the game at most once, in no state but the
\* one that sent it, and only an answer to itself frees the bridge, whatever
\* retries, takeovers, timeouts, preemptions and replaced processes there are.
ImplementsLifecycle == Lifecycle!Spec

\* A controller is told its command was observed only when the game answered
\* that command, and told it was cancelled only when the game never sees it.
VerdictsAreTrue ==
  \A id \in CommandIds :
    /\ told[id] = "observed" => fate[id] = "answered"
    /\ told[id] = "cancelled" => fate[id] = "none" /\ ~Sent(id)

\* What is queued is the command in flight, so no state can make the bridge
\* hold its input for a command while another one waits in the queue.
QueuedHoldsBridge ==
  queue # <<>> => Len(queue) = 1 /\ queue[1].id = inFlight.id /\ ~looping

\* The game says it is ready only when no transaction is pending and nothing
\* has changed since the last stable state.
ReadyMeansStable ==
  listener.waiting => ~listener.pending /\ ~listener.stirred

\* Once the game has answered a gameplay command, the answer on its way to the
\* bridge passes the completion fences, so the command cannot hold the bridge
\* for ever; a bridge process that was replaced may start behind the game's
\* counters, so this is said of the first one.
AnswerFreesBridge ==
  inFlight.verb = "play" /\ fate[inFlight.id] = "answered" /\ restarts = 0
    => \E i \in DOMAIN toBridge : Completes(inFlight, toBridge[i])
==============================================================================

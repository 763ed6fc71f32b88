-------------------------- MODULE CommandLifecycle --------------------------
(***************************************************************************)
(* What the trace bridge promises of the commands it accepts.  A command   *)
(* is accepted once, reaches the game at most once, and holds the bridge   *)
(* until the game has answered that very command.  It may leave the bridge *)
(* unanswered in three ways only: withdrawn before it was sent, preempted  *)
(* by the operator, or lost with the process that accepted it.             *)
(***************************************************************************)
EXTENDS Naturals

CONSTANTS CommandIds, NoId

VARIABLES
  stage,    \* stage[id]: how far the command has come
  holding,  \* the command that holds the bridge, or NoId
  process   \* how often the bridge process was replaced

commands == <<stage, holding, process>>

Stages == {"new", "queued", "sent", "executed", "answered", "dropped"}

Init ==
  /\ stage = [id \in CommandIds |-> "new"]
  /\ holding = NoId
  /\ process = 0

Accept(id) ==
  /\ stage[id] = "new"
  /\ holding = NoId
  /\ \E s \in {"queued", "sent"} : stage' = [stage EXCEPT ![id] = s]
  /\ holding' = id
  /\ UNCHANGED process

\* The operator abandons the run over a command that was already sent.
Preempt(id) ==
  /\ stage[id] = "new"
  /\ holding # NoId /\ stage[holding] # "queued"
  /\ stage' = [stage EXCEPT ![id] = "sent"]
  /\ holding' = id
  /\ UNCHANGED process

Execute(id) ==
  /\ stage[id] = "sent"
  /\ \E s \in {"executed", "answered"} : stage' = [stage EXCEPT ![id] = s]
  /\ UNCHANGED <<holding, process>>

Answer(id) ==
  /\ stage[id] = "executed"
  /\ stage' = [stage EXCEPT ![id] = "answered"]
  /\ UNCHANGED <<holding, process>>

\* An answer frees the bridge only if it answers the command that holds it.
Complete ==
  /\ holding # NoId /\ stage[holding] = "answered"
  /\ holding' = NoId
  /\ UNCHANGED <<stage, process>>

Withdraw(id) ==
  /\ stage[id] = "queued"
  /\ stage' = [stage EXCEPT ![id] = "dropped"]
  /\ holding' \in {holding, NoId}
  /\ UNCHANGED process

\* The process that accepted them is replaced; what was sent may be lost.
Replace ==
  /\ stage' \in {s \in [CommandIds -> Stages] :
       \A id \in CommandIds :
         \/ s[id] = stage[id] /\ stage[id] # "queued"
         \/ s[id] = "dropped" /\ stage[id] \in {"queued", "sent"}}
  /\ holding' = NoId
  /\ process' = process + 1

Next ==
  \/ \E id \in CommandIds :
       Accept(id) \/ Preempt(id) \/ Execute(id) \/ Answer(id) \/ Withdraw(id)
  \/ Complete
  \/ Replace

Spec == Init /\ [][Next]_commands
==============================================================================

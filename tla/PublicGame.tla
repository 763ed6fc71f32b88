----------------------------- MODULE PublicGame -----------------------------
(***************************************************************************)
(* The game as the fair interface sees it: authoritative run states, the   *)
(* public list of choices of each, and the state each choice leads to.     *)
(***************************************************************************)
EXTENDS Naturals, Sequences, Functions

CONSTANTS
  Handles,       \* State objects
  RunStates,     \* authoritative run states
  Initial,       \* those a constructor may produce
  PublicChoices,       \* public choices
  Legal,         \* Legal[s]: the public list of choices at s
  Successor,     \* Successor[s][c]: a state, or Refused
  Roots,         \* Roots[s]: synthetic roots derived from s
  Projectable,   \* states whose observation and choices can be shown
  MaxRevision,   \* u64::MAX in the code
  Refused, Absent

ASSUME GameAssumption ==
  /\ Initial \subseteq RunStates
  /\ Projectable \subseteq RunStates
  /\ Legal \in [RunStates -> Seq(PublicChoices)]
  /\ Successor \in [RunStates -> [PublicChoices -> RunStates \union {Refused}]]
  /\ Roots \in [RunStates -> SUBSET RunStates]
  /\ MaxRevision \in Nat
  /\ Refused \notin RunStates
Environments == [state : RunStates, revision : 0..MaxRevision]
ASSUME AbsentAssumption == Absent \notin Environments

At(s, r) == [state |-> s, revision |-> r]
==============================================================================

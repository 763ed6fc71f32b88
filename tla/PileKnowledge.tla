---------------------------- MODULE PileKnowledge ----------------------------
(***************************************************************************)
(* The public record of known draw-pile positions                          *)
(* (combat/pile_knowledge.rs) and, beside it, what the record is about:    *)
(* the set of draw-pile orders that a player who only sees public events   *)
(* still holds possible.                                                   *)
(*                                                                         *)
(* A draw pile is a sequence whose last element is the next draw, as in    *)
(* the code.  A record is a set of pairs <<position, card>>, position 0    *)
(* being the next draw; the code keeps it as a vector sorted by position.  *)
(***************************************************************************)
EXTENDS Vectors

CONSTANT MaxPosition                   \* u16::MAX in the code
ASSUME MaxPositionAssumption == MaxPosition \in Nat

Min2(a, b) == IF a <= b THEN a ELSE b

------------------------------------------------------------------------------
(* Draw piles *)

\* The k next draws of pile s, in the order in which they are drawn.
TopOf(s, k) == [i \in 1..k |-> s[Len(s) + 1 - i]]

DropTop(s, k) == SubSeq(s, 1, Len(s) - k)

\* Every order of the n distinct cards of S: what a shuffle may produce.
Orders(S, n) == {s \in [1..n -> S] : IsInjective(s)}

------------------------------------------------------------------------------
(* The record and its updates *)

Forget(known, c) == {e \in known : e[2] # c}

\* A position that no longer fits its width empties the whole record.
ShiftPositions(known, d) ==
  {<<e[1] + d, e[2]>> : e \in known}

Fits(known) == \A e \in known : e[1] <= MaxPosition

InsertTop(known, c) ==
  LET shifted == ShiftPositions(Forget(known, c), 1)
  IN  IF Fits(shifted) THEN shifted \union {<<0, c>>} ELSE {}

InsertBottom(known, c, lenAfter) ==
  IF lenAfter - 1 <= MaxPosition
  THEN Forget(known, c) \union {<<lenAfter - 1, c>>}
  ELSE {}

\* Mutant: a drawn card stays in the record and its position wraps around.
RemoveTopWrapping(known, k) == {<<e[1] - k, e[2]>> : e \in known}

\* k calls of remove_top, one per card drawn.
RemoveTop(known, k) ==
  {<<e[1] - k, e[2]>> : e \in {x \in known : x[1] >= k}}

\* insert_unknown_index, remove_unknown_index and shuffle_or_replace_unknown.
Nothing == {}

RevealPrefix(known, cards) ==
  IF Len(cards) <= MaxPosition
  THEN {e \in known : e[1] >= Len(cards) /\ e[2] \notin ToSet(cards)}
       \union {<<i - 1, cards[i]>> : i \in 1..Len(cards)}
  ELSE {}

\* What a record claims of a pile.
Agrees(known, s) ==
  \A e \in known : e[1] < Len(s) /\ s[Len(s) - e[1]] = e[2]

------------------------------------------------------------------------------
(* The orders that remain possible after each public event *)

AfterPushTop(possible, c) == {Append(s, c) : s \in possible}

AfterPushBottom(possible, c) == {<<c>> \o s : s \in possible}

AfterReveal(possible, cards) ==
  {s \in possible : Len(cards) <= Len(s) /\ TopOf(s, Len(cards)) = cards}

AfterDraw(possible, cards) ==
  {DropTop(s, Len(cards)) : s \in AfterReveal(possible, cards)}

\* The number of cards left, n, is public as well.
AfterRemoval(possible, removed, n) ==
  {s \in {Dropping(t, removed) : t \in possible} : Len(s) = n}

\* CardGroup.addToRandomSpot picks an index below the length, so a card never
\* lands on top of a non-empty pile.
RandomSpots(s) == IF s = <<>> THEN {1} ELSE 1..Len(s)

AfterRandomInsert(possible, c) ==
  UNION {{InsertAt(s, i, c) : i \in RandomSpots(s)} : s \in possible}
==============================================================================

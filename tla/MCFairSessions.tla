---------------------------- MODULE MCFairSessions ----------------------------
(* A game of four states: one choice whose successor cannot be shown, one the  *)
(* rules refuse, and a terminal state that the numeric tables cannot express.  *)
EXTENDS FairSessions, TLC

GameStates   == {"fight", "hurt", "over", "broken"}
GameInitial  == {"fight"}
GameChoices  == {"attack", "defend", "potion"}
GameLegal    == [s \in GameStates |->
                   CASE s = "fight" -> <<"attack", "defend", "potion">>
                     [] s = "hurt"  -> <<"defend", "attack">>
                     [] OTHER       -> <<>>]
GameNext     == [s \in GameStates |-> [c \in GameChoices |->
                   CASE s = "fight" /\ c = "attack" -> "over"
                     [] s = "fight" /\ c = "defend" -> "broken"
                     [] s = "hurt" /\ c = "attack"  -> "over"
                     [] s = "hurt" /\ c = "defend"  -> "fight"
                     [] OTHER                       -> Refused]]
GameRoots    == [s \in GameStates |-> IF s = "fight" THEN {"hurt"} ELSE {}]
GameShown    == {"fight", "hurt", "over"}
GameIndices  == -1..2
GameExported == {"fight", "hurt"}

HandleSymmetry == Permutations(Handles)
==============================================================================

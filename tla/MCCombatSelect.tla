---------------------------- MODULE MCCombatSelect ----------------------------
(* Small decks for the model checker: each mixes the cards that open one kind *)
(* of screen with cards that draw, generate or only fill the piles.           *)
EXTENDS CombatSelect

PutOnDeck == <<"Warcry", "Forethought", "Headbutt", "Defend">>
Searching == <<"SecretTechnique", "ThirdEye", "Defend", "DeepBreath">>
Headbutts == <<"Headbutt", "WildStrike", "PommelStrike", "Defend">>
Mixed == <<"Headbutt", "WildStrike", "TrueGrit", "PommelStrike">>

Reshuffling == <<"Strike", "Defend", "Defend", "DeepBreath">>

\* One of three decks, with potions to use under its screens.
DealEither ==
  \/ Deal(PutOnDeck, {"Swift", "Fire"})
  \/ Deal(PutOnDeck, {"Elixir", "Fire"})
  \/ Deal(Searching, {"GamblersBrew", "Swift", "Fire"})
  \/ Deal(Reshuffling, {"LiquidMemories", "GamblersBrew", "Swift"})

EitherSpec == DealEither /\ [][Next]_vars /\ WF_vars(RunQueue)
==============================================================================

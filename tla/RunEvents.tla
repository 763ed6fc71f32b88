------------------------------ MODULE RunEvents ------------------------------
(***************************************************************************)
(* The events of a run (run/event.rs, run/event/action): for each event and *)
(* each of its stages, the states its options lead to.  What a choice pays  *)
(* or costs is left out unless it can end the run or show another screen;   *)
(* an option is on offer or not by gold, cards and relics, so every option  *)
(* is an open choice.  A relic an event gives on the spot is screenless: it *)
(* never opens a grid of its own.                                          *)
(***************************************************************************)
EXTENDS RunScreens

At(r, stage) == [r EXCEPT !.at.event.stage = stage]

To(r, stages) == {At(r, stage) : stage \in stages}

Leave(r) == {OpenMap(r)}

\* A choice that costs hit points may be the last.
Hurting(r) == {r, Died(r)}

Showing(r, w) == [r EXCEPT !.at.phase = "Reward", !.at.reward = w]

\* A grid that comes back to its event, or what happens with no card to show.
GridOr(r, purpose, otherwise) == {OpenGrid(r, purpose, 1), otherwise}

------------------------------------------------------------------------------
(* The start and the end of a run *)

\* What each stage-1 blessing leads to: Neow's Leave screen, under a card grid
\* or a reward screen.
Blessed(r) ==
  LET leave == At(r, 2) IN
  {leave, Showing(leave, [Offers("Neow") EXCEPT !.potions = 3]),
          Showing(leave, [OneCard("Neow") EXCEPT !.active = TRUE])}
    \union {OpenGrid(leave, purpose, 1) : purpose \in
              {"NeowRemove", "NeowUpgrade", "NeowTransform"}}
    \union {OpenGrid(leave, purpose, 2) : purpose \in {"NeowRemove", "NeowTransform"}}
    \union UNION {Gained(IF relic = "TinyHouse" THEN Showing(leave, Offers("Neow"))
                         ELSE leave, relic) : relic \in BossRelics}

Neow(r, stage) == CASE stage = 0 -> To(r, {1})
                    [] stage = 1 -> Blessed(r)
                    [] stage = 2 -> Leave(r)

DoorOpens(r) == FinalAct /\ r.keys = Keys

SpireHeartEvent(r, stage) ==
  IF stage < 3 THEN To(r, {stage + 1})
  ELSE {IF DoorOpens(r) THEN Act4(r)
        ELSE [Ended(r, "Act3Clear") EXCEPT !.at.event = EventAt("SpireHeart", 4)]}

------------------------------------------------------------------------------
(* Act 1 *)

GoldenIdol(r, stage) == CASE stage = 0 -> To(r, {1, 3})
                          [] stage = 1 -> Hurting(At(r, 2))
                          [] OTHER -> Leave(r)

WingStatue(r, stage) ==
  CASE stage = 0 -> Hurting(At(r, 1)) \union To(r, {2})
    [] stage = 1 -> GridOr(At(r, 2), "RemoveReturn", At(r, 2))
    [] OTHER -> Leave(r)

WorldOfGoop(r, stage) == IF stage = 0 THEN Hurting(At(r, 1)) ELSE Leave(r)

\* Three searches at most; one of them may wake the elite, whose fight pays the
\* relic unless a search already found it.
DeadAdventurer(r, stage) ==
  CASE stage = 0 -> To(r, {0, 1, 3})
    [] stage = 1 -> Leave(r)
    [] stage = 3 -> {EventFight(r, "event", promise) : promise \in {"gold", "relic"}}

HypnotizingColoredMushrooms(r, stage) ==
  CASE stage = 0 -> To(r, {1, 2})
    [] stage = 1 -> {EventFight(r, "event", "mask")}
    [] stage = 2 -> Leave(r)

TheCleric(r, stage) ==
  IF stage = 0 THEN GridOr(r, "RemoveReturn", At(r, 1)) ELSE Leave(r)

ShiningLight(r, stage) == IF stage = 0 THEN Hurting(At(r, 1)) ELSE Leave(r)

ScrapOoze(r, stage) ==
  IF stage < 2 THEN Hurting(At(r, 1)) \union Hurting(At(r, 2)) ELSE Leave(r)

BigFish(r, stage) == IF stage = 0 THEN To(r, {1}) ELSE Leave(r)

TheSsssserpent(r, stage) == CASE stage = 0 -> To(r, {1, 3})
                              [] stage = 1 -> To(r, {2})
                              [] OTHER -> Leave(r)

\* With no card to show the wall lets go without having changed its screen.
LivingWall(r, stage) ==
  IF stage = 0 THEN {OpenGrid(r, purpose, 1) : purpose \in
                       {"RemoveReturn", "TransformReturn", "UpgradeReturn"}}
                      \union Leave(r)
  ELSE Leave(r)

------------------------------------------------------------------------------
(* Act 2 *)

\* Mutant: leaving keeps the purchase menu as the suspended screen.
AddictReopened(r, stage) == IF stage = 0 THEN To(r, {1}) \union Leave(r) ELSE Leave(r)

Addict(r, stage) ==
  IF stage = 0 THEN To(r, {1}) \union Leave(At(r, 1)) ELSE Leave(r)

BackToBasics(r, stage) ==
  IF stage = 0 THEN GridOr(r, "RemoveReturn", At(r, 1)) ELSE Leave(r)

Beggar(r, stage) ==
  CASE stage = 0 -> To(r, {1, 2})
    [] stage = 1 -> GridOr(At(r, 2), "EventRemove", OpenMap(At(r, 2)))
    [] stage = 2 -> Leave(r)

Colosseum(r, stage) ==
  CASE stage = 0 -> To(r, {1})
    [] stage = 1 -> {EventFight(r, "first", "no")}
    [] stage = 2 -> Leave(r) \union {EventFight(r, "colosseum", "no")}

CursedTome(r, stage) ==
  CASE stage = 0 -> To(r, {1, 5})
    [] stage \in 1..3 -> Hurting(At(r, stage + 1))
    [] stage = 4 -> Hurting(At(r, 5)) \union
                    Hurting(Showing(At(r, 5),
                              [Offers("Event") EXCEPT !.relics = <<"idol">>]))
    [] stage = 5 -> Leave(r)

DrugDealer(r, stage) ==
  IF stage = 0 THEN {At(r, 1), OpenGrid(At(r, 1), "TransformReturn", 2)} ELSE Leave(r)

ForgottenAltar(r, stage) == IF stage = 0 THEN Hurting(At(r, 1)) ELSE Leave(r)

Ghosts(r, stage) == IF stage = 0 THEN To(r, {1, 2}) ELSE Leave(r)

MaskedBandits(r, stage) ==
  CASE stage = 0 -> To(r, {1}) \union {EventFight(r, "event", "mask")}
    [] stage \in 1..2 -> To(r, {stage + 1})
    [] stage = 3 -> Leave(r)

Nest(r, stage) == CASE stage = 0 -> To(r, {1})
                    [] stage = 1 -> Hurting(At(r, 2))
                    [] stage = 2 -> Leave(r)

TheLibrary(r, stage) ==
  IF stage = 0 THEN {At(r, 1), OpenGrid(r, "ObtainReturn", 1)} ELSE Leave(r)

TheMausoleum(r, stage) == IF stage = 0 THEN To(r, {1}) ELSE Leave(r)

Vampires(r, stage) == IF stage = 0 THEN To(r, {1}) ELSE Leave(r)

------------------------------------------------------------------------------
(* Act 3 *)

Falling(r, stage) == IF stage < 2 THEN To(r, {stage + 1}) ELSE Leave(r)

MoaiHead(r, stage) == IF stage = 0 THEN To(r, {1}) ELSE Leave(r)

MysteriousSphere(r, stage) ==
  CASE stage = 0 -> To(r, {1, 2})
    [] stage = 1 -> {EventFight(r, "event", "relic")}
    [] stage = 2 -> Leave(r)

SensoryStone(r, stage) ==
  CASE stage = 0 -> To(r, {1})
    [] stage = 1 -> UNION {Hurting(Showing(At(r, 2), Queued("Event", count))) :
                             count \in 1..3}
    [] stage = 2 -> Leave(r)

WindingHalls(r, stage) == CASE stage = 0 -> To(r, {1})
                            [] stage = 1 -> Hurting(At(r, 2))
                            [] stage = 2 -> Leave(r)

TombOfLordRedMask(r, stage) ==
  IF stage = 0 THEN To(r, {1}) \union Leave(At(r, 1)) ELSE Leave(r)

\* A boss of Act 1, fought in the event's own room.
MindBloom(r, stage) ==
  IF stage = 0 THEN To(r, {1}) \union {EventFight(r, "event", "relic")} ELSE Leave(r)

------------------------------------------------------------------------------
(* Shrines *)

GoldenShrine(r, stage) == IF stage = 0 THEN To(r, {1}) ELSE Leave(r)

Purifier(r, stage) ==
  IF stage = 0 THEN To(r, {2}) \union GridOr(r, "RemoveReturn", r) ELSE Leave(r)

Transmorgrifier(r, stage) ==
  IF stage = 0 THEN To(r, {1}) \union GridOr(r, "TransformReturn", r) ELSE Leave(r)

UpgradeShrine(r, stage) ==
  IF stage = 0 THEN To(r, {1}) \union GridOr(r, "UpgradeReturn", r) ELSE Leave(r)

WheelOfChange(r, stage) ==
  CASE stage < 2 -> To(r, {stage + 1})
    [] stage = 2 ->
         Hurting(At(r, 3)) \union GridOr(r, "RemoveReturn", r)
           \union {Showing(At(r, 3), [Offers("Event") EXCEPT !.relics = <<"idol">>])}
    [] stage = 3 -> Leave(r)

MatchAndKeep(r, stage) == CASE stage = 0 -> To(r, {1})
                            [] stage = 1 -> To(r, {2})
                            [] stage = 2 -> To(r, {2, 3})
                            [] stage = 3 -> Leave(r)

------------------------------------------------------------------------------
(* One-time events *)

BonfireElementals(r, stage) ==
  CASE stage = 0 -> To(r, {1})
    [] stage = 1 -> GridOr(r, "Bonfire", At(r, 2))
    [] stage = 2 -> Leave(r)

Designer(r, stage) ==
  CASE stage = 0 -> To(r, {1})
    [] stage = 1 -> Hurting(At(r, 2))
         \union {OpenGrid(r, purpose, 1) : purpose \in
                   {"UpgradeReturn", "RemoveReturn", "RemoveAndUpgrade"}}
         \union {OpenGrid(r, "TransformReturn", 2)}
    [] stage = 2 -> Leave(r)

Duplicator(r, stage) ==
  IF stage = 0 THEN GridOr(r, "ObtainReturn", At(r, 2)) ELSE Leave(r)

FountainOfCleansing(r, stage) == IF stage = 0 THEN To(r, {1}) ELSE Leave(r)

AccursedBlacksmith(r, stage) ==
  IF stage = 0 THEN To(r, {1}) \union GridOr(r, "UpgradeReturn", r) ELSE Leave(r)

WeMeetAgain(r, stage) == IF stage = 0 THEN To(r, {1}) ELSE Leave(r)

Nloth(r, stage) == IF stage = 0 THEN To(r, {1}) ELSE Leave(r)

TheJoust(r, stage) == IF stage < 4 THEN To(r, {stage + 1}) ELSE Leave(r)

TheWomanInBlue(r, stage) ==
  IF stage = 0
  THEN Hurting(At(r, 1)) \union
       {Showing(At(r, 1), [Offers("Event") EXCEPT !.potions = n]) : n \in 1..3}
  ELSE Leave(r)

FaceTrader(r, stage) == CASE stage = 0 -> To(r, {1})
                          [] stage = 1 -> Hurting(At(r, 2))
                          [] stage = 2 -> Leave(r)

NoteForYourself(r, stage) ==
  CASE stage = 0 -> To(r, {1})
    [] stage = 1 -> {At(r, 2), OpenGrid(r, "RemoveReturn", 1)}
    [] stage = 2 -> Leave(r)

\* The portal leads straight to the boss, off the map.
SecretPortal(r, stage) ==
  CASE stage = 0 -> To(r, {1, 2})
    [] stage = 1 -> {[EventFight(r, "map", "no") EXCEPT !.room = "Boss"]}
    [] stage = 2 -> Leave(r)

KnowingSkull(r, stage) ==
  CASE stage = 0 -> To(r, {1})
    [] stage = 1 -> Hurting(At(r, 1)) \union Hurting(At(r, 2))
    [] stage = 2 -> Leave(r)

Lab(r, stage) ==
  {[Showing(r, [Offers("None") EXCEPT !.potions = 3]) EXCEPT !.at.event = Nil]}

------------------------------------------------------------------------------
(* One choice *)

Offered(r) ==
  LET stage == r.at.event.stage  name == r.at.event.name IN
  CASE name = "Neow" -> Neow(r, stage)
    [] name = "SpireHeart" -> SpireHeartEvent(r, stage)
    [] name = "GoldenIdol" -> GoldenIdol(r, stage)
    [] name = "WingStatue" -> WingStatue(r, stage)
    [] name = "WorldOfGoop" -> WorldOfGoop(r, stage)
    [] name = "DeadAdventurer" -> DeadAdventurer(r, stage)
    [] name = "HypnotizingColoredMushrooms" -> HypnotizingColoredMushrooms(r, stage)
    [] name = "TheCleric" -> TheCleric(r, stage)
    [] name = "ShiningLight" -> ShiningLight(r, stage)
    [] name = "ScrapOoze" -> ScrapOoze(r, stage)
    [] name = "BigFish" -> BigFish(r, stage)
    [] name = "TheSsssserpent" -> TheSsssserpent(r, stage)
    [] name = "LivingWall" -> LivingWall(r, stage)
    [] name = "Addict" -> Addict(r, stage)
    [] name = "BackToBasics" -> BackToBasics(r, stage)
    [] name = "Beggar" -> Beggar(r, stage)
    [] name = "Colosseum" -> Colosseum(r, stage)
    [] name = "CursedTome" -> CursedTome(r, stage)
    [] name = "DrugDealer" -> DrugDealer(r, stage)
    [] name = "ForgottenAltar" -> ForgottenAltar(r, stage)
    [] name = "Ghosts" -> Ghosts(r, stage)
    [] name = "MaskedBandits" -> MaskedBandits(r, stage)
    [] name = "Nest" -> Nest(r, stage)
    [] name = "TheLibrary" -> TheLibrary(r, stage)
    [] name = "TheMausoleum" -> TheMausoleum(r, stage)
    [] name = "Vampires" -> Vampires(r, stage)
    [] name = "Falling" -> Falling(r, stage)
    [] name = "MoaiHead" -> MoaiHead(r, stage)
    [] name = "MysteriousSphere" -> MysteriousSphere(r, stage)
    [] name = "SensoryStone" -> SensoryStone(r, stage)
    [] name = "WindingHalls" -> WindingHalls(r, stage)
    [] name = "TombOfLordRedMask" -> TombOfLordRedMask(r, stage)
    [] name = "MindBloom" -> MindBloom(r, stage)
    [] name = "GoldenShrine" -> GoldenShrine(r, stage)
    [] name = "Purifier" -> Purifier(r, stage)
    [] name = "Transmorgrifier" -> Transmorgrifier(r, stage)
    [] name = "UpgradeShrine" -> UpgradeShrine(r, stage)
    [] name = "WheelOfChange" -> WheelOfChange(r, stage)
    [] name = "MatchAndKeep" -> MatchAndKeep(r, stage)
    [] name = "BonfireElementals" -> BonfireElementals(r, stage)
    [] name = "Designer" -> Designer(r, stage)
    [] name = "Duplicator" -> Duplicator(r, stage)
    [] name = "FountainOfCleansing" -> FountainOfCleansing(r, stage)
    [] name = "AccursedBlacksmith" -> AccursedBlacksmith(r, stage)
    [] name = "WeMeetAgain" -> WeMeetAgain(r, stage)
    [] name = "Nloth" -> Nloth(r, stage)
    [] name = "TheJoust" -> TheJoust(r, stage)
    [] name = "TheWomanInBlue" -> TheWomanInBlue(r, stage)
    [] name = "FaceTrader" -> FaceTrader(r, stage)
    [] name = "NoteForYourself" -> NoteForYourself(r, stage)
    [] name = "SecretPortal" -> SecretPortal(r, stage)
    [] name = "KnowingSkull" -> KnowingSkull(r, stage)
    [] name = "Lab" -> Lab(r, stage)

Choose == Here("Event") /\ \E r \in Offered(run) : Stays(r)
==============================================================================

------------------------------ MODULE RunRooms -------------------------------
(***************************************************************************)
(* The run's decisions: the rooms and screens of RunScreens, the events of  *)
(* RunEvents and the card grids, and what holds between two decisions.      *)
(***************************************************************************)
EXTENDS RunEvents

------------------------------------------------------------------------------
(* Card grids *)

\* Grids that resolve with the last pick, without a confirmation.
Immediate(r) ==
  \/ r.grid.purpose \in {"EmptyCage", "Astrolabe", "Bottle", "DollysMirror",
                         "ObtainReturn"}
  \/ r.grid.purpose \in {"NeowRemove", "NeowTransform", "TransformReturn"}
     /\ r.grid.need = 2
  \/ r.grid.purpose = "RemoveReturn"
     /\ r.at.event.name \in {"NoteForYourself", "BackToBasics"}

Preview(g) == g.need = 1 /\ g.picked = 1

CallingBellScreen(r) ==
  Showing(r, [Offers(IF r.at.event # Nil /\ r.at.event.name = "Neow"
                     THEN "Neow" ELSE "Treasure")
                EXCEPT !.relics = <<"idol", "coin", "mask">>])

EventGrids == {"RemoveReturn", "ObtainReturn", "UpgradeReturn", "TransformReturn",
               "Bonfire", "RemoveAndUpgrade"}

GridPurposes ==
  EventGrids \union {"RestSmith", "RestRemove", "ShopRemove", "EventRemove", "NeowRemove",
                     "NeowUpgrade", "NeowTransform", "EmptyCage", "CallingBell",
                     "PandorasBox", "Astrolabe", "Bottle", "DollysMirror"}

\* The stage of an event's leave screen, by the grid that comes back to it.
LeaveStage(name, purpose) ==
  CASE name \in {"Designer", "Duplicator", "BonfireElementals"} -> 2
    [] name = "WheelOfChange" -> 3
    [] purpose = "RemoveReturn" /\ name \notin {"BackToBasics", "WheelOfChange"} -> 2
    [] OTHER -> 1

Resolved(r) ==
  LET done == [r EXCEPT !.grid = Nil] IN
  CASE r.grid.purpose = "CallingBell" -> CallingBellScreen(done)
    [] r.grid.purpose \in {"RestSmith", "RestRemove"} ->
         [Rested(done) EXCEPT !.at.phase = "Rest"]
    [] r.grid.purpose = "ShopRemove" -> [done EXCEPT !.at.shop.remove = FALSE]
    [] r.grid.purpose \in {"NeowRemove", "NeowUpgrade", "NeowTransform"} ->
         [done EXCEPT !.at.phase = "Event", !.at.event = EventAt("Neow", 2)]
    [] r.grid.purpose = "EventRemove" -> OpenMap(done)
    [] r.grid.purpose \in EventGrids ->
         At(done, LeaveStage(r.at.event.name, r.grid.purpose))
    [] r.grid.purpose = "Bottle" /\ r.at.reward # Nil
         /\ ~NoSingleOffer(r.at.reward) -> [done EXCEPT !.at.phase = "Reward"]
    [] OTHER -> done

Resolve(r) ==
  Became(Resolved(r), CASE r.grid.purpose \in {"RestSmith", "RestRemove"} -> {"campfire"}
                        [] r.grid.purpose = "ShopRemove" -> {"removal"}
                        [] OTHER -> {})

GridSelect ==
  /\ run.grid # Nil /\ run.grid.need > 0 /\ ~Preview(run.grid)
  /\ \/ IF Immediate(run) /\ run.grid.picked + 1 = run.grid.need
        THEN Resolve(run)
        ELSE Stays([run EXCEPT !.grid.picked = @ + 1])
     \/ run.grid.picked > 0 /\ Stays([run EXCEPT !.grid.picked = @ - 1])

GridConfirm ==
  /\ run.grid # Nil /\ run.grid.picked = run.grid.need
  /\ Resolve(run)

GridCancel ==
  /\ run.grid # Nil
  /\ \/ Preview(run.grid) /\ Stays([run EXCEPT !.grid.picked = 0])
     \/ /\ ~Preview(run.grid)
        /\ run.grid.purpose \in {"RestSmith", "RestRemove", "ShopRemove"}
        /\ Stays([run EXCEPT !.grid = Nil])

------------------------------------------------------------------------------
Init ==
  /\ run = [at |-> [Screen EXCEPT !.phase = "Event", !.event = EventAt("Neow", 0)],
            under |-> Nil, grid |-> Nil, room |-> "Start", act |-> 1, keys |-> {},
            chestOpened |-> FALSE, reserved |-> FALSE, promise |-> "no",
            fight |-> Nil, outcome |-> Nil]
  /\ visit = Fresh

OnMap == MapReturn \/ EnterRoom

InCombat ==
  \/ WinCombat  \/ WinByPotionOrChoice  \/ SmokeBomb  \/ LoseCombat
  \/ LossProceed  \/ VictoryProceed

OnRewards ==
  \/ OpenCardReward  \/ CloseCardReward  \/ TakeCardReward  \/ SkipReward
  \/ TakeCoins  \/ TakePotionReward  \/ SkipPotionReward
  \/ TakeRelicReward  \/ TakeSapphireKey  \/ TakeEmeraldKey
  \/ ChooseBossRelic  \/ RewardProceed

InRooms ==
  \/ OpenChest  \/ TreasureProceed
  \/ UseCampfire  \/ OpenCampfireGrid  \/ RestProceed
  \/ EnterShop  \/ LeaveShop  \/ ShopProceed  \/ OpenShopRemove  \/ BuyShopRelic

OnGrid == GridSelect \/ GridConfirm \/ GridCancel

Next == OnMap \/ InCombat \/ OnRewards \/ InRooms \/ Choose \/ OnGrid

Spec == Init /\ [][Next]_vars

------------------------------------------------------------------------------
(* RunState::validate, as far as it is about screens *)

Phases == {"Idle", "Combat", "Reward", "Event", "Rest", "Shop", "Treasure",
           "Victory", "Complete"}

Rooms == {"Start", "Combat", "Elite", "Boss", "Rest", "Shop", "Treasure", "Event",
          "Victory"}

RelicOffers == {"idol", "Bottle", "coin", "mask"}

EventType ==
  [name : {"Neow", "SpireHeart"} \union Act1Events \union Act2Events
            \union Act3Events \union Shrines \union UNION {OneTime(a) : a \in 1..3},
   stage : 0..5]

RewardType ==
  [cont : {"None", "Map"} \union DOMAIN Owner, left : Nat, active : BOOLEAN,
   shown : {"no", "rolled", "queued"}, queued : Nat,
   coins : SUBSET {"gold", "stolen"}, potion : BOOLEAN, potions : Nat,
   relics : Seq(RelicOffers), boss : BOOLEAN]

ShopType == [remove : BOOLEAN, relics : SUBSET ShopRelics]

TreasureType == [link : RelicOffers \union {Nil}]

GridType == [purpose : GridPurposes, need : 0..3, picked : Nat]

ScreenType ==
  [phase : Phases, event : EventType \union {Nil}, reward : RewardType \union {Nil},
   shop : ShopType \union {Nil}, merchant : BOOLEAN,
   treasure : TreasureType \union {Nil}, restDone : BOOLEAN, emerald : BOOLEAN]

Fights == {"map", "first", "colosseum", "event", "lost"}

Outcomes == {"Death", "Act3Clear", "HeartClear"}

RunType ==
  [at : ScreenType, under : ScreenType \union {Nil}, grid : GridType \union {Nil},
   room : Rooms, act : 1..4, keys : SUBSET Keys, chestOpened : BOOLEAN,
   reserved : BOOLEAN, promise : {"no", "gold", "relic", "mask"},
   fight : Fights \union {Nil}, outcome : Outcomes \union {Nil}]

ASSUME NilAssumption ==
  Nil \notin EventType \union RewardType \union ShopType \union TreasureType
              \union GridType \union ScreenType \union RelicOffers \union Fights
              \union Outcomes

PhaseHasPayload(r) ==
  CASE r.at.phase = "Reward" -> r.at.reward # Nil
    [] r.at.phase = "Event" -> r.at.event # Nil
    [] r.at.phase = "Shop" -> r.at.shop # Nil
    [] r.at.phase = "Rest" -> r.room = "Rest"
    [] r.at.phase = "Treasure" -> r.at.treasure # Nil \/ Boss(r)
    [] r.at.phase = "Victory" -> r.act \in {3, 4} /\ Boss(r)
    [] OTHER -> TRUE

PayloadHasPhase(r) ==
  LET at == r.at IN
  /\ r.fight # Nil <=> at.phase = "Combat"
  /\ at.emerald => /\ at.phase = "Reward" /\ at.reward # Nil
                   /\ "emerald" \notin r.keys
  /\ r.promise # "no" => at.phase = "Combat"
  /\ at.merchant => at.shop # Nil
  /\ at.reward # Nil => at.phase = "Reward"
  /\ at.event # Nil =>
       \/ at.phase \in {"Event", "Reward"}
       \/ at.phase = "Complete" /\ at.event = EventAt("SpireHeart", 4)
  /\ at.shop # Nil => at.phase \in {"Shop", "Reward"}
  /\ at.treasure # Nil => at.phase \in {"Treasure", "Reward"}
  /\ Linked(r) # Nil => /\ at.phase = "Reward" /\ FinalAct
                        /\ "sapphire" \notin r.keys
                        /\ \E i \in DOMAIN at.reward.relics :
                             at.reward.relics[i] = Linked(r)
  /\ at.restDone => at.phase \in {"Rest", "Reward"} /\ r.room = "Rest"
  /\ r.chestOpened \/ r.reserved =>
       at.phase \in {"Reward", "Treasure"} /\ Boss(r)

\* The one room that owns a reward screen, by its continuation.
Retained(r) ==
  {o \in {"Event", "Shop", "Rest", "Map", "Treasure"} :
     CASE o = "Event" -> r.at.event # Nil
       [] o = "Shop" -> r.at.shop # Nil
       [] o = "Rest" -> r.at.restDone /\ r.room = "Rest"
       [] o = "Map" -> r.at.treasure # Nil /\ r.room = "Treasure"
       [] o = "Treasure" -> Boss(r) /\ r.chestOpened}

RewardHasOwner(r) ==
  LET w == r.at.reward IN
  w # Nil =>
    /\ CASE w.cont = "None" -> r.at.phase = "Reward" => Retained(r) = {}
         [] w.cont = "Neow" -> Retained(r) = {"Event"} /\ r.at.event = EventAt("Neow", 2)
         [] w.cont = "Map" -> \/ Retained(r) = {"Map"}
                              \/ Retained(r) = {} /\ r.room = "Event"
         [] OTHER -> Retained(r) = {w.cont}
    /\ w.left = 0 => w.shown = "no" /\ w.queued = 0
    /\ w.active => w.shown # "no"
    /\ w.queued <= w.left

AtNeow(r) == r.at.phase = "Event" /\ r.at.event # Nil /\ r.at.event.name = "Neow"
InBossChest(r) == r.at.phase = "Treasure" /\ Boss(r) /\ r.chestOpened
AtMerchant(r) == r.at.phase = "Shop" /\ r.at.shop # Nil /\ r.at.merchant

\* The event screens a grid may lie over: event_grid_has_authoritative_owner.
GridOwners(g) ==
  CASE g.purpose = "EventRemove" -> {<<"Beggar", 2>>}
    [] g.purpose = "RemoveReturn" ->
         {<<"WingStatue", 2>>, <<"TheCleric", 0>>, <<"LivingWall", 0>>, <<"Purifier", 0>>,
          <<"BackToBasics", 0>>, <<"Designer", 1>>, <<"NoteForYourself", 1>>,
          <<"Falling", 1>>, <<"WheelOfChange", 2>>}
    [] g.purpose = "ObtainReturn" -> {<<"TheLibrary", 0>>, <<"Duplicator", 0>>}
    [] g.purpose = "UpgradeReturn" ->
         {<<"Designer", 1>>, <<"AccursedBlacksmith", 0>>, <<"UpgradeShrine", 0>>,
          <<"LivingWall", 0>>}
    [] g.purpose = "TransformReturn" /\ g.need = 2 ->
         {<<"Designer", 1>>, <<"DrugDealer", 1>>}
    [] g.purpose = "TransformReturn" /\ g.need # 2 ->
         {<<"Transmorgrifier", 0>>, <<"LivingWall", 0>>}
    [] g.purpose = "Bonfire" -> {<<"BonfireElementals", 1>>}
    [] g.purpose = "RemoveAndUpgrade" -> {<<"Designer", 1>>}

\* The last stage of each event; where a middle stage does not exist it is left
\* out.  Events not named have one screen after the first.
LastStage(name) ==
  CASE name = "Lab" -> 0
    [] name \in {"Neow", "WingStatue", "HypnotizingColoredMushrooms", "TheCleric",
                 "LivingWall", "ScrapOoze", "TheLibrary", "Nest", "Beggar", "Ghosts",
                 "Colosseum", "Falling", "MysteriousSphere", "SensoryStone",
                 "WindingHalls", "BonfireElementals", "Duplicator", "Purifier",
                 "FaceTrader", "NoteForYourself", "SecretPortal", "KnowingSkull",
                 "Designer"} -> 2
    [] name \in {"GoldenIdol", "TheSsssserpent", "MatchAndKeep", "MaskedBandits",
                 "DeadAdventurer", "WheelOfChange"} -> 3
    [] name \in {"SpireHeart", "TheJoust"} -> 4
    [] name = "CursedTome" -> 5
    [] OTHER -> 1

\* validate_event_screen_authority
EventHasStage(r) ==
  r.at.event # Nil =>
    /\ r.at.event.stage <= LastStage(r.at.event.name)
    /\ r.at.event.name \in {"Duplicator", "Purifier"} => r.at.event.stage # 1

GridHasOwner(r) ==
  r.grid # Nil =>
    CASE r.grid.purpose \in {"RestSmith", "RestRemove"} ->
           r.at.phase = "Rest" /\ ~r.at.restDone
      [] r.grid.purpose = "ShopRemove" -> AtMerchant(r) /\ r.at.shop.remove
      [] r.grid.purpose = "DollysMirror" -> AtMerchant(r)
      [] r.grid.purpose \in {"NeowRemove", "NeowUpgrade", "NeowTransform"} -> AtNeow(r)
      [] r.grid.purpose \in {"EmptyCage", "CallingBell", "PandorasBox", "Astrolabe"} ->
           AtNeow(r) \/ InBossChest(r)
      [] r.grid.purpose = "Bottle" ->
           \/ r.at.phase = "Event" /\ r.at.event # Nil
           \/ r.at.phase = "Reward" /\ r.at.reward # Nil
           \/ AtMerchant(r)
      [] OTHER ->
           /\ r.at.phase = "Event" /\ r.at.event # Nil
           /\ <<r.at.event.name, r.at.event.stage>> \in GridOwners(r.grid)

OutcomeAtEnd(r) ==
  /\ r.outcome # Nil => r.at.phase = "Complete"
  /\ r.outcome = "Act3Clear" => r.act = 3
  /\ r.outcome = "HeartClear" => r.act = 4

Valid(r) ==
  /\ r.at.phase \in Phases /\ r.act \in 1..4 /\ (r.keys # {} => FinalAct)
  /\ PhaseHasPayload(r) /\ PayloadHasPhase(r) /\ EventHasStage(r)
  /\ RewardHasOwner(r) /\ GridHasOwner(r) /\ OutcomeAtEnd(r)

------------------------------------------------------------------------------
(* Properties *)

\* Whatever order rooms, rewards, grids and the map are gone through, the state
\* between two decisions is one RunState::validate accepts, and so is the room
\* a dismissable map would give back (validate_suspended_room).
EveryBoundaryValidates ==
  /\ Valid(run)
  /\ run.under # Nil =>
       /\ run.at.phase = "Idle"
       /\ run.under.phase \in {"Event", "Reward", "Rest", "Shop", "Treasure"}
       /\ Valid(MapReturned(run))

\* There is something to decide until the run is over.  The one exception is the
\* map after a boss chest in Act 4, which FinalBossesPayNothing is about.
DecisionUntilComplete ==
  \/ run.at.phase = "Complete"
  \/ run.at.phase = "Idle" /\ run.act = 4 /\ Boss(run)
  \/ ENABLED Next

\* However often the map is opened over a room and dismissed again, its
\* campfire, its chest, its boss relics and its card removal serve once, and a
\* chest gives its linked relic or the sapphire key, never both.
OncePerRoom ==
  /\ \A t \in {"campfire", "chest", "bossRelic", "removal"} : visit[t] <= 1
  /\ visit["linked"] + visit["sapphire"] <= 1

\* An event is concluded by the time the map opens over it: dismissing the map
\* gives back a screen whose options only open the map again, never one that
\* pays or sells a second time.  Two screens do offer more: the living wall that
\* had no card to show, and the Colosseum's way out.
EventConcluded ==
  run.under # Nil /\ run.under.phase = "Event" =>
    LET back == MapReturned(run) IN
    \/ run.under.event \in {EventAt("LivingWall", 0), EventAt("Colosseum", 2)}
    \/ Offered(back) = Leave(back)

\* A decision takes at most one relic off a reward screen that stays up, whatever
\* position it is claimed at and whatever grid it opens first.
RelicOffersKept ==
  [][ LET before == run.at.reward  after == run'.at.reward IN
      before # Nil /\ after # Nil =>
        /\ Len(after.relics) >= Len(before.relics) - 1
        /\ \A i \in DOMAIN after.relics :
             \E j \in DOMAIN before.relics : after.relics[i] = before.relics[j]
    ]_run

\* The last two bosses pay nothing: a fight with one of them never leads to a
\* reward screen (enter_final_boss_victory).
FinalBossesPayNothing ==
  [][ run.at.phase = "Combat" /\ run'.at.phase = "Reward" =>
        ~(run.act >= 3 /\ Boss(run)) ]_run
==============================================================================

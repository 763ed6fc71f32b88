----------------------------- MODULE RunScreens -----------------------------
(***************************************************************************)
(* A run's way through its rooms: which screen owns the next decision, what *)
(* it still offers, and what is suspended under the map (sts_core/src/run). *)
(* RunEvents adds the events, RunRooms the grids, the specification and its *)
(* properties.                                                             *)
(*                                                                         *)
(* `at' holds the payloads a screen is made of, the ones MapRoomScreen      *)
(* suspends; `under' is the suspended room.  Decks, hit points, gold,       *)
(* prices and the map's edges are open choices: a fight ends either way, a  *)
(* purchase is affordable or not, a grid has cards to show or not.  A relic *)
(* offer is one of a few identities; it is never one already owned, since a *)
(* roll takes the relic out of its pool.                                   *)
(***************************************************************************)
EXTENDS Vectors

CONSTANTS
  Nil,             \* no such payload
  FinalAct,        \* whether the keys to Act 4 are on offer
  EventNames,      \* the events a question mark can hold
  BossRelics,      \* the relics a boss chest (or Neow) can hold, by effect
  ShopRelics       \* likewise for the merchant

VARIABLES
  run,             \* the RunState
  visit            \* auxiliary: how often each of Things happened in this room

vars == <<run, visit>>

Things == {"campfire", "chest", "bossRelic", "removal", "linked", "sapphire"}
Keys == {"ruby", "emerald", "sapphire"}
Fresh == [t \in Things |-> 0]

------------------------------------------------------------------------------
(* Screens *)

Screen == [phase |-> "Idle", event |-> Nil, reward |-> Nil, shop |-> Nil,
           merchant |-> FALSE, treasure |-> Nil, restDone |-> FALSE,
           emerald |-> FALSE]

EventAt(name, stage) == [name |-> name, stage |-> stage]

\* A reward screen: how many card rewards are left, the one shown (rolled on
\* the spot or taken from the queue of eager rolls), coins, the one potion of a
\* fight or the several of an event, relics with the active offer first, and
\* whether a boss chest's relics are shown.
Offers(cont) ==
  [cont |-> cont, left |-> 0, active |-> FALSE, shown |-> "no", queued |-> 0,
   coins |-> {}, potion |-> FALSE, potions |-> 0, relics |-> <<>>, boss |-> FALSE]

OneCard(cont) == [Offers(cont) EXCEPT !.left = 1, !.shown = "rolled"]

Queued(cont, count) == [Offers(cont) EXCEPT !.left = count, !.queued = count]

\* What return_to_reward_continuation looks at: reward_is_empty, but for the
\* several potions of an event.
NoSingleOffer(w) ==
  /\ w.left = 0 /\ w.shown = "no" /\ w.queued = 0
  /\ w.coins = {} /\ ~w.potion /\ w.relics = <<>> /\ ~w.boss

Grid(purpose, need) == [purpose |-> purpose, need |-> need, picked |-> 0]

Here(phase) == run.grid = Nil /\ run.at.phase = phase
Boss(r) == r.room = "Boss"
FinalBoss(r) == r.act = 3 /\ Boss(r)

Became(r, things) ==
  /\ run' = r
  /\ visit' = [t \in Things |-> IF t \in things /\ visit[t] < 2
                                THEN visit[t] + 1 ELSE visit[t]]

Stays(r) == Became(r, {})

------------------------------------------------------------------------------
(* The map laid over a completed room *)

\* Mutant: the suspended campfire forgets that it was used.
OpenMapUnrested(r) == [r EXCEPT !.under = [r.at EXCEPT !.restDone = FALSE],
                                !.at = Screen]

OpenMap(r) == [r EXCEPT !.under = r.at, !.at = Screen]

MapReturned(r) == [r EXCEPT !.at = r.under, !.under = Nil]

MapReturn == Here("Idle") /\ run.under # Nil /\ Stays(MapReturned(run))

\* Rooms in Act 4 come in one order.
Reachable(r) ==
  IF r.act < 4
  THEN IF Boss(r) THEN {}
       ELSE {"Combat", "Elite", "Boss", "Rest", "Shop", "Treasure", "Event"}
  ELSE CASE r.room = "Start" -> {"Rest"}  [] r.room = "Rest" -> {"Shop"}
         [] r.room = "Shop" -> {"Elite"}  [] r.room = "Elite" -> {"Boss"}
         [] OTHER -> {}

Act1Events == {"BigFish", "TheCleric", "DeadAdventurer", "GoldenIdol", "WingStatue",
  "WorldOfGoop", "TheSsssserpent", "LivingWall", "HypnotizingColoredMushrooms",
  "ScrapOoze", "ShiningLight"}

Act2Events == {"Addict", "BackToBasics", "Beggar", "Colosseum", "CursedTome",
  "DrugDealer", "ForgottenAltar", "Ghosts", "MaskedBandits", "Nest", "TheLibrary",
  "TheMausoleum", "Vampires"}

Act3Events == {"Falling", "MindBloom", "MoaiHead", "MysteriousSphere",
  "SensoryStone", "TombOfLordRedMask", "WindingHalls"}

Shrines == {"MatchAndKeep", "GoldenShrine", "Transmorgrifier", "Purifier",
  "UpgradeShrine", "WheelOfChange"}

\* get_event, get_shrine: the events that may befall in an act.
Befall(act) ==
  CASE act = 1 -> Act1Events [] act = 2 -> Act2Events [] OTHER -> Act3Events

OneTime(act) ==
  {"AccursedBlacksmith", "BonfireElementals", "FountainOfCleansing", "Lab",
   "WeMeetAgain", "TheWomanInBlue", "NoteForYourself"}
    \union (IF act >= 2 THEN {"Designer", "Duplicator"} ELSE {})
    \union (IF act <= 2 THEN {"FaceTrader"} ELSE {})
    \union (IF act = 2 THEN {"KnowingSkull", "Nloth", "TheJoust"} ELSE {})
    \union (IF act = 3 THEN {"SecretPortal"} ELSE {})

EventsOf(act) == EventNames \intersect (Befall(act) \union Shrines \union OneTime(act))

ASSUME EffectsAssumption ==
  /\ FinalAct \in BOOLEAN
  /\ \A act \in 1..3 : EventsOf(act) # {}
  /\ BossRelics \subseteq {"plain", "TinyHouse", "CallingBell", "EmptyCage",
                           "PandorasBox", "Astrolabe"}
  /\ ShopRelics \subseteq {"plain", "Bottle", "DollysMirror", "Orrery", "Cauldron"}

\* The screens a room of a kind can be entered with.
Entered(r, kind) ==
  CASE kind = "Rest" -> {[r.at EXCEPT !.phase = "Rest", !.restDone = FALSE]}
    [] kind = "Shop" -> {[r.at EXCEPT !.phase = "Shop", !.merchant = FALSE,
                                      !.shop = [remove |-> TRUE,
                                                relics |-> ShopRelics]]}
    [] kind = "Treasure" -> {[r.at EXCEPT !.phase = "Treasure",
                                          !.treasure = [link |-> Nil]]}
    [] kind = "Event" -> {[r.at EXCEPT !.phase = "Event",
                                       !.event = EventAt(name, 0)] :
                           name \in EventsOf(r.act)}
    [] OTHER -> {[r.at EXCEPT !.phase = "Combat"]}

InRoom(r, kind, at) ==
  [r EXCEPT !.under = Nil, !.room = kind, !.at = at,
            !.fight = IF at.phase = "Combat" THEN "map" ELSE Nil]

EnterRoom ==
  /\ Here("Idle")
  /\ \E kind \in Reachable(run) : \E at \in Entered(run, kind) :
       run' = InRoom(run, kind, at)
  /\ visit' = Fresh

------------------------------------------------------------------------------
(* Leaving a reward screen *)

Owner == [Rest |-> "Rest", Event |-> "Event", Shop |-> "Shop",
          Treasure |-> "Treasure", Neow |-> "Event"]

BackToOwner(r) ==
  [r EXCEPT !.at.phase = Owner[r.at.reward.cont], !.at.reward = Nil,
            !.at.emerald = FALSE]

CloseReward(r, proceeding) ==
  LET cont == r.at.reward.cont IN
  IF cont \in {"None", "Map"} \/ (cont = "Neow" /\ proceeding)
  THEN OpenMap(r) ELSE BackToOwner(r)

ReturnIfEmpty(r) ==
  IF /\ NoSingleOffer(r.at.reward)
     /\ r.at.reward.cont \in {"Rest", "Treasure", "Neow"}
  THEN CloseReward(r, FALSE) ELSE r

\* The chest room behind a boss: its relics are drawn when it is entered.
BossChest(r) ==
  [r EXCEPT !.at.phase = "Treasure", !.at.reward = Nil, !.at.treasure = Nil,
            !.fight = Nil, !.chestOpened = FALSE, !.reserved = TRUE]

\* Mutant: the new act keeps the last one's map, with the boss as its place.
NextActOnOldMap(r) ==
  [r EXCEPT !.act = IF @ < 3 THEN @ + 1 ELSE @, !.at.phase = "Idle",
            !.at.reward = Nil, !.at.treasure = Nil, !.chestOpened = FALSE,
            !.reserved = FALSE]

\* There is a map for Acts 2 and 3 only.
NextAct(r) ==
  [r EXCEPT !.act = IF @ < 3 THEN @ + 1 ELSE @,
            !.room = IF r.act < 3 THEN "Start" ELSE @, !.at.phase = "Idle",
            !.at.reward = Nil, !.at.treasure = Nil, !.chestOpened = FALSE,
            !.reserved = FALSE]

SpireHeart(r) ==
  [r EXCEPT !.room = "Victory", !.at.phase = "Event", !.at.reward = Nil,
            !.at.event = EventAt("SpireHeart", 0), !.fight = Nil]

Act4(r) ==
  [r EXCEPT !.act = 4, !.room = "Start", !.at.phase = "Idle",
            !.at.event = Nil, !.at.reward = Nil]

Ended(r, outcome) ==
  [r EXCEPT !.at.phase = "Complete", !.outcome = outcome, !.at.reward = Nil,
            !.at.event = Nil, !.grid = Nil, !.fight = Nil]

\* settle_out_of_combat_lethal_hp
Died(r) ==
  [Ended(r, "Death") EXCEPT !.at.shop = Nil, !.at.merchant = FALSE,
                            !.promise = "no"]

------------------------------------------------------------------------------
(* Fights *)

EventFight(r, kind, promise) ==
  [r EXCEPT !.at.phase = "Combat", !.at.event = Nil, !.fight = kind,
            !.promise = promise]

Lists(count) == CASE count = 1 -> {<<"idol">>, <<"Bottle">>}
                  [] count = 2 -> {<<"idol", "coin">>, <<"Bottle", "coin">>,
                                   <<"idol", "Bottle">>}

Plain(cards) == [cards EXCEPT !.coins = {"gold"}]

\* The combat reward screens of a room, as they may be rolled.
Spoils(r) ==
  CASE Boss(r) -> {Plain(OneCard("None"))}
    [] r.room = "Elite" ->
         {[Plain(OneCard("None")) EXCEPT !.relics = l] :
            l \in Lists(1) \union Lists(2)}            \* two with Black Star
    [] r.room = "Event" ->
         {[Plain(OneCard("None")) EXCEPT !.relics = l] :
            l \in CASE r.promise = "relic" -> Lists(1)       \* rolled
                    [] r.promise = "mask" -> {<<"mask">>}   \* the event's own
                    [] OTHER -> {<<>>}}
    [] OTHER ->
         {Plain(OneCard("None")), Plain(Queued("None", 2)),  \* Prayer Wheel
          [OneCard("None") EXCEPT !.coins = {"gold", "stolen"}],
          OneCard("None")}                             \* every thief escaped

\* The second Colosseum fight pays the event's two relics.
Prizes == {[Plain(OneCard("Map")) EXCEPT !.relics = l] : l \in Lists(2)}

\* Mutant: a promised event reward outlives its fight.
WonKeepingPromise(r, spoils) ==
  [r EXCEPT !.at.phase = "Reward", !.at.reward = spoils, !.fight = Nil]

Won(r, spoils) ==
  [r EXCEPT !.at.phase = "Reward", !.at.reward = spoils, !.fight = Nil,
            !.promise = "no"]

BurningElite(r) ==
  FinalAct /\ r.act < 4 /\ r.room = "Elite" /\ "emerald" \notin r.keys

Pays(spoils) ==
  \E w \in spoils, potion \in BOOLEAN :
  \E burning \in {FALSE} \union {BurningElite(run)} :
    Stays([Won(run, [w EXCEPT !.potion = potion]) EXCEPT !.at.emerald = burning])

Fighting == Here("Combat") /\ run.fight # "lost"

Victory(r) ==
  [r EXCEPT !.at.phase = "Victory", !.at.reward = Nil, !.fight = Nil]

\* The last blow is a combat action: a card played, the turn ended.
WinCombat ==
  /\ Fighting
  /\ CASE run.fight = "first" ->
            Stays([run EXCEPT !.at.phase = "Event", !.fight = Nil,
                              !.at.event = EventAt("Colosseum", 2)])
       [] run.fight = "colosseum" -> Pays(Prizes)
       [] run.act >= 3 /\ Boss(run) -> Stays(Victory(run))
       [] OTHER -> Pays(Spoils(run))

\* The last blow comes from a potion, or from the turn or the card a choice
\* resumes: enter_combat_reward_for_current_room.
WinByPotionOrChoice ==
  /\ Fighting
  /\ IF run.act = 3 /\ Boss(run) THEN Stays(Victory(run)) ELSE Pays(Spoils(run))

SmokeBomb ==
  /\ Fighting /\ ~Boss(run)
  /\ Stays([run EXCEPT !.at.phase = "Idle", !.at.reward = Nil, !.fight = Nil,
                       !.promise = "no"])

LoseCombat ==
  /\ Fighting
  /\ Stays([run EXCEPT !.fight = "lost"])

LossProceed ==
  /\ Here("Combat") /\ run.fight = "lost"
  /\ Stays([Ended(run, "Death") EXCEPT !.promise = "no"])

VictoryProceed ==
  /\ Here("Victory")
  /\ Stays(IF run.act = 4 THEN Ended(run, "HeartClear") ELSE SpireHeart(run))

------------------------------------------------------------------------------
(* Relics and their effects on pickup *)

OpenGrid(r, purpose, need) == [r EXCEPT !.grid = Grid(purpose, need)]

MayOpen(r, purpose, need) == {r, OpenGrid(r, purpose, need)}

House(w) == [w EXCEPT !.coins = @ \union {"gold"}, !.potion = TRUE,
                      !.left = @ + 1, !.shown = "rolled"]

\* gain_relic: the states a pickup may lead to.
Gained(r, relic) ==
  CASE relic = "Bottle" -> MayOpen(r, "Bottle", 1)
    [] relic = "CallingBell" -> {OpenGrid(r, "CallingBell", 0)}
    [] relic = "PandorasBox" -> MayOpen(r, "PandorasBox", 0)
    [] relic = "Astrolabe" -> MayOpen(r, "Astrolabe", 3)
    [] relic = "EmptyCage" -> MayOpen(r, "EmptyCage", 2)
    [] relic = "DollysMirror" -> {OpenGrid(r, "DollysMirror", 1)}
    [] relic = "TinyHouse" /\ r.at.reward # Nil ->
         {[r EXCEPT !.at.reward = House(@)]}
    [] relic = "Cauldron" ->
         {[r EXCEPT !.at.phase = "Reward", !.at.merchant = FALSE,
                    !.at.reward = [Offers("Shop") EXCEPT !.potions = 5]]}
    [] relic = "Orrery" ->
         {[r EXCEPT !.at.phase = "Reward", !.at.merchant = FALSE,
                    !.at.reward = Queued("Shop", 5)]}
    [] OTHER -> {r}

------------------------------------------------------------------------------
(* Reward decisions *)

Reward == run.at.reward
OnReward == Here("Reward")

CardResolved(w) ==
  [w EXCEPT !.left = @ - 1, !.active = FALSE, !.shown = "no",
            !.queued = IF w.shown = "queued" THEN @ - 1 ELSE @]

OpenCardReward ==
  /\ OnReward /\ Reward.left > 0 /\ ~Reward.active
  /\ \E pick \in {FALSE} \union (IF Reward.queued > 0 THEN {TRUE} ELSE {}) :
       Stays([run EXCEPT
         !.at.reward.active = TRUE,
         !.at.reward.shown = IF pick \/ (@ = "no" /\ Reward.queued > 0)
                             THEN "queued"
                             ELSE IF @ = "no" THEN "rolled" ELSE @])

CloseCardReward ==
  /\ OnReward /\ Reward.active
  /\ IF Reward.cont = "Rest"
     THEN Stays(ReturnIfEmpty([run EXCEPT !.at.reward = CardResolved(@)]))
     ELSE Stays([run EXCEPT !.at.reward.active = FALSE])

\* TakeCardReward, TakeSingingBowlReward
TakeCardReward ==
  /\ OnReward /\ Reward.active
  /\ Stays(ReturnIfEmpty([run EXCEPT !.at.reward = CardResolved(@)]))

SkipReward ==
  /\ OnReward
  /\ Stays(IF Reward.active
           THEN ReturnIfEmpty([run EXCEPT !.at.reward = CardResolved(@)])
           ELSE IF Boss(run) /\ Reward.boss
           THEN [run EXCEPT !.at.phase = "Treasure", !.at.reward = Nil,
                            !.chestOpened = FALSE]
           ELSE IF Boss(run) /\ ~run.chestOpened /\ Len(Reward.relics) < 2
           THEN BossChest(run)
           ELSE CloseReward(run, FALSE))

\* TakeGoldReward, TakeStolenGoldReward
TakeCoins ==
  /\ OnReward
  /\ \E coin \in Reward.coins :
       Stays([run EXCEPT !.at.reward.coins = @ \ {coin}])

\* A claimed potion leaves the screen; one that does not fit stays.
TakePotionReward ==
  /\ OnReward
  /\ \/ Reward.potions > 0 /\ Stays([run EXCEPT !.at.reward.potions = @ - 1])
     \/ Reward.potion /\ Stays([run EXCEPT !.at.reward.potion = FALSE])

SkipPotionReward ==
  /\ OnReward /\ (Reward.potion \/ Reward.potions > 0)
  /\ Stays([run EXCEPT !.at.reward.potion = FALSE, !.at.reward.potions = 0])

\* Mutant: taking an offer out of turn drops the one before it.
OthersAfter(relics, i) == SubSeq(relics, i + 1, Len(relics))

Others(relics, i) == Without(relics, relics[i])

Linked(r) == IF r.at.treasure = Nil THEN Nil ELSE r.at.treasure.link

WithoutOffer(r, i) ==
  LET relic == r.at.reward.relics[i]
      taken == [r EXCEPT !.at.reward.relics = Others(@, i)]
  IN IF Linked(r) = relic THEN [taken EXCEPT !.at.treasure.link = Nil]
     ELSE taken

\* TakeRelicReward, TakeRelicRewardAt
TakeRelicReward ==
  /\ OnReward
  /\ \E i \in DOMAIN Reward.relics :
     \E r \in Gained(WithoutOffer(run, i), Reward.relics[i]) :
       Became(r, IF Linked(run) = Reward.relics[i] THEN {"linked"} ELSE {})

TakeSapphireKey ==
  /\ OnReward /\ Linked(run) # Nil /\ "sapphire" \notin run.keys
  /\ Became([run EXCEPT
       !.at.reward.relics = Without(@, Linked(run)),
       !.at.treasure.link = Nil, !.keys = @ \union {"sapphire"}], {"sapphire"})

TakeEmeraldKey ==
  /\ OnReward /\ run.at.emerald /\ "emerald" \notin run.keys
  /\ Stays([run EXCEPT !.at.emerald = FALSE, !.keys = @ \union {"emerald"}])

ChooseBossRelic ==
  /\ OnReward /\ Reward.boss
  /\ \E relic \in BossRelics :
     \E r \in Gained(IF relic = "TinyHouse"
                     THEN [run EXCEPT !.at.reward.boss = FALSE, !.reserved = FALSE]
                     ELSE [run EXCEPT !.at.phase = "Treasure", !.at.reward = Nil,
                                      !.reserved = FALSE],
                     relic) :
       Became(r, {"bossRelic"})

MayProceed(r) ==
  LET w == r.at.reward IN
  \/ FinalBoss(r)
  \/ w.cont = "Neow"
  \/ w.cont = "None" /\ r.room \in {"Combat", "Elite", "Boss", "Event"}
  \/ /\ ~w.active
     /\ \/ w.cont \in {"Event", "Shop"}
        \/ w.cont = "Map" /\ r.room \in {"Event", "Treasure"}
        \/ w.cont = "Rest" /\ r.at.restDone
        \/ w.cont = "Treasure" /\ Boss(r) /\ r.chestOpened
  \/ w.cont # "None" /\ NoSingleOffer(w) /\ w.potions = 0

Proceeded(r) ==
  LET w == r.at.reward IN
  IF FinalBoss(r) THEN SpireHeart(r)
  ELSE IF Boss(r) /\ r.chestOpened /\ w.cont = "Treasure" /\ ~w.active
  THEN NextAct(r)
  ELSE IF /\ Boss(r) /\ ~r.chestOpened /\ w.cont = "None"
          /\ ~w.boss /\ Len(w.relics) < 2
  THEN BossChest(r)
  ELSE IF (w.cont = "Rest" /\ r.at.restDone) \/ w.cont = "Shop"
  THEN OpenMap(r)
  ELSE CloseReward(r, TRUE)

RewardProceed == OnReward /\ MayProceed(run) /\ Stays(Proceeded(run))

------------------------------------------------------------------------------
(* Chests, campfires, shops *)

Chest(r, relics) ==
  [r EXCEPT
     !.at.phase = "Reward", !.fight = Nil,
     !.at.treasure.link = IF FinalAct /\ "sapphire" \notin r.keys
                          THEN relics[Len(relics)] ELSE @,
     !.at.reward = [Offers("Map") EXCEPT !.relics = relics]]

OpenChest ==
  /\ Here("Treasure")
  /\ \/ /\ Boss(run) /\ run.at.treasure = Nil /\ ~run.chestOpened
        /\ Stays([run EXCEPT !.at.phase = "Reward", !.chestOpened = TRUE,
                             !.reserved = TRUE,
                             !.at.reward = [Offers("Treasure") EXCEPT !.boss = TRUE]])
     \/ /\ run.at.treasure # Nil
        /\ \E relics \in Lists(1) \union Lists(2) :    \* two with Matryoshka
           \E gold \in {{}, {"gold"}} :
             Became([Chest(run, relics) EXCEPT !.at.reward.coins = gold],
                    {"chest"})

TreasureProceed ==
  /\ Here("Treasure")
  /\ \/ Boss(run) /\ run.at.reward = Nil /\ Stays(NextAct(run))
     \/ ~Boss(run) /\ run.at.treasure # Nil /\ Stays(OpenMap(run))

Rested(r) == [r EXCEPT !.at.restDone = TRUE]

\* Heal, Lift, Smith, RemoveCard; Heal with Dream Catcher; Dig; Recall
UseCampfire ==
  /\ Here("Rest") /\ ~run.at.restDone
  /\ \E r \in {Rested(run)}
         \union {[Rested(run) EXCEPT !.at.phase = "Reward", !.at.reward = w] :
                   w \in {[OneCard("Rest") EXCEPT !.active = TRUE]}
                         \union {[Offers("Rest") EXCEPT !.relics = l] : l \in Lists(1)}}
         \union (IF FinalAct /\ "ruby" \notin run.keys
                 THEN {[Rested(run) EXCEPT !.keys = @ \union {"ruby"}]} ELSE {}) :
       Became(r, {"campfire"})

\* OpenSmith, OpenRemove
OpenCampfireGrid ==
  /\ Here("Rest") /\ ~run.at.restDone
  /\ \E purpose \in {"RestSmith", "RestRemove"} :
       Stays(OpenGrid(run, purpose, 1))

\* Proceed is legal when the campfire is used, or offers nothing at all.
RestProceed == Here("Rest") /\ Stays(OpenMap(run))

EnterShop ==
  Here("Shop") /\ ~run.at.merchant /\ Stays([run EXCEPT !.at.merchant = TRUE])

LeaveShop ==
  Here("Shop") /\ run.at.merchant /\ Stays([run EXCEPT !.at.merchant = FALSE])

ShopProceed == Here("Shop") /\ ~run.at.merchant /\ Stays(OpenMap(run))

OpenShopRemove ==
  /\ Here("Shop") /\ run.at.merchant /\ run.at.shop.remove
  /\ Stays(OpenGrid(run, "ShopRemove", 1))

BuyShopRelic ==
  /\ Here("Shop") /\ run.at.merchant
  /\ \E relic \in run.at.shop.relics :
     \E r \in Gained([run EXCEPT !.at.shop.relics = @ \ {relic}], relic) :
       Stays(r)
==============================================================================

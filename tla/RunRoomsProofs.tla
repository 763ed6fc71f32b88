---------------------------- MODULE RunRoomsProofs ----------------------------
(***************************************************************************)
(* Proofs about the screens of a run, for any set of events and relics,    *)
(* with and without the last act.                                          *)
(***************************************************************************)
EXTENDS RunRooms, VectorsProofs

------------------------------------------------------------------------------
(* The inductive invariant *)

\* How many cards are left, by what is shown of them.
CardFlow(w) ==
  /\ w.queued <= w.left
  /\ w.shown = "rolled" => w.queued < w.left
  /\ w.shown = "queued" => w.queued > 0
  /\ w.active => w.shown # "no"

\* The room a payload belongs to.
RoomOf(e) == CASE e.name = "Neow" -> "Start"
               [] e.name = "SpireHeart" -> "Victory"
               [] OTHER -> "Event"

PayloadInRoom(r) ==
  /\ r.at.event # Nil => r.room = RoomOf(r.at.event)
  /\ r.at.shop # Nil => r.room = "Shop"
  /\ r.at.treasure # Nil => r.room = "Treasure"
  /\ r.at.emerald => r.room = "Elite" /\ FinalAct
  /\ r.fight \in {"first", "colosseum"} \/ r.promise # "no" => r.room = "Event"
  /\ r.fight = "first" => r.promise = "no"

RewardFlow(r) ==
  r.at.reward # Nil => /\ CardFlow(r.at.reward)
                       /\ IsInjective(r.at.reward.relics)
                       /\ r.at.reward.boss => r.at.reward.cont = "Treasure"
                       /\ r.reserved => r.chestOpened

\* The last boss of the third act leaves its room by the victory screen only.
LastActs(r) ==
  /\ FinalBoss(r) => r.at.phase \in {"Combat", "Victory", "Complete"}
  /\ r.room = "Victory" => r.act = 3

\* A search of the dead adventurer's things has no third screen.
Stages(r) ==
  /\ EventHasStage(r)
  /\ r.at.event # Nil /\ r.at.event.name = "DeadAdventurer" => r.at.event.stage # 2

NeowLeaves(r) == r.grid # Nil /\ AtNeow(r) => r.at.event.stage = 2

\* What is still on offer was not used in this visit.
Unused(r, v) ==
  /\ r.at.phase = "Rest" /\ ~r.at.restDone => v["campfire"] = 0
  /\ r.at.phase = "Treasure" /\ r.at.treasure # Nil => v["chest"] = 0
  /\ \/ Linked(r) # Nil
     \/ r.at.phase = "Treasure" /\ r.at.treasure # Nil
     => v["linked"] = 0 /\ v["sapphire"] = 0
  /\ r.at.shop # Nil /\ r.at.shop.remove => v["removal"] = 0
  /\ \/ v["bossRelic"] = 0
     \/ r.at.phase = "Idle"
     \/ Boss(r) /\ r.chestOpened /\ (r.at.reward # Nil => ~r.at.reward.boss)

\* A reward screen is there for the one payload that owns it.
Owned(r) ==
  LET cont == r.at.reward.cont IN
  r.at.reward # Nil =>
    /\ r.at.event # Nil <=> cont \in {"Event", "Neow"}
    /\ r.at.shop # Nil <=> cont = "Shop"
    /\ r.at.restDone <=> cont = "Rest"
    /\ Boss(r) /\ r.chestOpened <=> cont = "Treasure"
    /\ r.at.treasure # Nil => cont = "Map"
    /\ cont = "Map" => r.at.treasure # Nil \/ r.room = "Event"
    /\ cont = "Neow" => r.at.event = EventAt("Neow", 2)

Screens(r) ==
  /\ PhaseHasPayload(r) /\ PayloadHasPhase(r) /\ PayloadInRoom(r)
  /\ LastActs(r) /\ OutcomeAtEnd(r) /\ (r.keys # {} => FinalAct)

Overlaid(r) == GridHasOwner(r) /\ NeowLeaves(r)

Sound(r, v) ==
  /\ Screens(r) /\ Stages(r) /\ Owned(r) /\ RewardFlow(r)
  /\ Overlaid(r) /\ Unused(r, v)

\* An event over which the map can be opened.
Concluded(e) ==
  \/ e \in {EventAt("LivingWall", 0), EventAt("Colosseum", 2)}
  \/ \A q : q.at.event = e => Offered(q) = Leave(q)

Suspends(r, v) ==
  /\ r.at.phase = "Idle"
  /\ r.under.phase \in {"Event", "Reward", "Rest", "Shop", "Treasure"}
  /\ Sound(MapReturned(r), v)
  /\ r.under.phase = "Event" => Concluded(r.under.event)

Standing(r, v) == r \in RunType /\ Sound(r, v) /\ r.under = Nil

Good(r, v) == r \in RunType /\ Sound(r, v) /\ (r.under # Nil => Suspends(r, v))

------------------------------------------------------------------------------
LEMMA RunFields ==
  ASSUME NEW r \in RunType
  PROVE  /\ r.at \in ScreenType /\ r.under \in ScreenType \union {Nil}
         /\ r.grid \in GridType \union {Nil} /\ r.room \in Rooms
         /\ r.act \in 1..4 /\ r.keys \in SUBSET Keys
         /\ r.chestOpened \in BOOLEAN /\ r.reserved \in BOOLEAN
         /\ r.promise \in {"no", "gold", "relic", "mask"}
         /\ r.fight \in Fights \union {Nil} /\ r.outcome \in Outcomes \union {Nil}
         /\ r.at.phase \in Phases /\ r.at.event \in EventType \union {Nil}
         /\ r.at.reward \in RewardType \union {Nil} /\ r.at.shop \in ShopType \union {Nil}
         /\ r.at.merchant \in BOOLEAN /\ r.at.treasure \in TreasureType \union {Nil}
         /\ r.at.restDone \in BOOLEAN /\ r.at.emerald \in BOOLEAN
BY DEF RunType, ScreenType

LEMMA OpenMapFields ==
  ASSUME NEW r \in RunType
  PROVE  LET q == OpenMap(r) IN
         /\ q \in RunType /\ q.at = Screen /\ q.under = r.at
         /\ q.grid = r.grid /\ q.room = r.room /\ q.act = r.act /\ q.keys = r.keys
         /\ q.chestOpened = r.chestOpened /\ q.reserved = r.reserved
         /\ q.promise = r.promise /\ q.fight = r.fight /\ q.outcome = r.outcome
BY DEF OpenMap, RunType, Screen, ScreenType, Phases

LEMMA BlankScreen ==
  /\ Screen.phase = "Idle" /\ Screen.event = Nil /\ Screen.reward = Nil
  /\ Screen.shop = Nil /\ Screen.merchant = FALSE /\ Screen.treasure = Nil
  /\ Screen.restDone = FALSE /\ Screen.emerald = FALSE
BY DEF Screen

LEMMA NilIsNoName ==
  Nil \notin Fights /\ Nil \notin Outcomes
BY NilAssumption

\* What RunState::validate asks of a state follows from the invariant.
LEMMA SoundIsValid ==
  ASSUME NEW r \in RunType, NEW v, Sound(r, v)
  PROVE  Valid(r)
<1>1. Screens(r) /\ Stages(r) /\ Owned(r) /\ RewardFlow(r) /\ Overlaid(r)
  BY DEF Sound
<1>2. ASSUME r.at.reward # Nil
      PROVE  RewardHasOwner(r)
  <2> DEFINE w == r.at.reward
  <2>1. /\ w \in RewardType /\ r.at.phase = "Reward" /\ CardFlow(w)
        /\ r.at.restDone => r.room = "Rest"
        /\ r.at.treasure # Nil => r.room = "Treasure"
    BY <1>1, <1>2, RunFields DEF Screens, PayloadHasPhase, PayloadInRoom, RewardFlow
  <2>2. /\ w.left = 0 => w.shown = "no" /\ w.queued = 0
        /\ w.active => w.shown # "no"
        /\ w.queued <= w.left
    BY <2>1 DEF CardFlow, RewardType
  <2> HIDE DEF w
  <2>3. /\ "Event" \in Retained(r) <=> r.at.event # Nil
        /\ "Shop" \in Retained(r) <=> r.at.shop # Nil
        /\ "Rest" \in Retained(r) <=> r.at.restDone
        /\ "Map" \in Retained(r) <=> r.at.treasure # Nil
        /\ "Treasure" \in Retained(r) <=> Boss(r) /\ r.chestOpened
        /\ Retained(r) \subseteq {"Event", "Shop", "Rest", "Map", "Treasure"}
    BY <2>1 DEF Retained
  <2>4. w.cont \in {"None", "Map", "Rest", "Event", "Shop", "Treasure", "Neow"}
    BY <2>1 DEF RewardType, Owner
  <2>5. CASE w.cont = "None"
    <3>1. Retained(r) = {}
      BY <1>1, <1>2, <2>3, <2>5 DEF Owned, w
    <3> QED BY <2>2, <2>5, <3>1 DEF RewardHasOwner, w
  <2>6. CASE w.cont = "Neow"
    <3>1. Retained(r) = {"Event"} /\ r.at.event = EventAt("Neow", 2)
      BY <1>1, <1>2, <2>3, <2>6 DEF Owned, w
    <3> QED BY <2>2, <2>6, <3>1 DEF RewardHasOwner, w
  <2>7. CASE w.cont = "Map"
    <3>1. \/ Retained(r) = {"Map"}
          \/ Retained(r) = {} /\ r.room = "Event"
      BY <1>1, <1>2, <2>3, <2>7 DEF Owned, w
    <3> QED BY <2>2, <2>7, <3>1 DEF RewardHasOwner, w
  <2>8. CASE w.cont \in {"Rest", "Event", "Shop", "Treasure"}
    <3>1. Retained(r) = {w.cont}
      BY <1>1, <1>2, <2>3, <2>8 DEF Owned, w
    <3> QED BY <2>2, <2>8, <3>1 DEF RewardHasOwner, w
  <2> QED BY <2>4, <2>5, <2>6, <2>7, <2>8
<1> QED BY <1>1, <1>2, RunFields DEF Stages, Valid, Screens, Overlaid, RewardHasOwner

LEMMA GridClosed ==
  ASSUME NEW r, NEW v, Standing(r, v), NEW q, q = [r EXCEPT !.grid = Nil]
  PROVE  Standing(q, v)
<1>1. r \in RunType /\ Sound(r, v) /\ r.under = Nil
  BY DEF Standing
<1>2. /\ q \in RunType /\ q.grid = Nil /\ q.under = r.under /\ q.at = r.at
      /\ q.room = r.room /\ q.act = r.act
      /\ q.keys = r.keys /\ q.chestOpened = r.chestOpened /\ q.reserved = r.reserved
      /\ q.promise = r.promise /\ q.fight = r.fight /\ q.outcome = r.outcome
  BY <1>1 DEF RunType
<1> QED BY <1>1, <1>2 DEF Standing, Sound, Screens, PhaseHasPayload, PayloadHasPhase,
  PayloadInRoom, LastActs, OutcomeAtEnd, Linked, Boss, FinalBoss, Stages, EventHasStage,
  Overlaid, GridHasOwner, NeowLeaves, Unused, Owned, RewardFlow

LEMMA NextActStands ==
  ASSUME NEW r, NEW v, Standing(r, v), Boss(r), r.grid = Nil, r.outcome = Nil,
         r.at.phase \in {"Reward", "Treasure"}, r.at.event = Nil
  PROVE  Standing(NextAct(r), v)
<1> DEFINE q == NextAct(r)
           s == [r.at EXCEPT !.phase = "Idle", !.reward = Nil, !.treasure = Nil]
           a == IF r.act < 3 THEN r.act + 1 ELSE r.act
           k == IF r.act < 3 THEN "Start" ELSE r.room
<1>1. r \in RunType /\ Sound(r, v) /\ r.under = Nil
  BY DEF Standing
<1>2. /\ s \in ScreenType /\ s.phase = "Idle" /\ s.event = r.at.event /\ s.reward = Nil
      /\ s.treasure = Nil /\ s.shop = r.at.shop /\ s.merchant = r.at.merchant
      /\ s.restDone = r.at.restDone /\ s.emerald = r.at.emerald
  BY <1>1, RunFields DEF ScreenType, Phases
<1>3. a \in 1..4 /\ k \in Rooms
  BY <1>1, RunFields DEF Rooms
<1>4. q = [r EXCEPT !.at = s, !.act = a, !.room = k, !.chestOpened = FALSE, !.reserved = FALSE]
  BY <1>1, RunFields DEF NextAct, RunType, ScreenType
<1>5. /\ q \in RunType /\ q.grid = r.grid /\ q.under = r.under
      /\ q.act = a /\ q.room = k /\ q.at = s
      /\ q.keys = r.keys /\ q.chestOpened = FALSE /\ q.reserved = FALSE
      /\ q.promise = r.promise /\ q.fight = r.fight /\ q.outcome = r.outcome
  <2> HIDE DEF s, a, k, q
  <2> QED BY <1>1, <1>2, <1>3, <1>4 DEF RunType
<1> HIDE DEF q, s
<1>6. Screens(q)
  BY <1>1, <1>2, <1>3, <1>5 DEF Sound, Screens, PhaseHasPayload, PayloadHasPhase,
    PayloadInRoom, LastActs, OutcomeAtEnd, Linked, Boss, FinalBoss
<1>7. Stages(q) /\ Overlaid(q) /\ Owned(q) /\ RewardFlow(q)
  BY <1>1, <1>2, <1>3, <1>5 DEF Stages, EventHasStage, Overlaid, GridHasOwner,
    NeowLeaves, Owned, RewardFlow
<1>8. Unused(q, v)
  BY <1>1, <1>2, <1>3, <1>5 DEF Sound, Unused, Linked, Screens, PhaseHasPayload,
    PayloadHasPhase, PayloadInRoom, LastActs, OutcomeAtEnd, Linked, Boss, FinalBoss
<1> QED BY <1>1, <1>5, <1>6, <1>7, <1>8 DEF Standing, Sound, q

LEMMA ScreenChanged ==
  ASSUME NEW r \in RunType, NEW s \in ScreenType
  PROVE  LET q == [r EXCEPT !.at = s] IN
         /\ q \in RunType /\ q.at = s /\ q.under = r.under /\ q.grid = r.grid
         /\ q.room = r.room /\ q.act = r.act /\ q.keys = r.keys
         /\ q.chestOpened = r.chestOpened /\ q.reserved = r.reserved
         /\ q.promise = r.promise /\ q.fight = r.fight /\ q.outcome = r.outcome
BY DEF RunType

LEMMA GridChanged ==
  ASSUME NEW r, NEW v, Standing(r, v), NEW g \in GridType \union {Nil},
         NEW q, q = [r EXCEPT !.grid = g], Overlaid(q)
  PROVE  Standing(q, v)
<1>1. r \in RunType /\ Sound(r, v) /\ r.under = Nil
  BY DEF Standing
<1>2. /\ q \in RunType /\ q.under = r.under /\ q.at = r.at /\ q.room = r.room
      /\ q.act = r.act /\ q.keys = r.keys /\ q.chestOpened = r.chestOpened
      /\ q.reserved = r.reserved /\ q.promise = r.promise /\ q.fight = r.fight
      /\ q.outcome = r.outcome
  BY <1>1 DEF RunType
<1> QED BY <1>1, <1>2 DEF Standing, Sound, Screens, PhaseHasPayload, PayloadHasPhase,
  PayloadInRoom, LastActs, OutcomeAtEnd, Linked, Boss, FinalBoss, Stages, EventHasStage,
  Unused, Owned, RewardFlow

\* An event shows another of its stages.
LEMMA AtStands ==
  ASSUME NEW r, NEW v, Standing(r, v), r.at.phase = "Event", r.grid = Nil,
         NEW k \in 0..5, k <= LastStage(r.at.event.name),
         r.at.event.name \in {"Duplicator", "Purifier"} => k # 1,
         r.at.event.name = "DeadAdventurer" => k # 2
  PROVE  /\ Standing(At(r, k), v) /\ At(r, k).at.phase = "Event" /\ At(r, k).grid = Nil
         /\ At(r, k).at.event = EventAt(r.at.event.name, k)
<1> DEFINE q == At(r, k)
           e == EventAt(r.at.event.name, k)
           s == [r.at EXCEPT !.event = e]
<1>1. r \in RunType /\ Sound(r, v) /\ r.under = Nil
  BY DEF Standing
<1>2. r.at.event \in EventType /\ r.at.reward = Nil
  BY <1>1, RunFields DEF Sound, Screens, PhaseHasPayload, PayloadHasPhase,
    PayloadInRoom, LastActs, OutcomeAtEnd, Linked, Boss, FinalBoss
<1>3. e \in EventType /\ e.name = r.at.event.name /\ e.stage = k
      /\ e = [r.at.event EXCEPT !.stage = k]
  BY <1>2 DEF EventType, EventAt
<1>4. /\ s \in ScreenType /\ s.phase = "Event" /\ s.event = e /\ s.reward = Nil
      /\ s.treasure = r.at.treasure /\ s.shop = r.at.shop /\ s.merchant = r.at.merchant
      /\ s.restDone = r.at.restDone /\ s.emerald = r.at.emerald
  BY <1>1, <1>2, <1>3, RunFields DEF ScreenType, Phases
<1>5. q = [r EXCEPT !.at = s]
  BY <1>1, <1>3, RunFields DEF At, RunType, ScreenType
<1>6. e # Nil
  BY <1>3, NilAssumption
<1> HIDE DEF q, s, e
<1>7. /\ q \in RunType /\ q.at = s /\ q.under = r.under /\ q.grid = r.grid
      /\ q.room = r.room /\ q.act = r.act /\ q.keys = r.keys
      /\ q.chestOpened = r.chestOpened /\ q.reserved = r.reserved
      /\ q.promise = r.promise /\ q.fight = r.fight /\ q.outcome = r.outcome
  BY <1>1, <1>4, <1>5, ScreenChanged
<1>8. Screens(q)
  <2>1. PhaseHasPayload(q) /\ PayloadHasPhase(q)
    BY <1>1, <1>3, <1>4, <1>6, <1>7 DEF Sound, Screens, PhaseHasPayload,
      PayloadHasPhase, Linked, Boss
  <2>2. PayloadInRoom(q)
    BY <1>1, <1>2, <1>3, <1>4, <1>6, <1>7 DEF Sound, Screens, PayloadInRoom, RoomOf,
      PhaseHasPayload
  <2>3. LastActs(q) /\ OutcomeAtEnd(q) /\ (q.keys # {} => FinalAct)
    BY <1>1, <1>4, <1>7 DEF Sound, Screens, LastActs, OutcomeAtEnd, Boss, FinalBoss
  <2> QED BY <2>1, <2>2, <2>3 DEF Screens
<1>9. Stages(q) /\ Overlaid(q)
  BY <1>1, <1>3, <1>4, <1>7 DEF Sound, Stages, EventHasStage, Overlaid, GridHasOwner,
    NeowLeaves
<1>10. Owned(q) /\ RewardFlow(q) /\ Unused(q, v)
  BY <1>1, <1>4, <1>7 DEF Sound, Unused, Linked, Boss, Owned, RewardFlow
<1> QED BY <1>1, <1>4, <1>7, <1>8, <1>9, <1>10 DEF Standing, Sound, q, e

\* A reward screen over the event or the boss chest that owns it.
LEMMA ShowingStands ==
  ASSUME NEW r, NEW v, Standing(r, v), r.grid = Nil,
         NEW w \in RewardType, CardFlow(w), IsInjective(w.relics), ~w.boss,
         \/ r.at.phase = "Event" /\ r.at.event # Nil /\ w.cont = "Event"
         \/ /\ r.at.phase = "Event" /\ w.cont = "Neow"
            /\ r.at.event = EventAt("Neow", 2)
         \/ InBossChest(r) /\ w.cont = "Treasure",
         r.at.phase = "Event" /\ w.cont = "Event" => r.at.event.name # "Neow"
  PROVE  /\ Standing(Showing(r, w), v) /\ Showing(r, w).at.phase = "Reward"
         /\ Showing(r, w).grid = Nil /\ Showing(r, w).at.reward = w
         /\ Showing(r, w).at.event = r.at.event
<1> DEFINE q == Showing(r, w)
           s == [r.at EXCEPT !.phase = "Reward", !.reward = w]
<1>1. r \in RunType /\ Sound(r, v) /\ r.under = Nil
  BY DEF Standing
<1>2. /\ s \in ScreenType /\ s.phase = "Reward" /\ s.reward = w /\ s.event = r.at.event
      /\ s.treasure = r.at.treasure /\ s.shop = r.at.shop /\ s.merchant = r.at.merchant
      /\ s.restDone = r.at.restDone /\ s.emerald = r.at.emerald
  BY <1>1, RunFields DEF ScreenType, Phases
<1>3. q = [r EXCEPT !.at = s]
  BY <1>1, RunFields DEF Showing, RunType, ScreenType
<1>4. w # Nil /\ EventAt("Neow", 2) \in EventType
  BY NilAssumption DEF EventType, EventAt
<1>5. EventAt("Neow", 2) # Nil
  BY <1>4, NilAssumption
<1> HIDE DEF q, s
<1>6. /\ q \in RunType /\ q.at = s /\ q.under = r.under /\ q.grid = r.grid
      /\ q.room = r.room /\ q.act = r.act /\ q.keys = r.keys
      /\ q.chestOpened = r.chestOpened /\ q.reserved = r.reserved
      /\ q.promise = r.promise /\ q.fight = r.fight /\ q.outcome = r.outcome
  BY <1>1, <1>2, <1>3, ScreenChanged
<1>7. /\ r.at.treasure # Nil => r.room = "Treasure"
      /\ r.at.phase = "Event" => /\ r.room # "Boss" /\ r.room # "Treasure"
                                 /\ r.at.treasure = Nil /\ r.at.shop = Nil
                                 /\ ~r.at.restDone /\ r.at.event # Nil
                                 /\ ~r.chestOpened /\ ~r.reserved
      /\ r.at.phase = "Treasure" => /\ r.at.event = Nil /\ r.at.shop = Nil
                                    /\ ~r.at.restDone /\ ~r.at.emerald
                                    /\ Linked(r) = Nil
  BY <1>1, <1>5 DEF Sound, Screens, PhaseHasPayload, PayloadHasPhase, PayloadInRoom,
    LastActs, OutcomeAtEnd, Linked, Boss, FinalBoss, RoomOf
<1>8. Screens(q)
  BY <1>1, <1>2, <1>4, <1>6, <1>7 DEF Sound, Screens, PhaseHasPayload, PayloadHasPhase,
    PayloadInRoom, LastActs, OutcomeAtEnd, Linked, Boss, FinalBoss, InBossChest
<1>9. Owned(q) /\ RewardFlow(q)
  BY <1>1, <1>2, <1>4, <1>5, <1>6, <1>7 DEF Owned, RewardFlow, Boss, InBossChest
<1>10. Stages(q) /\ Overlaid(q) /\ Unused(q, v)
  BY <1>1, <1>2, <1>4, <1>6, <1>7 DEF Sound, Unused, Linked, Boss, Stages,
    EventHasStage, Overlaid, GridHasOwner, NeowLeaves, Owned, RewardFlow, InBossChest
<1> QED BY <1>1, <1>2, <1>6, <1>8, <1>9, <1>10 DEF Standing, Sound, q

\* A run that ends: nothing is left standing but what the last room held.
LEMMA EndedStands ==
  ASSUME NEW r, NEW v, Standing(r, v), r.at.phase \notin {"Complete", "Idle"},
         NEW outcome \in {"Death", "HeartClear"}, outcome = "HeartClear" => r.act = 4,
         r.promise = "no", r.at.shop = Nil, r.at.treasure = Nil, ~r.at.restDone,
         ~r.at.emerald, ~r.chestOpened, ~r.reserved
  PROVE  LET q == Ended(r, outcome) IN
         Standing(q, v) /\ q.at.shop = Nil /\ q.at.merchant = FALSE /\ q.promise = "no"
<1> DEFINE q == Ended(r, outcome)
           s == [r.at EXCEPT !.phase = "Complete", !.reward = Nil, !.event = Nil]
<1>1. r \in RunType /\ Sound(r, v) /\ r.under = Nil
  BY DEF Standing
<1>2. /\ s \in ScreenType /\ s.phase = "Complete" /\ s.reward = Nil /\ s.event = Nil
      /\ s.treasure = r.at.treasure /\ s.shop = r.at.shop /\ s.merchant = r.at.merchant
      /\ s.restDone = r.at.restDone /\ s.emerald = r.at.emerald
  BY <1>1, RunFields DEF ScreenType, Phases
<1>3. q = [r EXCEPT !.at = s, !.outcome = outcome, !.grid = Nil, !.fight = Nil]
  BY <1>1, RunFields DEF Ended, RunType, ScreenType
<1> HIDE DEF q, s
<1>4. /\ q \in RunType /\ q.at = s /\ q.under = r.under /\ q.grid = Nil
      /\ q.room = r.room /\ q.act = r.act /\ q.keys = r.keys
      /\ q.chestOpened = r.chestOpened /\ q.reserved = r.reserved
      /\ q.promise = r.promise /\ q.fight = Nil /\ q.outcome = outcome
  BY <1>1, <1>2, <1>3 DEF RunType, Outcomes
<1>5. r.at.merchant = FALSE
  BY <1>1, RunFields DEF Sound, Screens, PhaseHasPayload, PayloadHasPhase,
    PayloadInRoom, LastActs, OutcomeAtEnd, Linked, Boss, FinalBoss
<1>6. Screens(q)
  BY <1>1, <1>2, <1>4, <1>5, NilIsNoName DEF Sound, Screens, PhaseHasPayload,
    PayloadHasPhase, PayloadInRoom, LastActs, OutcomeAtEnd, Linked, Boss, FinalBoss,
    Fights
<1>7. Stages(q) /\ Overlaid(q) /\ Owned(q) /\ RewardFlow(q)
  BY <1>2, <1>4 DEF Stages, EventHasStage, Overlaid, NeowLeaves, GridHasOwner, Owned,
    RewardFlow
<1>8. Unused(q, v)
  BY <1>1, <1>2, <1>4 DEF Sound, Unused, Screens, PhaseHasPayload, PayloadHasPhase,
    PayloadInRoom, LastActs, OutcomeAtEnd, Linked, Boss, FinalBoss
<1> QED BY <1>1, <1>2, <1>4, <1>5, <1>6, <1>7, <1>8 DEF Standing, Sound, q

\* What the room of an event excludes.
LEMMA OfAnEvent ==
  ASSUME NEW r, NEW v, Standing(r, v), r.at.event # Nil, r.at.phase \in {"Event", "Reward"}
  PROVE  /\ r.room \in {"Start", "Victory", "Event"} /\ r.room = RoomOf(r.at.event)
         /\ r.at.treasure = Nil /\ r.at.shop = Nil /\ r.at.merchant = FALSE
         /\ r.at.restDone = FALSE /\ r.at.emerald = FALSE /\ r.chestOpened = FALSE
         /\ r.reserved = FALSE /\ r.promise = "no" /\ r.fight = Nil /\ r.outcome = Nil
         /\ r.at.event \in EventType
         /\ r.at.phase = "Event" => r.at.reward = Nil
<1>1. r \in RunType /\ Sound(r, v)
  BY DEF Standing
<1>2. r.room = RoomOf(r.at.event)
  BY <1>1 DEF Sound, Screens, PhaseHasPayload, PayloadHasPhase, PayloadInRoom, LastActs,
    OutcomeAtEnd, Linked, Boss, FinalBoss
<1>3. r.room \in {"Start", "Victory", "Event"}
  BY <1>2 DEF RoomOf
<1> QED BY <1>1, <1>2, <1>3, RunFields DEF Sound, Screens, PhaseHasPayload,
  PayloadHasPhase, PayloadInRoom, LastActs, OutcomeAtEnd, Linked, Boss, FinalBoss

\* A choice that hurts leaves the event standing, or ends the run.
LEMMA HurtingStands ==
  ASSUME NEW r, NEW v, Standing(r, v), r.at.event # Nil, r.at.phase \in {"Event", "Reward"},
         NEW q \in Hurting(r)
  PROVE  Standing(q, v)
<1> DEFINE d == Ended(r, "Death")
<1>1. r \in RunType
  BY DEF Standing
<1>2. Standing(d, v) /\ d.at.shop = Nil /\ d.at.merchant = FALSE /\ d.promise = "no"
  BY OfAnEvent, EndedStands
<1>3. d \in RunType /\ d.at \in ScreenType
  BY <1>2, RunFields DEF Standing
<1>4. Died(r) = [d EXCEPT !.at.shop = Nil, !.at.merchant = FALSE, !.promise = "no"]
  BY DEF Died
<1> HIDE DEF d
<1>5. Died(r) = d
  <2>1. [d.at EXCEPT !.shop = Nil, !.merchant = FALSE] = d.at
    BY <1>2, <1>3 DEF ScreenType
  <2>2. Died(r) = [d EXCEPT !.at = [d.at EXCEPT !.shop = Nil, !.merchant = FALSE],
                            !.promise = "no"]
    BY <1>3, <1>4 DEF RunType, ScreenType
  <2>3. [d EXCEPT !.at = d.at, !.promise = d.promise] = d
    BY <1>3 DEF RunType
  <2> QED BY <1>2, <2>1, <2>2, <2>3
<1> QED BY <1>2, <1>5 DEF Hurting

\* An event's fight, in the event's room or behind the secret portal.
LEMMA EventFightStands ==
  ASSUME NEW r, NEW v, Standing(r, v), r.at.event # Nil, r.at.phase = "Event", r.grid = Nil,
         NEW kind \in {"map", "first", "colosseum", "event"},
         NEW promise \in {"no", "gold", "relic", "mask"}, NEW k \in {"Event", "Boss"},
         kind \in {"first", "colosseum"} \/ promise # "no" => k = "Event",
         kind = "first" => promise = "no"
  PROVE  Standing([EventFight(r, kind, promise) EXCEPT !.room = k], v)
<1> DEFINE q == [EventFight(r, kind, promise) EXCEPT !.room = k]
           s == [r.at EXCEPT !.phase = "Combat", !.event = Nil]
<1>1. r \in RunType /\ Sound(r, v) /\ r.under = Nil
  BY DEF Standing
<1>2. /\ s \in ScreenType /\ s.phase = "Combat" /\ s.reward = r.at.reward /\ s.event = Nil
      /\ s.treasure = r.at.treasure /\ s.shop = r.at.shop /\ s.merchant = r.at.merchant
      /\ s.restDone = r.at.restDone /\ s.emerald = r.at.emerald
  BY <1>1, RunFields DEF ScreenType, Phases
<1>3. q = [r EXCEPT !.at = s, !.fight = kind, !.promise = promise, !.room = k]
  BY <1>1, RunFields DEF EventFight, RunType, ScreenType
<1> HIDE DEF q, s
<1>4. /\ q \in RunType /\ q.at = s /\ q.under = r.under /\ q.grid = r.grid
      /\ q.room = k /\ q.act = r.act /\ q.keys = r.keys
      /\ q.chestOpened = r.chestOpened /\ q.reserved = r.reserved
      /\ q.promise = promise /\ q.fight = kind /\ q.outcome = r.outcome
  BY <1>1, <1>2, <1>3 DEF RunType, Fights, Rooms
<1>5. kind # Nil
  BY NilIsNoName DEF Fights
<1>6. Screens(q)
  BY <1>1, <1>2, <1>4, <1>5, OfAnEvent DEF Sound, Screens, PhaseHasPayload,
    PayloadHasPhase, PayloadInRoom, LastActs, OutcomeAtEnd, Linked, Boss, FinalBoss
<1>7. Stages(q) /\ Overlaid(q) /\ Owned(q) /\ RewardFlow(q)
  BY <1>2, <1>4, OfAnEvent DEF Stages, EventHasStage, Overlaid, NeowLeaves,
    GridHasOwner, Owned, RewardFlow
<1>8. Unused(q, v)
  BY <1>1, <1>2, <1>4, OfAnEvent DEF Sound, Unused, Screens, PhaseHasPayload,
    PayloadHasPhase, PayloadInRoom, LastActs, OutcomeAtEnd, Linked, Boss, FinalBoss
<1> QED BY <1>1, <1>4, <1>6, <1>7, <1>8 DEF Standing, Sound, q

LEMMA StandingIsGood ==
  ASSUME NEW r, NEW v, Standing(r, v)
  PROVE  Good(r, v)
BY DEF Standing, Good

\* The map opened over a room suspends it.
LEMMA OpenMapGood ==
  ASSUME NEW r, NEW v, Standing(r, v), r.grid = Nil,
         r.at.phase \in {"Event", "Reward", "Rest", "Shop", "Treasure"},
         r.at.phase = "Event" => Concluded(r.at.event),
         r.chestOpened = FALSE, r.reserved = FALSE
  PROVE  Good(OpenMap(r), v)
<1> DEFINE q == OpenMap(r)
<1>1. r \in RunType /\ Sound(r, v) /\ r.under = Nil
  BY DEF Standing
<1>2. /\ q \in RunType /\ q.at = Screen /\ q.under = r.at
      /\ q.grid = r.grid /\ q.room = r.room /\ q.act = r.act /\ q.keys = r.keys
      /\ q.chestOpened = r.chestOpened /\ q.reserved = r.reserved
      /\ q.promise = r.promise /\ q.fight = r.fight /\ q.outcome = r.outcome
  BY <1>1, OpenMapFields
<1>3. MapReturned(q) = r
  BY <1>1, RunFields DEF MapReturned, OpenMap, RunType
<1> HIDE DEF q
<1>4. Screens(q)
  BY <1>1, <1>2, BlankScreen DEF Sound, Screens, PhaseHasPayload, PayloadHasPhase,
    PayloadInRoom, LastActs, OutcomeAtEnd, Linked, Boss, FinalBoss
<1>5. Stages(q) /\ Overlaid(q) /\ Owned(q) /\ RewardFlow(q) /\ Unused(q, v)
  BY <1>2, BlankScreen DEF Stages, EventHasStage, Overlaid, NeowLeaves, GridHasOwner,
    Owned, RewardFlow, Unused, Linked
<1> QED BY <1>1, <1>2, <1>3, <1>4, <1>5, BlankScreen DEF Good, Suspends, Sound, q

------------------------------------------------------------------------------
(* Events *)

InEvent(r, v, name) ==
  /\ Standing(r, v) /\ r.grid = Nil /\ r.at.phase = "Event"
  /\ r.at.event # Nil /\ r.at.event.name = name

LEMMA StageOf ==
  ASSUME NEW r, NEW v, NEW name, InEvent(r, v, name)
  PROVE  /\ r.at.event = EventAt(name, r.at.event.stage)
         /\ r.at.event.stage \in 0..5 /\ r.at.event.stage <= LastStage(name)
         /\ name \in {"Duplicator", "Purifier"} => r.at.event.stage # 1
         /\ name = "DeadAdventurer" => r.at.event.stage # 2
BY OfAnEvent DEF InEvent, EventType, EventAt, Standing, Sound, Stages, EventHasStage

LEMMA AtInEvent ==
  ASSUME NEW r, NEW v, NEW name, InEvent(r, v, name), NEW k \in 0..5, k <= LastStage(name),
         name \in {"Duplicator", "Purifier"} => k # 1, name = "DeadAdventurer" => k # 2
  PROVE  /\ InEvent(At(r, k), v, name) /\ Good(At(r, k), v)
         /\ At(r, k).at.event = EventAt(name, k)
<1>1. /\ Standing(At(r, k), v) /\ At(r, k).at.phase = "Event" /\ At(r, k).grid = Nil
      /\ At(r, k).at.event = EventAt(name, k)
  BY AtStands DEF InEvent
<1>2. EventAt(name, k) \in EventType /\ EventAt(name, k).name = name
  BY OfAnEvent DEF InEvent, EventType, EventAt
<1> QED BY <1>1, <1>2, StandingIsGood, NilAssumption DEF InEvent

LEMMA HurtingGood ==
  ASSUME NEW r, NEW v, NEW name, InEvent(r, v, name), NEW q \in Hurting(r)
  PROVE  Good(q, v)
BY HurtingStands, StandingIsGood DEF InEvent

LEMMA LeaveGood ==
  ASSUME NEW r, NEW v, NEW name, InEvent(r, v, name), Concluded(r.at.event),
         NEW q \in Leave(r)
  PROVE  Good(q, v)
BY OpenMapGood, OfAnEvent DEF InEvent, Leave

\* A grid over the event that owns it.
LEMMA GridGood ==
  ASSUME NEW r, NEW v, NEW name, InEvent(r, v, name), name # "Neow",
         NEW purpose \in EventGrids \union {"EventRemove"}, NEW need \in 1..2,
         <<name, r.at.event.stage>> \in GridOwners(Grid(purpose, need))
  PROVE  Good(OpenGrid(r, purpose, need), v)
<1> DEFINE g == Grid(purpose, need)
           q == OpenGrid(r, purpose, need)
<1>1. g \in GridType /\ g.purpose = purpose
  BY DEF Grid, GridType, GridPurposes
<1>2. q = [r EXCEPT !.grid = g] /\ q.grid = g /\ q.at = r.at
  BY RunFields DEF OpenGrid, InEvent, Standing, RunType
<1> HIDE DEF q, g
<1>3. GridHasOwner(q) /\ NeowLeaves(q)
  BY <1>1, <1>2 DEF g, GridHasOwner, NeowLeaves, AtNeow, InEvent, EventGrids
<1>4. Standing(q, v)
  BY <1>1, <1>2, <1>3, GridChanged DEF Overlaid, InEvent
<1> QED BY <1>4, StandingIsGood DEF q

\* A reward an event shows, and what a choice with both a price and a reward leads to.
LEMMA ShowGood ==
  ASSUME NEW r, NEW v, NEW name, InEvent(r, v, name), name # "Neow",
         NEW w \in RewardType, CardFlow(w), IsInjective(w.relics), ~w.boss,
         w.cont = "Event", NEW q \in Hurting(Showing(r, w))
  PROVE  Good(q, v) /\ Good(Showing(r, w), v)
BY ShowingStands, HurtingStands, StandingIsGood DEF InEvent

LEMMA FightGood ==
  ASSUME NEW r, NEW v, NEW name, InEvent(r, v, name), name \notin {"Neow", "SpireHeart"},
         NEW kind \in {"first", "colosseum", "event"},
         NEW promise \in {"no", "gold", "relic", "mask"}, kind = "first" => promise = "no"
  PROVE  Good(EventFight(r, kind, promise), v)
<1> DEFINE q == EventFight(r, kind, promise)
<1>1. r \in RunType /\ r.room = "Event"
  BY OfAnEvent DEF InEvent, RoomOf, Standing
<1>2. [q EXCEPT !.room = "Event"] = q
  BY <1>1, RunFields DEF EventFight, RunType
<1>3. Standing([q EXCEPT !.room = "Event"], v)
  BY EventFightStands DEF InEvent
<1> QED BY <1>2, <1>3, StandingIsGood

\* The screens of an event that only open the map, the ones that only turn the
\* page, and the ones that turn it for hit points.
TwoScreens ==
  {"BigFish", "TheMausoleum", "Vampires", "MoaiHead", "GoldenShrine",
   "FountainOfCleansing", "WeMeetAgain", "Nloth", "WorldOfGoop", "ShiningLight",
   "ForgottenAltar", "Addict", "TombOfLordRedMask", "TheCleric", "BackToBasics",
   "LivingWall", "DrugDealer", "Ghosts", "TheLibrary", "MindBloom", "Purifier",
   "Transmorgrifier", "UpgradeShrine", "AccursedBlacksmith", "Duplicator",
   "TheWomanInBlue"}

ThreeScreens ==
  {"Neow", "WingStatue", "HypnotizingColoredMushrooms", "ScrapOoze", "Nest", "Beggar",
   "Falling", "MysteriousSphere", "SensoryStone", "WindingHalls", "BonfireElementals",
   "FaceTrader", "NoteForYourself", "SecretPortal", "KnowingSkull", "Designer"}

LeavesAt(name) ==
  CASE name \in TwoScreens -> 1..2
    [] name \in ThreeScreens -> {2}
    [] name \in {"GoldenIdol", "TheSsssserpent"} -> {2, 3}
    [] name \in {"MaskedBandits", "MatchAndKeep", "WheelOfChange"} -> {3}
    [] name = "DeadAdventurer" -> {1}
    [] name = "TheJoust" -> {4}
    [] name = "CursedTome" -> {5}
    [] OTHER -> {}

LEMMA LeavesOnly ==
  ASSUME NEW s, NEW name, s.at.event.name = name, s.at.event.stage \in LeavesAt(name)
  PROVE  Offered(s) = Leave(s)
<1>1. CASE name \in TwoScreens
  <2>1. s.at.event.stage # 0
    BY <1>1 DEF LeavesAt
  <2>2. CASE name \in {"BigFish", "TheMausoleum", "Vampires", "MoaiHead", "GoldenShrine",
                       "FountainOfCleansing", "WeMeetAgain", "Nloth", "WorldOfGoop"}
    BY <2>1, <2>2 DEF Offered, BigFish, TheMausoleum, Vampires, MoaiHead, GoldenShrine,
      FountainOfCleansing, WeMeetAgain, Nloth, WorldOfGoop
  <2>3. CASE name \in {"ShiningLight", "ForgottenAltar", "Addict", "TombOfLordRedMask",
                       "TheCleric", "BackToBasics", "LivingWall", "DrugDealer", "Ghosts"}
    BY <2>1, <2>3 DEF Offered, ShiningLight, ForgottenAltar, Addict, TombOfLordRedMask,
      TheCleric, BackToBasics, LivingWall, DrugDealer, Ghosts
  <2>4. CASE name \in {"TheLibrary", "MindBloom", "Purifier", "Transmorgrifier",
                       "UpgradeShrine", "AccursedBlacksmith", "Duplicator",
                       "TheWomanInBlue"}
    BY <2>1, <2>4 DEF Offered, TheLibrary, MindBloom, Purifier, Transmorgrifier,
      UpgradeShrine, AccursedBlacksmith, Duplicator, TheWomanInBlue
  <2> QED BY <1>1, <2>2, <2>3, <2>4 DEF TwoScreens
<1>2. CASE name \in ThreeScreens
  <2>1. s.at.event.stage = 2
    BY <1>2 DEF LeavesAt, TwoScreens, ThreeScreens
  <2>2. CASE name \in {"Neow", "WingStatue", "HypnotizingColoredMushrooms", "ScrapOoze",
                       "Nest", "Beggar", "Falling", "MysteriousSphere"}
    BY <2>1, <2>2 DEF Offered, Neow, WingStatue, HypnotizingColoredMushrooms, ScrapOoze,
      Nest, Beggar, Falling, MysteriousSphere
  <2>3. CASE name \in {"SensoryStone", "WindingHalls", "BonfireElementals", "FaceTrader",
                       "NoteForYourself", "SecretPortal", "KnowingSkull", "Designer"}
    BY <2>1, <2>3 DEF Offered, SensoryStone, WindingHalls, BonfireElementals,
      FaceTrader, NoteForYourself, SecretPortal, KnowingSkull, Designer
  <2> QED BY <1>2, <2>2, <2>3 DEF ThreeScreens
<1>3. CASE name \in {"GoldenIdol", "TheSsssserpent"}
  BY <1>3 DEF LeavesAt, TwoScreens, ThreeScreens, Offered, GoldenIdol, TheSsssserpent
<1>4. CASE name \in {"MaskedBandits", "MatchAndKeep", "WheelOfChange"}
  <2>1. s.at.event.stage = 3
    BY <1>4 DEF LeavesAt, TwoScreens, ThreeScreens
  <2> QED BY <1>4, <2>1 DEF Offered, MaskedBandits, MatchAndKeep, WheelOfChange
<1>5. CASE name \in {"DeadAdventurer", "TheJoust", "CursedTome"}
  <2>1. s.at.event.stage = CASE name = "DeadAdventurer" -> 1 [] name = "TheJoust" -> 4
                             [] name = "CursedTome" -> 5
    BY <1>5 DEF LeavesAt, TwoScreens, ThreeScreens
  <2> QED BY <1>5, <2>1 DEF Offered, DeadAdventurer, TheJoust, CursedTome
<1> QED BY <1>1, <1>2, <1>3, <1>4, <1>5 DEF LeavesAt

LEMMA LeaveConcluded ==
  ASSUME NEW name, NEW k \in LeavesAt(name)
  PROVE  Concluded(EventAt(name, k))
BY LeavesOnly DEF Concluded, EventAt

TurnsTo(name, k) ==
  CASE name \in {"BigFish", "TheMausoleum", "Vampires", "MoaiHead", "GoldenShrine",
                 "FountainOfCleansing", "WeMeetAgain", "Nloth", "Neow", "Nest",
                 "WindingHalls", "FaceTrader", "SensoryStone", "BonfireElementals",
                 "Designer", "NoteForYourself", "KnowingSkull", "Colosseum"}
         /\ k = 0 -> {1}
    [] name \in {"Ghosts", "HypnotizingColoredMushrooms", "Beggar", "MysteriousSphere",
                 "SecretPortal"} /\ k = 0 -> {1, 2}
    [] name = "Falling" /\ k < 2 -> {k + 1}
    [] name = "TheJoust" /\ k < 4 -> {k + 1}
    [] name = "GoldenIdol" /\ k = 0 -> {1, 3}
    [] name = "DeadAdventurer" /\ k = 0 -> {0, 1, 3}
    [] name = "TheSsssserpent" /\ k < 2 -> IF k = 0 THEN {1, 3} ELSE {2}
    [] name = "CursedTome" /\ k = 0 -> {1, 5}
    [] name = "MaskedBandits" /\ k \in {1, 2} -> {k + 1}
    [] name = "WheelOfChange" /\ k < 2 -> {k + 1}
    [] name = "MatchAndKeep" /\ k < 3 -> IF k = 2 THEN {2, 3} ELSE {k + 1}
    [] OTHER -> {}

LEMMA TurnsOnly ==
  ASSUME NEW s, NEW name, s.at.event.name = name, s.at.event.stage \in 0..5,
         TurnsTo(name, s.at.event.stage) # {}
  PROVE  Offered(s) = To(s, TurnsTo(name, s.at.event.stage))
<1>1. CASE name \in {"BigFish", "TheMausoleum", "Vampires", "MoaiHead", "GoldenShrine",
                 "FountainOfCleansing", "WeMeetAgain", "Nloth", "Neow"}
  BY <1>1 DEF TurnsTo, Offered, BigFish, TheMausoleum, Vampires, MoaiHead, GoldenShrine,
    FountainOfCleansing, WeMeetAgain, Nloth, Neow
<1>2. CASE name \in {"Nest", "WindingHalls", "FaceTrader", "SensoryStone",
                     "BonfireElementals", "Designer", "NoteForYourself", "KnowingSkull",
                     "Colosseum"}
  BY <1>2 DEF TurnsTo, Offered, Nest, WindingHalls, FaceTrader, SensoryStone,
    BonfireElementals, Designer, NoteForYourself, KnowingSkull, Colosseum
<1>3. CASE name \in {"Ghosts", "HypnotizingColoredMushrooms", "Beggar", "MysteriousSphere",
                     "SecretPortal"}
  BY <1>3 DEF TurnsTo, Offered, Ghosts, HypnotizingColoredMushrooms, Beggar,
    MysteriousSphere, SecretPortal
<1>4. CASE name \in {"Falling", "TheJoust", "GoldenIdol", "DeadAdventurer"}
  BY <1>4 DEF TurnsTo, Offered, Falling, TheJoust, GoldenIdol, DeadAdventurer
<1>5. CASE name \in {"TheSsssserpent", "CursedTome", "MaskedBandits"}
  <2>1. CASE name = "TheSsssserpent"
    BY <2>1 DEF TurnsTo, Offered, TheSsssserpent
  <2>2. CASE name = "CursedTome"
    BY <2>2 DEF TurnsTo, Offered, CursedTome
  <2>3. CASE name = "MaskedBandits"
    BY <2>3 DEF TurnsTo, Offered, MaskedBandits
  <2> QED BY <1>5, <2>1, <2>2, <2>3
<1>6. CASE name \in {"WheelOfChange", "MatchAndKeep"}
  <2>1. CASE name = "WheelOfChange"
    BY <2>1 DEF TurnsTo, Offered, WheelOfChange
  <2>2. CASE name = "MatchAndKeep"
    BY <2>2 DEF TurnsTo, Offered, MatchAndKeep
  <2> QED BY <1>6, <2>1, <2>2
<1> QED BY <1>1, <1>2, <1>3, <1>4, <1>5, <1>6 DEF TurnsTo

HurtsTo(name, k) ==
  CASE name \in {"WorldOfGoop", "ShiningLight", "ForgottenAltar"} /\ k = 0 -> {1}
    [] name \in {"GoldenIdol", "Nest", "WindingHalls", "FaceTrader"} /\ k = 1 -> {2}
    [] name = "ScrapOoze" /\ k < 2 -> {1, 2}
    [] name = "KnowingSkull" /\ k = 1 -> {1, 2}
    [] name = "CursedTome" /\ k \in 1..3 -> {k + 1}
    [] OTHER -> {}

LEMMA HurtsOnly ==
  ASSUME NEW s, NEW name, s.at.event.name = name, s.at.event.stage \in 0..5,
         HurtsTo(name, s.at.event.stage) # {}
  PROVE  Offered(s) = UNION {Hurting(At(s, j)) : j \in HurtsTo(name, s.at.event.stage)}
<1>1. CASE name \in {"WorldOfGoop", "ShiningLight", "ForgottenAltar"}
  <2>1. s.at.event.stage = 0 /\ HurtsTo(name, 0) = {1}
    BY <1>1 DEF HurtsTo
  <2>2. Offered(s) = Hurting(At(s, 1))
    BY <1>1, <2>1 DEF Offered, WorldOfGoop, ShiningLight, ForgottenAltar
  <2> QED BY <2>1, <2>2
<1>2. CASE name \in {"GoldenIdol", "Nest", "WindingHalls", "FaceTrader"}
  <2>1. s.at.event.stage = 1 /\ HurtsTo(name, 1) = {2}
    BY <1>2 DEF HurtsTo
  <2>2. Offered(s) = Hurting(At(s, 2))
    BY <1>2, <2>1 DEF Offered, GoldenIdol, Nest, WindingHalls, FaceTrader
  <2> QED BY <2>1, <2>2
<1>3. CASE name \in {"ScrapOoze", "KnowingSkull"}
  <2>1. HurtsTo(name, s.at.event.stage) = {1, 2}
    BY <1>3 DEF HurtsTo
  <2>2. Offered(s) = Hurting(At(s, 1)) \union Hurting(At(s, 2))
    <3>1. CASE name = "ScrapOoze"
      <4>1. s.at.event.stage < 2
        BY <3>1 DEF HurtsTo
      <4> QED BY <3>1, <4>1 DEF Offered, ScrapOoze
    <3>2. CASE name = "KnowingSkull"
      <4>1. s.at.event.stage = 1
        BY <3>2 DEF HurtsTo
      <4> QED BY <3>2, <4>1 DEF Offered, KnowingSkull
    <3> QED BY <1>3, <3>1, <3>2
  <2> QED BY <2>1, <2>2
<1>4. CASE name = "CursedTome"
  <2>1. s.at.event.stage \in 1..3 /\ HurtsTo(name, s.at.event.stage) = {s.at.event.stage + 1}
    BY <1>4 DEF HurtsTo
  <2>2. Offered(s) = Hurting(At(s, s.at.event.stage + 1))
    BY <1>4, <2>1 DEF Offered, CursedTome
  <2> QED BY <2>1, <2>2
<1> QED BY <1>1, <1>2, <1>3, <1>4 DEF HurtsTo

LEMMA TurnsWithin ==
  ASSUME NEW name, NEW k \in 0..5, NEW j \in TurnsTo(name, k)
  PROVE  /\ j \in 0..5 /\ name \notin {"Duplicator", "Purifier"}
         /\ name = "DeadAdventurer" => j # 2
         /\ j <= LastStage(name)
<1>1. CASE name \in {"Falling", "TheJoust", "GoldenIdol", "DeadAdventurer",
                     "TheSsssserpent", "CursedTome"}
  BY <1>1 DEF TurnsTo, LastStage
<1>2. CASE name \in {"MaskedBandits", "WheelOfChange", "MatchAndKeep"}
  BY <1>2 DEF TurnsTo, LastStage
<1>3. CASE name \notin {"Falling", "TheJoust", "GoldenIdol", "DeadAdventurer",
                        "TheSsssserpent", "CursedTome", "MaskedBandits",
                        "WheelOfChange", "MatchAndKeep"}
  <2>1. /\ j \in 1..2 /\ name \notin {"Duplicator", "Purifier"}
        /\ j = 2 => name \in {"Ghosts", "HypnotizingColoredMushrooms", "Beggar",
                              "MysteriousSphere", "SecretPortal"}
    BY <1>3 DEF TurnsTo
  <2>2. j <= LastStage(name)
    BY <1>3, <2>1 DEF TurnsTo, LastStage
  <2> QED BY <1>3, <2>1, <2>2
<1> QED BY <1>1, <1>2, <1>3

LEMMA PageTurned ==
  ASSUME NEW r, NEW v, NEW name, InEvent(r, v, name), NEW q \in Offered(r),
         \/ r.at.event.stage \in LeavesAt(name)
         \/ TurnsTo(name, r.at.event.stage) # {}
         \/ HurtsTo(name, r.at.event.stage) # {}
  PROVE  Good(q, v)
<1> DEFINE k == r.at.event.stage
<1>1. k \in 0..5 /\ k <= LastStage(name) /\ r.at.event = EventAt(name, k)
      /\ r.at.event.name = name
  BY StageOf DEF InEvent
<1>2. CASE k \in LeavesAt(name)
  BY <1>1, <1>2, LeavesOnly, LeaveConcluded, LeaveGood
<1>3. CASE TurnsTo(name, k) # {}
  <2>0. Offered(r) = To(r, TurnsTo(name, k))
    BY <1>1, <1>3, TurnsOnly
  <2>1. PICK j \in TurnsTo(name, k) : q = At(r, j)
    BY <2>0 DEF To
  <2>2. /\ j \in 0..5 /\ name \notin {"Duplicator", "Purifier"}
        /\ name = "DeadAdventurer" => j # 2
        /\ j <= LastStage(name)
    BY <1>1, TurnsWithin
  <2> QED BY <2>1, <2>2, AtInEvent
<1>4. CASE HurtsTo(name, k) # {}
  <2>0. Offered(r) = UNION {Hurting(At(r, j)) : j \in HurtsTo(name, k)}
    BY <1>1, <1>4, HurtsOnly
  <2>1. PICK j \in HurtsTo(name, k) : q \in Hurting(At(r, j))
    BY <2>0
  <2>2. /\ j \in 0..5 /\ j <= LastStage(name)
        /\ name \notin {"Duplicator", "Purifier", "DeadAdventurer"}
    BY <1>1 DEF HurtsTo, LastStage
  <2> QED BY <2>1, <2>2, AtInEvent, HurtingGood
<1> QED BY <1>2, <1>3, <1>4

------------------------------------------------------------------------------
(* The rewards, fights and grids of events *)

Conts == {"None", "Map"} \union DOMAIN Owner

LEMMA ContNames ==
  Conts = {"None", "Map", "Rest", "Event", "Shop", "Treasure", "Neow"}
BY DEF Conts, Owner

LEMMA OffersSound ==
  ASSUME NEW cont \in Conts
  PROVE  LET o == Offers(cont) IN
         /\ o \in RewardType /\ o.cont = cont /\ o.left = 0 /\ o.active = FALSE
         /\ o.shown = "no" /\ o.queued = 0 /\ ~o.boss /\ o.relics = <<>>
         /\ CardFlow(o) /\ IsInjective(o.relics)
BY DEF Conts, Offers, RewardType, CardFlow, IsInjective

LEMMA OneIdol ==
  <<"idol">> \in Seq(RelicOffers) /\ IsInjective(<<"idol">>)
BY DEF RelicOffers, IsInjective

LEMMA PotionsSound ==
  ASSUME NEW cont \in Conts, NEW n \in Nat
  PROVE  LET w == [Offers(cont) EXCEPT !.potions = n] IN
         /\ w \in RewardType /\ CardFlow(w) /\ IsInjective(w.relics)
         /\ w.cont = cont /\ ~w.boss
<1> DEFINE o == Offers(cont)
           w == [o EXCEPT !.potions = n]
<1>1. /\ o \in RewardType /\ o.cont = cont /\ o.left = 0 /\ o.active = FALSE
      /\ o.shown = "no" /\ o.queued = 0 /\ ~o.boss /\ IsInjective(o.relics)
  BY OffersSound
<1>2. w = [Offers(cont) EXCEPT !.potions = n]
  BY DEF o
<1> HIDE DEF o
<1>3. w \in RewardType
  BY <1>1 DEF RewardType
<1>4. /\ w.cont = o.cont /\ w.left = o.left /\ w.active = o.active
      /\ w.shown = o.shown /\ w.queued = o.queued
      /\ w.boss = o.boss /\ w.relics = o.relics
  BY <1>1 DEF RewardType
<1> HIDE DEF w
<1> QED BY <1>1, <1>2, <1>3, <1>4 DEF CardFlow

LEMMA RelicsSound ==
  ASSUME NEW cont \in Conts, NEW l \in Seq(RelicOffers), IsInjective(l)
  PROVE  LET w == [Offers(cont) EXCEPT !.relics = l] IN
         /\ w \in RewardType /\ CardFlow(w) /\ IsInjective(w.relics)
         /\ w.cont = cont /\ ~w.boss
<1> DEFINE o == Offers(cont)
           w == [o EXCEPT !.relics = l]
<1>1. /\ o \in RewardType /\ o.cont = cont /\ o.left = 0 /\ o.active = FALSE
      /\ o.shown = "no" /\ o.queued = 0 /\ ~o.boss /\ IsInjective(o.relics)
  BY OffersSound
<1>2. w = [Offers(cont) EXCEPT !.relics = l]
  BY DEF o
<1> HIDE DEF o
<1>3. w \in RewardType
  BY <1>1 DEF RewardType
<1>4. /\ w.cont = o.cont /\ w.left = o.left /\ w.active = o.active
      /\ w.shown = o.shown /\ w.queued = o.queued
      /\ w.boss = o.boss /\ w.relics = l
  BY <1>1 DEF RewardType
<1> HIDE DEF w
<1> QED BY <1>1, <1>2, <1>3, <1>4 DEF CardFlow

LEMMA QueuedSound ==
  ASSUME NEW cont \in Conts, NEW n \in Nat
  PROVE  LET w == Queued(cont, n) IN
         /\ w \in RewardType /\ CardFlow(w) /\ IsInjective(w.relics)
         /\ w.cont = cont /\ ~w.boss
<1> DEFINE o == Offers(cont)
           w == [o EXCEPT !.left = n, !.queued = n]
<1>1. /\ o \in RewardType /\ o.cont = cont /\ o.left = 0 /\ o.active = FALSE
      /\ o.shown = "no" /\ o.queued = 0 /\ ~o.boss /\ IsInjective(o.relics)
  BY OffersSound
<1>2. w = Queued(cont, n)
  BY DEF Queued, o
<1> HIDE DEF o
<1>3. w \in RewardType
  BY <1>1 DEF RewardType
<1>4. /\ w.cont = o.cont /\ w.left = n /\ w.active = o.active
      /\ w.shown = o.shown /\ w.queued = n
      /\ w.boss = o.boss /\ w.relics = o.relics
  BY <1>1 DEF RewardType
<1> HIDE DEF w
<1> QED BY <1>1, <1>2, <1>3, <1>4 DEF CardFlow

LEMMA OneCardSound ==
  ASSUME NEW cont \in Conts, NEW a \in BOOLEAN
  PROVE  LET w == [OneCard(cont) EXCEPT !.active = a] IN
         /\ w \in RewardType /\ CardFlow(w) /\ IsInjective(w.relics)
         /\ w.cont = cont /\ ~w.boss
<1> DEFINE o == Offers(cont)
           w == [[o EXCEPT !.left = 1, !.shown = "rolled"] EXCEPT !.active = a]
<1>1. /\ o \in RewardType /\ o.cont = cont /\ o.left = 0 /\ o.active = FALSE
      /\ o.shown = "no" /\ o.queued = 0 /\ ~o.boss /\ IsInjective(o.relics)
  BY OffersSound
<1>2. w = [OneCard(cont) EXCEPT !.active = a]
  BY DEF OneCard, o
<1> HIDE DEF o
<1>3. w \in RewardType
  BY <1>1 DEF RewardType
<1>4. /\ w.cont = o.cont /\ w.left = 1 /\ w.active = a
      /\ w.shown = "rolled" /\ w.queued = o.queued
      /\ w.boss = o.boss /\ w.relics = o.relics
  BY <1>1 DEF RewardType
<1> HIDE DEF w
<1> QED BY <1>1, <1>2, <1>3, <1>4 DEF CardFlow

\* The fights events start.
LEMMA EventFightsGood ==
  ASSUME NEW r, NEW v, NEW name, InEvent(r, v, name), NEW q \in Offered(r),
         \/ name = "DeadAdventurer" /\ r.at.event.stage = 3
         \/ name \in {"HypnotizingColoredMushrooms", "MysteriousSphere", "Colosseum",
                      "SecretPortal"} /\ r.at.event.stage = 1
         \/ name \in {"MaskedBandits", "MindBloom"} /\ r.at.event.stage = 0
         \/ name = "Colosseum" /\ r.at.event.stage = 2
  PROVE  Good(q, v)
<1>1. r.at.event.name = name /\ r.at.event = EventAt(name, r.at.event.stage)
  BY StageOf DEF InEvent
<1>2. CASE name = "DeadAdventurer" /\ r.at.event.stage = 3
  <2>1. \E promise \in {"gold", "relic"} : q = EventFight(r, "event", promise)
    BY <1>1, <1>2 DEF Offered, DeadAdventurer
  <2> QED BY <1>2, <2>1, FightGood
<1>3. CASE name = "HypnotizingColoredMushrooms" /\ r.at.event.stage = 1
  BY <1>1, <1>3, FightGood DEF Offered, HypnotizingColoredMushrooms
<1>4. CASE name = "MysteriousSphere" /\ r.at.event.stage = 1
  BY <1>1, <1>4, FightGood DEF Offered, MysteriousSphere
<1>5. CASE name = "Colosseum" /\ r.at.event.stage = 1
  BY <1>1, <1>5, FightGood DEF Offered, Colosseum
<1>6. CASE name = "Colosseum" /\ r.at.event.stage = 2
  <2>1. q \in Leave(r) \/ q = EventFight(r, "colosseum", "no")
    BY <1>1, <1>6 DEF Offered, Colosseum
  <2>2. Concluded(r.at.event)
    BY <1>1, <1>6 DEF Concluded
  <2> QED BY <1>6, <2>1, <2>2, FightGood, LeaveGood
<1>7. CASE name = "SecretPortal" /\ r.at.event.stage = 1
  <2>1. q = [EventFight(r, "map", "no") EXCEPT !.room = "Boss"]
    BY <1>1, <1>7 DEF Offered, SecretPortal
  <2> QED BY <2>1, EventFightStands, StandingIsGood DEF InEvent
<1>8. CASE name = "MaskedBandits" /\ r.at.event.stage = 0
  <2>1. q = At(r, 1) \/ q = EventFight(r, "event", "mask")
    BY <1>1, <1>8 DEF Offered, MaskedBandits, To
  <2> QED BY <1>8, <2>1, FightGood, AtInEvent DEF LastStage
<1>9. CASE name = "MindBloom" /\ r.at.event.stage = 0
  <2>1. q = At(r, 1) \/ q = EventFight(r, "event", "relic")
    BY <1>1, <1>9 DEF Offered, MindBloom, To
  <2> QED BY <1>9, <2>1, FightGood, AtInEvent DEF LastStage
<1> QED BY <1>2, <1>3, <1>4, <1>5, <1>6, <1>7, <1>8, <1>9

\* The events that open a grid, over the screen they are at or their last one.
LEMMA EventGridsGood ==
  ASSUME NEW r, NEW v, NEW name, InEvent(r, v, name), NEW q \in Offered(r),
         \/ name \in {"TheCleric", "BackToBasics", "LivingWall", "DrugDealer", "TheLibrary",
                      "Purifier", "Transmorgrifier", "UpgradeShrine", "AccursedBlacksmith",
                      "Duplicator"} /\ r.at.event.stage = 0
         \/ name = "WingStatue" /\ r.at.event.stage \in {0, 1}
         \/ name \in {"Beggar", "BonfireElementals", "Designer", "NoteForYourself"}
            /\ r.at.event.stage = 1
  PROVE  Good(q, v)
<1>1. r.at.event = EventAt(name, r.at.event.stage) /\ r.at.event.name = name
  BY StageOf DEF InEvent
<1>2. ASSUME NEW k \in 0..5, k <= LastStage(name),
             name \in {"Duplicator", "Purifier"} => k # 1, name # "DeadAdventurer"
      PROVE  InEvent(At(r, k), v, name) /\ Good(At(r, k), v) /\ At(r, k).at.event.stage = k
  <2>1. /\ InEvent(At(r, k), v, name) /\ Good(At(r, k), v)
        /\ At(r, k).at.event = EventAt(name, k)
    BY <1>2, AtInEvent
  <2> QED BY <2>1 DEF EventAt
<1> USE DEF GridOwners, Grid, EventGrids
<1>2a. {<<"Designer", 1>>, <<"DrugDealer", 1>>} \subseteq GridOwners(Grid("TransformReturn", 2))
  OBVIOUS
<1>3. CASE name \in {"TheCleric", "BackToBasics"} /\ r.at.event.stage = 0
  <2>1. q = OpenGrid(r, "RemoveReturn", 1) \/ q = At(r, 1)
    BY <1>1, <1>3 DEF Offered, TheCleric, BackToBasics, GridOr
  <2> QED BY <1>2, <1>3, <2>1, GridGood DEF LastStage
<1>4. CASE name = "LivingWall" /\ r.at.event.stage = 0
  <2>1. \/ \E purpose \in {"RemoveReturn", "TransformReturn", "UpgradeReturn"} :
             q = OpenGrid(r, purpose, 1)
        \/ q \in Leave(r)
    BY <1>1, <1>4 DEF Offered, LivingWall
  <2>2. Concluded(r.at.event)
    BY <1>1, <1>4 DEF Concluded
  <2> QED BY <1>4, <2>1, <2>2, GridGood, LeaveGood
<1>5. CASE name = "DrugDealer" /\ r.at.event.stage = 0
  <2>1. q = At(r, 1) \/ q = OpenGrid(At(r, 1), "TransformReturn", 2)
    BY <1>1, <1>5 DEF Offered, DrugDealer
  <2>2. InEvent(At(r, 1), v, name) /\ Good(At(r, 1), v) /\ At(r, 1).at.event.stage = 1
    BY <1>2, <1>5 DEF LastStage
  <2>3. Good(OpenGrid(At(r, 1), "TransformReturn", 2), v)
    <3> HIDE DEF GridOwners, Grid
    <3>1. <<name, At(r, 1).at.event.stage>> \in GridOwners(Grid("TransformReturn", 2))
      BY <1>5, <1>2a, <2>2
    <3> QED BY <1>5, <2>2, <3>1, GridGood
  <2> QED BY <2>1, <2>2, <2>3
<1>6. CASE name \in {"TheLibrary", "Duplicator"} /\ r.at.event.stage = 0
  <2>1. \/ q = OpenGrid(r, "ObtainReturn", 1)
        \/ q = At(r, IF name = "Duplicator" THEN 2 ELSE 1)
    BY <1>1, <1>6 DEF Offered, TheLibrary, Duplicator, GridOr
  <2> QED BY <1>2, <1>6, <2>1, GridGood DEF LastStage
<1>7. CASE name = "Purifier" /\ r.at.event.stage = 0
  <2>1. q = At(r, 2) \/ q = OpenGrid(r, "RemoveReturn", 1) \/ q = r
    BY <1>1, <1>7 DEF Offered, Purifier, GridOr, To
  <2> QED BY <1>2, <1>7, <2>1, GridGood, StandingIsGood DEF LastStage, InEvent
<1>8. CASE name = "Transmorgrifier" /\ r.at.event.stage = 0
  <2>1. q = At(r, 1) \/ q = OpenGrid(r, "TransformReturn", 1) \/ q = r
    BY <1>1, <1>8 DEF Offered, Transmorgrifier, GridOr, To
  <2> QED BY <1>2, <1>8, <2>1, GridGood, StandingIsGood DEF LastStage, InEvent
<1>9. CASE name \in {"UpgradeShrine", "AccursedBlacksmith"} /\ r.at.event.stage = 0
  <2>1. q = At(r, 1) \/ q = OpenGrid(r, "UpgradeReturn", 1) \/ q = r
    BY <1>1, <1>9 DEF Offered, UpgradeShrine, AccursedBlacksmith, GridOr, To
  <2> QED BY <1>2, <1>9, <2>1, GridGood, StandingIsGood DEF LastStage, InEvent
<1>10. CASE name = "WingStatue" /\ r.at.event.stage = 0
  <2>1. q \in Hurting(At(r, 1)) \/ q = At(r, 2)
    BY <1>1, <1>10 DEF Offered, WingStatue, To
  <2> QED BY <1>2, <1>10, <2>1, HurtingGood DEF LastStage
<1>11. CASE name = "WingStatue" /\ r.at.event.stage = 1
  <2>1. q = At(r, 2) \/ q = OpenGrid(At(r, 2), "RemoveReturn", 1)
    BY <1>1, <1>11 DEF Offered, WingStatue, GridOr
  <2>2. InEvent(At(r, 2), v, name) /\ Good(At(r, 2), v) /\ At(r, 2).at.event.stage = 2
    BY <1>2, <1>11 DEF LastStage
  <2>3. Good(OpenGrid(At(r, 2), "RemoveReturn", 1), v)
    BY <1>11, <2>2, GridGood
  <2> QED BY <2>1, <2>2, <2>3
<1>12. CASE name = "Beggar" /\ r.at.event.stage = 1
  <2>1. q = OpenMap(At(r, 2)) \/ q = OpenGrid(At(r, 2), "EventRemove", 1)
    BY <1>1, <1>12 DEF Offered, Beggar, GridOr
  <2>2. InEvent(At(r, 2), v, name) /\ At(r, 2).at.event = EventAt("Beggar", 2)
        /\ At(r, 2).at.event.stage = 2
    <3>1. InEvent(At(r, 2), v, name) /\ At(r, 2).at.event = EventAt("Beggar", 2)
      BY <1>12, AtInEvent DEF LastStage
    <3> QED BY <3>1 DEF EventAt
  <2>3. Good(OpenGrid(At(r, 2), "EventRemove", 1), v)
    BY <1>12, <2>2, GridGood
  <2>4. 2 \in LeavesAt("Beggar")
    BY DEF LeavesAt, TwoScreens, ThreeScreens
  <2>5. Good(OpenMap(At(r, 2)), v)
    BY <2>2, <2>4, LeaveConcluded, LeaveGood DEF Leave
  <2> QED BY <2>1, <2>3, <2>5
<1>13. CASE name = "BonfireElementals" /\ r.at.event.stage = 1
  <2>1. q = At(r, 2) \/ q = OpenGrid(r, "Bonfire", 1)
    BY <1>1, <1>13 DEF Offered, BonfireElementals, GridOr
  <2> QED BY <1>2, <1>13, <2>1, GridGood DEF LastStage
<1>14. CASE name = "Designer" /\ r.at.event.stage = 1
  <2>1. \/ q \in Hurting(At(r, 2)) \/ q = OpenGrid(r, "TransformReturn", 2)
        \/ \E purpose \in {"UpgradeReturn", "RemoveReturn", "RemoveAndUpgrade"} :
             q = OpenGrid(r, purpose, 1)
    BY <1>1, <1>14 DEF Offered, Designer
  <2>2. CASE q \in Hurting(At(r, 2))
    BY <1>2, <1>14, <2>2, HurtingGood DEF LastStage
  <2>3. CASE q = OpenGrid(r, "TransformReturn", 2)
    <3> HIDE DEF GridOwners, Grid
    <3>1. <<name, r.at.event.stage>> \in GridOwners(Grid("TransformReturn", 2))
      BY <1>14, <1>2a
    <3> QED BY <1>14, <2>3, <3>1, GridGood
  <2>4. CASE \E purpose \in {"UpgradeReturn", "RemoveReturn", "RemoveAndUpgrade"} :
               q = OpenGrid(r, purpose, 1)
    BY <1>14, <2>4, GridGood
  <2> QED BY <2>1, <2>2, <2>3, <2>4
<1>15. CASE name = "NoteForYourself" /\ r.at.event.stage = 1
  <2>1. q = At(r, 2) \/ q = OpenGrid(r, "RemoveReturn", 1)
    BY <1>1, <1>15 DEF Offered, NoteForYourself
  <2> QED BY <1>2, <1>15, <2>1, GridGood DEF LastStage
<1> QED BY <1>3, <1>4, <1>5, <1>6, <1>7, <1>8, <1>9, <1>10, <1>11, <1>12, <1>13, <1>14,
  <1>15

\* A reward screen on which something was taken.
LEMMA RewardChanged ==
  ASSUME NEW r, NEW v, Standing(r, v), r.at.reward # Nil, r.grid = Nil,
         NEW w \in RewardType, w.cont = r.at.reward.cont, CardFlow(w),
         IsInjective(w.relics), w.boss => r.at.reward.boss,
         Linked(r) # Nil => \E i \in DOMAIN w.relics : w.relics[i] = Linked(r),
         NEW q, q = [r EXCEPT !.at.reward = w]
  PROVE  /\ Standing(q, v) /\ q.at.phase = "Reward" /\ q.at.reward = w /\ q.grid = Nil
         /\ q.at.event = r.at.event /\ q.at.restDone = r.at.restDone
         /\ q.room = r.room /\ q.act = r.act /\ q.chestOpened = r.chestOpened
         /\ q.keys = r.keys /\ q.at.treasure = r.at.treasure
<1> DEFINE s == [r.at EXCEPT !.reward = w]
<1>1. r \in RunType /\ Sound(r, v) /\ r.under = Nil
  BY DEF Standing
<1>2. /\ s \in ScreenType /\ s.phase = r.at.phase /\ s.reward = w /\ s.event = r.at.event
      /\ s.treasure = r.at.treasure /\ s.shop = r.at.shop /\ s.merchant = r.at.merchant
      /\ s.restDone = r.at.restDone /\ s.emerald = r.at.emerald
  BY <1>1, RunFields DEF ScreenType
<1>3. q = [r EXCEPT !.at = s]
  BY <1>1, RunFields DEF RunType, ScreenType
<1>4. w # Nil /\ r.at.phase = "Reward"
  BY <1>1, NilAssumption DEF Sound, Screens, PhaseHasPayload, PayloadHasPhase,
    PayloadInRoom, LastActs, OutcomeAtEnd, Linked, Boss, FinalBoss
<1> HIDE DEF s
<1>6. /\ q \in RunType /\ q.at = s /\ q.under = r.under /\ q.grid = r.grid
      /\ q.room = r.room /\ q.act = r.act /\ q.keys = r.keys
      /\ q.chestOpened = r.chestOpened /\ q.reserved = r.reserved
      /\ q.promise = r.promise /\ q.fight = r.fight /\ q.outcome = r.outcome
  BY <1>1, <1>2, <1>3 DEF RunType
<1>8. Screens(q)
  BY <1>1, <1>2, <1>4, <1>6 DEF Sound, Screens, PhaseHasPayload, PayloadHasPhase,
    PayloadInRoom, LastActs, OutcomeAtEnd, Linked, Boss, FinalBoss
<1>9. Owned(q) /\ RewardFlow(q)
  BY <1>1, <1>2, <1>4, <1>6 DEF Sound, Owned, RewardFlow, Boss
<1>10. Stages(q) /\ Overlaid(q) /\ Unused(q, v)
  BY <1>1, <1>2, <1>4, <1>6 DEF Sound, Unused, Linked, Boss, Stages, EventHasStage,
    Overlaid, GridHasOwner, NeowLeaves
<1> QED BY <1>1, <1>2, <1>4, <1>6, <1>8, <1>9, <1>10 DEF Standing, Sound

\* A pickup that adds a card, a potion and coins to the screen it is taken from.
LEMMA HouseSound ==
  ASSUME NEW o \in RewardType, CardFlow(o)
  PROVE  LET w == House(o) IN
         /\ w \in RewardType /\ CardFlow(w) /\ w.cont = o.cont /\ w.relics = o.relics
         /\ w.boss = o.boss
<1> DEFINE w == House(o)
<1>1. w \in RewardType
  <2> DEFINE coins == o.coins \union {"gold"}
             left == o.left + 1
  <2>1. coins \in SUBSET {"gold", "stolen"} /\ left \in Nat
    BY DEF RewardType
  <2>2. w = [o EXCEPT !.coins = coins, !.potion = TRUE, !.left = left, !.shown = "rolled"]
    BY DEF House
  <2> HIDE DEF coins, left, w
  <2> QED BY <2>1, <2>2 DEF RewardType
<1>2. /\ w.cont = o.cont /\ w.relics = o.relics /\ w.boss = o.boss /\ w.active = o.active
      /\ w.left = o.left + 1 /\ w.queued = o.queued /\ w.shown = "rolled"
  BY DEF House, RewardType
<1>3. o.left \in Nat /\ o.queued \in Nat
  BY DEF RewardType
<1> HIDE DEF w
<1>4. CardFlow(w)
  BY <1>2, <1>3 DEF CardFlow
<1> QED BY <1>1, <1>2, <1>4 DEF w

\* The events that show a reward screen, or leave over another screen.
LEMMA EventRewardsGood ==
  ASSUME NEW r, NEW v, NEW name, InEvent(r, v, name), NEW q \in Offered(r),
         \/ name \in {"Addict", "TombOfLordRedMask", "TheWomanInBlue"}
            /\ r.at.event.stage = 0
         \/ name = "CursedTome" /\ r.at.event.stage = 4
         \/ name = "SensoryStone" /\ r.at.event.stage = 1
         \/ name = "WheelOfChange" /\ r.at.event.stage = 2
  PROVE  Good(q, v)
<1>1. r.at.event = EventAt(name, r.at.event.stage) /\ r.at.event.name = name
  BY StageOf DEF InEvent
<1>2. "Event" \in Conts
  BY ContNames
<1>3. CASE name \in {"Addict", "TombOfLordRedMask"} /\ r.at.event.stage = 0
  <2>1. q = At(r, 1) \/ q \in Leave(At(r, 1))
    BY <1>1, <1>3 DEF Offered, Addict, TombOfLordRedMask, To
  <2>2. InEvent(At(r, 1), v, name) /\ Good(At(r, 1), v)
        /\ At(r, 1).at.event = EventAt(name, 1)
    BY <1>3, AtInEvent DEF LastStage
  <2>3. 1 \in LeavesAt(name)
    BY <1>3 DEF LeavesAt, TwoScreens, ThreeScreens
  <2> QED BY <2>1, <2>2, <2>3, LeaveConcluded, LeaveGood
<1>4. CASE name = "TheWomanInBlue" /\ r.at.event.stage = 0
  <2> DEFINE shown(n) == [Offers("Event") EXCEPT !.potions = n]
  <2>1. \/ q \in Hurting(At(r, 1))
        \/ \E n \in 1..3 : q = Showing(At(r, 1), shown(n))
    BY <1>1, <1>4 DEF Offered, TheWomanInBlue
  <2>2. InEvent(At(r, 1), v, name)
    BY <1>4, AtInEvent DEF LastStage
  <2>3. ASSUME NEW n \in 1..3
        PROVE  Good(Showing(At(r, 1), shown(n)), v)
    <3>1. /\ shown(n) \in RewardType /\ CardFlow(shown(n)) /\ IsInjective(shown(n).relics)
          /\ shown(n).cont = "Event" /\ ~shown(n).boss
      BY <1>2, PotionsSound
    <3> HIDE DEF shown
    <3>2. Showing(At(r, 1), shown(n)) \in Hurting(Showing(At(r, 1), shown(n)))
      BY DEF Hurting
    <3> QED BY <1>4, <2>2, <3>1, <3>2, ShowGood
  <2> HIDE DEF shown
  <2> QED BY <2>1, <2>2, <2>3, HurtingGood
<1>5. CASE name = "SensoryStone" /\ r.at.event.stage = 1
  <2>1. \E n \in 1..3 : q \in Hurting(Showing(At(r, 2), Queued("Event", n)))
    BY <1>1, <1>5 DEF Offered, SensoryStone
  <2>2. InEvent(At(r, 2), v, name)
    BY <1>5, AtInEvent DEF LastStage
  <2>3. PICK n \in 1..3 : q \in Hurting(Showing(At(r, 2), Queued("Event", n)))
    BY <2>1
  <2>4. LET w == Queued("Event", n) IN
        /\ w \in RewardType /\ CardFlow(w) /\ IsInjective(w.relics)
        /\ w.cont = "Event" /\ ~w.boss
    BY <1>2, QueuedSound
  <2> QED BY <1>5, <2>2, <2>3, <2>4, ShowGood
<1> DEFINE idol == [Offers("Event") EXCEPT !.relics = <<"idol">>]
<1>6. /\ idol \in RewardType /\ CardFlow(idol) /\ IsInjective(idol.relics)
      /\ idol.cont = "Event" /\ ~idol.boss
  BY <1>2, OneIdol, RelicsSound
<1>7. CASE name = "CursedTome" /\ r.at.event.stage = 4
  <2>1. q \in Hurting(At(r, 5)) \/ q \in Hurting(Showing(At(r, 5), idol))
    BY <1>1, <1>7 DEF Offered, CursedTome
  <2>2. InEvent(At(r, 5), v, name)
    BY <1>7, AtInEvent DEF LastStage
  <2> HIDE DEF idol
  <2> QED BY <1>6, <1>7, <2>1, <2>2, HurtingGood, ShowGood
<1>8. CASE name = "WheelOfChange" /\ r.at.event.stage = 2
  <2>1. \/ q \in Hurting(At(r, 3)) \/ q = Showing(At(r, 3), idol)
        \/ q = r \/ q = OpenGrid(r, "RemoveReturn", 1)
    BY <1>1, <1>8 DEF Offered, WheelOfChange, GridOr
  <2>2. InEvent(At(r, 3), v, name)
    BY <1>8, AtInEvent DEF LastStage
  <2> HIDE DEF idol
  <2>3. Good(Showing(At(r, 3), idol), v)
    <3>1. Showing(At(r, 3), idol) \in Hurting(Showing(At(r, 3), idol))
      BY DEF Hurting
    <3> QED BY <1>6, <1>8, <2>2, <3>1, ShowGood
  <2>4. Good(OpenGrid(r, "RemoveReturn", 1), v)
    BY <1>8, GridGood DEF GridOwners, Grid, EventGrids
  <2> QED BY <2>1, <2>2, <2>3, <2>4, HurtingGood, StandingIsGood DEF InEvent
<1> QED BY <1>3, <1>4, <1>5, <1>7, <1>8

\* The laboratory takes its event off the screen it shows.
LEMMA LabGood ==
  ASSUME NEW r, NEW v, InEvent(r, v, "Lab"), NEW q \in Offered(r)
  PROVE  Good(q, v)
<1> DEFINE w == [Offers("None") EXCEPT !.potions = 3]
           s == [r.at EXCEPT !.phase = "Reward", !.reward = w, !.event = Nil]
<1>1. r \in RunType /\ Sound(r, v) /\ r.under = Nil
  BY DEF Standing, InEvent
<1>2. /\ w \in RewardType /\ CardFlow(w) /\ IsInjective(w.relics) /\ w.cont = "None"
      /\ ~w.boss
  BY ContNames, PotionsSound
<1>3. q = [Showing(r, w) EXCEPT !.at.event = Nil]
  BY DEF Offered, Lab, InEvent
<1>4. w # Nil
  BY <1>2, NilAssumption
<1> HIDE DEF w
<1>5. /\ s \in ScreenType /\ s.phase = "Reward" /\ s.reward = w /\ s.event = Nil
      /\ s.treasure = r.at.treasure /\ s.shop = r.at.shop /\ s.merchant = r.at.merchant
      /\ s.restDone = r.at.restDone /\ s.emerald = r.at.emerald
  <2>1. r.at \in ScreenType
    BY <1>1, RunFields
  <2> QED BY <1>2, <2>1 DEF ScreenType, Phases
<1>6. q = [r EXCEPT !.at = s]
  <2>1. q.at = s
    BY <1>1, <1>3, RunFields DEF Showing, RunType, ScreenType
  <2>2. q = [r EXCEPT !.at = q.at]
    BY <1>1, <1>3 DEF Showing, RunType
  <2> QED BY <2>1, <2>2
<1> HIDE DEF s
<1>7. /\ q \in RunType /\ q.at = s /\ q.under = r.under /\ q.grid = r.grid
      /\ q.room = r.room /\ q.act = r.act /\ q.keys = r.keys
      /\ q.chestOpened = r.chestOpened /\ q.reserved = r.reserved
      /\ q.promise = r.promise /\ q.fight = r.fight /\ q.outcome = r.outcome
  BY <1>1, <1>5, <1>6 DEF RunType
<1>8. r.room = "Event" /\ r.grid = Nil
  BY OfAnEvent DEF InEvent, RoomOf
<1>9. Screens(q)
  BY <1>1, <1>4, <1>5, <1>7, <1>8, OfAnEvent DEF InEvent, Sound, Screens,
    PhaseHasPayload, PayloadHasPhase, PayloadInRoom, LastActs, OutcomeAtEnd, Linked,
    Boss, FinalBoss
<1>10. Owned(q) /\ RewardFlow(q)
  BY <1>1, <1>2, <1>4, <1>5, <1>7, <1>8, OfAnEvent DEF InEvent, Owned, RewardFlow, Boss
<1>11. Stages(q) /\ Overlaid(q) /\ Unused(q, v)
  BY <1>1, <1>4, <1>5, <1>7, <1>8, OfAnEvent DEF InEvent, Sound, Unused, Linked, Boss,
    Stages, EventHasStage, Overlaid, GridHasOwner, NeowLeaves
<1> QED BY <1>1, <1>7, <1>9, <1>10, <1>11, StandingIsGood DEF Standing, Sound

\* Neow's leave screen, under a grid of a blessing or of a relic.
LEMMA NeowGrid ==
  ASSUME NEW r, NEW v, InEvent(r, v, "Neow"), r.at.event.stage = 2,
         NEW purpose \in {"NeowRemove", "NeowUpgrade", "NeowTransform", "EmptyCage",
                          "CallingBell", "PandorasBox", "Astrolabe"},
         NEW need \in 0..3
  PROVE  Good(OpenGrid(r, purpose, need), v)
<1> DEFINE g == Grid(purpose, need)
           q == OpenGrid(r, purpose, need)
<1>1. g \in GridType /\ g.purpose = purpose
  BY DEF Grid, GridType, GridPurposes, EventGrids
<1>2. q = [r EXCEPT !.grid = g] /\ q.grid = g /\ q.at = r.at
  BY RunFields DEF OpenGrid, InEvent, Standing, RunType
<1> HIDE DEF q, g
<1>3. AtNeow(q)
  BY <1>2 DEF AtNeow, InEvent
<1>4. GridHasOwner(q) /\ NeowLeaves(q)
  BY <1>1, <1>2, <1>3 DEF GridHasOwner, NeowLeaves
<1>5. Standing(q, v)
  BY <1>1, <1>2, <1>4, GridChanged DEF Overlaid, InEvent
<1> QED BY <1>5, StandingIsGood DEF q

LEMMA NeowGood ==
  ASSUME NEW r, NEW v, InEvent(r, v, "Neow"), r.at.event.stage = 1, NEW q \in Offered(r)
  PROVE  Good(q, v)
<1> DEFINE leave == At(r, 2)
<1>1. /\ InEvent(leave, v, "Neow") /\ Good(leave, v)
      /\ leave.at.event = EventAt("Neow", 2) /\ leave.at.event.stage = 2
  <2>1. /\ InEvent(leave, v, "Neow") /\ Good(leave, v)
        /\ leave.at.event = EventAt("Neow", 2)
    BY AtInEvent DEF LastStage
  <2> QED BY <2>1 DEF EventAt
<1>2. Offered(r) = Blessed(r)
  BY DEF Offered, Neow, InEvent
<1>3. ASSUME NEW w \in RewardType, CardFlow(w), IsInjective(w.relics), ~w.boss,
             w.cont = "Neow"
      PROVE  /\ Standing(Showing(leave, w), v) /\ Showing(leave, w).grid = Nil
             /\ Showing(leave, w).at.reward = w /\ Good(Showing(leave, w), v)
             /\ Showing(leave, w).at.phase = "Reward"
             /\ Showing(leave, w).at.event = leave.at.event
  <2> HIDE DEF leave
  <2> QED BY <1>1, <1>3, ShowingStands, StandingIsGood DEF InEvent
<1>4. "Neow" \in Conts
  BY ContNames
<1>5. Good(Showing(leave, [Offers("Neow") EXCEPT !.potions = 3]), v)
  BY <1>3, <1>4, PotionsSound
<1>6. Good(Showing(leave, [OneCard("Neow") EXCEPT !.active = TRUE]), v)
  BY <1>3, <1>4, OneCardSound
<1> DEFINE blank == Showing(leave, Offers("Neow"))
<1>7. /\ Standing(blank, v) /\ blank.grid = Nil /\ blank.at.reward = Offers("Neow")
      /\ blank.at.reward # Nil /\ Good(blank, v) /\ blank.at.phase = "Reward"
      /\ blank.at.event = leave.at.event
  <2>1. /\ Offers("Neow") \in RewardType /\ CardFlow(Offers("Neow"))
        /\ IsInjective(Offers("Neow").relics) /\ ~Offers("Neow").boss
        /\ Offers("Neow").cont = "Neow"
    BY <1>4, OffersSound
  <2>2. Offers("Neow") # Nil
    BY <2>1, NilAssumption
  <2> QED BY <1>3, <2>1, <2>2
<1>8. ASSUME NEW relic \in BossRelics,
             q \in Gained(IF relic = "TinyHouse" THEN blank ELSE leave, relic)
      PROVE  Good(q, v)
  <2>1. relic \in {"plain", "TinyHouse", "CallingBell", "EmptyCage", "PandorasBox",
                   "Astrolabe"}
    BY EffectsAssumption
  <2>2. CASE relic = "TinyHouse"
    <3> DEFINE w == House(Offers("Neow"))
               o == Offers("Neow")
    <3>1. /\ w \in RewardType /\ CardFlow(w) /\ w.cont = o.cont /\ w.relics = o.relics
          /\ w.boss = o.boss
      BY <1>4, OffersSound, HouseSound
    <3>2. q = [blank EXCEPT !.at.reward = w]
      <4> HIDE DEF blank, w
      <4>1. q \in Gained(blank, "TinyHouse")
        BY <1>8, <2>2
      <4>2. q = [blank EXCEPT !.at.reward = House(@)]
        BY <1>7, <4>1 DEF Gained
      <4>3. House(blank.at.reward) = w
        BY <1>7 DEF w
      <4> QED BY <4>2, <4>3
    <3>3. IsInjective(o.relics) /\ o.cont = "Neow" /\ ~o.boss
      BY <1>4, OffersSound
    <3> HIDE DEF blank, w, o
    <3>4. Linked(blank) = Nil
      <4>1. blank.at.event # Nil
        BY <1>1, <1>7 DEF InEvent
      <4> QED BY <1>7, <4>1, OfAnEvent DEF Linked
    <3>5. blank.at.reward.cont = w.cont /\ IsInjective(w.relics)
          /\ (w.boss => blank.at.reward.boss)
      BY <1>7, <3>1, <3>3 DEF o
    <3> QED BY <1>7, <3>1, <3>2, <3>4, <3>5, RewardChanged, StandingIsGood
  <2>3. CASE relic # "TinyHouse"
    <3> HIDE DEF leave, blank
    <3>1. \/ q = leave
          \/ \E purpose \in {"EmptyCage", "CallingBell", "PandorasBox", "Astrolabe"},
                need \in 0..3 : q = OpenGrid(leave, purpose, need)
      BY <1>8, <2>1, <2>3 DEF Gained, MayOpen
    <3> QED BY <1>1, <3>1, NeowGrid
  <2> QED BY <2>2, <2>3
<1>9. \/ q \in {leave, Showing(leave, [Offers("Neow") EXCEPT !.potions = 3]),
                Showing(leave, [OneCard("Neow") EXCEPT !.active = TRUE])}
      \/ \E purpose \in {"NeowRemove", "NeowUpgrade", "NeowTransform"}, need \in 0..3 :
           q = OpenGrid(leave, purpose, need)
      \/ \E relic \in BossRelics :
           q \in Gained(IF relic = "TinyHouse" THEN blank ELSE leave, relic)
  BY <1>2 DEF Blessed
<1> HIDE DEF leave, blank
<1> QED BY <1>1, <1>5, <1>6, <1>8, <1>9, NeowGrid

\* The end of the third act, and the door to the fourth.
LEMMA SpireHeartGood ==
  ASSUME NEW r, NEW v, InEvent(r, v, "SpireHeart"), NEW q \in Offered(r)
  PROVE  Good(q, v)
<1>1. r \in RunType /\ Sound(r, v) /\ r.under = Nil /\ r.grid = Nil /\ r.room = "Victory"
      /\ r.act = 3
  BY OfAnEvent DEF Standing, InEvent, RoomOf, Sound, Screens, PhaseHasPayload,
    PayloadHasPhase, PayloadInRoom, LastActs, OutcomeAtEnd, Linked, Boss, FinalBoss
<1>2. \/ r.at.event.stage < 3 /\ q = At(r, r.at.event.stage + 1)
      \/ q = Act4(r)
      \/ q = [Ended(r, "Act3Clear") EXCEPT !.at.event = EventAt("SpireHeart", 4)]
  BY DEF Offered, SpireHeartEvent, To, InEvent
<1>3. CASE r.at.event.stage < 3 /\ q = At(r, r.at.event.stage + 1)
  <2>1. r.at.event.stage + 1 \in 0..5 /\ r.at.event.stage + 1 <= LastStage("SpireHeart")
    BY <1>3, StageOf DEF LastStage
  <2> QED BY <1>3, <2>1, AtInEvent
<1>4. CASE q = Act4(r)
  <2> DEFINE s == [r.at EXCEPT !.phase = "Idle", !.event = Nil, !.reward = Nil]
  <2>1. /\ s \in ScreenType /\ s.phase = "Idle" /\ s.reward = Nil /\ s.event = Nil
        /\ s.treasure = r.at.treasure /\ s.shop = r.at.shop /\ s.merchant = r.at.merchant
        /\ s.restDone = r.at.restDone /\ s.emerald = r.at.emerald
    BY <1>1, RunFields DEF ScreenType, Phases
  <2>2. q = [r EXCEPT !.act = 4, !.room = "Start", !.at = s]
    BY <1>1, <1>4, RunFields DEF Act4, RunType, ScreenType
  <2> HIDE DEF s
  <2>3. /\ q \in RunType /\ q.at = s /\ q.under = r.under /\ q.grid = r.grid
        /\ q.room = "Start" /\ q.act = 4 /\ q.keys = r.keys
        /\ q.chestOpened = r.chestOpened /\ q.reserved = r.reserved
        /\ q.promise = r.promise /\ q.fight = r.fight /\ q.outcome = r.outcome
    <3>1. 4 \in 1..4 /\ "Start" \in Rooms
      BY DEF Rooms
    <3> QED BY <1>1, <2>1, <2>2, <3>1 DEF RunType
  <2>4. Screens(q)
    <3>1. /\ s.treasure = Nil /\ s.shop = Nil /\ s.merchant = FALSE /\ s.restDone = FALSE
          /\ s.emerald = FALSE /\ q.chestOpened = FALSE /\ q.reserved = FALSE
          /\ q.promise = "no" /\ q.fight = Nil /\ q.outcome = Nil
      BY <2>1, <2>3, OfAnEvent DEF InEvent
    <3>2. PhaseHasPayload(q) /\ PayloadInRoom(q) /\ LastActs(q)
      BY <2>1, <2>3, <3>1, NilIsNoName DEF Fights, PhaseHasPayload, PayloadInRoom,
        LastActs, Boss, FinalBoss
    <3>3. PayloadHasPhase(q)
      BY <2>1, <2>3, <3>1, NilIsNoName DEF PayloadHasPhase, Linked
    <3>4. OutcomeAtEnd(q) /\ (q.keys # {} => FinalAct)
      BY <1>1, <2>3, <3>1, NilIsNoName DEF OutcomeAtEnd, Sound, Screens, Outcomes
    <3> QED BY <3>2, <3>3, <3>4 DEF Screens
  <2>5. Stages(q) /\ Overlaid(q) /\ Owned(q) /\ RewardFlow(q) /\ Unused(q, v)
    BY <1>1, <2>1, <2>3, OfAnEvent DEF InEvent, Stages, EventHasStage, Overlaid,
      NeowLeaves, GridHasOwner, Owned, RewardFlow, Unused, Linked
  <2> QED BY <1>1, <2>3, <2>4, <2>5, StandingIsGood DEF Standing, Sound
<1>5. CASE q = [Ended(r, "Act3Clear") EXCEPT !.at.event = EventAt("SpireHeart", 4)]
  <2> DEFINE e == EventAt("SpireHeart", 4)
             s == [r.at EXCEPT !.phase = "Complete", !.event = e, !.reward = Nil]
  <2>0. e \in EventType /\ e.name = "SpireHeart" /\ e.stage = 4 /\ e # Nil
    <3>1. e \in EventType /\ e.name = "SpireHeart" /\ e.stage = 4
      BY DEF EventType, EventAt
    <3> QED BY <3>1, NilAssumption
  <2> HIDE DEF e
  <2>1. /\ s \in ScreenType /\ s.phase = "Complete" /\ s.reward = Nil /\ s.event = e
        /\ s.treasure = r.at.treasure /\ s.shop = r.at.shop /\ s.merchant = r.at.merchant
        /\ s.restDone = r.at.restDone /\ s.emerald = r.at.emerald
    BY <1>1, <2>0, RunFields DEF ScreenType, Phases
  <2>2. q = [r EXCEPT !.at = s, !.outcome = "Act3Clear", !.grid = Nil, !.fight = Nil]
    <3>1. q.at = s
      BY <1>1, <1>5, RunFields DEF Ended, RunType, ScreenType, e
    <3>2. q = [r EXCEPT !.at = q.at, !.outcome = "Act3Clear", !.grid = Nil, !.fight = Nil]
      BY <1>1, <1>5 DEF Ended, RunType
    <3> QED BY <3>1, <3>2
  <2> HIDE DEF s
  <2>3. /\ q \in RunType /\ q.at = s /\ q.under = r.under /\ q.grid = Nil
        /\ q.room = r.room /\ q.act = r.act /\ q.keys = r.keys
        /\ q.chestOpened = r.chestOpened /\ q.reserved = r.reserved
        /\ q.promise = r.promise /\ q.fight = Nil /\ q.outcome = "Act3Clear"
    BY <1>1, <2>1, <2>2 DEF RunType, Outcomes
  <2>4. e = EventAt("SpireHeart", 4)
    BY DEF e
  <2>5. Screens(q)
    BY <1>1, <2>0, <2>1, <2>3, <2>4, OfAnEvent DEF InEvent, Sound, Screens,
      PhaseHasPayload, PayloadHasPhase, PayloadInRoom, LastActs, OutcomeAtEnd, Linked,
      Boss, FinalBoss, RoomOf
  <2>6. Stages(q) /\ Overlaid(q) /\ Owned(q) /\ RewardFlow(q)
    BY <1>1, <2>0, <2>1, <2>3 DEF Stages, EventHasStage, Overlaid, NeowLeaves,
      GridHasOwner, Owned, RewardFlow, LastStage
  <2>7. Unused(q, v)
    BY <1>1, <2>1, <2>3, OfAnEvent DEF InEvent, Sound, Unused, Linked, Boss
  <2> QED BY <1>1, <2>3, <2>5, <2>6, <2>7, StandingIsGood DEF Standing, Sound
<1> QED BY <1>2, <1>3, <1>4, <1>5

\* Every option of every event leads to a sound state.
LEMMA OfferedGood ==
  ASSUME NEW r, NEW v, NEW name, InEvent(r, v, name), NEW q \in Offered(r)
  PROVE  Good(q, v)
<1> DEFINE k == r.at.event.stage
<1>1. k \in 0..5 /\ k <= LastStage(name) /\ (name \in {"Duplicator", "Purifier"} => k # 1)
      /\ (name = "DeadAdventurer" => k # 2)
  BY StageOf
<1>2. name \in {"Neow", "SpireHeart"} \union Act1Events \union Act2Events
                 \union Act3Events \union Shrines \union UNION {OneTime(a) : a \in 1..3}
  <2>1. r.at.event \in EventType /\ r.at.event.name = name
    BY OfAnEvent DEF InEvent
  <2> QED BY <2>1 DEF EventType
<1>3. UNION {OneTime(a) : a \in 1..3} \subseteq
        {"AccursedBlacksmith", "BonfireElementals", "FountainOfCleansing", "Lab",
         "WeMeetAgain", "TheWomanInBlue", "NoteForYourself", "Designer", "Duplicator",
         "FaceTrader", "KnowingSkull", "Nloth", "TheJoust", "SecretPortal"}
  BY DEF OneTime
<1> HIDE DEF k
<1>4. CASE name \in TwoScreens
  <2>1. k = 0 \/ k \in LeavesAt(name)
    BY <1>1, <1>4 DEF LeavesAt, LastStage, TwoScreens, ThreeScreens
  <2>2. CASE k \in LeavesAt(name)
    BY <2>2, PageTurned DEF k
  <2>3. CASE k = 0 /\ name \in {"BigFish", "TheMausoleum", "Vampires", "MoaiHead",
                  "GoldenShrine", "FountainOfCleansing", "WeMeetAgain", "Nloth", "Ghosts"}
    <3>1. TurnsTo(name, k) # {}
      BY <2>3 DEF TurnsTo
    <3> QED BY <3>1, PageTurned DEF k
  <2>4. CASE k = 0 /\ name \in {"WorldOfGoop", "ShiningLight", "ForgottenAltar"}
    <3>1. HurtsTo(name, k) # {}
      BY <2>4 DEF HurtsTo
    <3> QED BY <3>1, PageTurned DEF k
  <2>5. CASE k = 0 /\ name \in {"Addict", "TombOfLordRedMask", "TheWomanInBlue"}
    BY <2>5, EventRewardsGood DEF k
  <2>6. CASE k = 0 /\ name = "MindBloom"
    BY <2>6, EventFightsGood DEF k
  <2>7. CASE k = 0 /\ name \in {"TheCleric", "BackToBasics", "LivingWall", "DrugDealer",
                   "TheLibrary", "Purifier", "Transmorgrifier", "UpgradeShrine",
                   "AccursedBlacksmith", "Duplicator"}
    BY <2>7, EventGridsGood DEF k
  <2> QED BY <1>4, <2>1, <2>2, <2>3, <2>4, <2>5, <2>6, <2>7 DEF TwoScreens
<1>5. CASE name \in ThreeScreens
  <2>1. k \in {0, 1, 2}
    BY <1>1, <1>5 DEF LastStage, ThreeScreens
  <2>2. CASE k = 2
    <3>1. k \in LeavesAt(name)
      BY <1>5, <2>2 DEF LeavesAt, TwoScreens, ThreeScreens
    <3> QED BY <3>1, PageTurned DEF k
  <2>3. CASE k = 0 /\ name \notin {"WingStatue", "ScrapOoze"}
    <3>1. TurnsTo(name, k) # {}
      BY <1>5, <2>3 DEF TurnsTo, ThreeScreens
    <3> QED BY <3>1, PageTurned DEF k
  <2>4. CASE name = "WingStatue" /\ k \in {0, 1}
    BY <2>4, EventGridsGood DEF k
  <2>5. CASE name = "ScrapOoze" /\ k \in {0, 1}
    <3>1. HurtsTo(name, k) # {}
      BY <2>5 DEF HurtsTo
    <3> QED BY <3>1, PageTurned DEF k
  <2>6. CASE k = 1 /\ name \in {"Nest", "WindingHalls", "FaceTrader", "KnowingSkull"}
    <3>1. HurtsTo(name, k) # {}
      BY <2>6 DEF HurtsTo
    <3> QED BY <3>1, PageTurned DEF k
  <2>7. CASE k = 1 /\ name = "Falling"
    <3>1. TurnsTo(name, k) # {}
      BY <2>7 DEF TurnsTo
    <3> QED BY <3>1, PageTurned DEF k
  <2>8. CASE k = 1 /\ name = "Neow"
    BY <2>8, NeowGood DEF k
  <2>9. CASE k = 1 /\ name \in {"HypnotizingColoredMushrooms", "MysteriousSphere",
                                "SecretPortal"}
    BY <2>9, EventFightsGood DEF k
  <2>10. CASE k = 1 /\ name \in {"Beggar", "BonfireElementals", "Designer",
                                 "NoteForYourself"}
    BY <2>10, EventGridsGood DEF k
  <2>11. CASE k = 1 /\ name = "SensoryStone"
    BY <2>11, EventRewardsGood DEF k
  <2> QED BY <1>5, <2>1, <2>2, <2>3, <2>4, <2>5, <2>6, <2>7, <2>8, <2>9, <2>10, <2>11
          DEF ThreeScreens
<1>6. CASE name \in {"GoldenIdol", "TheSsssserpent", "MaskedBandits", "MatchAndKeep",
                     "WheelOfChange", "DeadAdventurer"}
  <2>1. k \in {0, 1, 2, 3}
    BY <1>1, <1>6 DEF LastStage
  <2>2. CASE \/ name = "MaskedBandits" /\ k = 0
             \/ name = "DeadAdventurer" /\ k = 3
    BY <2>2, EventFightsGood DEF k
  <2>3. CASE name = "WheelOfChange" /\ k = 2
    BY <2>3, EventRewardsGood DEF k
  <2>4. CASE name \in {"GoldenIdol", "TheSsssserpent"}
    <3>1. k \in LeavesAt(name) \/ TurnsTo(name, k) # {} \/ HurtsTo(name, k) # {}
      BY <2>1, <2>4 DEF LeavesAt, TurnsTo, HurtsTo, TwoScreens, ThreeScreens
    <3> QED BY <3>1, PageTurned DEF k
  <2>5. CASE \/ name = "MaskedBandits" /\ k # 0
             \/ name = "DeadAdventurer" /\ k # 3
    <3>1. k \in LeavesAt(name) \/ TurnsTo(name, k) # {}
      BY <1>1, <2>1, <2>5 DEF LeavesAt, TurnsTo, TwoScreens, ThreeScreens
    <3> QED BY <3>1, PageTurned DEF k
  <2>6. CASE \/ name = "WheelOfChange" /\ k # 2
             \/ name = "MatchAndKeep"
    <3>1. k \in LeavesAt(name) \/ TurnsTo(name, k) # {}
      BY <2>1, <2>6 DEF LeavesAt, TurnsTo, TwoScreens, ThreeScreens
    <3> QED BY <3>1, PageTurned DEF k
  <2> QED BY <1>6, <2>2, <2>3, <2>4, <2>5, <2>6
<1>7. CASE name = "TheJoust"
  <2>1. k \in 0..4
    BY <1>1, <1>7 DEF LastStage
  <2>2. k \in LeavesAt(name) \/ TurnsTo(name, k) # {}
    BY <1>7, <2>1 DEF LeavesAt, TurnsTo, TwoScreens, ThreeScreens
  <2> QED BY <2>2, PageTurned DEF k
<1>8. CASE name = "CursedTome"
  <2>1. k = 4 \/ k \in LeavesAt(name) \/ TurnsTo(name, k) # {} \/ HurtsTo(name, k) # {}
    BY <1>1, <1>8 DEF LeavesAt, TurnsTo, HurtsTo, TwoScreens, ThreeScreens
  <2> QED BY <1>8, <2>1, PageTurned, EventRewardsGood DEF k
<1>9. CASE name = "Colosseum"
  <2>1. k \in {0, 1, 2}
    BY <1>1, <1>9 DEF LastStage
  <2>2. k = 0 => TurnsTo(name, k) # {}
    BY <1>9 DEF TurnsTo
  <2> QED BY <1>9, <2>1, <2>2, PageTurned, EventFightsGood DEF k
<1>10. CASE name = "Lab"
  BY <1>10, LabGood
<1>11. CASE name = "SpireHeart"
  BY <1>11, SpireHeartGood
<1>12. \/ name \in TwoScreens \/ name \in ThreeScreens
       \/ name \in {"GoldenIdol", "TheSsssserpent", "MaskedBandits", "MatchAndKeep",
                    "WheelOfChange", "DeadAdventurer"}
       \/ name \in {"TheJoust", "CursedTome", "Colosseum", "Lab", "SpireHeart"}
  BY <1>2, <1>3 DEF Act1Events, Act2Events, Act3Events, Shrines, TwoScreens,
    ThreeScreens
<1> QED BY <1>4, <1>5, <1>6, <1>7, <1>8, <1>9, <1>10, <1>11, <1>12

------------------------------------------------------------------------------
(* Leaving a reward screen *)

LEMMA OnRewardScreen ==
  ASSUME NEW r, NEW v, Standing(r, v), r.at.phase = "Reward"
  PROVE  /\ r.at.reward \in RewardType /\ r.at.reward # Nil /\ CardFlow(r.at.reward)
         /\ IsInjective(r.at.reward.relics) /\ r.at.reward.cont \in Conts
         /\ r.at.reward.boss => r.at.reward.cont = "Treasure"
         /\ r.reserved => r.chestOpened
         /\ r.fight = Nil /\ r.promise = "no" /\ r.outcome = Nil /\ ~FinalBoss(r)
         /\ Boss(r) /\ r.chestOpened <=> r.at.reward.cont = "Treasure"
         /\ r.chestOpened => Boss(r)
         /\ r.at.merchant => r.at.shop # Nil
BY RunFields DEF Standing, Sound, Screens, PhaseHasPayload, PayloadHasPhase,
  PayloadInRoom, LastActs, OutcomeAtEnd, Linked, Boss, FinalBoss, RewardFlow, Owned,
  RewardType, Conts

LEMMA BackToOwnerStands ==
  ASSUME NEW r, NEW v, Standing(r, v), r.at.phase = "Reward", r.grid = Nil,
         r.at.reward.cont \in DOMAIN Owner
  PROVE  Standing(BackToOwner(r), v)
<1> DEFINE q == BackToOwner(r)
           phase == Owner[r.at.reward.cont]
           s == [r.at EXCEPT !.phase = phase, !.reward = Nil, !.emerald = FALSE]
<1>1. r \in RunType /\ Sound(r, v) /\ r.under = Nil
  BY DEF Standing
<1>2. /\ r.at.reward.cont \in {"Rest", "Event", "Shop", "Treasure", "Neow"}
      /\ phase = (IF r.at.reward.cont = "Neow" THEN "Event" ELSE r.at.reward.cont)
  BY DEF Owner
<1> HIDE DEF phase
<1>3. phase \in Phases
  BY <1>2 DEF Phases
<1>4. /\ s \in ScreenType /\ s.phase = phase /\ s.reward = Nil /\ s.event = r.at.event
      /\ s.treasure = r.at.treasure /\ s.shop = r.at.shop /\ s.merchant = r.at.merchant
      /\ s.restDone = r.at.restDone /\ s.emerald = FALSE
  BY <1>1, <1>3, RunFields DEF ScreenType
<1>5. q = [r EXCEPT !.at = s]
  BY <1>1, RunFields DEF BackToOwner, RunType, ScreenType, phase
<1> HIDE DEF q, s
<1>6. /\ q \in RunType /\ q.at = s /\ q.under = r.under /\ q.grid = r.grid
      /\ q.room = r.room /\ q.act = r.act /\ q.keys = r.keys
      /\ q.chestOpened = r.chestOpened /\ q.reserved = r.reserved
      /\ q.promise = r.promise /\ q.fight = r.fight /\ q.outcome = r.outcome
  BY <1>1, <1>4, <1>5, ScreenChanged
<1>7. LET cont == r.at.reward.cont IN
      /\ r.at.event # Nil <=> cont \in {"Event", "Neow"}
      /\ r.at.shop # Nil <=> cont = "Shop"
      /\ r.at.restDone <=> cont = "Rest"
      /\ Boss(r) /\ r.chestOpened <=> cont = "Treasure"
      /\ r.at.treasure = Nil
  BY <1>1, <1>2, OnRewardScreen DEF Sound, Owned
<1>8. Screens(q)
  BY <1>1, <1>2, <1>4, <1>6, <1>7, OnRewardScreen DEF Sound, Screens, PhaseHasPayload,
    PayloadHasPhase, PayloadInRoom, LastActs, OutcomeAtEnd, Linked, Boss, FinalBoss
<1>9. Stages(q) /\ Overlaid(q) /\ Owned(q) /\ RewardFlow(q)
  BY <1>1, <1>4, <1>6 DEF Sound, Stages, EventHasStage, Overlaid, NeowLeaves,
    GridHasOwner, Owned, RewardFlow
<1>10. Unused(q, v)
  BY <1>1, <1>2, <1>4, <1>6, <1>7 DEF Sound, Unused, Linked, Boss, Screens,
    PayloadHasPhase
<1> QED BY <1>1, <1>6, <1>8, <1>9, <1>10 DEF Standing, Sound, q

LEMMA CloseRewardGood ==
  ASSUME NEW r, NEW v, Standing(r, v), r.at.phase = "Reward", r.grid = Nil,
         NEW proceeding \in BOOLEAN
  PROVE  Good(CloseReward(r, proceeding), v)
<1>1. r.at.reward.cont \in {"None", "Map"} \union DOMAIN Owner
  BY OnRewardScreen DEF Conts
<1>2. CASE r.at.reward.cont \in {"None", "Map"} \/ (r.at.reward.cont = "Neow" /\ proceeding)
  <2>1. r.chestOpened = FALSE /\ r.reserved = FALSE
    BY <1>2, OnRewardScreen, RunFields DEF Standing
  <2>2. Good(OpenMap(r), v)
    BY <2>1, OpenMapGood
  <2> QED BY <1>2, <2>2 DEF CloseReward
<1>3. CASE ~(\/ r.at.reward.cont \in {"None", "Map"}
             \/ (r.at.reward.cont = "Neow" /\ proceeding))
  <2>1. Good(BackToOwner(r), v)
    BY <1>1, <1>3, BackToOwnerStands, StandingIsGood
  <2> QED BY <1>3, <2>1 DEF CloseReward
<1> QED BY <1>2, <1>3

LEMMA ReturnIfEmptyGood ==
  ASSUME NEW r, NEW v, Standing(r, v), r.at.phase = "Reward", r.grid = Nil
  PROVE  Good(ReturnIfEmpty(r), v)
BY CloseRewardGood, StandingIsGood DEF ReturnIfEmpty

\* Behind a boss: the chest room, entered or entered again.
LEMMA BossChestStands ==
  ASSUME NEW r, NEW v, Standing(r, v), r.at.phase = "Reward", r.grid = Nil, Boss(r),
         ~r.chestOpened \/ r.at.reward.boss, NEW reserved \in BOOLEAN,
         NEW q, q = [r EXCEPT !.at.phase = "Treasure", !.at.reward = Nil,
                              !.at.treasure = Nil, !.fight = Nil, !.chestOpened = FALSE,
                              !.reserved = reserved]
  PROVE  Standing(q, v)
<1> DEFINE s == [r.at EXCEPT !.phase = "Treasure", !.reward = Nil, !.treasure = Nil]
<1>1. r \in RunType /\ Sound(r, v) /\ r.under = Nil
  BY DEF Standing
<1>2. /\ s \in ScreenType /\ s.phase = "Treasure" /\ s.reward = Nil /\ s.event = r.at.event
      /\ s.treasure = Nil /\ s.shop = r.at.shop /\ s.merchant = r.at.merchant
      /\ s.restDone = r.at.restDone /\ s.emerald = r.at.emerald
  BY <1>1, RunFields DEF ScreenType, Phases
<1>3. q = [r EXCEPT !.at = s, !.fight = Nil, !.chestOpened = FALSE, !.reserved = reserved]
  BY <1>1, RunFields DEF RunType, ScreenType
<1> HIDE DEF s
<1>4. /\ q \in RunType /\ q.at = s /\ q.under = r.under /\ q.grid = r.grid
      /\ q.room = r.room /\ q.act = r.act /\ q.keys = r.keys
      /\ q.chestOpened = FALSE /\ q.reserved = reserved
      /\ q.promise = r.promise /\ q.fight = Nil /\ q.outcome = r.outcome
  BY <1>1, <1>2, <1>3 DEF RunType
<1>5. /\ r.at.event = Nil /\ r.at.shop = Nil /\ ~r.at.restDone /\ ~r.at.emerald
  BY <1>1, OnRewardScreen DEF Sound, Screens, PhaseHasPayload, PayloadHasPhase,
    PayloadInRoom, LastActs, OutcomeAtEnd, Linked, Boss, FinalBoss, RoomOf
<1>6. Screens(q)
  BY <1>1, <1>2, <1>4, <1>5, OnRewardScreen, NilIsNoName DEF Sound, Screens,
    PhaseHasPayload, PayloadHasPhase, PayloadInRoom, LastActs, OutcomeAtEnd, Linked,
    Boss, FinalBoss, Fights
<1>7. Stages(q) /\ Overlaid(q) /\ Owned(q) /\ RewardFlow(q)
  BY <1>2, <1>4, <1>5 DEF Stages, EventHasStage, Overlaid, NeowLeaves, GridHasOwner,
    Owned, RewardFlow
<1>8. Unused(q, v)
  BY <1>1, <1>2, <1>4, <1>5, OnRewardScreen DEF Sound, Unused, Linked, Boss
<1> QED BY <1>1, <1>4, <1>6, <1>7, <1>8 DEF Standing, Sound

------------------------------------------------------------------------------
(* Fights *)

\* What a fight excludes.
LEMMA InFight ==
  ASSUME NEW r, NEW v, Standing(r, v), r.at.phase = "Combat"
  PROVE  /\ r.at.event = Nil /\ r.at.reward = Nil /\ r.at.shop = Nil
         /\ r.at.treasure = Nil /\ ~r.at.restDone /\ ~r.at.emerald /\ ~r.at.merchant
         /\ ~r.chestOpened /\ ~r.reserved /\ r.outcome = Nil /\ r.fight # Nil
         /\ r.fight \in {"first", "colosseum"} \/ r.promise # "no" => r.room = "Event"
         /\ r.fight = "first" => r.promise = "no"
         /\ r.room # "Victory" \/ r.act = 3
BY RunFields DEF Standing, Sound, Screens, PhaseHasPayload, PayloadHasPhase,
  PayloadInRoom, LastActs, OutcomeAtEnd, Linked, Boss, FinalBoss

\* A fight that ends on a screen of its own.
LEMMA FightEnds ==
  ASSUME NEW r, NEW v, Standing(r, v), r.at.phase = "Combat", r.grid = Nil,
         NEW phase \in {"Idle", "Combat", "Victory", "Complete"},
         NEW fight \in {Nil, "lost"}, fight # Nil <=> phase = "Combat",
         phase = "Victory" => r.act \in {3, 4} /\ Boss(r), phase = "Idle" => ~Boss(r),
         NEW promise \in {"no", r.promise}, phase # "Combat" => promise = "no",
         NEW outcome \in {Nil, "Death"}, outcome # Nil => phase = "Complete",
         NEW q \in RunType, q.under = Nil, q.grid = Nil, q.room = r.room, q.act = r.act,
         q.keys = r.keys, q.chestOpened = r.chestOpened, q.reserved = r.reserved,
         q.promise = promise, q.fight = fight, q.outcome = outcome,
         NEW s, q.at = s, s.phase = phase, s.event = Nil, s.reward = Nil,
         s.treasure = r.at.treasure, s.shop = r.at.shop, s.merchant = r.at.merchant,
         s.restDone = r.at.restDone, s.emerald = r.at.emerald
  PROVE  Standing(q, v)
<1>1. r \in RunType /\ Sound(r, v) /\ r.under = Nil
  BY DEF Standing
<1>6. Screens(q)
  BY <1>1, InFight, NilIsNoName DEF Sound, Screens, PhaseHasPayload, PayloadHasPhase,
    PayloadInRoom, LastActs, OutcomeAtEnd, Linked, Boss, FinalBoss, Fights, Outcomes
<1>7. Stages(q) /\ Overlaid(q) /\ Owned(q) /\ RewardFlow(q)
  BY DEF Stages, EventHasStage, Overlaid, NeowLeaves, GridHasOwner, Owned, RewardFlow
<1>8. Unused(q, v)
  BY <1>1, InFight DEF Sound, Unused, Linked, Boss
<1> QED BY <1>1, <1>6, <1>7, <1>8 DEF Standing, Sound

\* A won fight's reward screen.
LEMMA WonStands ==
  ASSUME NEW r, NEW v, Standing(r, v), r.at.phase = "Combat", r.grid = Nil, ~FinalBoss(r),
         NEW w \in RewardType, CardFlow(w), IsInjective(w.relics), ~w.boss,
         \/ w.cont = "None"
         \/ w.cont = "Map" /\ r.room = "Event",
         NEW burning \in BOOLEAN, burning => BurningElite(r),
         NEW q, q = [Won(r, w) EXCEPT !.at.emerald = burning]
  PROVE  Standing(q, v)
<1> DEFINE s == [r.at EXCEPT !.phase = "Reward", !.reward = w, !.emerald = burning]
<1>1. r \in RunType /\ Sound(r, v) /\ r.under = Nil
  BY DEF Standing
<1>2. /\ s \in ScreenType /\ s.phase = "Reward" /\ s.reward = w /\ s.event = r.at.event
      /\ s.treasure = r.at.treasure /\ s.shop = r.at.shop /\ s.merchant = r.at.merchant
      /\ s.restDone = r.at.restDone /\ s.emerald = burning
  BY <1>1, RunFields DEF ScreenType, Phases
<1>3. q = [r EXCEPT !.at = s, !.fight = Nil, !.promise = "no"]
  BY <1>1, RunFields DEF Won, RunType, ScreenType
<1>4. w # Nil
  BY NilAssumption
<1> HIDE DEF s
<1>5. /\ q \in RunType /\ q.at = s /\ q.under = r.under /\ q.grid = r.grid
      /\ q.room = r.room /\ q.act = r.act /\ q.keys = r.keys
      /\ q.chestOpened = r.chestOpened /\ q.reserved = r.reserved
      /\ q.promise = "no" /\ q.fight = Nil /\ q.outcome = r.outcome
  BY <1>1, <1>2, <1>3 DEF RunType
<1>6. Screens(q)
  BY <1>1, <1>2, <1>4, <1>5, InFight, NilIsNoName DEF Sound, Screens, PhaseHasPayload,
    PayloadHasPhase, PayloadInRoom, LastActs, OutcomeAtEnd, Linked, Boss, FinalBoss,
    Fights, BurningElite
<1>7. Owned(q) /\ RewardFlow(q)
  BY <1>1, <1>2, <1>4, <1>5, InFight DEF Owned, RewardFlow, Boss
<1>8. Stages(q) /\ Overlaid(q) /\ Unused(q, v)
  BY <1>1, <1>2, <1>5, InFight DEF Sound, Stages, EventHasStage, Overlaid, NeowLeaves,
    GridHasOwner, Unused, Linked, Boss
<1> QED BY <1>1, <1>5, <1>6, <1>7, <1>8 DEF Standing, Sound

LEMMA ListsSound ==
  ASSUME NEW n \in {1, 2}, NEW l \in Lists(n)
  PROVE  /\ l \in Seq(RelicOffers) /\ IsInjective(l) /\ Len(l) \in {1, 2}
         /\ \A i \in DOMAIN l : l[i] \in {"idol", "coin", "Bottle"}
<1>1. l \in {<<"idol">>, <<"Bottle">>, <<"idol", "coin">>, <<"Bottle", "coin">>,
             <<"idol", "Bottle">>}
  BY DEF Lists
<1>2. CASE l = <<"idol">>
  BY <1>2 DEF RelicOffers, IsInjective
<1>6. CASE l = <<"Bottle">>
  BY <1>6 DEF RelicOffers, IsInjective
<1>3. CASE l = <<"idol", "coin">>
  BY <1>3 DEF RelicOffers, IsInjective
<1>4. CASE l = <<"Bottle", "coin">>
  BY <1>4 DEF RelicOffers, IsInjective
<1>5. CASE l = <<"idol", "Bottle">>
  BY <1>5 DEF RelicOffers, IsInjective
<1> QED BY <1>1, <1>2, <1>3, <1>4, <1>5, <1>6

LEMMA MaskSound ==
  <<"mask">> \in Seq(RelicOffers) /\ IsInjective(<<"mask">>)
    /\ <<>> \in Seq(RelicOffers) /\ IsInjective(<<>>)
BY DEF RelicOffers, IsInjective

\* The parts of a fight's reward screen do not change which cards it deals.
LEMMA SpoilsMade ==
  ASSUME NEW o \in RewardType, CardFlow(o), IsInjective(o.relics), ~o.boss,
         NEW coins \in SUBSET {"gold", "stolen"}, NEW l \in Seq(RelicOffers),
         IsInjective(l), NEW potion \in BOOLEAN
  PROVE  /\ LET w == [o EXCEPT !.coins = coins] IN
            /\ w \in RewardType /\ CardFlow(w) /\ IsInjective(w.relics) /\ ~w.boss
            /\ w.cont = o.cont
         /\ LET w == [o EXCEPT !.relics = l] IN
            /\ w \in RewardType /\ CardFlow(w) /\ IsInjective(w.relics) /\ ~w.boss
            /\ w.cont = o.cont
         /\ LET w == [o EXCEPT !.potion = potion] IN
            /\ w \in RewardType /\ CardFlow(w) /\ IsInjective(w.relics) /\ ~w.boss
            /\ w.cont = o.cont
<1> DEFINE a == [o EXCEPT !.coins = coins]
           b == [o EXCEPT !.relics = l]
           c == [o EXCEPT !.potion = potion]
<1>1. a \in RewardType /\ b \in RewardType /\ c \in RewardType
  BY DEF RewardType
<1>2. /\ a.cont = o.cont /\ a.left = o.left /\ a.active = o.active /\ a.shown = o.shown
      /\ a.queued = o.queued /\ a.relics = o.relics /\ a.boss = o.boss
  BY DEF RewardType
<1>3. /\ b.cont = o.cont /\ b.left = o.left /\ b.active = o.active /\ b.shown = o.shown
      /\ b.queued = o.queued /\ b.relics = l /\ b.boss = o.boss
  BY DEF RewardType
<1>4. /\ c.cont = o.cont /\ c.left = o.left /\ c.active = o.active /\ c.shown = o.shown
      /\ c.queued = o.queued /\ c.relics = o.relics /\ c.boss = o.boss
  BY DEF RewardType
<1> HIDE DEF a, b, c
<1>5. CardFlow(a) /\ CardFlow(b) /\ CardFlow(c)
  BY <1>2, <1>3, <1>4 DEF CardFlow
<1> QED BY <1>1, <1>2, <1>3, <1>4, <1>5 DEF a, b, c

\* What a fight may pay.
LEMMA SpoilsSound ==
  ASSUME NEW r, NEW w \in Spoils(r) \union Prizes, NEW potion \in BOOLEAN
  PROVE  LET p == [w EXCEPT !.potion = potion] IN
         /\ p \in RewardType /\ CardFlow(p) /\ IsInjective(p.relics) /\ ~p.boss
         /\ p.cont = w.cont /\ p.cont \in {"None", "Map"}
         /\ w \in Spoils(r) => p.cont = "None"
<1> DEFINE Sane(x) == /\ x \in RewardType /\ CardFlow(x)
                      /\ IsInjective(x.relics) /\ ~x.boss
<1>1. ASSUME NEW cont \in {"None", "Map"}
      PROVE  /\ Sane(OneCard(cont)) /\ OneCard(cont).cont = cont
             /\ Sane(Queued(cont, 2)) /\ Queued(cont, 2).cont = cont
             /\ Sane(Plain(OneCard(cont))) /\ Plain(OneCard(cont)).cont = cont
             /\ Sane(Plain(Queued(cont, 2))) /\ Plain(Queued(cont, 2)).cont = cont
             /\ LET x == [OneCard(cont) EXCEPT !.coins = {"gold", "stolen"}] IN
                Sane(x) /\ x.cont = cont
  <2>1. cont \in Conts
    BY ContNames
  <2>2. Sane(Queued(cont, 2)) /\ Queued(cont, 2).cont = cont
    BY <2>1, QueuedSound
  <2> DEFINE o == Offers(cont)
             w1 == [o EXCEPT !.left = 1, !.shown = "rolled"]
  <2>3. Sane(OneCard(cont)) /\ OneCard(cont).cont = cont
    <3>1. o \in RewardType /\ o.cont = cont /\ ~o.boss /\ o.active = FALSE
          /\ o.queued = 0 /\ IsInjective(o.relics)
      BY <2>1, OffersSound
    <3>2. w1 = OneCard(cont)
      BY DEF OneCard
    <3> HIDE DEF o
    <3>3. w1 \in RewardType
      BY <3>1 DEF RewardType
    <3>4. /\ w1.cont = o.cont /\ w1.left = 1 /\ w1.active = o.active
          /\ w1.shown = "rolled" /\ w1.queued = o.queued
          /\ w1.boss = o.boss /\ w1.relics = o.relics
      BY <3>1 DEF RewardType
    <3> HIDE DEF w1
    <3> QED BY <3>1, <3>2, <3>3, <3>4 DEF CardFlow
  <2>4. ASSUME NEW x, Sane(x), x.cont = cont,
               NEW coins \in SUBSET {"gold", "stolen"}
        PROVE  Sane([x EXCEPT !.coins = coins]) /\ [x EXCEPT !.coins = coins].cont = cont
    BY <2>4, MaskSound, SpoilsMade
  <2> HIDE DEF Sane
  <2> QED BY <2>2, <2>3, <2>4 DEF Plain
<1>2. ASSUME NEW x, Sane(x), NEW l \in Seq(RelicOffers), IsInjective(l)
      PROVE  Sane([x EXCEPT !.relics = l]) /\ [x EXCEPT !.relics = l].cont = x.cont
  BY <1>2, SpoilsMade
<1>3. ASSUME NEW x, Sane(x)
      PROVE  /\ Sane([x EXCEPT !.potion = potion])
             /\ [x EXCEPT !.potion = potion].cont = x.cont
  BY <1>3, MaskSound, SpoilsMade
<1> DEFINE Dealt(cont) ==
             {OneCard(cont), Plain(OneCard(cont)), Plain(Queued(cont, 2)),
              [OneCard(cont) EXCEPT !.coins = {"gold", "stolen"}]}
           Offering(cont) ==
             {[Plain(OneCard(cont)) EXCEPT !.relics = l] :
                l \in Lists(1) \union Lists(2) \union {<<"mask">>, <<>>}}
<1> HIDE DEF Sane
<1>4. ASSUME NEW l \in Lists(1) \union Lists(2) \union {<<"mask">>, <<>>}
      PROVE  l \in Seq(RelicOffers) /\ IsInjective(l)
  BY MaskSound, ListsSound
<1>5. ASSUME NEW cont \in {"None", "Map"}, NEW x \in Dealt(cont) \union Offering(cont)
      PROVE  Sane(x) /\ x.cont = cont
  <2>1. CASE x \in Dealt(cont)
    BY <1>1, <2>1
  <2>2. CASE x \in Offering(cont)
    <3>1. PICK l \in Lists(1) \union Lists(2) \union {<<"mask">>, <<>>} :
            x = [Plain(OneCard(cont)) EXCEPT !.relics = l]
      BY <2>2
    <3>2. Sane(Plain(OneCard(cont))) /\ Plain(OneCard(cont)).cont = cont
      BY <1>1
    <3>3. l \in Seq(RelicOffers) /\ IsInjective(l)
      BY <1>4
    <3> QED BY <1>2, <3>1, <3>2, <3>3
  <2> QED BY <1>5, <2>1, <2>2
<1>6. Spoils(r) \subseteq Dealt("None") \union Offering("None")
  BY DEF Spoils
<1>7. Prizes \subseteq Offering("Map")
  BY DEF Prizes
<1> HIDE DEF Dealt, Offering
<1>8. /\ Sane(w) /\ w.cont \in {"None", "Map"} /\ (w \in Spoils(r) => w.cont = "None")
  BY <1>5, <1>6, <1>7
<1> QED BY <1>3, <1>8 DEF Sane

------------------------------------------------------------------------------
(* Decisions *)

\* What happened in this room so far.
Once(v) ==
  /\ v \in [Things -> 0..2]
  /\ \A t \in {"campfire", "chest", "bossRelic", "removal"} : v[t] <= 1
  /\ v["linked"] + v["sapphire"] <= 1

Safe(r, v) == Good(r, v) /\ Once(v)

LEMMA StaysKeeps ==
  ASSUME Safe(run, visit), NEW q, Stays(q), Good(q, visit)
  PROVE  Safe(run', visit')
<1>1. run' = q /\ visit' = [t \in Things |-> visit[t]]
  BY DEF Stays, Became
<1>2. visit' = visit
  BY <1>1 DEF Safe, Once
<1> QED BY <1>1, <1>2 DEF Safe

\* Only the map has a room under it.
LEMMA StandsElsewhere ==
  ASSUME NEW r, NEW v, Safe(r, v), r.at.phase # "Idle" \/ r.grid # Nil
  PROVE  Standing(r, v)
<1>1. r \in RunType /\ Sound(r, v) /\ (r.under # Nil => r.at.phase = "Idle")
  BY DEF Safe, Good, Suspends
<1>2. r.at.phase # "Idle"
  <2>1. CASE r.at.phase = "Idle"
    <3>1. r.grid # Nil /\ GridHasOwner(r) /\ r.grid \in GridType
      BY <1>1, <2>1, RunFields DEF Sound, Overlaid
    <3>2. r.grid.purpose \in GridPurposes
      BY <3>1 DEF GridType
    <3> QED BY <2>1, <3>1, <3>2 DEF GridHasOwner, GridPurposes, EventGrids, AtMerchant,
      AtNeow, InBossChest
  <2> QED BY <2>1
<1> QED BY <1>1, <1>2 DEF Standing

LEMMA HereStands ==
  ASSUME NEW phase, Safe(run, visit), Here(phase), phase # "Idle"
  PROVE  Standing(run, visit) /\ run.grid = Nil /\ run.at.phase = phase
BY StandsElsewhere DEF Here

LEMMA ChooseKeeps ==
  ASSUME Safe(run, visit), Choose
  PROVE  Safe(run', visit')
<1>1. Standing(run, visit) /\ run.grid = Nil /\ run.at.phase = "Event"
  BY HereStands DEF Choose
<1>2. run.at.event # Nil
  BY <1>1 DEF Standing, Sound, Screens, PhaseHasPayload
<1>3. PICK q \in Offered(run) : Stays(q)
  BY DEF Choose
<1>4. Good(q, visit)
  BY <1>1, <1>2, OfferedGood DEF InEvent
<1> QED BY <1>3, <1>4, StaysKeeps

LEMMA PaysKeeps ==
  ASSUME Safe(run, visit), Fighting, NEW spoils, Pays(spoils), ~FinalBoss(run),
         \/ spoils = Spoils(run)
         \/ spoils = Prizes /\ run.room = "Event"
  PROVE  Safe(run', visit')
<1>1. Standing(run, visit) /\ run.grid = Nil /\ run.at.phase = "Combat"
  BY HereStands DEF Fighting
<1>2. PICK w \in spoils, potion \in BOOLEAN, burning \in {FALSE} \union {BurningElite(run)} :
        Stays([Won(run, [w EXCEPT !.potion = potion]) EXCEPT !.at.emerald = burning])
  BY DEF Pays
<1> DEFINE p == [w EXCEPT !.potion = potion]
           q == [Won(run, p) EXCEPT !.at.emerald = burning]
<1>3. /\ p \in RewardType /\ CardFlow(p) /\ IsInjective(p.relics) /\ ~p.boss
      /\ p.cont = "None" \/ (p.cont = "Map" /\ run.room = "Event")
  BY <1>2, SpoilsSound
<1>4. burning \in BOOLEAN /\ (burning => BurningElite(run))
  BY <1>2, EffectsAssumption DEF BurningElite
<1> HIDE DEF p
<1>5. Standing(q, visit)
  BY <1>1, <1>3, <1>4, WonStands
<1>6. Stays(q)
  BY <1>2 DEF p
<1> HIDE DEF q
<1> QED BY <1>5, <1>6, StandingIsGood, StaysKeeps

LEMMA VictoryKeeps ==
  ASSUME Safe(run, visit), Fighting, Boss(run), run.act \in {3, 4}, Stays(Victory(run))
  PROVE  Safe(run', visit')
<1>1. Standing(run, visit) /\ run.grid = Nil /\ run.at.phase = "Combat"
  BY HereStands DEF Fighting
<1>2. /\ run \in RunType /\ run.at \in ScreenType /\ run.at.event = Nil
      /\ run.outcome = Nil /\ run.promise = "no"
  BY <1>1, InFight, RunFields DEF Boss, Standing
<1> DEFINE q == Victory(run)
           s == [run.at EXCEPT !.phase = "Victory", !.reward = Nil]
<1>3. /\ s \in ScreenType /\ s.phase = "Victory" /\ s.reward = Nil
      /\ s.event = run.at.event /\ s.treasure = run.at.treasure /\ s.shop = run.at.shop
      /\ s.merchant = run.at.merchant /\ s.restDone = run.at.restDone
      /\ s.emerald = run.at.emerald
  BY <1>2 DEF ScreenType, Phases
<1>4. q = [run EXCEPT !.at = s, !.fight = Nil]
  BY <1>2 DEF Victory, RunType, ScreenType
<1> HIDE DEF q, s
<1>5. /\ q \in RunType /\ q.at = s /\ q.under = run.under /\ q.grid = run.grid
      /\ q.room = run.room /\ q.act = run.act /\ q.keys = run.keys
      /\ q.chestOpened = run.chestOpened /\ q.reserved = run.reserved
      /\ q.promise = run.promise /\ q.fight = Nil /\ q.outcome = run.outcome
  BY <1>2, <1>3, <1>4 DEF RunType
<1>6. run.under = Nil
  BY <1>1 DEF Standing
<1>7. Standing(q, visit)
  BY <1>1, <1>2, <1>3, <1>5, <1>6, FightEnds
<1> QED BY <1>7, StandingIsGood, StaysKeeps DEF q

LEMMA SmokeBombKeeps ==
  ASSUME Safe(run, visit), SmokeBomb
  PROVE  Safe(run', visit')
<1>1. Standing(run, visit) /\ run.grid = Nil /\ run.at.phase = "Combat"
  BY HereStands DEF SmokeBomb, Fighting
<1>2. /\ run \in RunType /\ run.at \in ScreenType /\ run.at.event = Nil
      /\ run.outcome = Nil /\ run.under = Nil /\ run.at.reward = Nil
      /\ run.promise \in {"no", "gold", "relic", "mask"}
  BY <1>1, InFight, RunFields DEF Standing
<1> DEFINE q == [run EXCEPT !.at.phase = "Idle", !.at.reward = Nil, !.fight = Nil,
                            !.promise = "no"]
           s == [run.at EXCEPT !.phase = "Idle", !.reward = Nil]
<1>3. /\ s \in ScreenType /\ s.phase = "Idle" /\ s.reward = Nil
      /\ s.event = Nil /\ s.treasure = run.at.treasure /\ s.shop = run.at.shop
      /\ s.merchant = run.at.merchant /\ s.restDone = run.at.restDone
      /\ s.emerald = run.at.emerald
  BY <1>1, <1>2 DEF ScreenType, Phases
<1>4. q = [run EXCEPT !.at = s, !.fight = Nil, !.promise = "no"]
  BY <1>2 DEF RunType, ScreenType
<1>5. Stays(q) /\ ~Boss(run)
  BY DEF SmokeBomb, Fighting
<1> HIDE DEF q, s
<1>6. /\ q \in RunType /\ q.at = s /\ q.under = Nil /\ q.grid = Nil
      /\ q.room = run.room /\ q.act = run.act /\ q.keys = run.keys
      /\ q.chestOpened = run.chestOpened /\ q.reserved = run.reserved
      /\ q.promise = "no" /\ q.fight = Nil /\ q.outcome = Nil
  BY <1>1, <1>2, <1>3, <1>4 DEF RunType, Fights, Outcomes
<1>7. "lost" # Nil /\ "Death" # Nil
  BY NilIsNoName DEF Fights, Outcomes
<1>8. Standing(q, visit)
  BY <1>1, <1>2, <1>3, <1>5, <1>6, <1>7, FightEnds
<1> QED BY <1>5, <1>8, StandingIsGood, StaysKeeps

LEMMA LoseCombatKeeps ==
  ASSUME Safe(run, visit), LoseCombat
  PROVE  Safe(run', visit')
<1>1. Standing(run, visit) /\ run.grid = Nil /\ run.at.phase = "Combat"
  BY HereStands DEF LoseCombat, Fighting
<1>2. /\ run \in RunType /\ run.at \in ScreenType /\ run.at.event = Nil
      /\ run.outcome = Nil /\ run.under = Nil /\ run.at.reward = Nil
      /\ run.promise \in {"no", "gold", "relic", "mask"}
  BY <1>1, InFight, RunFields DEF Standing
<1> DEFINE q == [run EXCEPT !.fight = "lost"]
           s == run.at
<1>3. /\ s \in ScreenType /\ s.phase = "Combat" /\ s.reward = Nil
      /\ s.event = Nil /\ s.treasure = run.at.treasure /\ s.shop = run.at.shop
      /\ s.merchant = run.at.merchant /\ s.restDone = run.at.restDone
      /\ s.emerald = run.at.emerald
  BY <1>1, <1>2 DEF ScreenType, Phases
<1>4. q = [run EXCEPT !.at = s, !.fight = "lost"]
  BY <1>2 DEF RunType, ScreenType
<1>5. Stays(q)
  BY DEF LoseCombat, Fighting
<1> HIDE DEF q, s
<1>6. /\ q \in RunType /\ q.at = s /\ q.under = Nil /\ q.grid = Nil
      /\ q.room = run.room /\ q.act = run.act /\ q.keys = run.keys
      /\ q.chestOpened = run.chestOpened /\ q.reserved = run.reserved
      /\ q.promise = run.promise /\ q.fight = "lost" /\ q.outcome = Nil
  BY <1>1, <1>2, <1>3, <1>4 DEF RunType, Fights, Outcomes
<1>7. "lost" # Nil /\ "Death" # Nil
  BY NilIsNoName DEF Fights, Outcomes
<1>8. Standing(q, visit)
  BY <1>1, <1>2, <1>3, <1>5, <1>6, <1>7, FightEnds
<1> QED BY <1>5, <1>8, StandingIsGood, StaysKeeps

LEMMA LossProceedKeeps ==
  ASSUME Safe(run, visit), LossProceed
  PROVE  Safe(run', visit')
<1>1. Standing(run, visit) /\ run.grid = Nil /\ run.at.phase = "Combat"
  BY HereStands DEF LossProceed
<1>2. /\ run \in RunType /\ run.at \in ScreenType /\ run.at.event = Nil
      /\ run.outcome = Nil /\ run.under = Nil /\ run.at.reward = Nil
      /\ run.promise \in {"no", "gold", "relic", "mask"}
  BY <1>1, InFight, RunFields DEF Standing
<1> DEFINE q == [Ended(run, "Death") EXCEPT !.promise = "no"]
           s == [run.at EXCEPT !.phase = "Complete", !.reward = Nil, !.event = Nil]
<1>3. /\ s \in ScreenType /\ s.phase = "Complete" /\ s.reward = Nil
      /\ s.event = Nil /\ s.treasure = run.at.treasure /\ s.shop = run.at.shop
      /\ s.merchant = run.at.merchant /\ s.restDone = run.at.restDone
      /\ s.emerald = run.at.emerald
  BY <1>1, <1>2 DEF ScreenType, Phases
<1>4. q = [run EXCEPT !.at = s, !.outcome = "Death", !.grid = Nil, !.fight = Nil, !.promise = "no"]
  BY <1>2 DEF Ended, RunType, ScreenType
<1>5. Stays(q)
  BY DEF LossProceed
<1> HIDE DEF q, s
<1>6. /\ q \in RunType /\ q.at = s /\ q.under = Nil /\ q.grid = Nil
      /\ q.room = run.room /\ q.act = run.act /\ q.keys = run.keys
      /\ q.chestOpened = run.chestOpened /\ q.reserved = run.reserved
      /\ q.promise = "no" /\ q.fight = Nil /\ q.outcome = "Death"
  BY <1>1, <1>2, <1>3, <1>4 DEF RunType, Fights, Outcomes
<1>7. "lost" # Nil /\ "Death" # Nil
  BY NilIsNoName DEF Fights, Outcomes
<1>8. Standing(q, visit)
  BY <1>1, <1>2, <1>3, <1>5, <1>6, <1>7, FightEnds
<1> QED BY <1>5, <1>8, StandingIsGood, StaysKeeps

LEMMA FirstFightWon ==
  ASSUME Safe(run, visit), Fighting, run.fight = "first",
         NEW q, q = [run EXCEPT !.at.phase = "Event", !.fight = Nil,
                                !.at.event = EventAt("Colosseum", 2)]
  PROVE  Good(q, visit)
<1>1. Standing(run, visit) /\ run.grid = Nil /\ run.at.phase = "Combat"
  BY HereStands DEF Fighting
<1>2. /\ run \in RunType /\ Sound(run, visit) /\ run.under = Nil
      /\ run.room = "Event" /\ run.promise = "no"
  BY <1>1, InFight, RunFields DEF Standing
<1> DEFINE e == EventAt("Colosseum", 2)
           s == [run.at EXCEPT !.phase = "Event", !.event = e]
<1>3. e \in EventType /\ e.name = "Colosseum" /\ e.stage = 2
  BY DEF EventType, EventAt, Act2Events
<1>4. e # Nil
  BY <1>3, NilAssumption
<1> HIDE DEF e
<1>5. /\ s \in ScreenType /\ s.phase = "Event" /\ s.reward = run.at.reward
      /\ s.event = e /\ s.treasure = run.at.treasure /\ s.shop = run.at.shop
      /\ s.merchant = run.at.merchant /\ s.restDone = run.at.restDone
      /\ s.emerald = run.at.emerald
  BY <1>2, <1>3, RunFields DEF ScreenType, Phases
<1>6. q = [run EXCEPT !.at = s, !.fight = Nil]
  BY <1>2, RunFields DEF RunType, ScreenType, e
<1> HIDE DEF s
<1>7. /\ q \in RunType /\ q.at = s /\ q.under = Nil /\ q.grid = Nil
      /\ q.room = run.room /\ q.act = run.act /\ q.keys = run.keys
      /\ q.chestOpened = run.chestOpened /\ q.reserved = run.reserved
      /\ q.promise = run.promise /\ q.fight = Nil /\ q.outcome = run.outcome
  BY <1>1, <1>2, <1>5, <1>6 DEF RunType
<1>8. Screens(q)
  BY <1>1, <1>2, <1>3, <1>4, <1>5, <1>7, InFight, NilIsNoName DEF Sound, Screens,
    PhaseHasPayload, PayloadHasPhase, PayloadInRoom, LastActs, OutcomeAtEnd, Linked,
    Boss, FinalBoss, Fights, RoomOf
<1>9. Stages(q) /\ Overlaid(q) /\ Owned(q) /\ RewardFlow(q)
  BY <1>1, <1>3, <1>5, <1>7, InFight DEF Stages, EventHasStage, Overlaid, NeowLeaves,
    GridHasOwner, Owned, RewardFlow, LastStage
<1>10. Unused(q, visit)
  BY <1>1, <1>2, <1>5, <1>7, InFight DEF Sound, Unused, Linked, Boss
<1> QED BY <1>7, <1>8, <1>9, <1>10, StandingIsGood DEF Standing, Sound

LEMMA WinCombatKeeps ==
  ASSUME Safe(run, visit), WinCombat
  PROVE  Safe(run', visit')
<1>1. Fighting /\ Standing(run, visit) /\ run.grid = Nil /\ run.at.phase = "Combat"
  BY HereStands DEF WinCombat, Fighting
<1>2. run \in RunType /\ run.act \in 1..4
  BY <1>1, RunFields DEF Standing
<1>3. CASE run.fight = "first"
  <2> DEFINE q == [run EXCEPT !.at.phase = "Event", !.fight = Nil,
                              !.at.event = EventAt("Colosseum", 2)]
  <2>1. Stays(q)
    BY <1>1, <1>3, InFight DEF WinCombat, Boss
  <2>2. Good(q, visit)
    BY <1>1, <1>3, FirstFightWon
  <2> HIDE DEF q
  <2> QED BY <2>1, <2>2, StaysKeeps
<1>4. CASE run.fight = "colosseum"
  <2>1. run.room = "Event" /\ ~FinalBoss(run) /\ ~Boss(run)
    BY <1>1, <1>4, InFight DEF FinalBoss, Boss
  <2>2. Pays(Prizes)
    BY <1>4, <2>1 DEF WinCombat
  <2> QED BY <1>1, <2>1, <2>2, PaysKeeps
<1>5. CASE run.fight \notin {"first", "colosseum"} /\ run.act >= 3 /\ Boss(run)
  <2>1. Stays(Victory(run)) /\ run.act \in {3, 4}
    BY <1>2, <1>5 DEF WinCombat
  <2> QED BY <1>1, <1>5, <2>1, VictoryKeeps
<1>6. CASE run.fight \notin {"first", "colosseum"} /\ ~(run.act >= 3 /\ Boss(run))
  <2>1. Pays(Spoils(run)) /\ ~FinalBoss(run)
    BY <1>2, <1>6 DEF WinCombat, FinalBoss
  <2> QED BY <1>1, <2>1, PaysKeeps
<1> QED BY <1>3, <1>4, <1>5, <1>6

LEMMA WinByPotionOrChoiceKeeps ==
  ASSUME Safe(run, visit), WinByPotionOrChoice
  PROVE  Safe(run', visit')
<1>1. Fighting
  BY DEF WinByPotionOrChoice
<1>2. CASE FinalBoss(run)
  <2>1. Stays(Victory(run)) /\ Boss(run) /\ run.act \in {3, 4}
    BY <1>2 DEF WinByPotionOrChoice, FinalBoss
  <2> QED BY <1>1, <2>1, VictoryKeeps
<1>3. CASE ~FinalBoss(run)
  <2>1. Pays(Spoils(run))
    BY <1>3 DEF WinByPotionOrChoice, FinalBoss
  <2> QED BY <1>1, <1>3, <2>1, PaysKeeps
<1> QED BY <1>2, <1>3

LEMMA VictoryProceedKeeps ==
  ASSUME Safe(run, visit), VictoryProceed
  PROVE  Safe(run', visit')
<1>1. Standing(run, visit) /\ run.grid = Nil /\ run.at.phase = "Victory"
  BY HereStands DEF VictoryProceed
<1>2. /\ run \in RunType /\ Sound(run, visit) /\ run.under = Nil /\ run.act \in {3, 4}
      /\ Boss(run) /\ run.at.shop = Nil /\ run.at.treasure = Nil /\ ~run.at.restDone
      /\ ~run.at.emerald /\ ~run.chestOpened /\ ~run.reserved /\ run.promise = "no"
      /\ run.at.merchant = FALSE /\ run.at.reward = Nil /\ run.at.event = Nil
      /\ run.fight = Nil /\ run.outcome = Nil
  BY <1>1, RunFields DEF Standing, Sound, Screens, PhaseHasPayload, PayloadHasPhase,
    PayloadInRoom, LastActs, OutcomeAtEnd, Linked, Boss, FinalBoss
<1>3. CASE run.act = 4
  <2>1. Stays(Ended(run, "HeartClear"))
    BY <1>3 DEF VictoryProceed
  <2>2. Standing(Ended(run, "HeartClear"), visit)
    BY <1>1, <1>2, <1>3, EndedStands
  <2> QED BY <2>1, <2>2, StandingIsGood, StaysKeeps
<1>4. CASE run.act # 4
  <2> DEFINE q == SpireHeart(run)
             e == EventAt("SpireHeart", 0)
             s == [run.at EXCEPT !.phase = "Event", !.reward = Nil, !.event = e]
  <2>1. Stays(q)
    BY <1>4 DEF VictoryProceed
  <2>2. e \in EventType /\ e.name = "SpireHeart" /\ e.stage = 0
    BY DEF EventType, EventAt
  <2>3. e # Nil
    BY <2>2, NilAssumption
  <2> HIDE DEF e
  <2>4. /\ s \in ScreenType /\ s.phase = "Event" /\ s.reward = Nil
        /\ s.event = e /\ s.treasure = run.at.treasure /\ s.shop = run.at.shop
        /\ s.merchant = run.at.merchant /\ s.restDone = run.at.restDone
        /\ s.emerald = run.at.emerald
    BY <1>2, <2>2, RunFields DEF ScreenType, Phases
  <2>5. q = [run EXCEPT !.at = s, !.room = "Victory", !.fight = Nil]
    BY <1>2, RunFields DEF SpireHeart, RunType, ScreenType, e
  <2> HIDE DEF q, s
  <2>6. "Victory" \in Rooms
    BY DEF Rooms
  <2>7. /\ q \in RunType /\ q.at = s /\ q.under = Nil /\ q.grid = Nil
        /\ q.room = "Victory" /\ q.act = run.act /\ q.keys = run.keys
        /\ q.chestOpened = run.chestOpened /\ q.reserved = run.reserved
        /\ q.promise = run.promise /\ q.fight = Nil /\ q.outcome = run.outcome
    BY <1>1, <1>2, <2>4, <2>5, <2>6 DEF RunType
  <2>8. Screens(q)
    BY <1>2, <1>4, <2>2, <2>3, <2>4, <2>7, NilIsNoName DEF Sound, Screens,
      PhaseHasPayload, PayloadHasPhase, PayloadInRoom, LastActs, OutcomeAtEnd, Linked,
      Boss, FinalBoss, Fights, Outcomes, RoomOf
  <2>9. Stages(q) /\ Overlaid(q) /\ Owned(q) /\ RewardFlow(q)
    BY <2>2, <2>4, <2>7 DEF Stages, EventHasStage, Overlaid, NeowLeaves, GridHasOwner,
      Owned, RewardFlow, LastStage
  <2>10. Unused(q, visit)
    BY <1>1, <1>2, <2>4, <2>7 DEF Sound, Unused, Linked, Boss
   <2> QED BY <2>1, <2>7, <2>8, <2>9, <2>10, StandingIsGood, StaysKeeps DEF Standing,
     Sound
<1> QED BY <1>3, <1>4

------------------------------------------------------------------------------
(* Reward screens *)

LEMMA CardResolvedSound ==
  ASSUME NEW o \in RewardType, CardFlow(o), o.active
  PROVE  LET w == CardResolved(o) IN
         /\ w \in RewardType /\ CardFlow(w) /\ w.cont = o.cont /\ w.relics = o.relics
         /\ w.boss = o.boss
<1> DEFINE w == CardResolved(o)
           left == o.left - 1
           queued == IF o.shown = "queued" THEN o.queued - 1 ELSE o.queued
<1>1. o.left \in Nat /\ o.queued \in Nat /\ o.shown \in {"no", "rolled", "queued"}
  BY DEF RewardType
<1>2. left \in Nat /\ queued \in Nat /\ queued <= left
  BY <1>1 DEF CardFlow
<1>3. w = [o EXCEPT !.left = left, !.active = FALSE, !.shown = "no", !.queued = queued]
  BY DEF CardResolved, RewardType
<1> HIDE DEF w, left, queued
<1>4. w \in RewardType
  BY <1>2, <1>3 DEF RewardType
<1>5. /\ w.cont = o.cont /\ w.relics = o.relics /\ w.boss = o.boss /\ w.active = FALSE
      /\ w.left = left /\ w.queued = queued /\ w.shown = "no"
  BY <1>3 DEF RewardType
<1>6. CardFlow(w)
  BY <1>2, <1>5 DEF CardFlow
<1> QED BY <1>4, <1>5, <1>6 DEF w

LEMMA OffersStand ==
  ASSUME NEW r, NEW v, Standing(r, v), r.at.phase = "Reward", r.grid = Nil,
         NEW w \in RewardType, w.cont = r.at.reward.cont, CardFlow(w),
         w.relics = r.at.reward.relics, w.boss = r.at.reward.boss,
         NEW q, q = [r EXCEPT !.at.reward = w]
  PROVE  Standing(q, v) /\ q.at.phase = "Reward" /\ q.grid = Nil
<1>1. /\ r.at.reward # Nil /\ IsInjective(r.at.reward.relics)
      /\ Linked(r) # Nil => \E i \in DOMAIN w.relics : w.relics[i] = Linked(r)
  BY OnRewardScreen DEF Standing, Sound, Screens, PayloadHasPhase
<1>2. IsInjective(w.relics) /\ (w.boss => r.at.reward.boss)
  BY <1>1
<1>3. Standing(q, v)
  BY <1>1, <1>2, RewardChanged
<1>4. r \in RunType /\ r.at \in ScreenType
  BY RunFields DEF Standing
<1> QED BY <1>3, <1>4 DEF RunType, ScreenType

LEMMA CardTaken ==
  ASSUME NEW r, NEW v, Standing(r, v), r.at.phase = "Reward", r.grid = Nil, r.at.reward.active
  PROVE  Good(ReturnIfEmpty([r EXCEPT !.at.reward = CardResolved(@)]), v)
<1>1. ASSUME NEW w, w = CardResolved(r.at.reward), NEW q, q = [r EXCEPT !.at.reward = w]
      PROVE  Good(ReturnIfEmpty(q), v)
  <2>1. r.at.reward \in RewardType /\ CardFlow(r.at.reward)
    BY OnRewardScreen
  <2>2. /\ w \in RewardType /\ CardFlow(w) /\ w.cont = r.at.reward.cont
        /\ w.relics = r.at.reward.relics /\ w.boss = r.at.reward.boss
    BY <1>1, <2>1, CardResolvedSound
  <2>3. Standing(q, v) /\ q.at.phase = "Reward" /\ q.grid = Nil
    BY <1>1, <2>2, OffersStand
  <2> QED BY <2>3, ReturnIfEmptyGood
<1> QED BY <1>1

LEMMA TakeCardRewardKeeps ==
  ASSUME Safe(run, visit), TakeCardReward
  PROVE  Safe(run', visit')
BY HereStands, CardTaken, StaysKeeps DEF TakeCardReward, OnReward, Reward

\* A screen whose cards, coins or potions changed, and nothing else.
LEMMA OffersKeep ==
  ASSUME Safe(run, visit), OnReward, NEW w \in RewardType, w.cont = Reward.cont,
         CardFlow(w), w.relics = Reward.relics, w.boss = Reward.boss,
         NEW q, q = [run EXCEPT !.at.reward = w], Stays(q)
  PROVE  Safe(run', visit')
<1>1. Standing(run, visit) /\ run.grid = Nil /\ run.at.phase = "Reward"
  BY HereStands DEF OnReward
<1>3. Standing(q, visit)
  BY <1>1, OffersStand DEF Reward
<1> QED BY <1>3, StandingIsGood, StaysKeeps

LEMMA OpenCardRewardKeeps ==
  ASSUME Safe(run, visit), OpenCardReward
  PROVE  Safe(run', visit')
<1>1. Standing(run, visit) /\ run.grid = Nil /\ run.at.phase = "Reward"
  BY HereStands DEF OpenCardReward, OnReward
<1>2. /\ Reward \in RewardType /\ CardFlow(Reward) /\ run \in RunType
      /\ run.at \in ScreenType
  BY <1>1, OnRewardScreen, RunFields DEF Standing, Reward
<1>3. PICK pick \in {FALSE} \union (IF Reward.queued > 0 THEN {TRUE} ELSE {}) :
        Stays([run EXCEPT
          !.at.reward.active = TRUE,
          !.at.reward.shown = IF pick \/ (@ = "no" /\ Reward.queued > 0)
                              THEN "queued"
                              ELSE IF @ = "no" THEN "rolled" ELSE @])
  BY DEF OpenCardReward
<1> DEFINE shown == IF pick \/ (Reward.shown = "no" /\ Reward.queued > 0) THEN "queued"
                    ELSE IF Reward.shown = "no" THEN "rolled" ELSE Reward.shown
           w == [Reward EXCEPT !.active = TRUE, !.shown = shown]
           q == [run EXCEPT !.at.reward = w]
<1>4. /\ Reward.left \in Nat /\ Reward.queued \in Nat /\ Reward.left > 0
      /\ Reward.shown \in {"no", "rolled", "queued"}
  BY <1>2 DEF RewardType, OpenCardReward
<1>11. pick \in BOOLEAN /\ (pick => Reward.queued > 0)
  BY <1>3
<1>5. /\ shown \in {"rolled", "queued"}
      /\ shown = "rolled" => Reward.queued < Reward.left
      /\ shown = "queued" => Reward.queued > 0
  BY <1>2, <1>4, <1>11 DEF CardFlow
<1>6. q = [run EXCEPT !.at.reward.active = TRUE, !.at.reward.shown = shown]
  BY <1>2 DEF Reward, RunType, ScreenType, RewardType
<1>7. Stays(q)
  BY <1>3, <1>6 DEF Reward
<1> HIDE DEF shown
<1>8. /\ w \in RewardType /\ w.left = Reward.left /\ w.queued = Reward.queued
      /\ w.active = TRUE /\ w.shown = shown /\ w.cont = Reward.cont
      /\ w.relics = Reward.relics /\ w.boss = Reward.boss
  BY <1>2, <1>5 DEF RewardType
<1> HIDE DEF w
<1>9. CardFlow(w)
  BY <1>2, <1>5, <1>8 DEF CardFlow
<1> HIDE DEF q
<1>10. q = [run EXCEPT !.at.reward = w]
  BY DEF q
<1> QED BY <1>7, <1>8, <1>9, <1>10, OffersKeep DEF OpenCardReward

LEMMA CloseCardRewardKeeps ==
  ASSUME Safe(run, visit), CloseCardReward
  PROVE  Safe(run', visit')
<1>1. Standing(run, visit) /\ run.grid = Nil /\ run.at.phase = "Reward"
  BY HereStands DEF CloseCardReward, OnReward
<1>2. /\ Reward \in RewardType /\ CardFlow(Reward) /\ run \in RunType
      /\ run.at \in ScreenType
  BY <1>1, OnRewardScreen, RunFields DEF Standing, Reward
<1>3. CASE Reward.cont = "Rest"
  BY <1>1, <1>3, CardTaken, StaysKeeps DEF CloseCardReward, Reward
<1>4. CASE Reward.cont # "Rest"
  <2> DEFINE w == [Reward EXCEPT !.active = FALSE]
             q == [run EXCEPT !.at.reward = w]
  <2>1. q = [run EXCEPT !.at.reward.active = FALSE]
    BY <1>2 DEF Reward, RunType, ScreenType, RewardType
  <2>2. Stays(q)
    BY <1>4, <2>1 DEF CloseCardReward, Reward
  <2>3. /\ w \in RewardType /\ w.left = Reward.left /\ w.queued = Reward.queued
        /\ w.active = FALSE /\ w.shown = Reward.shown /\ w.cont = Reward.cont
        /\ w.relics = Reward.relics /\ w.boss = Reward.boss
    BY <1>2 DEF RewardType
  <2> HIDE DEF w
  <2>4. CardFlow(w)
    BY <1>2, <2>3 DEF CardFlow
  <2> HIDE DEF q
  <2>5. q = [run EXCEPT !.at.reward = w]
    BY DEF q
  <2> QED BY <2>2, <2>3, <2>4, <2>5, OffersKeep DEF CloseCardReward
<1> QED BY <1>3, <1>4

LEMMA CoinsOrPotionsKeep ==
  ASSUME Safe(run, visit), OnReward, NEW coins, NEW potion, NEW potions,
         coins \in SUBSET {"gold", "stolen"}, potion \in BOOLEAN, potions \in Nat,
         NEW w, w = [Reward EXCEPT !.coins = coins, !.potion = potion, !.potions = potions],
         Stays([run EXCEPT !.at.reward = w])
  PROVE  Safe(run', visit')
<1>1. Standing(run, visit) /\ run.grid = Nil /\ run.at.phase = "Reward"
  BY HereStands DEF OnReward
<1>2. Reward \in RewardType /\ CardFlow(Reward)
  BY <1>1, OnRewardScreen DEF Reward
<1>3. /\ w \in RewardType /\ w.left = Reward.left /\ w.queued = Reward.queued
      /\ w.active = Reward.active /\ w.shown = Reward.shown /\ w.cont = Reward.cont
      /\ w.relics = Reward.relics /\ w.boss = Reward.boss
  BY <1>2 DEF RewardType
<1>4. CardFlow(w)
  BY <1>2, <1>3 DEF CardFlow
<1> DEFINE q == [run EXCEPT !.at.reward = w]
<1>5. q = [run EXCEPT !.at.reward = w] /\ Stays(q)
  OBVIOUS
<1> HIDE DEF q
<1> QED BY <1>3, <1>4, <1>5, OffersKeep

LEMMA CoinsAndPotionsKeep ==
  ASSUME Safe(run, visit), TakeCoins \/ TakePotionReward \/ SkipPotionReward
  PROVE  Safe(run', visit')
<1>1. OnReward
  BY DEF TakeCoins, TakePotionReward, SkipPotionReward
<1>2. Reward \in RewardType
  BY <1>1, HereStands, OnRewardScreen DEF Reward, OnReward
<1>3. /\ Reward.coins \in SUBSET {"gold", "stolen"} /\ Reward.potion \in BOOLEAN
      /\ Reward.potions \in Nat
  BY <1>2 DEF RewardType
<1>4. CASE TakeCoins
  <2>1. PICK coin \in Reward.coins : Stays([run EXCEPT !.at.reward.coins = @ \ {coin}])
    BY <1>4 DEF TakeCoins
  <2> DEFINE coins == Reward.coins \ {coin}
             w == [Reward EXCEPT !.coins = coins]
  <2>2. Stays([run EXCEPT !.at.reward = w])
    BY <2>1 DEF Reward
  <2>3. coins \in SUBSET {"gold", "stolen"}
    BY <1>3
  <2> HIDE DEF coins
  <2>4. w = [Reward EXCEPT !.coins = coins, !.potion = Reward.potion,
                           !.potions = Reward.potions]
    BY <1>2 DEF RewardType
  <2> HIDE DEF w
  <2> QED BY <1>1, <1>3, <2>2, <2>3, <2>4, CoinsOrPotionsKeep
<1>5. CASE TakePotionReward
  <2>1. CASE Reward.potions > 0 /\ Stays([run EXCEPT !.at.reward.potions = @ - 1])
    <3> DEFINE potions == Reward.potions - 1
               w == [Reward EXCEPT !.potions = potions]
    <3>1. Stays([run EXCEPT !.at.reward = w])
      BY <2>1 DEF Reward
    <3>2. potions \in Nat
      BY <1>3, <2>1
    <3> HIDE DEF potions
    <3>3. w = [Reward EXCEPT !.coins = Reward.coins, !.potion = Reward.potion,
                             !.potions = potions]
      BY <1>2 DEF RewardType
    <3> HIDE DEF w
    <3> QED BY <1>1, <1>3, <3>1, <3>2, <3>3, CoinsOrPotionsKeep
  <2>2. CASE Reward.potion /\ Stays([run EXCEPT !.at.reward.potion = FALSE])
    <3> DEFINE w == [Reward EXCEPT !.potion = FALSE]
    <3>1. Stays([run EXCEPT !.at.reward = w])
      BY <2>2 DEF Reward
    <3>2. w = [Reward EXCEPT !.coins = Reward.coins, !.potion = FALSE,
                             !.potions = Reward.potions]
      BY <1>2 DEF RewardType
    <3> HIDE DEF w
    <3> QED BY <1>1, <1>3, <3>1, <3>2, CoinsOrPotionsKeep
  <2> QED BY <1>5, <2>1, <2>2 DEF TakePotionReward
<1>6. CASE SkipPotionReward
  <2> DEFINE w == [Reward EXCEPT !.potion = FALSE, !.potions = 0]
  <2>1. Stays([run EXCEPT !.at.reward = w])
    BY <1>6 DEF SkipPotionReward, Reward
  <2>2. w = [Reward EXCEPT !.coins = Reward.coins, !.potion = FALSE, !.potions = 0]
    BY <1>2 DEF RewardType
  <2> HIDE DEF w
  <2> QED BY <1>1, <1>3, <2>1, <2>2, CoinsOrPotionsKeep
<1> QED BY <1>4, <1>5, <1>6

\* An offer taken off a screen, out of turn or not.
LEMMA TakenSound ==
  ASSUME NEW o \in RewardType, CardFlow(o), IsInjective(o.relics), NEW x,
         NEW w, w = [o EXCEPT !.relics = Without(o.relics, x)]
  PROVE  /\ w \in RewardType /\ CardFlow(w) /\ IsInjective(w.relics)
         /\ w.cont = o.cont /\ w.boss = o.boss /\ w.relics = Without(o.relics, x)
         /\ \A y : y # x /\ (\E i \in DOMAIN o.relics : o.relics[i] = y)
                     => \E i \in DOMAIN w.relics : w.relics[i] = y
<1> DEFINE left == Without(o.relics, x)
<1>1. o.relics \in Seq(RelicOffers)
  BY DEF RewardType
<1>2. left \in Seq(RelicOffers) /\ ToSet(left) = ToSet(o.relics) \ {x}
  BY <1>1, SetOfWithout
<1>3. IsInjective(left)
  BY <1>1, DroppedOnce DEF Without
<1>4. w = [o EXCEPT !.relics = left]
  OBVIOUS
<1> HIDE DEF left
<1>5. /\ w \in RewardType /\ w.left = o.left /\ w.queued = o.queued
      /\ w.active = o.active /\ w.shown = o.shown /\ w.cont = o.cont
      /\ w.relics = left /\ w.boss = o.boss
  BY <1>2, <1>4 DEF RewardType
<1>6. CardFlow(w)
  BY <1>5 DEF CardFlow
<1>7. ASSUME NEW y, y # x, \E i \in DOMAIN o.relics : o.relics[i] = y
      PROVE  \E i \in DOMAIN w.relics : w.relics[i] = y
  <2>1. y \in ToSet(left)
    BY <1>2, <1>7 DEF ToSet
  <2> QED BY <1>5, <2>1 DEF ToSet
<1> QED BY <1>3, <1>5, <1>6, <1>7 DEF left

LEMMA OtherOfferTaken ==
  ASSUME NEW r, NEW v, Standing(r, v), r.at.phase = "Reward", r.grid = Nil,
         NEW x, x # Linked(r),
         NEW w, w = [r.at.reward EXCEPT !.relics = Without(r.at.reward.relics, x)],
         NEW q, q = [r EXCEPT !.at.reward = w]
  PROVE  Standing(q, v) /\ q.at.phase = "Reward" /\ q.at.reward # Nil /\ q.grid = Nil
<1>1. /\ r.at.reward \in RewardType /\ CardFlow(r.at.reward) /\ r.at.reward # Nil
      /\ IsInjective(r.at.reward.relics)
  BY OnRewardScreen
<1>2. /\ w \in RewardType /\ CardFlow(w) /\ IsInjective(w.relics)
      /\ w.cont = r.at.reward.cont /\ (w.boss => r.at.reward.boss)
      /\ \A y : y # x /\ (\E i \in DOMAIN r.at.reward.relics : r.at.reward.relics[i] = y)
                  => \E i \in DOMAIN w.relics : w.relics[i] = y
  BY <1>1, TakenSound
<1>3. Linked(r) # Nil => \E i \in DOMAIN w.relics : w.relics[i] = Linked(r)
  BY <1>2 DEF Standing, Sound, Screens, PayloadHasPhase
<1>4. Standing(q, v)
  BY <1>1, <1>2, <1>3, RewardChanged
<1>5. r \in RunType /\ r.at \in ScreenType
  BY RunFields DEF Standing
<1>6. w # Nil
  BY <1>2, NilAssumption
<1> QED BY <1>4, <1>5, <1>6 DEF RunType, ScreenType

\* The linked relic or the key it is linked to, whichever is taken.
LinkTaken(r) ==
  [r.at.reward EXCEPT !.relics = Without(r.at.reward.relics, Linked(r))]

Unlinked(r, keys) ==
  [r EXCEPT !.at.reward = LinkTaken(r), !.at.treasure.link = Nil, !.keys = keys]

SameBut(u, v, things) == \A t \in Things \ things : u[t] = v[t]

LEMMA LinkedOfferTaken ==
  ASSUME NEW r, NEW v, Standing(r, v), r.at.phase = "Reward", r.grid = Nil,
         Linked(r) # Nil, NEW keys \in {r.keys, r.keys \union {"sapphire"}},
         NEW u, SameBut(u, v, {"linked", "sapphire"})
  PROVE  LET q == Unlinked(r, keys) IN
         Standing(q, u) /\ q.at.phase = "Reward" /\ q.at.reward # Nil /\ q.grid = Nil
<1> DEFINE w == LinkTaken(r)
           q == Unlinked(r, keys)
<1>1. /\ r.at.reward \in RewardType /\ CardFlow(r.at.reward) /\ r.at.reward # Nil
      /\ IsInjective(r.at.reward.relics)
  BY OnRewardScreen
<1>2. /\ w \in RewardType /\ CardFlow(w) /\ IsInjective(w.relics)
      /\ w.cont = r.at.reward.cont /\ w.boss = r.at.reward.boss /\ w # Nil
  BY <1>1, TakenSound, NilAssumption DEF LinkTaken
<1> DEFINE z == [r.at.treasure EXCEPT !.link = Nil]
           s == [r.at EXCEPT !.reward = w, !.treasure = z]
<1>3. r \in RunType /\ Sound(r, v) /\ r.under = Nil
  BY DEF Standing
<1>4. r.at.treasure \in TreasureType
  BY <1>3, RunFields DEF Linked
<1>5. z \in TreasureType /\ z.link = Nil /\ z # Nil /\ r.at.treasure # Nil
  BY <1>4, NilAssumption DEF TreasureType
<1>6. /\ s \in ScreenType /\ s.phase = "Reward" /\ s.reward = w /\ s.event = r.at.event
      /\ s.treasure = z /\ s.shop = r.at.shop /\ s.merchant = r.at.merchant
      /\ s.restDone = r.at.restDone /\ s.emerald = r.at.emerald
  BY <1>2, <1>3, <1>5, RunFields DEF ScreenType
<1> HIDE DEF w
<1>7. q = [r EXCEPT !.at = s, !.keys = keys]
  BY <1>3, <1>4, RunFields DEF Unlinked, RunType, ScreenType, w
<1> HIDE DEF s, z, q
<1>8. keys \in SUBSET Keys /\ ("emerald" \in keys => "emerald" \in r.keys)
  BY <1>3, RunFields DEF Keys
<1>9. /\ q \in RunType /\ q.at = s /\ q.under = r.under /\ q.grid = r.grid
      /\ q.room = r.room /\ q.act = r.act /\ q.keys = keys
      /\ q.chestOpened = r.chestOpened /\ q.reserved = r.reserved
      /\ q.promise = r.promise /\ q.fight = r.fight /\ q.outcome = r.outcome
  BY <1>3, <1>6, <1>7, <1>8 DEF RunType
<1>10. FinalAct
  BY <1>3 DEF Sound, Screens, PayloadHasPhase
<1>11. Screens(q)
  BY <1>2, <1>3, <1>5, <1>6, <1>8, <1>9, <1>10 DEF Sound, Screens, PhaseHasPayload,
    PayloadHasPhase, PayloadInRoom, LastActs, OutcomeAtEnd, Linked, Boss, FinalBoss
<1>12. Owned(q) /\ RewardFlow(q)
  BY <1>1, <1>2, <1>3, <1>5, <1>6, <1>9 DEF Sound, Owned, RewardFlow, Boss
<1>13. Stages(q) /\ Overlaid(q)
  BY <1>3, <1>6, <1>9 DEF Sound, Stages, EventHasStage, Overlaid, GridHasOwner,
    NeowLeaves
<1>14. /\ u["campfire"] = v["campfire"] /\ u["chest"] = v["chest"]
       /\ u["removal"] = v["removal"] /\ u["bossRelic"] = v["bossRelic"]
  BY DEF SameBut, Things
<1>15. Linked(q) = Nil /\ q.at.phase = "Reward"
  BY <1>5, <1>6, <1>9 DEF Linked
<1>16. Unused(q, u)
  BY <1>1, <1>2, <1>3, <1>6, <1>9, <1>14, <1>15 DEF Sound, Unused, Boss
<1> QED BY <1>2, <1>3, <1>6, <1>9, <1>11, <1>12, <1>13, <1>16 DEF Standing, Sound, q

\* Once and no more.
LEMMA BecameOnce ==
  ASSUME Safe(run, visit), NEW q, NEW t \in Things, Became(q, {t}), visit[t] = 0,
         t \in {"linked", "sapphire"} => visit["linked"] = 0 /\ visit["sapphire"] = 0
  PROVE  /\ run' = q /\ Once(visit') /\ visit'[t] = 1
         /\ \A e \in Things \ {t} : visit'[e] = visit[e]
<1>1. visit \in [Things -> 0..2]
  BY DEF Safe, Once
<1>2. visit' = [e \in Things |-> IF e \in {t} /\ visit[e] < 2 THEN visit[e] + 1 ELSE visit[e]]
  BY DEF Became
<1>3. visit'[t] = 1
  BY <1>2
<1>4. \A e \in Things \ {t} : visit'[e] = visit[e]
  BY <1>2
<1>5. visit' \in [Things -> 0..2]
  BY <1>1, <1>2, <1>3
<1>6. Once(visit')
  BY <1>1, <1>3, <1>4, <1>5 DEF Safe, Once, Things
<1> QED BY <1>3, <1>4, <1>6 DEF Became

\* A grid laid over a screen that can own it.
LEMMA GridOpened ==
  ASSUME NEW r, NEW v, Standing(r, v), NEW purpose \in GridPurposes, NEW need \in 0..3,
         NEW q, q = OpenGrid(r, purpose, need), GridHasOwner(q), ~AtNeow(r)
  PROVE  Standing(q, v)
<1> DEFINE g == Grid(purpose, need)
<1>1. g \in GridType
  BY DEF Grid, GridType
<1>2. q = [r EXCEPT !.grid = g] /\ r \in RunType
  BY DEF OpenGrid, Standing
<1>3. q.at = r.at
  BY <1>2 DEF RunType
<1> HIDE DEF g
<1>4. Overlaid(q)
  BY <1>3 DEF Overlaid, NeowLeaves, AtNeow
<1> QED BY <1>1, <1>2, <1>4, GridChanged

\* A bottle is filled from a grid over the reward screen it came from.
LEMMA PickupStands ==
  ASSUME NEW r, NEW v, Standing(r, v), r.at.phase = "Reward", r.at.reward # Nil,
         r.grid = Nil, NEW x \in RelicOffers, NEW q \in Gained(r, x)
  PROVE  Standing(q, v)
<1>1. q = r \/ q = OpenGrid(r, "Bottle", 1)
  BY DEF Gained, MayOpen, RelicOffers
<1>2. CASE q = OpenGrid(r, "Bottle", 1)
  <2>1. /\ r \in RunType /\ q.at = r.at /\ q.grid = Grid("Bottle", 1)
        /\ q.grid.purpose = "Bottle"
    BY <1>2 DEF Standing, OpenGrid, RunType, Grid
  <2>2. GridHasOwner(q)
    BY <2>1 DEF GridHasOwner
  <2>3. "Bottle" \in GridPurposes /\ ~AtNeow(r)
    BY DEF GridPurposes, AtNeow
  <2> QED BY <1>2, <2>2, <2>3, GridOpened
<1> QED BY <1>1, <1>2

LEMMA TakeRelicRewardKeeps ==
  ASSUME Safe(run, visit), TakeRelicReward
  PROVE  Safe(run', visit')
<1>1. Standing(run, visit) /\ run.grid = Nil /\ run.at.phase = "Reward"
  BY HereStands DEF TakeRelicReward, OnReward
<1>2. PICK i \in DOMAIN Reward.relics : \E r \in Gained(WithoutOffer(run, i), Reward.relics[i]) :
        Became(r, IF Linked(run) = Reward.relics[i] THEN {"linked"} ELSE {})
  BY DEF TakeRelicReward
<1>3. PICK r \in Gained(WithoutOffer(run, i), Reward.relics[i]) :
        Became(r, IF Linked(run) = Reward.relics[i] THEN {"linked"} ELSE {})
  BY <1>2
<1> DEFINE x == Reward.relics[i]
           w == [Reward EXCEPT !.relics = Without(Reward.relics, x)]
           taken == [run EXCEPT !.at.reward = w]
<1>4. Reward \in RewardType /\ run \in RunType /\ run.at \in ScreenType
  BY <1>1, OnRewardScreen, RunFields DEF Reward, Standing
<1>5. x \in RelicOffers /\ x # Nil
  <2>1. Reward.relics \in Seq(RelicOffers)
    BY <1>4 DEF RewardType
  <2> QED BY <1>2, <2>1, NilAssumption
<1>6. taken = [run EXCEPT !.at.reward.relics = Others(@, i)]
  BY DEF Others, Reward
<1>7. CASE Linked(run) # x
  <2>1. WithoutOffer(run, i) = taken
    BY <1>6, <1>7 DEF WithoutOffer, Reward
  <2> HIDE DEF x
  <2>2. Standing(taken, visit) /\ taken.at.phase = "Reward" /\ taken.at.reward # Nil
        /\ taken.grid = Nil
    BY <1>1, <1>7, OtherOfferTaken DEF Reward
  <2>3. r \in Gained(taken, x)
    BY <1>3, <2>1 DEF x
  <2> HIDE DEF taken
  <2>4. Standing(r, visit)
    BY <1>5, <2>2, <2>3, PickupStands
  <2>5. Stays(r)
    BY <1>3, <1>7 DEF Stays, x
  <2> QED BY <2>4, <2>5, StandingIsGood, StaysKeeps
<1>8. CASE Linked(run) = x
  <2> DEFINE q == Unlinked(run, run.keys)
  <2>1. run.at.treasure \in TreasureType
    BY <1>1, <1>5, <1>8, RunFields DEF Linked, Standing
  <2>2. WithoutOffer(run, i) = q
    <3>1. WithoutOffer(run, i) = [taken EXCEPT !.at.treasure.link = Nil]
      BY <1>6, <1>8 DEF WithoutOffer, Reward
    <3>2. w = LinkTaken(run)
      BY <1>8 DEF LinkTaken, Reward
    <3> HIDE DEF w
    <3>3. q = [run EXCEPT !.at.reward = w, !.at.treasure.link = Nil, !.keys = run.keys]
      BY <3>2 DEF Unlinked
    <3> DEFINE z == [run.at.treasure EXCEPT !.link = Nil]
               s == [run.at EXCEPT !.reward = w, !.treasure = z]
    <3>4. taken.at = [run.at EXCEPT !.reward = w] /\ taken.at.treasure = run.at.treasure
      BY <1>4 DEF RunType, ScreenType
    <3>5. [taken EXCEPT !.at.treasure.link = Nil] = [run EXCEPT !.at = s]
      BY <1>4, <3>4 DEF RunType, ScreenType
    <3>6. q = [run EXCEPT !.at = s]
      BY <1>4, <3>3 DEF RunType, ScreenType
    <3> QED BY <3>1, <3>5, <3>6
  <2>3. visit["linked"] = 0 /\ visit["sapphire"] = 0
    BY <1>1, <1>5, <1>8 DEF Standing, Sound, Unused
  <2>4. Became(r, {"linked"})
    BY <1>3, <1>8
  <2>5. /\ run' = r /\ Once(visit')
        /\ \A e \in Things \ {"linked"} : visit'[e] = visit[e]
    BY <2>3, <2>4, BecameOnce DEF Things
  <2>6. SameBut(visit', visit, {"linked", "sapphire"})
    BY <2>5 DEF SameBut
  <2>7. r \in Gained(q, x)
    BY <1>3, <2>2
  <2> HIDE DEF x, w
  <2>8. Linked(run) # Nil
    BY <1>5, <1>8
  <2>9. Standing(q, visit') /\ q.at.phase = "Reward" /\ q.at.reward # Nil /\ q.grid = Nil
    BY <1>1, <2>6, <2>8, LinkedOfferTaken
  <2> HIDE DEF q
  <2>10. Standing(r, visit')
    BY <1>5, <2>7, <2>9, PickupStands
  <2> QED BY <2>5, <2>10, StandingIsGood DEF Safe
<1> QED BY <1>7, <1>8

LEMMA TakeSapphireKeyKeeps ==
  ASSUME Safe(run, visit), TakeSapphireKey
  PROVE  Safe(run', visit')
<1>1. Standing(run, visit) /\ run.grid = Nil /\ run.at.phase = "Reward"
  BY HereStands DEF TakeSapphireKey, OnReward
<1> DEFINE keys == run.keys \union {"sapphire"}
           q == Unlinked(run, keys)
<1>2. run \in RunType /\ run.at \in ScreenType /\ run.at.reward \in RewardType
  BY <1>1, OnRewardScreen, RunFields DEF Standing
<1>3. Linked(run) # Nil
  BY DEF TakeSapphireKey
<1>4. q = [run EXCEPT !.at.reward.relics = Without(@, Linked(run)),
                      !.at.treasure.link = Nil, !.keys = @ \union {"sapphire"}]
  BY <1>2 DEF Unlinked, LinkTaken, RunType, ScreenType, RewardType
<1>5. Became(q, {"sapphire"})
  BY <1>4 DEF TakeSapphireKey
<1>6. visit["linked"] = 0 /\ visit["sapphire"] = 0
  BY <1>1, <1>3 DEF Standing, Sound, Unused
<1>7. /\ run' = q /\ Once(visit')
      /\ \A e \in Things \ {"sapphire"} : visit'[e] = visit[e]
  BY <1>5, <1>6, BecameOnce DEF Things
<1>8. SameBut(visit', visit, {"linked", "sapphire"})
  BY <1>7 DEF SameBut
<1>9. Standing(q, visit')
  BY <1>1, <1>3, <1>8, LinkedOfferTaken
<1> QED BY <1>7, <1>9, StandingIsGood DEF Safe

LEMMA TakeEmeraldKeyKeeps ==
  ASSUME Safe(run, visit), TakeEmeraldKey
  PROVE  Safe(run', visit')
<1>1. Standing(run, visit) /\ run.grid = Nil /\ run.at.phase = "Reward" /\ run.at.emerald
  BY HereStands DEF TakeEmeraldKey, OnReward
<1> DEFINE s == [run.at EXCEPT !.emerald = FALSE]
           keys == run.keys \union {"emerald"}
           q == [run EXCEPT !.at.emerald = FALSE, !.keys = keys]
<1>2. run \in RunType /\ Sound(run, visit) /\ run.under = Nil /\ FinalAct
  BY <1>1 DEF Standing, Sound, Screens, PayloadInRoom
<1>3. Stays(q)
  BY DEF TakeEmeraldKey
<1>4. /\ s \in ScreenType /\ s.phase = run.at.phase /\ s.reward = run.at.reward
      /\ s.event = run.at.event /\ s.treasure = run.at.treasure /\ s.shop = run.at.shop
      /\ s.merchant = run.at.merchant /\ s.restDone = run.at.restDone /\ s.emerald = FALSE
  BY <1>2, RunFields DEF ScreenType
<1>5. q = [run EXCEPT !.at = s, !.keys = keys]
  BY <1>2, RunFields DEF RunType, ScreenType
<1>6. keys \in SUBSET Keys /\ ("sapphire" \in keys => "sapphire" \in run.keys)
  BY <1>2, RunFields DEF Keys
<1> HIDE DEF q, s, keys
<1>7. /\ q \in RunType /\ q.at = s /\ q.under = run.under /\ q.grid = run.grid
      /\ q.room = run.room /\ q.act = run.act /\ q.keys = keys
      /\ q.chestOpened = run.chestOpened /\ q.reserved = run.reserved
      /\ q.promise = run.promise /\ q.fight = run.fight /\ q.outcome = run.outcome
  BY <1>2, <1>4, <1>5, <1>6 DEF RunType
<1>8. Screens(q)
  BY <1>2, <1>4, <1>6, <1>7 DEF Sound, Screens, PhaseHasPayload, PayloadHasPhase,
    PayloadInRoom, LastActs, OutcomeAtEnd, Linked, Boss, FinalBoss
<1>9. Owned(q) /\ RewardFlow(q)
  BY <1>2, <1>4, <1>7 DEF Sound, Owned, RewardFlow, Boss
<1>10. Stages(q) /\ Overlaid(q) /\ Unused(q, visit)
  BY <1>1, <1>2, <1>4, <1>7 DEF Sound, Unused, Linked, Boss, Stages, EventHasStage,
    Overlaid, GridHasOwner, NeowLeaves
<1>11. Standing(q, visit)
  BY <1>2, <1>7, <1>8, <1>9, <1>10 DEF Standing, Sound
<1> QED BY <1>3, <1>11, StandingIsGood, StaysKeeps

LEMMA BossPayloads ==
  ASSUME NEW r, NEW v, Standing(r, v), r.at.phase \in {"Reward", "Treasure"}, Boss(r)
  PROVE  /\ r \in RunType /\ r.at \in ScreenType /\ r.at.treasure = Nil /\ r.fight = Nil
         /\ r.at.event = Nil /\ r.outcome = Nil /\ r.promise = "no" /\ r.at.shop = Nil
         /\ ~r.at.restDone /\ ~r.at.emerald /\ ~r.at.merchant
BY RunFields DEF Standing, Sound, Screens, PhaseHasPayload, PayloadHasPhase,
  PayloadInRoom, LastActs, OutcomeAtEnd, Linked, Boss, FinalBoss, RoomOf

LEMMA SkipRewardKeeps ==
  ASSUME Safe(run, visit), SkipReward
  PROVE  Safe(run', visit')
<1>1. Standing(run, visit) /\ run.grid = Nil /\ run.at.phase = "Reward"
  BY HereStands DEF SkipReward, OnReward
<1>2. CASE Reward.active
  BY <1>1, <1>2, CardTaken, StaysKeeps DEF SkipReward, Reward
<1>3. CASE ~Reward.active /\ Boss(run) /\ Reward.boss
  <2> DEFINE q == [run EXCEPT !.at.phase = "Treasure", !.at.reward = Nil,
                              !.chestOpened = FALSE]
  <2>1. Stays(q)
    BY <1>3 DEF SkipReward
  <2>2. q = [run EXCEPT !.at.phase = "Treasure", !.at.reward = Nil, !.at.treasure = Nil,
                        !.fight = Nil, !.chestOpened = FALSE, !.reserved = run.reserved]
    <3> DEFINE s == [run.at EXCEPT !.phase = "Treasure", !.reward = Nil]
               z == [run.at EXCEPT !.phase = "Treasure", !.reward = Nil, !.treasure = Nil]
    <3>1. /\ run \in RunType /\ run.at \in ScreenType /\ run.at.treasure = Nil
          /\ run.fight = Nil
      BY <1>1, <1>3, BossPayloads
    <3>2. s = z
      BY <3>1 DEF ScreenType
    <3>3. q = [run EXCEPT !.at = s, !.chestOpened = FALSE]
      BY <3>1 DEF RunType, ScreenType
    <3>4. [run EXCEPT !.at.phase = "Treasure", !.at.reward = Nil, !.at.treasure = Nil,
                      !.fight = Nil, !.chestOpened = FALSE, !.reserved = run.reserved]
          = [run EXCEPT !.at = z, !.fight = Nil, !.chestOpened = FALSE,
                        !.reserved = run.reserved]
      BY <3>1 DEF RunType, ScreenType
    <3> HIDE DEF s, z, q
    <3>5. [run EXCEPT !.at = s, !.chestOpened = FALSE]
          = [run EXCEPT !.at = s, !.fight = Nil, !.chestOpened = FALSE,
                        !.reserved = run.reserved]
      BY <3>1 DEF RunType
    <3> QED BY <3>2, <3>3, <3>4, <3>5
  <2>3. run.reserved \in BOOLEAN
    BY <1>1, RunFields DEF Standing
  <2> HIDE DEF q
  <2>4. Standing(q, visit)
    BY <1>1, <1>3, <2>2, <2>3, BossChestStands DEF Reward
  <2> QED BY <2>1, <2>4, StandingIsGood, StaysKeeps
<1>4. CASE ~Reward.active /\ Boss(run) /\ ~Reward.boss /\ ~run.chestOpened
           /\ Len(Reward.relics) < 2
  <2>1. Stays(BossChest(run))
    BY <1>4 DEF SkipReward
  <2>2. Standing(BossChest(run), visit)
    BY <1>1, <1>4, BossChestStands DEF BossChest
  <2> QED BY <2>1, <2>2, StandingIsGood, StaysKeeps
<1>5. CASE ~Reward.active /\ ~(Boss(run) /\ Reward.boss)
           /\ ~(Boss(run) /\ ~run.chestOpened /\ Len(Reward.relics) < 2)
  <2>1. Stays(CloseReward(run, FALSE))
    BY <1>5 DEF SkipReward
  <2> QED BY <1>1, <2>1, CloseRewardGood, StaysKeeps
<1> QED BY <1>2, <1>3, <1>4, <1>5

\* A boss relic taken: the others are gone, and the chest stays open.
RelicTaken(r, phase, w) ==
  [r EXCEPT !.at.phase = phase, !.at.reward = w, !.reserved = FALSE]

LEMMA BossRelicTaken ==
  ASSUME NEW r, NEW v, Standing(r, v), r.at.phase = "Reward", r.grid = Nil,
         r.at.reward.boss, NEW phase, NEW w,
         \/ phase = "Treasure" /\ w = Nil
         \/ /\ phase = "Reward" /\ w \in RewardType /\ w.cont = "Treasure" /\ ~w.boss
            /\ CardFlow(w) /\ IsInjective(w.relics),
         NEW u, SameBut(u, v, {"bossRelic"})
  PROVE  LET q == RelicTaken(r, phase, w) IN
         /\ Standing(q, u) /\ q.at.phase = phase /\ q.at.reward = w /\ q.grid = Nil
         /\ Boss(q) /\ q.chestOpened
<1> DEFINE q == RelicTaken(r, phase, w)
           s == [r.at EXCEPT !.phase = phase, !.reward = w]
<1>1. r \in RunType /\ Sound(r, v) /\ r.under = Nil
  BY DEF Standing
<1>2. /\ Boss(r) /\ r.chestOpened = TRUE /\ r.at.reward # Nil
      /\ r.at.reward.cont = "Treasure" /\ r.outcome = Nil
  BY <1>1, OnRewardScreen, RunFields
<1>3. /\ r.at.treasure = Nil /\ r.at.event = Nil /\ r.at.shop = Nil /\ r.fight = Nil
      /\ ~r.at.restDone /\ ~r.at.emerald /\ ~r.at.merchant /\ r.promise = "no"
  BY <1>2, BossPayloads
<1>4. /\ s \in ScreenType /\ s.phase = phase /\ s.reward = w /\ s.event = r.at.event
      /\ s.treasure = r.at.treasure /\ s.shop = r.at.shop /\ s.merchant = r.at.merchant
      /\ s.restDone = r.at.restDone /\ s.emerald = r.at.emerald
  BY <1>1, RunFields DEF ScreenType, Phases
<1>5. q = [r EXCEPT !.at = s, !.reserved = FALSE]
  BY <1>1, RunFields DEF RelicTaken, RunType, ScreenType
<1> HIDE DEF s, q
<1>6. /\ q \in RunType /\ q.at = s /\ q.under = r.under /\ q.grid = r.grid
      /\ q.room = r.room /\ q.act = r.act /\ q.keys = r.keys
      /\ q.chestOpened = r.chestOpened /\ q.reserved = FALSE
      /\ q.promise = r.promise /\ q.fight = r.fight /\ q.outcome = r.outcome
  BY <1>1, <1>4, <1>5 DEF RunType
<1>7. phase = "Reward" => w # Nil
  BY NilAssumption
<1>8. phase \in {"Treasure", "Reward"} /\ (phase = "Treasure" => w = Nil)
  OBVIOUS
<1>9. Screens(q)
  BY <1>1, <1>2, <1>3, <1>4, <1>6, <1>7, <1>8 DEF Sound, Screens, PhaseHasPayload,
    PayloadHasPhase, PayloadInRoom, LastActs, OutcomeAtEnd, Linked, Boss, FinalBoss
<1>10. Owned(q) /\ RewardFlow(q)
  BY <1>2, <1>3, <1>4, <1>6, <1>8 DEF Owned, RewardFlow, Boss
<1>11. Stages(q) /\ Overlaid(q)
  BY <1>3, <1>4, <1>6 DEF Stages, EventHasStage, Overlaid, GridHasOwner, NeowLeaves
<1>12. /\ u["campfire"] = v["campfire"] /\ u["chest"] = v["chest"]
       /\ u["removal"] = v["removal"]
  BY DEF SameBut, Things
<1>13. Linked(q) = Nil
  BY <1>3, <1>4, <1>6 DEF Linked
<1>14. w # Nil => ~w.boss
  OBVIOUS
<1>15. Unused(q, u)
  BY <1>2, <1>3, <1>4, <1>6, <1>8, <1>13, <1>14 DEF Unused, Boss
<1> QED BY <1>1, <1>2, <1>4, <1>6, <1>9, <1>10, <1>11, <1>15 DEF Standing, Sound, Boss,
  q

\* What a boss relic opens when it is picked up, over its chest.
LEMMA BossPickupStands ==
  ASSUME NEW r, NEW v, Standing(r, v), r.at.phase = "Treasure", r.at.reward = Nil,
         r.grid = Nil, Boss(r), r.chestOpened,
         NEW x \in {"plain", "CallingBell", "EmptyCage", "PandorasBox", "Astrolabe"},
         NEW q \in Gained(r, x)
  PROVE  Standing(q, v)
<1>1. q = r \/ \E purpose \in {"EmptyCage", "CallingBell", "PandorasBox", "Astrolabe"},
                  need \in 0..3 : q = OpenGrid(r, purpose, need)
  BY DEF Gained, MayOpen
<1>2. ASSUME NEW purpose \in {"EmptyCage", "CallingBell", "PandorasBox", "Astrolabe"},
             NEW need \in 0..3, q = OpenGrid(r, purpose, need)
      PROVE  Standing(q, v)
  <2>1. /\ r \in RunType /\ q.at = r.at /\ q.grid.purpose = purpose /\ q.room = r.room
        /\ q.chestOpened = r.chestOpened
    BY <1>2 DEF Standing, OpenGrid, RunType, Grid
  <2>2. InBossChest(q)
    BY <2>1 DEF InBossChest, Boss
  <2>3. GridHasOwner(q)
    BY <2>1, <2>2 DEF GridHasOwner
  <2>4. purpose \in GridPurposes /\ ~AtNeow(r)
    BY DEF GridPurposes, AtNeow
  <2> QED BY <1>2, <2>3, <2>4, GridOpened
<1> QED BY <1>1, <1>2

LEMMA ChooseBossRelicKeeps ==
  ASSUME Safe(run, visit), ChooseBossRelic
  PROVE  Safe(run', visit')
<1>1. /\ Standing(run, visit) /\ run.grid = Nil /\ run.at.phase = "Reward"
      /\ run.at.reward.boss
  BY HereStands DEF ChooseBossRelic, OnReward, Reward
<1>2. /\ run \in RunType /\ run.at \in ScreenType /\ run.at.reward \in RewardType
      /\ run.at.reward # Nil /\ CardFlow(run.at.reward)
      /\ IsInjective(run.at.reward.relics) /\ run.at.reward.cont = "Treasure"
  BY <1>1, OnRewardScreen, RunFields DEF Standing
<1>3. PICK relic \in BossRelics :
        \E r \in Gained(IF relic = "TinyHouse"
                        THEN [run EXCEPT !.at.reward.boss = FALSE, !.reserved = FALSE]
                        ELSE [run EXCEPT !.at.phase = "Treasure", !.at.reward = Nil,
                                         !.reserved = FALSE],
                        relic) :
          Became(r, {"bossRelic"})
  BY DEF ChooseBossRelic
<1>4. visit["bossRelic"] = 0
  BY <1>1, <1>2 DEF Standing, Sound, Unused
<1>5. ASSUME NEW r, Became(r, {"bossRelic"})
      PROVE  run' = r /\ Once(visit') /\ SameBut(visit', visit, {"bossRelic"})
  BY <1>4, <1>5, BecameOnce DEF Things, SameBut
<1>6. CASE relic = "TinyHouse"
  <2> DEFINE o == [run.at.reward EXCEPT !.boss = FALSE]
             taken == [run EXCEPT !.at.reward.boss = FALSE, !.reserved = FALSE]
             w == House(o)
             q == RelicTaken(run, "Reward", w)
  <2>1. PICK r \in Gained(taken, relic) : Became(r, {"bossRelic"})
    BY <1>3, <1>6
  <2>2. /\ o \in RewardType /\ o.boss = FALSE /\ o.cont = "Treasure"
        /\ o.left = run.at.reward.left /\ o.queued = run.at.reward.queued
        /\ o.shown = run.at.reward.shown /\ o.active = run.at.reward.active
        /\ o.relics = run.at.reward.relics
    BY <1>2 DEF RewardType
  <2>3. taken = [run EXCEPT !.at.reward = o, !.reserved = FALSE]
    BY <1>2 DEF RunType, ScreenType
  <2> HIDE DEF o, taken
  <2>4. CardFlow(o) /\ o # Nil
    BY <1>2, <2>2, NilAssumption DEF CardFlow
  <2>5. /\ w \in RewardType /\ CardFlow(w) /\ w.cont = "Treasure" /\ ~w.boss
        /\ IsInjective(w.relics)
    BY <1>2, <2>2, <2>4, HouseSound
  <2>6. taken.at = [run.at EXCEPT !.reward = o] /\ taken.at.reward = o
    BY <1>2, <2>3 DEF RunType, ScreenType
  <2>7. Gained(taken, relic) = {[taken EXCEPT !.at.reward = w]}
    BY <1>6, <2>4, <2>6 DEF Gained
  <2> HIDE DEF w
  <2>8. [taken EXCEPT !.at.reward = w] = q
    <3> DEFINE s == [run.at EXCEPT !.reward = w]
    <3>1. [taken EXCEPT !.at.reward = w] = [run EXCEPT !.at = s, !.reserved = FALSE]
      BY <1>2, <2>3, <2>6 DEF RunType, ScreenType
    <3>2. s = [run.at EXCEPT !.phase = "Reward", !.reward = w]
      BY <1>1, <1>2 DEF ScreenType
    <3>3. q = [run EXCEPT !.at = [run.at EXCEPT !.phase = "Reward", !.reward = w],
                          !.reserved = FALSE]
      BY <1>2 DEF RelicTaken, RunType, ScreenType
    <3> HIDE DEF s
    <3> QED BY <3>1, <3>2, <3>3
  <2>9. r = q
    BY <2>1, <2>7, <2>8
  <2>10. run' = q /\ Once(visit') /\ SameBut(visit', visit, {"bossRelic"})
    BY <1>5, <2>1, <2>9
  <2>12. Standing(q, visit')
    BY <1>1, <2>5, <2>10, BossRelicTaken
  <2> QED BY <2>10, <2>12, StandingIsGood DEF Safe
<1>7. CASE relic # "TinyHouse"
  <2> DEFINE q == [run EXCEPT !.at.phase = "Treasure", !.at.reward = Nil,
                              !.reserved = FALSE]
  <2>1. PICK r \in Gained(q, relic) : Became(r, {"bossRelic"})
    BY <1>3, <1>7
  <2>2. run' = r /\ Once(visit') /\ SameBut(visit', visit, {"bossRelic"})
    BY <1>5, <2>1
  <2>3. q = RelicTaken(run, "Treasure", Nil)
    BY DEF RelicTaken
  <2> HIDE DEF q
  <2>4. /\ Standing(q, visit') /\ q.at.phase = "Treasure" /\ q.at.reward = Nil
        /\ q.grid = Nil /\ Boss(q) /\ q.chestOpened
    BY <1>1, <2>2, <2>3, BossRelicTaken
  <2>5. relic \in {"plain", "CallingBell", "EmptyCage", "PandorasBox", "Astrolabe"}
    BY <1>3, <1>7, EffectsAssumption
  <2>6. Standing(r, visit')
    BY <2>1, <2>4, <2>5, BossPickupStands
  <2> QED BY <2>2, <2>6, StandingIsGood DEF Safe
<1> QED BY <1>6, <1>7

LEMMA RewardProceedKeeps ==
  ASSUME Safe(run, visit), RewardProceed
  PROVE  Safe(run', visit')
<1>1. Standing(run, visit) /\ run.grid = Nil /\ run.at.phase = "Reward"
  BY HereStands DEF RewardProceed, OnReward
<1>2. Stays(Proceeded(run)) /\ ~FinalBoss(run)
  BY <1>1, OnRewardScreen DEF RewardProceed
<1> DEFINE w == run.at.reward
<1>3. Good(Proceeded(run), visit)
  <2>1. CASE Boss(run) /\ run.chestOpened /\ w.cont = "Treasure" /\ ~w.active
    <3>1. run.outcome = Nil /\ run.at.event = Nil
      BY <1>1, <2>1, BossPayloads
    <3>2. Standing(NextAct(run), visit)
      BY <1>1, <2>1, <3>1, NextActStands
    <3> QED BY <1>2, <2>1, <3>2, StandingIsGood DEF Proceeded
  <2>2. CASE /\ ~(Boss(run) /\ run.chestOpened /\ w.cont = "Treasure" /\ ~w.active)
             /\ Boss(run) /\ ~run.chestOpened /\ w.cont = "None"
             /\ ~w.boss /\ Len(w.relics) < 2
    <3>1. Standing(BossChest(run), visit)
      BY <1>1, <2>2, BossChestStands DEF BossChest
    <3> QED BY <1>2, <2>2, <3>1, StandingIsGood DEF Proceeded
  <2>3. CASE /\ ~(Boss(run) /\ run.chestOpened /\ w.cont = "Treasure" /\ ~w.active)
             /\ ~(/\ Boss(run) /\ ~run.chestOpened /\ w.cont = "None"
                  /\ ~w.boss /\ Len(w.relics) < 2)
             /\ (w.cont = "Rest" /\ run.at.restDone) \/ w.cont = "Shop"
    <3>1. run.chestOpened = FALSE /\ run.reserved = FALSE
      BY <1>1, <2>3, OnRewardScreen, RunFields DEF Standing
    <3>2. Good(OpenMap(run), visit)
      BY <1>1, <3>1, OpenMapGood
    <3> QED BY <1>2, <2>3, <3>2 DEF Proceeded
  <2>4. CASE /\ ~(Boss(run) /\ run.chestOpened /\ w.cont = "Treasure" /\ ~w.active)
             /\ ~(/\ Boss(run) /\ ~run.chestOpened /\ w.cont = "None"
                  /\ ~w.boss /\ Len(w.relics) < 2)
             /\ ~((w.cont = "Rest" /\ run.at.restDone) \/ w.cont = "Shop")
    <3>1. Good(CloseReward(run, TRUE), visit)
      BY <1>1, CloseRewardGood
    <3> QED BY <1>2, <2>4, <3>1 DEF Proceeded
  <2> QED BY <2>1, <2>2, <2>3, <2>4
<1> QED BY <1>2, <1>3, StaysKeeps

------------------------------------------------------------------------------
(* Chests, campfires, shops *)

\* A chest behind a boss, or a room's own.
BossRelicsShown(r, w) ==
  [r EXCEPT !.at.phase = "Reward", !.chestOpened = TRUE, !.reserved = TRUE, !.at.reward = w]

LEMMA BossRelicsShownStand ==
  ASSUME NEW r, NEW v, Standing(r, v), r.at.phase = "Treasure", r.grid = Nil, Boss(r),
         ~r.chestOpened,
         NEW w \in RewardType, w.cont = "Treasure", CardFlow(w), IsInjective(w.relics)
  PROVE  Standing(BossRelicsShown(r, w), v)
<1> DEFINE q == BossRelicsShown(r, w)
           s == [r.at EXCEPT !.phase = "Reward", !.reward = w]
<1>1. r \in RunType /\ Sound(r, v) /\ r.under = Nil
  BY DEF Standing
<1>2. /\ r.at.treasure = Nil /\ r.at.event = Nil /\ r.at.shop = Nil /\ r.fight = Nil
      /\ ~r.at.restDone /\ ~r.at.emerald /\ ~r.at.merchant /\ r.promise = "no"
      /\ r.outcome = Nil
  BY BossPayloads
<1>3. /\ s \in ScreenType /\ s.phase = "Reward" /\ s.reward = w /\ s.event = r.at.event
      /\ s.treasure = r.at.treasure /\ s.shop = r.at.shop /\ s.merchant = r.at.merchant
      /\ s.restDone = r.at.restDone /\ s.emerald = r.at.emerald
  BY <1>1, RunFields DEF ScreenType, Phases
<1>4. q = [r EXCEPT !.at = s, !.chestOpened = TRUE, !.reserved = TRUE]
  BY <1>1, RunFields DEF BossRelicsShown, RunType, ScreenType
<1> HIDE DEF q, s
<1>5. /\ q \in RunType /\ q.at = s /\ q.under = r.under /\ q.grid = r.grid
      /\ q.room = r.room /\ q.act = r.act /\ q.keys = r.keys
      /\ q.chestOpened = TRUE /\ q.reserved = TRUE
      /\ q.promise = r.promise /\ q.fight = r.fight /\ q.outcome = r.outcome
  BY <1>1, <1>3, <1>4 DEF RunType
<1>6. w # Nil
  BY NilAssumption
<1>7. Screens(q)
  BY <1>1, <1>2, <1>3, <1>5, <1>6 DEF Sound, Screens, PhaseHasPayload, PayloadHasPhase,
    PayloadInRoom, LastActs, OutcomeAtEnd, Linked, Boss, FinalBoss
<1>8. Owned(q) /\ RewardFlow(q)
  BY <1>2, <1>3, <1>5 DEF Owned, RewardFlow, Boss
<1>9. Stages(q) /\ Overlaid(q)
  BY <1>2, <1>3, <1>5 DEF Stages, EventHasStage, Overlaid, GridHasOwner, NeowLeaves
<1>10. v["bossRelic"] = 0
  BY <1>1 DEF Sound, Unused
<1>11. Unused(q, v)
  BY <1>2, <1>3, <1>5, <1>10 DEF Unused, Boss, Linked
<1> QED BY <1>1, <1>3, <1>5, <1>7, <1>8, <1>9, <1>11 DEF Standing, Sound, q

ChestShown(r, w, link) ==
  [r EXCEPT !.at.phase = "Reward", !.fight = Nil, !.at.treasure.link = link, !.at.reward = w]

LEMMA ChestShownStands ==
  ASSUME NEW r, NEW v, Standing(r, v), r.at.phase = "Treasure", r.grid = Nil,
         r.at.treasure # Nil,
         NEW w \in RewardType, w.cont = "Map", CardFlow(w), IsInjective(w.relics), ~w.boss,
         NEW link \in RelicOffers \union {Nil},
         link # Nil => /\ FinalAct /\ "sapphire" \notin r.keys
                       /\ \E i \in DOMAIN w.relics : w.relics[i] = link,
         NEW u, SameBut(u, v, {"chest"})
  PROVE  Standing(ChestShown(r, w, link), u)
<1> DEFINE q == ChestShown(r, w, link)
           z == [r.at.treasure EXCEPT !.link = link]
           s == [r.at EXCEPT !.phase = "Reward", !.reward = w, !.treasure = z]
<1>1. r \in RunType /\ Sound(r, v) /\ r.under = Nil
  BY DEF Standing
<1>2. z \in TreasureType /\ z.link = link /\ z # Nil
  BY <1>1, RunFields, NilAssumption DEF TreasureType
<1>3. /\ r.room = "Treasure" /\ r.at.event = Nil /\ r.at.shop = Nil /\ r.fight = Nil
      /\ ~r.at.restDone /\ ~r.at.emerald /\ ~r.at.merchant /\ r.promise = "no"
      /\ r.outcome = Nil /\ r.chestOpened = FALSE /\ r.reserved = FALSE
  BY <1>1, RunFields DEF Sound, Screens, PhaseHasPayload, PayloadHasPhase,
    PayloadInRoom, LastActs, OutcomeAtEnd, Linked, Boss, FinalBoss, RoomOf
<1>4. /\ s \in ScreenType /\ s.phase = "Reward" /\ s.reward = w /\ s.event = r.at.event
      /\ s.treasure = z /\ s.shop = r.at.shop /\ s.merchant = r.at.merchant
      /\ s.restDone = r.at.restDone /\ s.emerald = r.at.emerald
  BY <1>1, <1>2, RunFields DEF ScreenType, Phases
<1>15. r.at \in ScreenType /\ r.at.treasure \in TreasureType
  BY <1>1, RunFields
<1>16. q = [r EXCEPT !.at = [r.at EXCEPT !.phase = "Reward", !.treasure = z, !.reward = w],
                     !.fight = Nil]
  BY <1>1, <1>15 DEF ChestShown, RunType, ScreenType
<1> HIDE DEF z
<1>17. [r.at EXCEPT !.phase = "Reward", !.treasure = z, !.reward = w] = s
  BY <1>15 DEF ScreenType
<1>5. q = [r EXCEPT !.at = s, !.fight = Nil]
  BY <1>16, <1>17
<1> HIDE DEF q, s
<1>6. /\ q \in RunType /\ q.at = s /\ q.under = r.under /\ q.grid = r.grid
      /\ q.room = r.room /\ q.act = r.act /\ q.keys = r.keys
      /\ q.chestOpened = r.chestOpened /\ q.reserved = r.reserved
      /\ q.promise = r.promise /\ q.fight = Nil /\ q.outcome = r.outcome
  BY <1>1, <1>4, <1>5 DEF RunType
<1>7. w # Nil
  BY NilAssumption
<1>8. Linked(q) = link
  BY <1>2, <1>4, <1>6 DEF Linked
<1>9. Screens(q)
  BY <1>1, <1>2, <1>3, <1>4, <1>6, <1>7, <1>8, NilIsNoName DEF Sound, Screens,
    PhaseHasPayload, PayloadHasPhase, PayloadInRoom, LastActs, OutcomeAtEnd, Boss,
    FinalBoss, Fights
<1>10. Owned(q) /\ RewardFlow(q)
  BY <1>2, <1>3, <1>4, <1>6 DEF Owned, RewardFlow, Boss
<1>11. Stages(q) /\ Overlaid(q)
  BY <1>3, <1>4, <1>6 DEF Stages, EventHasStage, Overlaid, GridHasOwner, NeowLeaves
<1>12. /\ u["campfire"] = v["campfire"] /\ u["bossRelic"] = v["bossRelic"]
       /\ u["removal"] = v["removal"] /\ u["linked"] = v["linked"]
       /\ u["sapphire"] = v["sapphire"]
  BY DEF SameBut, Things
<1>13. v["linked"] = 0 /\ v["sapphire"] = 0 /\ v["bossRelic"] = 0
  BY <1>1, <1>3 DEF Sound, Unused, Boss
<1>14. Unused(q, u)
  BY <1>3, <1>4, <1>6, <1>12, <1>13 DEF Unused
<1> QED BY <1>1, <1>4, <1>6, <1>9, <1>10, <1>11, <1>14 DEF Standing, Sound, q

LEMMA OpenChestKeeps ==
  ASSUME Safe(run, visit), OpenChest
  PROVE  Safe(run', visit')
<1>1. Standing(run, visit) /\ run.grid = Nil /\ run.at.phase = "Treasure"
  BY HereStands DEF OpenChest
<1>2. run \in RunType /\ run.at \in ScreenType
  BY <1>1, RunFields DEF Standing
<1>3. CASE /\ Boss(run) /\ run.at.treasure = Nil /\ ~run.chestOpened
           /\ Stays([run EXCEPT !.at.phase = "Reward", !.chestOpened = TRUE,
                                !.reserved = TRUE,
                                !.at.reward = [Offers("Treasure") EXCEPT !.boss = TRUE]])
  <2> DEFINE o == Offers("Treasure")
             w == [o EXCEPT !.boss = TRUE]
  <2>1. /\ o \in RewardType /\ o.cont = "Treasure" /\ CardFlow(o) /\ IsInjective(o.relics)
    BY OffersSound DEF Conts, Owner
  <2>2. Stays(BossRelicsShown(run, w))
    BY <1>3 DEF BossRelicsShown
  <2> HIDE DEF o
  <2>3. /\ w \in RewardType /\ w.cont = "Treasure" /\ IsInjective(w.relics)
        /\ w.left = o.left /\ w.queued = o.queued /\ w.shown = o.shown
        /\ w.active = o.active
    BY <2>1 DEF RewardType
  <2> HIDE DEF w
  <2>4. CardFlow(w)
    BY <2>1, <2>3 DEF CardFlow
  <2>5. Standing(BossRelicsShown(run, w), visit)
    BY <1>1, <1>3, <2>3, <2>4, BossRelicsShownStand
  <2> QED BY <2>2, <2>5, StandingIsGood, StaysKeeps
<1>4. CASE /\ run.at.treasure # Nil
           /\ \E relics \in Lists(1) \union Lists(2) :
              \E gold \in {{}, {"gold"}} :
                Became([Chest(run, relics) EXCEPT !.at.reward.coins = gold], {"chest"})
  <2>1. PICK relics \in Lists(1) \union Lists(2), gold \in {{}, {"gold"}} :
          Became([Chest(run, relics) EXCEPT !.at.reward.coins = gold], {"chest"})
    BY <1>4
  <2>2. /\ relics \in Seq(RelicOffers) /\ IsInjective(relics) /\ Len(relics) \in {1, 2}
    BY <2>1, ListsSound
  <2>3. run.at.treasure \in TreasureType /\ run.at.treasure.link \in RelicOffers \union {Nil}
    BY <1>1, <1>4, RunFields DEF Standing, TreasureType
  <2> DEFINE link == IF FinalAct /\ "sapphire" \notin run.keys THEN relics[Len(relics)]
                     ELSE run.at.treasure.link
             w == [Offers("Map") EXCEPT !.relics = relics]
             paid == [w EXCEPT !.coins = gold]
             q == ChestShown(run, paid, link)
  <2>4. run.at.treasure.link = Nil /\ visit["chest"] = 0
    BY <1>1, <1>4 DEF Standing, Sound, Screens, PayloadHasPhase, Linked, Unused
  <2>5. Len(relics) \in DOMAIN relics /\ relics[Len(relics)] \in RelicOffers
    <3>1. DOMAIN relics = 1..Len(relics) /\ Len(relics) \in 1..Len(relics)
      BY <2>2
    <3> QED BY <2>2, <3>1
  <2>6. link \in RelicOffers \union {Nil}
    BY <2>3, <2>5
  <2>7. link # Nil => /\ FinalAct /\ "sapphire" \notin run.keys
                      /\ \E i \in DOMAIN relics : relics[i] = link
    BY <2>4, <2>5
  <2>8. Chest(run, relics) = ChestShown(run, w, link)
    BY DEF Chest, ChestShown
  <2>9. w \in RewardType /\ CardFlow(w) /\ w.cont = "Map" /\ ~w.boss /\ w.relics = relics
    <3>1. "Map" \in Conts
      BY DEF Conts
    <3>2. w \in RewardType /\ CardFlow(w) /\ w.cont = "Map" /\ ~w.boss
      BY <2>2, <3>1, RelicsSound
    <3> QED BY <3>2 DEF Offers
  <2> HIDE DEF w, link
  <2>10. /\ paid \in RewardType /\ paid.cont = "Map" /\ ~paid.boss /\ paid.relics = relics
         /\ paid.left = w.left /\ paid.queued = w.queued /\ paid.shown = w.shown
         /\ paid.active = w.active
    BY <2>1, <2>9 DEF RewardType
  <2>11. CardFlow(paid)
    BY <2>9, <2>10 DEF CardFlow
  <2>12. [Chest(run, relics) EXCEPT !.at.reward.coins = gold] = q
    <3>1. ChestShown(run, w, link).at.reward = w
      BY <1>2 DEF ChestShown, RunType, ScreenType
    <3> DEFINE z == [run.at.treasure EXCEPT !.link = link]
               s == [run.at EXCEPT !.phase = "Reward", !.treasure = z, !.reward = w]
               n == [run.at EXCEPT !.phase = "Reward", !.treasure = z, !.reward = paid]
    <3>2. ChestShown(run, w, link) = [run EXCEPT !.fight = Nil, !.at = s]
      BY <1>2, <2>3 DEF ChestShown, RunType, ScreenType
    <3>3. q = [run EXCEPT !.fight = Nil, !.at = n]
      BY <1>2, <2>3 DEF ChestShown, RunType, ScreenType
    <3> HIDE DEF z, paid
    <3>4. [s EXCEPT !.reward = paid] = n /\ s.reward = w
      BY <1>2 DEF ScreenType
    <3> HIDE DEF s, n
    <3>5. [[run EXCEPT !.fight = Nil, !.at = s] EXCEPT !.at.reward = paid]
          = [run EXCEPT !.fight = Nil, !.at = n]
      BY <1>2, <3>4 DEF RunType
    <3>6. [Chest(run, relics) EXCEPT !.at.reward.coins = gold]
          = [ChestShown(run, w, link) EXCEPT !.at.reward = paid]
      BY <2>8, <3>1 DEF paid
    <3> QED BY <3>2, <3>3, <3>5, <3>6
  <2> HIDE DEF paid
  <2>13. run' = q /\ Once(visit') /\ SameBut(visit', visit, {"chest"})
    BY <2>1, <2>4, <2>12, BecameOnce DEF Things, SameBut
  <2>14. Standing(q, visit')
    BY <1>1, <1>4, <2>2, <2>6, <2>7, <2>10, <2>11, <2>13, ChestShownStands
  <2> QED BY <2>13, <2>14, StandingIsGood DEF Safe
<1> QED BY <1>3, <1>4 DEF OpenChest

LEMMA TreasureProceedKeeps ==
  ASSUME Safe(run, visit), TreasureProceed
  PROVE  Safe(run', visit')
<1>1. Standing(run, visit) /\ run.grid = Nil /\ run.at.phase = "Treasure"
  BY HereStands DEF TreasureProceed
<1>2. CASE Boss(run) /\ Stays(NextAct(run))
  <2>1. run.outcome = Nil /\ run.at.event = Nil
    BY <1>1, <1>2, BossPayloads
  <2>2. Standing(NextAct(run), visit)
    BY <1>1, <1>2, <2>1, NextActStands
  <2> QED BY <1>2, <2>2, StandingIsGood, StaysKeeps
<1>3. CASE ~Boss(run) /\ Stays(OpenMap(run))
  <2>1. run.chestOpened = FALSE /\ run.reserved = FALSE
    BY <1>1, <1>3, RunFields DEF Standing, Sound, Screens, PayloadHasPhase
  <2>2. Good(OpenMap(run), visit)
    BY <1>1, <2>1, OpenMapGood
  <2> QED BY <1>3, <2>2, StaysKeeps
<1> QED BY <1>2, <1>3 DEF TreasureProceed

\* The campfire used, with or without a reward screen after it.
Warmed(r, phase, w, keys) ==
  [r EXCEPT !.at.phase = phase, !.at.reward = w, !.at.restDone = TRUE, !.keys = keys]

LEMMA WarmedStands ==
  ASSUME NEW r, NEW v, Standing(r, v), r.at.phase = "Rest", r.grid = Nil,
         NEW phase, NEW w,
         \/ phase = "Rest" /\ w = Nil
         \/ /\ phase = "Reward" /\ w \in RewardType /\ w.cont = "Rest" /\ ~w.boss
            /\ CardFlow(w) /\ IsInjective(w.relics),
         NEW keys \in {r.keys, r.keys \union {"ruby"}}, keys # r.keys => FinalAct,
         NEW u, SameBut(u, v, {"campfire"})
  PROVE  Standing(Warmed(r, phase, w, keys), u)
<1> DEFINE q == Warmed(r, phase, w, keys)
           s == [r.at EXCEPT !.phase = phase, !.reward = w, !.restDone = TRUE]
<1>1. r \in RunType /\ Sound(r, v) /\ r.under = Nil
  BY DEF Standing
<1>2. phase \in {"Rest", "Reward"} /\ (phase = "Rest" <=> w = Nil)
  BY NilAssumption
<1>3. /\ r.room = "Rest" /\ r.at.event = Nil /\ r.at.shop = Nil /\ r.at.treasure = Nil
      /\ r.fight = Nil /\ ~r.at.emerald /\ ~r.at.merchant /\ r.promise = "no"
      /\ r.outcome = Nil /\ r.chestOpened = FALSE /\ r.reserved = FALSE
  BY <1>1, RunFields DEF Sound, Screens, PhaseHasPayload, PayloadHasPhase,
    PayloadInRoom, LastActs, OutcomeAtEnd, Linked, Boss, FinalBoss, RoomOf
<1>4. /\ s \in ScreenType /\ s.phase = phase /\ s.reward = w /\ s.event = r.at.event
      /\ s.treasure = r.at.treasure /\ s.shop = r.at.shop /\ s.merchant = r.at.merchant
      /\ s.restDone = TRUE /\ s.emerald = r.at.emerald
  BY <1>1, <1>2, RunFields DEF ScreenType, Phases
<1>5. q = [r EXCEPT !.at = s, !.keys = keys]
  BY <1>1, RunFields DEF Warmed, RunType, ScreenType
<1>6. keys \in SUBSET Keys
  BY <1>1, RunFields DEF Keys
<1> HIDE DEF q, s
<1>7. /\ q \in RunType /\ q.at = s /\ q.under = r.under /\ q.grid = r.grid
      /\ q.room = r.room /\ q.act = r.act /\ q.keys = keys
      /\ q.chestOpened = r.chestOpened /\ q.reserved = r.reserved
      /\ q.promise = r.promise /\ q.fight = r.fight /\ q.outcome = r.outcome
  BY <1>1, <1>4, <1>5, <1>6 DEF RunType
<1>8. keys # {} => FinalAct
  BY <1>1 DEF Sound, Screens
<1>9. Screens(q)
  BY <1>1, <1>2, <1>3, <1>4, <1>7, <1>8 DEF Sound, Screens, PhaseHasPayload,
    PayloadHasPhase, PayloadInRoom, LastActs, OutcomeAtEnd, Linked, Boss, FinalBoss
<1>10. Owned(q) /\ RewardFlow(q)
  BY <1>2, <1>3, <1>4, <1>7 DEF Owned, RewardFlow, Boss
<1>11. Stages(q) /\ Overlaid(q)
  BY <1>3, <1>4, <1>7 DEF Stages, EventHasStage, Overlaid, GridHasOwner, NeowLeaves
<1>12. u["bossRelic"] = v["bossRelic"] /\ v["bossRelic"] = 0
  BY <1>1, <1>3 DEF Sound, Unused, Boss, SameBut, Things
<1>13. Unused(q, u)
  BY <1>2, <1>3, <1>4, <1>7, <1>12 DEF Unused, Linked
<1> QED BY <1>1, <1>4, <1>7, <1>9, <1>10, <1>11, <1>13 DEF Standing, Sound, q

LEMMA UseCampfireKeeps ==
  ASSUME Safe(run, visit), UseCampfire
  PROVE  Safe(run', visit')
<1>1. /\ Standing(run, visit) /\ run.grid = Nil /\ run.at.phase = "Rest"
      /\ ~run.at.restDone
  BY HereStands DEF UseCampfire
<1>2. /\ run \in RunType /\ run.at \in ScreenType /\ run.at.reward = Nil
      /\ visit["campfire"] = 0
  BY <1>1, RunFields DEF Standing, Sound, Screens, PayloadHasPhase, Unused
<1>3. PICK r : /\ Became(r, {"campfire"})
               /\ \/ r = Rested(run)
                  \/ \E w \in {[OneCard("Rest") EXCEPT !.active = TRUE]}
                         \union {[Offers("Rest") EXCEPT !.relics = l] : l \in Lists(1)} :
                       r = [Rested(run) EXCEPT !.at.phase = "Reward", !.at.reward = w]
                  \/ /\ FinalAct
                     /\ r = [Rested(run) EXCEPT !.keys = @ \union {"ruby"}]
  BY DEF UseCampfire
<1>4. run' = r /\ Once(visit') /\ SameBut(visit', visit, {"campfire"})
  BY <1>2, <1>3, BecameOnce DEF Things, SameBut
<1> DEFINE rested == [run.at EXCEPT !.restDone = TRUE]
<1>5. /\ Rested(run) = [run EXCEPT !.at = rested] /\ Rested(run).at = rested
      /\ Rested(run).keys = run.keys
  BY <1>2 DEF Rested, RunType, ScreenType
<1>6. ASSUME NEW keys \in {run.keys, run.keys \union {"ruby"}},
             keys # run.keys => FinalAct, r = [Rested(run) EXCEPT !.keys = keys]
      PROVE  Standing(r, visit')
  <2>1. rested = [run.at EXCEPT !.phase = "Rest", !.reward = Nil, !.restDone = TRUE]
    BY <1>1, <1>2 DEF ScreenType
  <2>2. Warmed(run, "Rest", Nil, keys)
        = [run EXCEPT !.at = [run.at EXCEPT !.phase = "Rest", !.reward = Nil,
                                            !.restDone = TRUE], !.keys = keys]
    BY <1>2 DEF Warmed, RunType, ScreenType
  <2> HIDE DEF rested
  <2>3. r = [run EXCEPT !.at = rested, !.keys = keys]
    BY <1>2, <1>5, <1>6 DEF RunType
  <2>4. Standing(Warmed(run, "Rest", Nil, keys), visit')
    BY <1>1, <1>4, <1>6, WarmedStands
  <2> QED BY <2>1, <2>2, <2>3, <2>4
<1>7. CASE r = Rested(run)
  <2>1. r = [Rested(run) EXCEPT !.keys = run.keys]
    BY <1>2, <1>5, <1>7 DEF RunType
  <2> QED BY <1>4, <1>6, <2>1, StandingIsGood DEF Safe
<1>8. CASE FinalAct /\ r = [Rested(run) EXCEPT !.keys = @ \union {"ruby"}]
  <2>1. r = [Rested(run) EXCEPT !.keys = run.keys \union {"ruby"}]
    BY <1>5, <1>8
  <2> QED BY <1>4, <1>6, <1>8, <2>1, StandingIsGood DEF Safe
<1>9. CASE \E w \in {[OneCard("Rest") EXCEPT !.active = TRUE]}
                     \union {[Offers("Rest") EXCEPT !.relics = l] : l \in Lists(1)} :
             r = [Rested(run) EXCEPT !.at.phase = "Reward", !.at.reward = w]
  <2>1. PICK w \in {[OneCard("Rest") EXCEPT !.active = TRUE]}
                     \union {[Offers("Rest") EXCEPT !.relics = l] : l \in Lists(1)} :
             r = [Rested(run) EXCEPT !.at.phase = "Reward", !.at.reward = w]
    BY <1>9
  <2>2. w \in RewardType /\ CardFlow(w) /\ IsInjective(w.relics) /\ w.cont = "Rest" /\ ~w.boss
    <3>1. "Rest" \in Conts
      BY DEF Conts, Owner
    <3>2. CASE w = [OneCard("Rest") EXCEPT !.active = TRUE]
      BY <3>1, <3>2, OneCardSound
    <3>3. CASE \E l \in Lists(1) : w = [Offers("Rest") EXCEPT !.relics = l]
      BY <3>1, <3>3, ListsSound, RelicsSound
    <3> QED BY <2>1, <3>2, <3>3
  <2>3. r = Warmed(run, "Reward", w, run.keys)
    <3> DEFINE s == [run.at EXCEPT !.phase = "Reward", !.reward = w, !.restDone = TRUE]
    <3>1. [rested EXCEPT !.phase = "Reward", !.reward = w] = s
      BY <1>2 DEF ScreenType
    <3>2. Warmed(run, "Reward", w, run.keys) = [run EXCEPT !.at = s]
      BY <1>2 DEF Warmed, RunType, ScreenType
    <3> HIDE DEF s, rested
    <3>3. r = [run EXCEPT !.at = [rested EXCEPT !.phase = "Reward", !.reward = w]]
      BY <1>2, <1>5, <2>1 DEF RunType
    <3> QED BY <3>1, <3>2, <3>3
  <2>4. Standing(r, visit')
    BY <1>1, <1>4, <2>2, <2>3, WarmedStands
  <2> QED BY <1>4, <2>4, StandingIsGood DEF Safe
<1> QED BY <1>3, <1>7, <1>8, <1>9

LEMMA OpenCampfireGridKeeps ==
  ASSUME Safe(run, visit), OpenCampfireGrid
  PROVE  Safe(run', visit')
<1>1. /\ Standing(run, visit) /\ run.grid = Nil /\ run.at.phase = "Rest"
      /\ ~run.at.restDone
  BY HereStands DEF OpenCampfireGrid
<1>2. PICK purpose \in {"RestSmith", "RestRemove"} : Stays(OpenGrid(run, purpose, 1))
  BY DEF OpenCampfireGrid
<1> DEFINE q == OpenGrid(run, purpose, 1)
<1>3. run \in RunType /\ q.at = run.at /\ q.grid.purpose = purpose
  BY <1>1 DEF Standing, OpenGrid, RunType, Grid
<1>4. GridHasOwner(q)
  BY <1>1, <1>3 DEF GridHasOwner
<1>5. purpose \in GridPurposes /\ ~AtNeow(run)
  BY <1>1 DEF GridPurposes, AtNeow
<1>6. Standing(q, visit)
  BY <1>1, <1>4, <1>5, GridOpened
<1> HIDE DEF q
<1> QED BY <1>2, <1>6, StandingIsGood, StaysKeeps DEF q

LEMMA RoomProceeds ==
  ASSUME Safe(run, visit), RestProceed \/ ShopProceed
  PROVE  Safe(run', visit')
<1>1. PICK phase \in {"Rest", "Shop"} : Here(phase) /\ Stays(OpenMap(run))
  BY DEF RestProceed, ShopProceed
<1>2. Standing(run, visit) /\ run.grid = Nil /\ run.at.phase = phase
  BY <1>1, HereStands
<1>3. run.chestOpened = FALSE /\ run.reserved = FALSE
  BY <1>2, RunFields DEF Standing, Sound, Screens, PayloadHasPhase
<1>4. Good(OpenMap(run), visit)
  BY <1>2, <1>3, OpenMapGood
<1> QED BY <1>1, <1>4, StaysKeeps

\* The merchant's screen: its wares, and whether the player stands before them.
Shopping(r, merchant, shop) == [r EXCEPT !.at.merchant = merchant, !.at.shop = shop]

LEMMA ShoppingStands ==
  ASSUME NEW r, NEW v, Standing(r, v), r.at.phase = "Shop", r.grid = Nil,
         NEW merchant \in BOOLEAN, NEW shop \in ShopType,
         NEW u, SameBut(u, v, {"removal"}),
         shop.remove => r.at.shop.remove /\ u["removal"] = v["removal"]
  PROVE  LET q == Shopping(r, merchant, shop) IN
         /\ Standing(q, u) /\ q.at.phase = "Shop" /\ q.grid = Nil /\ q.at.shop = shop
         /\ q.at.merchant = merchant
<1> DEFINE q == Shopping(r, merchant, shop)
           s == [r.at EXCEPT !.merchant = merchant, !.shop = shop]
<1>1. r \in RunType /\ Sound(r, v) /\ r.under = Nil
  BY DEF Standing
<1>2. shop # Nil
  BY NilAssumption
<1>3. /\ r.room = "Shop" /\ r.at.shop # Nil /\ r.at.event = Nil /\ r.at.treasure = Nil
      /\ r.at.reward = Nil
  BY <1>1, RunFields DEF Sound, Screens, PhaseHasPayload, PayloadHasPhase,
    PayloadInRoom, LastActs, OutcomeAtEnd, Linked, Boss, FinalBoss, RoomOf
<1>4. /\ s \in ScreenType /\ s.phase = "Shop" /\ s.reward = r.at.reward
      /\ s.event = r.at.event /\ s.treasure = r.at.treasure /\ s.shop = shop
      /\ s.merchant = merchant /\ s.restDone = r.at.restDone /\ s.emerald = r.at.emerald
  BY <1>1, RunFields DEF ScreenType
<1>5. q = [r EXCEPT !.at = s]
  BY <1>1, RunFields DEF Shopping, RunType, ScreenType
<1> HIDE DEF q, s
<1>6. /\ q \in RunType /\ q.at = s /\ q.under = r.under /\ q.grid = r.grid
      /\ q.room = r.room /\ q.act = r.act /\ q.keys = r.keys
      /\ q.chestOpened = r.chestOpened /\ q.reserved = r.reserved
      /\ q.promise = r.promise /\ q.fight = r.fight /\ q.outcome = r.outcome
  BY <1>1, <1>4, <1>5, ScreenChanged
<1>7. Screens(q)
  BY <1>1, <1>2, <1>3, <1>4, <1>6 DEF Sound, Screens, PhaseHasPayload, PayloadHasPhase,
    PayloadInRoom, LastActs, OutcomeAtEnd, Linked, Boss, FinalBoss
<1>8. Owned(q) /\ RewardFlow(q) /\ Stages(q) /\ Overlaid(q)
  BY <1>3, <1>4, <1>6 DEF Owned, RewardFlow, Stages, EventHasStage, Overlaid,
    GridHasOwner, NeowLeaves
<1>9. u["bossRelic"] = v["bossRelic"] /\ v["bossRelic"] = 0
  BY <1>1, <1>3 DEF Sound, Unused, Boss, SameBut, Things
<1>10. shop.remove => u["removal"] = 0
  BY <1>1, <1>3 DEF Sound, Unused
<1>11. Unused(q, u)
  BY <1>3, <1>4, <1>6, <1>9, <1>10 DEF Unused, Linked
<1> QED BY <1>1, <1>4, <1>6, <1>7, <1>8, <1>11 DEF Standing, Sound, q

\* A relic that is a reward screen of its own.
Bought(r, w) == [r EXCEPT !.at.phase = "Reward", !.at.merchant = FALSE, !.at.reward = w]

LEMMA BoughtStands ==
  ASSUME NEW r, NEW v, Standing(r, v), r.at.phase = "Shop", r.grid = Nil,
         NEW w \in RewardType, w.cont = "Shop", ~w.boss, CardFlow(w), IsInjective(w.relics)
  PROVE  Standing(Bought(r, w), v)
<1> DEFINE q == Bought(r, w)
           s == [r.at EXCEPT !.phase = "Reward", !.merchant = FALSE, !.reward = w]
<1>1. r \in RunType /\ Sound(r, v) /\ r.under = Nil
  BY DEF Standing
<1>2. w # Nil
  BY NilAssumption
<1>3. /\ r.room = "Shop" /\ r.at.shop # Nil /\ r.at.event = Nil /\ r.at.treasure = Nil
      /\ r.at.reward = Nil /\ ~r.at.restDone /\ r.chestOpened = FALSE
      /\ r.reserved = FALSE /\ ~r.at.emerald
  BY <1>1, RunFields DEF Sound, Screens, PhaseHasPayload, PayloadHasPhase,
    PayloadInRoom, LastActs, OutcomeAtEnd, Linked, Boss, FinalBoss, RoomOf
<1>4. /\ s \in ScreenType /\ s.phase = "Reward" /\ s.reward = w
      /\ s.event = r.at.event /\ s.treasure = r.at.treasure /\ s.shop = r.at.shop
      /\ s.merchant = FALSE /\ s.restDone = r.at.restDone /\ s.emerald = r.at.emerald
  BY <1>1, RunFields DEF ScreenType, Phases
<1>5. q = [r EXCEPT !.at = s]
  BY <1>1, RunFields DEF Bought, RunType, ScreenType
<1> HIDE DEF q, s
<1>6. /\ q \in RunType /\ q.at = s /\ q.under = r.under /\ q.grid = r.grid
      /\ q.room = r.room /\ q.act = r.act /\ q.keys = r.keys
      /\ q.chestOpened = r.chestOpened /\ q.reserved = r.reserved
      /\ q.promise = r.promise /\ q.fight = r.fight /\ q.outcome = r.outcome
  BY <1>1, <1>4, <1>5, ScreenChanged
<1>7. Screens(q)
  BY <1>1, <1>2, <1>3, <1>4, <1>6 DEF Sound, Screens, PhaseHasPayload, PayloadHasPhase,
    PayloadInRoom, LastActs, OutcomeAtEnd, Linked, Boss, FinalBoss
<1>8. Owned(q) /\ RewardFlow(q) /\ Stages(q) /\ Overlaid(q)
  BY <1>3, <1>4, <1>6 DEF Owned, RewardFlow, Stages, EventHasStage, Overlaid,
    GridHasOwner, NeowLeaves, Boss
<1>9. v["bossRelic"] = 0 /\ (r.at.shop.remove => v["removal"] = 0)
  BY <1>1, <1>3 DEF Sound, Unused, Boss
<1>11. Unused(q, v)
  BY <1>3, <1>4, <1>6, <1>9 DEF Unused, Linked
<1> QED BY <1>1, <1>4, <1>6, <1>7, <1>8, <1>11 DEF Standing, Sound, q

LEMMA ShopPickupStands ==
  ASSUME NEW r, NEW v, Standing(r, v), r.at.phase = "Shop", r.grid = Nil, r.at.merchant,
         NEW x \in {"plain", "Bottle", "DollysMirror", "Orrery", "Cauldron"},
         NEW q \in Gained(r, x)
  PROVE  Standing(q, v)
<1>1. \/ q = r
      \/ \E purpose \in {"Bottle", "DollysMirror"} : q = OpenGrid(r, purpose, 1)
      \/ q = Bought(r, [Offers("Shop") EXCEPT !.potions = 5])
      \/ q = Bought(r, Queued("Shop", 5))
  BY DEF Gained, MayOpen, Bought
<1>2. ASSUME NEW purpose \in {"Bottle", "DollysMirror"}, q = OpenGrid(r, purpose, 1)
      PROVE  Standing(q, v)
  <2>1. r \in RunType /\ q.at = r.at /\ q.grid.purpose = purpose
    BY <1>2 DEF Standing, OpenGrid, RunType, Grid
  <2>2. r.at.shop # Nil
    BY DEF Standing, Sound, Screens, PhaseHasPayload
  <2>3. GridHasOwner(q)
    BY <2>1, <2>2 DEF GridHasOwner, AtMerchant
  <2>4. purpose \in GridPurposes /\ ~AtNeow(r)
    BY DEF GridPurposes, AtNeow
  <2> QED BY <1>2, <2>3, <2>4, GridOpened
<1>3. "Shop" \in Conts
  BY DEF Conts, Owner
<1>4. CASE q = Bought(r, [Offers("Shop") EXCEPT !.potions = 5])
  <2> DEFINE w == [Offers("Shop") EXCEPT !.potions = 5]
  <2>1. w \in RewardType /\ CardFlow(w) /\ IsInjective(w.relics) /\ w.cont = "Shop" /\ ~w.boss
    BY <1>3, PotionsSound
  <2>2. q = Bought(r, w)
    BY <1>4
  <2> HIDE DEF w
  <2> QED BY <2>1, <2>2, BoughtStands
<1>5. CASE q = Bought(r, Queued("Shop", 5))
  <2> DEFINE w == Queued("Shop", 5)
  <2>1. w \in RewardType /\ CardFlow(w) /\ IsInjective(w.relics) /\ w.cont = "Shop" /\ ~w.boss
    BY <1>3, QueuedSound
  <2>2. q = Bought(r, w)
    BY <1>5
  <2> HIDE DEF w
  <2> QED BY <2>1, <2>2, BoughtStands
<1> QED BY <1>1, <1>2, <1>4, <1>5

\* The shop, as a decision finds it.
LEMMA AtShop ==
  ASSUME NEW r, NEW v, Standing(r, v), r.at.phase = "Shop"
  PROVE  /\ r \in RunType /\ r.at \in ScreenType /\ r.at.shop # Nil
         /\ r.at.shop \in ShopType /\ r.at.merchant \in BOOLEAN
BY RunFields DEF Standing, Sound, Screens, PhaseHasPayload

LEMMA MerchantKeeps ==
  ASSUME Safe(run, visit), EnterShop \/ LeaveShop
  PROVE  Safe(run', visit')
<1>1. Standing(run, visit) /\ run.grid = Nil /\ run.at.phase = "Shop"
  BY HereStands DEF EnterShop, LeaveShop
<1>2. PICK merchant \in BOOLEAN : Stays([run EXCEPT !.at.merchant = merchant])
  BY DEF EnterShop, LeaveShop
<1> DEFINE q == Shopping(run, merchant, run.at.shop)
<1>3. q = [run EXCEPT !.at.merchant = merchant]
  BY <1>1, AtShop DEF Shopping, RunType, ScreenType
<1>4. SameBut(visit, visit, {"removal"})
  BY DEF SameBut
<1>5. Standing(q, visit)
  BY <1>1, <1>4, AtShop, ShoppingStands
<1> HIDE DEF q
<1> QED BY <1>2, <1>3, <1>5, StandingIsGood, StaysKeeps

LEMMA OpenShopRemoveKeeps ==
  ASSUME Safe(run, visit), OpenShopRemove
  PROVE  Safe(run', visit')
<1>1. /\ Standing(run, visit) /\ run.grid = Nil /\ run.at.phase = "Shop"
      /\ run.at.merchant /\ run.at.shop.remove
  BY HereStands DEF OpenShopRemove
<1> DEFINE q == OpenGrid(run, "ShopRemove", 1)
<1>2. Stays(q)
  BY DEF OpenShopRemove
<1>3. run \in RunType /\ q.at = run.at /\ q.grid.purpose = "ShopRemove" /\ run.at.shop # Nil
  BY <1>1, AtShop DEF OpenGrid, RunType, Grid
<1>4. GridHasOwner(q)
  BY <1>1, <1>3 DEF GridHasOwner, AtMerchant
<1>5. "ShopRemove" \in GridPurposes /\ ~AtNeow(run)
  BY <1>1 DEF GridPurposes, AtNeow
<1>6. Standing(q, visit)
  BY <1>1, <1>4, <1>5, GridOpened
<1> HIDE DEF q
<1> QED BY <1>2, <1>6, StandingIsGood, StaysKeeps

LEMMA BuyShopRelicKeeps ==
  ASSUME Safe(run, visit), BuyShopRelic
  PROVE  Safe(run', visit')
<1>1. /\ Standing(run, visit) /\ run.grid = Nil /\ run.at.phase = "Shop"
      /\ run.at.merchant
  BY HereStands DEF BuyShopRelic
<1>2. PICK relic \in run.at.shop.relics :
        \E r \in Gained([run EXCEPT !.at.shop.relics = @ \ {relic}], relic) : Stays(r)
  BY DEF BuyShopRelic
<1> DEFINE shop == [run.at.shop EXCEPT !.relics = @ \ {relic}]
           q == Shopping(run, run.at.merchant, shop)
<1>3. /\ shop \in ShopType /\ shop.remove = run.at.shop.remove
      /\ run.at.shop.relics \subseteq ShopRelics
  BY <1>1, AtShop DEF ShopType
<1>4. q = [run EXCEPT !.at.shop.relics = @ \ {relic}]
  <2>1. [run EXCEPT !.at.shop.relics = @ \ {relic}] = [run EXCEPT !.at.shop = shop]
    OBVIOUS
  <2> HIDE DEF shop
  <2>3. run \in RunType /\ run.at \in ScreenType
    BY <1>1, AtShop
  <2>4. [run.at EXCEPT !.merchant = run.at.merchant, !.shop = shop] = [run.at EXCEPT !.shop = shop]
    BY <2>3 DEF ScreenType
  <2>5. q = [run EXCEPT !.at = [run.at EXCEPT !.merchant = run.at.merchant, !.shop = shop]]
    BY <2>3 DEF Shopping, RunType, ScreenType
  <2>6. [run EXCEPT !.at.shop = shop] = [run EXCEPT !.at = [run.at EXCEPT !.shop = shop]]
    BY <2>3 DEF RunType, ScreenType
  <2> QED BY <2>1, <2>4, <2>5, <2>6
<1>5. PICK r \in Gained(q, relic) : Stays(r)
  BY <1>2, <1>4
<1>6. SameBut(visit, visit, {"removal"})
  BY DEF SameBut
<1> HIDE DEF shop
<1>10. Standing(run, visit) /\ run.at.phase = "Shop" /\ run.grid = Nil
  BY <1>1
<1>12. run.at.merchant \in BOOLEAN
  BY <1>1, AtShop
<1>11. shop \in ShopType /\ (shop.remove => run.at.shop.remove)
  BY <1>3
<1>7. Standing(q, visit) /\ q.at.phase = "Shop" /\ q.grid = Nil /\ q.at.merchant
  BY <1>1, <1>6, <1>10, <1>11, <1>12, ShoppingStands
<1>8. relic \in {"plain", "Bottle", "DollysMirror", "Orrery", "Cauldron"}
  BY <1>2, <1>3, EffectsAssumption
<1> HIDE DEF q
<1>9. Standing(r, visit)
  BY <1>5, <1>7, <1>8, ShopPickupStands
<1> QED BY <1>5, <1>9, StandingIsGood, StaysKeeps

------------------------------------------------------------------------------
(* The map *)

LEMMA MapReturnKeeps ==
  ASSUME Safe(run, visit), MapReturn
  PROVE  Safe(run', visit')
<1>1. run \in RunType /\ run.under # Nil /\ Sound(MapReturned(run), visit)
  BY DEF MapReturn, Safe, Good, Suspends
<1>2. run.under \in ScreenType
  BY <1>1, RunFields
<1>3. MapReturned(run) \in RunType /\ MapReturned(run).under = Nil
  BY <1>1, <1>2 DEF MapReturned, RunType
<1>4. Standing(MapReturned(run), visit)
  BY <1>1, <1>3 DEF Standing
<1> QED BY <1>4, StandingIsGood, StaysKeeps DEF MapReturn

LEMMA EnteredScreens ==
  ASSUME NEW r \in RunType, r.at.phase = "Idle", r.at.event = Nil, r.at.shop = Nil,
         r.at.treasure = Nil, r.at.reward = Nil, ~r.at.restDone, ~r.at.emerald,
         ~r.at.merchant, NEW kind \in Reachable(r), NEW s \in Entered(r, kind)
  PROVE  /\ s \in ScreenType /\ s.reward = Nil /\ ~s.emerald /\ ~s.restDone /\ ~s.merchant
         /\ kind \in {"Combat", "Elite", "Boss", "Rest", "Shop", "Treasure", "Event"}
         /\ s.event # Nil <=> kind = "Event"
         /\ s.event # Nil => s.event.stage = 0 /\ s.event.name \notin {"Neow", "SpireHeart"}
         /\ s.shop # Nil <=> kind = "Shop"
         /\ s.treasure # Nil <=> kind = "Treasure"
         /\ s.treasure # Nil => s.treasure.link = Nil
         /\ s.phase = (IF kind \in {"Combat", "Elite", "Boss"} THEN "Combat" ELSE kind)
<1>1. /\ kind \in {"Combat", "Elite", "Boss", "Rest", "Shop", "Treasure", "Event"}
      /\ kind = "Event" => r.act \in 1..3
  BY RunFields DEF Reachable
<1>2. r.at \in ScreenType /\ r.at.restDone = FALSE
  BY RunFields
<1>3. CASE kind = "Rest"
  <2>1. s = [r.at EXCEPT !.phase = "Rest", !.restDone = FALSE]
    BY <1>3 DEF Entered
  <2> QED BY <1>2, <1>3, <2>1 DEF ScreenType, Phases
<1>4. CASE kind = "Shop"
  <2> DEFINE shop == [remove |-> TRUE, relics |-> ShopRelics]
  <2>1. shop \in ShopType
    BY DEF ShopType
  <2>2. s = [r.at EXCEPT !.phase = "Shop", !.merchant = FALSE, !.shop = shop]
    BY <1>4 DEF Entered
  <2>3. shop # Nil
    BY <2>1, NilAssumption
  <2> HIDE DEF shop
  <2> QED BY <1>2, <1>4, <2>1, <2>2, <2>3 DEF ScreenType, Phases
<1>5. CASE kind = "Treasure"
  <2> DEFINE z == [link |-> Nil]
  <2>1. z \in TreasureType /\ z.link = Nil
    BY DEF TreasureType
  <2>2. s = [r.at EXCEPT !.phase = "Treasure", !.treasure = z]
    BY <1>5 DEF Entered
  <2>3. z # Nil
    BY <2>1, NilAssumption
  <2> HIDE DEF z
  <2> QED BY <1>2, <1>5, <2>1, <2>2, <2>3 DEF ScreenType, Phases
<1>6. CASE kind = "Event"
  <2>1. PICK name \in EventsOf(r.act) :
          s = [r.at EXCEPT !.phase = "Event", !.event = EventAt(name, 0)]
    BY <1>6 DEF Entered
  <2> DEFINE e == EventAt(name, 0)
  <2>2. name \in Befall(r.act) \union Shrines \union OneTime(r.act)
    BY <2>1 DEF EventsOf
  <2>3. name \in Act1Events \union Act2Events \union Act3Events \union Shrines
                   \union UNION {OneTime(a) : a \in 1..3}
    BY <1>1, <1>6, <2>2 DEF Befall
  <2>4. name \notin {"Neow", "SpireHeart"}
    <3>1. \A a : OneTime(a) \intersect {"Neow", "SpireHeart"} = {}
      BY DEF OneTime
    <3>2. (Befall(r.act) \union Shrines) \intersect {"Neow", "SpireHeart"} = {}
      BY DEF Befall, Act1Events, Act2Events, Act3Events, Shrines
    <3> QED BY <2>2, <3>1, <3>2
  <2>5. e \in EventType /\ e.name = name /\ e.stage = 0
    BY <2>3 DEF EventType, EventAt
  <2>6. e # Nil
    BY <2>5, NilAssumption
  <2>7. s = [r.at EXCEPT !.phase = "Event", !.event = e]
    BY <2>1
  <2> HIDE DEF e
  <2> QED BY <1>2, <1>6, <2>4, <2>5, <2>6, <2>7 DEF ScreenType, Phases
<1>7. CASE kind \in {"Combat", "Elite", "Boss"}
  <2>1. s = [r.at EXCEPT !.phase = "Combat"]
    BY <1>7 DEF Entered
  <2> QED BY <1>2, <1>7, <2>1 DEF ScreenType, Phases
<1> QED BY <1>1, <1>3, <1>4, <1>5, <1>6, <1>7

LEMMA EnterRoomKeeps ==
  ASSUME Safe(run, visit), EnterRoom
  PROVE  Safe(run', visit')
<1>1. run \in RunType /\ Sound(run, visit) /\ run.at.phase = "Idle" /\ run.grid = Nil
  BY DEF EnterRoom, Here, Safe, Good
<1>2. /\ run.at.event = Nil /\ run.at.shop = Nil /\ run.at.treasure = Nil
      /\ run.at.reward = Nil /\ ~run.at.restDone /\ ~run.at.emerald /\ ~run.at.merchant
      /\ run.chestOpened = FALSE /\ run.reserved = FALSE /\ run.promise = "no"
      /\ run.outcome = Nil
  BY <1>1, RunFields DEF Sound, Screens, PayloadHasPhase, OutcomeAtEnd
<1>16. PICK kind \in Reachable(run) :
         \E at \in Entered(run, kind) : run' = InRoom(run, kind, at)
  BY DEF EnterRoom
<1>3. PICK s \in Entered(run, kind) : run' = InRoom(run, kind, s)
  BY <1>16
<1>4. /\ s \in ScreenType /\ s.reward = Nil /\ ~s.emerald /\ ~s.restDone /\ ~s.merchant
      /\ kind \in {"Combat", "Elite", "Boss", "Rest", "Shop", "Treasure", "Event"}
      /\ s.event # Nil <=> kind = "Event"
      /\ s.event # Nil => s.event.stage = 0 /\ s.event.name \notin {"Neow", "SpireHeart"}
      /\ s.shop # Nil <=> kind = "Shop"
      /\ s.treasure # Nil <=> kind = "Treasure"
      /\ s.treasure # Nil => s.treasure.link = Nil
      /\ s.phase = (IF kind \in {"Combat", "Elite", "Boss"} THEN "Combat" ELSE kind)
  BY <1>1, <1>2, <1>3, EnteredScreens
<1> DEFINE q == InRoom(run, kind, s)
           fight == IF s.phase = "Combat" THEN "map" ELSE Nil
<1>5. q = [run EXCEPT !.under = Nil, !.room = kind, !.at = s, !.fight = fight]
  BY DEF InRoom
<1>6. kind \in Rooms /\ fight \in Fights \union {Nil}
  BY <1>4 DEF Rooms, Fights
<1>7. /\ fight # Nil <=> s.phase = "Combat"
      /\ fight # "first" /\ fight # "colosseum"
  BY NilIsNoName DEF Fights
<1> HIDE DEF q, fight
<1>8. /\ q \in RunType /\ q.at = s /\ q.under = Nil /\ q.grid = Nil
      /\ q.room = kind /\ q.act = run.act /\ q.keys = run.keys
      /\ q.chestOpened = FALSE /\ q.reserved = FALSE
      /\ q.promise = "no" /\ q.fight = fight /\ q.outcome = Nil
  BY <1>1, <1>2, <1>4, <1>5, <1>6 DEF RunType
<1>9. Linked(q) = Nil
  BY <1>4, <1>8 DEF Linked
<1>10. s.event # Nil => RoomOf(s.event) = "Event"
  BY <1>4 DEF RoomOf
<1>11. Screens(q)
  <2>1. run.keys # {} => FinalAct
    BY <1>1 DEF Sound, Screens
  <2>2. PhaseHasPayload(q)
    BY <1>4, <1>8 DEF PhaseHasPayload, Boss
  <2>3. PayloadHasPhase(q)
    BY <1>4, <1>7, <1>8, <1>9 DEF PayloadHasPhase
  <2>4. PayloadInRoom(q) /\ LastActs(q)
    BY <1>4, <1>7, <1>8, <1>10 DEF PayloadInRoom, LastActs, FinalBoss, Boss
  <2>5. OutcomeAtEnd(q)
    BY <1>8, NilIsNoName DEF OutcomeAtEnd, Outcomes
  <2> QED BY <1>8, <2>1, <2>2, <2>3, <2>4, <2>5 DEF Screens
<1>12. Owned(q) /\ RewardFlow(q) /\ Overlaid(q)
  BY <1>4, <1>8 DEF Owned, RewardFlow, Overlaid, GridHasOwner, NeowLeaves
<1>13. Stages(q)
  <2>1. s.event # Nil => 0 <= LastStage(s.event.name)
    BY DEF LastStage
  <2> QED BY <1>4, <1>8, <2>1 DEF Stages, EventHasStage
<1>14. visit' = Fresh /\ Once(visit') /\ Unused(q, visit')
  BY <1>9 DEF EnterRoom, Fresh, Once, Things, Unused
<1>15. Standing(q, visit')
  BY <1>8, <1>11, <1>12, <1>13, <1>14 DEF Standing, Sound
<1> QED BY <1>3, <1>14, <1>15, StandingIsGood DEF Safe, q

------------------------------------------------------------------------------
(* Card grids *)

LEMMA GridOpen ==
  ASSUME Safe(run, visit), run.grid # Nil
  PROVE  /\ Standing(run, visit) /\ run \in RunType /\ run.at \in ScreenType
         /\ run.grid \in GridType /\ run.grid.purpose \in GridPurposes
         /\ run.grid.picked \in Nat /\ GridHasOwner(run)
<1>1. Standing(run, visit) /\ run \in RunType /\ GridHasOwner(run)
  BY StandsElsewhere DEF Standing, Sound, Overlaid
<1> QED BY <1>1, RunFields DEF GridType

LEMMA PickedKeeps ==
  ASSUME Safe(run, visit), run.grid # Nil, NEW k \in Nat,
         Stays([run EXCEPT !.grid.picked = k])
  PROVE  Safe(run', visit')
<1> DEFINE g == [run.grid EXCEPT !.picked = k]
           q == [run EXCEPT !.grid = g]
<1>1. Stays(q)
  OBVIOUS
<1>2. /\ g \in GridType /\ g.purpose = run.grid.purpose /\ g.need = run.grid.need
  BY GridOpen DEF GridType
<1> HIDE DEF g
<1>3. q.at = run.at /\ q.grid = g /\ q.room = run.room /\ q.chestOpened = run.chestOpened
  BY GridOpen DEF RunType
<1>4. GridOwners(g) = GridOwners(run.grid)
  BY <1>2 DEF GridOwners
<1> HIDE DEF q
<1>5. GridHasOwner(q)
  BY <1>2, <1>3, <1>4, GridOpen DEF GridHasOwner, AtMerchant, AtNeow, InBossChest, Boss
<1>6. NeowLeaves(q)
  BY <1>3, GridOpen DEF Standing, Sound, Overlaid, NeowLeaves, AtNeow
<1>7. q = [run EXCEPT !.grid = g]
  BY DEF q
<1>8. Standing(q, visit)
  BY <1>2, <1>5, <1>6, <1>7, GridOpen, GridChanged DEF Overlaid
<1> QED BY <1>1, <1>8, StandingIsGood, StaysKeeps

\* An event back from its grid is at a screen it has.
LEMMA LeaveStageIsThere ==
  ASSUME NEW g, g.purpose \in EventGrids, NEW name, NEW k, <<name, k>> \in GridOwners(g)
  PROVE  LET stage == LeaveStage(name, g.purpose) IN
         /\ stage \in 0..5 /\ stage <= LastStage(name)
         /\ name \in {"Duplicator", "Purifier"} => stage # 1
         /\ name # "DeadAdventurer"
<1>1. CASE g.purpose = "RemoveReturn"
  <2>1. name \in {"WingStatue", "TheCleric", "LivingWall", "Purifier", "BackToBasics",
                  "Designer", "NoteForYourself", "Falling", "WheelOfChange"}
    BY <1>1 DEF GridOwners
  <2> QED BY <1>1, <2>1 DEF LeaveStage, LastStage
<1>2. CASE g.purpose = "ObtainReturn"
  <2>1. name \in {"TheLibrary", "Duplicator"}
    BY <1>2 DEF GridOwners
  <2> QED BY <1>2, <2>1 DEF LeaveStage, LastStage
<1>3. CASE g.purpose = "UpgradeReturn"
  <2>1. name \in {"Designer", "AccursedBlacksmith", "UpgradeShrine", "LivingWall"}
    BY <1>3 DEF GridOwners
  <2> QED BY <1>3, <2>1 DEF LeaveStage, LastStage
<1>4. CASE g.purpose = "TransformReturn"
  <2>1. name \in {"Designer", "DrugDealer", "Transmorgrifier", "LivingWall"}
    BY <1>4 DEF GridOwners
  <2> QED BY <1>4, <2>1 DEF LeaveStage, LastStage
<1>5. CASE g.purpose \in {"Bonfire", "RemoveAndUpgrade"}
  <2>1. name \in {"BonfireElementals", "Designer"}
    BY <1>5 DEF GridOwners
  <2> QED BY <1>5, <2>1 DEF LeaveStage, LastStage
<1> QED BY <1>1, <1>2, <1>3, <1>4, <1>5 DEF EventGrids

LEMMA CallingBellSound ==
  ASSUME NEW cont \in {"Neow", "Treasure"}
  PROVE  LET w == [Offers(cont) EXCEPT !.relics = <<"idol", "coin", "mask">>] IN
         /\ w \in RewardType /\ CardFlow(w) /\ IsInjective(w.relics)
         /\ w.cont = cont /\ ~w.boss
<1>1. <<"idol", "coin", "mask">> \in Seq(RelicOffers)
  BY DEF RelicOffers
<1>2. IsInjective(<<"idol", "coin", "mask">>)
  <2> DEFINE s == <<"idol", "coin", "mask">>
  <2>1. DOMAIN s = 1..3 /\ s[1] = "idol" /\ s[2] = "coin" /\ s[3] = "mask"
    OBVIOUS
  <2> HIDE DEF s
  <2>2. IsInjective(s)
    BY <2>1 DEF IsInjective
  <2> QED BY <2>2 DEF s
<1>3. cont \in Conts
  BY ContNames
<1> QED BY <1>1, <1>2, <1>3, RelicsSound

\* What a grid leaves behind, but for the campfire's and the merchant's own.
LEMMA ResolvedGood ==
  ASSUME NEW r, NEW v, Standing(r, v), r.grid # Nil, NEW done, done = [r EXCEPT !.grid = Nil],
         r.grid.purpose \notin {"RestSmith", "RestRemove", "ShopRemove"}
  PROVE  Good(Resolved(r), v)
<1>1. /\ r \in RunType /\ GridHasOwner(r) /\ NeowLeaves(r) /\ r.grid \in GridType
      /\ r.grid.purpose \in GridPurposes
  BY RunFields DEF Standing, Sound, Overlaid, GridType
<1>2. /\ Standing(done, v) /\ done.grid = Nil /\ done.at = r.at /\ done.room = r.room
      /\ done.chestOpened = r.chestOpened /\ done \in RunType /\ done.at \in ScreenType
  BY <1>1, GridClosed, RunFields DEF RunType, Standing
<1>3. CASE r.grid.purpose = "CallingBell"
  <2>1. Resolved(r) = CallingBellScreen(done)
    BY <1>3 DEF Resolved, EventGrids
  <2> DEFINE cont == IF done.at.event # Nil /\ done.at.event.name = "Neow" THEN "Neow"
                     ELSE "Treasure"
             w == [Offers(cont) EXCEPT !.relics = <<"idol", "coin", "mask">>]
  <2>2. /\ w \in RewardType /\ CardFlow(w) /\ IsInjective(w.relics) /\ w.cont = cont
        /\ ~w.boss
    BY CallingBellSound
  <2>3. Resolved(r) = Showing(done, w)
    BY <2>1 DEF CallingBellScreen
  <2> HIDE DEF w
  <2>4. CASE AtNeow(r)
    <3>1. done.at.phase = "Event" /\ done.at.event # Nil /\ done.at.event.name = "Neow"
          /\ done.at.event.stage = 2
      BY <1>1, <1>2, <2>4 DEF AtNeow, NeowLeaves, Standing
    <3>2. done.at.event = EventAt("Neow", 2)
      BY <1>2, <3>1, OfAnEvent DEF EventType, EventAt
    <3>3. cont = "Neow"
      BY <3>1
    <3>4. Standing(Showing(done, w), v)
      BY <1>2, <2>2, <3>1, <3>2, <3>3, ShowingStands
    <3> QED BY <2>3, <3>4, StandingIsGood
  <2>5. CASE InBossChest(r)
    <3>1. InBossChest(done) /\ done.at.phase = "Treasure"
      BY <1>2, <2>5 DEF InBossChest, Boss
    <3>2. done.at.event = Nil
      BY <1>2, <3>1, BossPayloads DEF InBossChest
    <3>3. cont = "Treasure"
      BY <3>2
    <3>4. Standing(Showing(done, w), v)
      BY <1>2, <2>2, <3>1, <3>3, ShowingStands
    <3> QED BY <2>3, <3>4, StandingIsGood
  <2> QED BY <1>1, <1>3, <2>4, <2>5 DEF GridHasOwner
<1>4. CASE r.grid.purpose \in {"NeowRemove", "NeowUpgrade", "NeowTransform"}
  <2>1. Resolved(r) = [done EXCEPT !.at.phase = "Event", !.at.event = EventAt("Neow", 2)]
    BY <1>4 DEF Resolved, EventGrids
  <2>2. AtNeow(r)
    BY <1>1, <1>4 DEF GridHasOwner
  <2>3. done.at.phase = "Event" /\ done.at.event # Nil /\ done.at.event.name = "Neow"
        /\ done.at.event.stage = 2
    BY <1>1, <1>2, <2>2 DEF AtNeow, NeowLeaves, Standing
  <2>4. done.at.event = EventAt("Neow", 2)
    BY <1>2, <2>3, OfAnEvent DEF EventType, EventAt
  <2>5. Resolved(r) = done
    <3> DEFINE e == EventAt("Neow", 2)
    <3>1. Resolved(r) = [done EXCEPT !.at.phase = "Event", !.at.event = e] /\ done.at.event = e
      BY <2>1, <2>4
    <3> HIDE DEF e
    <3>2. [done.at EXCEPT !.phase = "Event", !.event = e] = done.at
      BY <1>2, <2>3, <3>1 DEF ScreenType
    <3>3. Resolved(r) = [done EXCEPT !.at = [done.at EXCEPT !.phase = "Event", !.event = e]]
      BY <1>2, <3>1 DEF RunType, ScreenType
    <3>4. [done EXCEPT !.at = done.at] = done
      BY <1>2 DEF RunType
    <3> QED BY <3>2, <3>3, <3>4
  <2> QED BY <1>2, <2>5, StandingIsGood
<1>5. CASE r.grid.purpose = "EventRemove"
  <2>1. Resolved(r) = OpenMap(done)
    BY <1>5 DEF Resolved, EventGrids
  <2>2. done.at.phase = "Event" /\ done.at.event # Nil
        /\ <<done.at.event.name, done.at.event.stage>> = <<"Beggar", 2>>
    BY <1>1, <1>2, <1>5 DEF GridHasOwner, GridOwners
  <2>3. done.at.event = EventAt("Beggar", 2) /\ InEvent(done, v, "Beggar")
    BY <1>2, <2>2, OfAnEvent DEF EventType, EventAt, InEvent
  <2>4. 2 \in LeavesAt("Beggar")
    BY DEF LeavesAt, TwoScreens, ThreeScreens
  <2>5. Good(OpenMap(done), v)
    BY <2>3, <2>4, LeaveConcluded, LeaveGood DEF Leave
  <2> QED BY <2>1, <2>5
<1>6. CASE r.grid.purpose \in EventGrids
  <2> DEFINE name == r.at.event.name
             k == LeaveStage(name, r.grid.purpose)
  <2>1. Resolved(r) = At(done, k)
    BY <1>6 DEF Resolved, EventGrids
  <2>2. r.at.phase = "Event" /\ r.at.event # Nil
        /\ <<name, r.at.event.stage>> \in GridOwners(r.grid)
    BY <1>1, <1>6 DEF GridHasOwner, EventGrids
  <2>3. /\ k \in 0..5 /\ k <= LastStage(name)
        /\ name \in {"Duplicator", "Purifier"} => k # 1
        /\ name # "DeadAdventurer"
    BY <1>6, <2>2, LeaveStageIsThere
  <2>4. InEvent(done, v, name)
    BY <1>2, <2>2 DEF InEvent
  <2> HIDE DEF k, name
  <2>5. Good(At(done, k), v)
    BY <2>3, <2>4, AtInEvent
  <2> QED BY <2>1, <2>5
<1>7. CASE r.grid.purpose \in {"Bottle", "EmptyCage", "PandorasBox", "Astrolabe",
                               "DollysMirror"}
  <2>1. \/ Resolved(r) = done
        \/ r.at.reward # Nil /\ Resolved(r) = [done EXCEPT !.at.phase = "Reward"]
    BY <1>7 DEF Resolved, EventGrids
  <2>2. CASE r.at.reward # Nil /\ Resolved(r) = [done EXCEPT !.at.phase = "Reward"]
    <3>1. done.at.phase = "Reward"
      BY <1>2, <2>2 DEF Standing, Sound, Screens, PayloadHasPhase
    <3>2. [done EXCEPT !.at.phase = "Reward"] = done
      <4>1. done.at = [done.at EXCEPT !.phase = "Reward"]
        BY <1>2, <3>1 DEF ScreenType
      <4>2. done = [done EXCEPT !.at = done.at]
        BY <1>2 DEF RunType
      <4> QED BY <4>1, <4>2
    <3> QED BY <1>2, <2>2, <3>2, StandingIsGood
  <2> QED BY <1>2, <2>1, <2>2, StandingIsGood
<1> QED BY <1>1, <1>3, <1>4, <1>5, <1>6, <1>7 DEF GridPurposes

LEMMA ResolveKeeps ==
  ASSUME Safe(run, visit), run.grid # Nil, Resolve(run)
  PROVE  Safe(run', visit')
<1> DEFINE done == [run EXCEPT !.grid = Nil]
<1>1. /\ Standing(run, visit) /\ run \in RunType /\ GridHasOwner(run)
      /\ run.grid.purpose \in GridPurposes
  BY GridOpen
<1>2. /\ Standing(done, visit) /\ done.grid = Nil /\ done.at = run.at /\ done.keys = run.keys
      /\ done \in RunType /\ done.at \in ScreenType
  BY <1>1, GridClosed, RunFields DEF RunType, Standing
<1>3. CASE run.grid.purpose \in {"RestSmith", "RestRemove"}
  <2>1. Resolved(run) = [Rested(done) EXCEPT !.at.phase = "Rest"]
    BY <1>3 DEF Resolved, EventGrids
  <2>2. Became(Resolved(run), {"campfire"})
    BY <1>3 DEF Resolve
  <2>3. done.at.phase = "Rest" /\ ~done.at.restDone
    BY <1>1, <1>2, <1>3 DEF GridHasOwner
  <2>4. done.at.reward = Nil /\ visit["campfire"] = 0
    BY <1>2, <2>3 DEF Standing, Sound, Screens, PayloadHasPhase, Unused
  <2> HIDE DEF done
  <2>5. Resolved(run) = Warmed(done, "Rest", Nil, done.keys)
    <3> DEFINE s == [done.at EXCEPT !.phase = "Rest", !.reward = Nil, !.restDone = TRUE]
    <3>1. [Rested(done) EXCEPT !.at.phase = "Rest"]
          = [done EXCEPT !.at = [done.at EXCEPT !.restDone = TRUE, !.phase = "Rest"]]
      BY <1>2 DEF Rested, RunType, ScreenType
    <3>2. [done.at EXCEPT !.restDone = TRUE, !.phase = "Rest"] = s
      BY <1>2, <2>4 DEF ScreenType
    <3>3. Warmed(done, "Rest", Nil, done.keys) = [done EXCEPT !.at = s]
      BY <1>2 DEF Warmed, RunType, ScreenType
    <3> QED BY <2>1, <3>1, <3>2, <3>3
  <2>6. /\ run' = Resolved(run) /\ Once(visit')
        /\ SameBut(visit', visit, {"campfire"})
    BY <2>2, <2>4, BecameOnce DEF Things, SameBut
  <2>7. Standing(Warmed(done, "Rest", Nil, done.keys), visit')
    BY <1>2, <2>3, <2>6, WarmedStands
  <2> QED BY <2>5, <2>6, <2>7, StandingIsGood DEF Safe
<1>4. CASE run.grid.purpose = "ShopRemove"
  <2> DEFINE shop == [done.at.shop EXCEPT !.remove = FALSE]
             q == Shopping(done, done.at.merchant, shop)
  <2>1. Resolved(run) = [done EXCEPT !.at.shop.remove = FALSE]
    BY <1>4 DEF Resolved, EventGrids
  <2>2. Became(Resolved(run), {"removal"})
    BY <1>4 DEF Resolve
  <2>3. done.at.phase = "Shop" /\ done.at.shop # Nil /\ done.at.shop.remove
    BY <1>1, <1>2, <1>4 DEF GridHasOwner, AtMerchant
  <2>4. visit["removal"] = 0
    BY <1>2, <2>3 DEF Standing, Sound, Unused
  <2> HIDE DEF done
  <2>5. shop \in ShopType /\ shop.remove = FALSE /\ done.at.merchant \in BOOLEAN
    BY <1>2, <2>3, AtShop DEF ShopType
  <2>6. Resolved(run) = q
    <3>1. Resolved(run) = [done EXCEPT !.at.shop = shop]
      BY <2>1
    <3> HIDE DEF shop
    <3>2. [done.at EXCEPT !.merchant = done.at.merchant, !.shop = shop]
          = [done.at EXCEPT !.shop = shop]
      BY <1>2 DEF ScreenType
    <3>3. q = [done EXCEPT !.at = [done.at EXCEPT !.merchant = done.at.merchant,
                                                  !.shop = shop]]
      BY <1>2 DEF Shopping, RunType, ScreenType
    <3>4. [done EXCEPT !.at.shop = shop]
          = [done EXCEPT !.at = [done.at EXCEPT !.shop = shop]]
      BY <1>2 DEF RunType, ScreenType
    <3> QED BY <3>1, <3>2, <3>3, <3>4
  <2>7. /\ run' = Resolved(run) /\ Once(visit')
        /\ SameBut(visit', visit, {"removal"})
    BY <2>2, <2>4, BecameOnce DEF Things, SameBut
  <2> HIDE DEF shop
  <2>8. Standing(q, visit')
    BY <1>2, <2>3, <2>5, <2>7, ShoppingStands
  <2> QED BY <2>6, <2>7, <2>8, StandingIsGood DEF Safe
<1>5. CASE run.grid.purpose \notin {"RestSmith", "RestRemove", "ShopRemove"}
  <2>1. Stays(Resolved(run))
    BY <1>5 DEF Resolve, Stays
  <2>2. Good(Resolved(run), visit)
    BY <1>1, <1>5, ResolvedGood
  <2> QED BY <2>1, <2>2, StaysKeeps
<1> QED BY <1>3, <1>4, <1>5

LEMMA GridSelectKeeps ==
  ASSUME Safe(run, visit), GridSelect
  PROVE  Safe(run', visit')
<1>1. run.grid # Nil /\ run.grid.picked \in Nat
  BY GridOpen DEF GridSelect
<1>2. CASE Resolve(run)
  BY <1>1, <1>2, ResolveKeeps
<1>3. CASE Stays([run EXCEPT !.grid.picked = @ + 1])
  BY <1>1, <1>3, PickedKeeps
<1>4. CASE run.grid.picked > 0 /\ Stays([run EXCEPT !.grid.picked = @ - 1])
  <2>1. run.grid.picked - 1 \in Nat
    BY <1>1, <1>4
  <2> QED BY <1>1, <1>4, <2>1, PickedKeeps
<1> QED BY <1>2, <1>3, <1>4 DEF GridSelect

LEMMA GridCancelKeeps ==
  ASSUME Safe(run, visit), GridCancel
  PROVE  Safe(run', visit')
<1>1. run.grid # Nil /\ Standing(run, visit)
  BY GridOpen DEF GridCancel
<1>2. CASE Stays([run EXCEPT !.grid.picked = 0])
  BY <1>1, <1>2, PickedKeeps
<1>3. CASE Stays([run EXCEPT !.grid = Nil])
  BY <1>1, <1>3, GridClosed, StandingIsGood, StaysKeeps
<1> QED BY <1>2, <1>3 DEF GridCancel

------------------------------------------------------------------------------
(* The invariant *)

LEMMA InitIsSafe ==
  ASSUME Init
  PROVE  Safe(run, visit)
<1> DEFINE e == EventAt("Neow", 0)
           s == [Screen EXCEPT !.phase = "Event", !.event = e]
<1>1. e \in EventType /\ e.name = "Neow" /\ e.stage = 0 /\ e # Nil
  <2>1. e \in EventType /\ e.name = "Neow" /\ e.stage = 0
    BY DEF EventAt, EventType
  <2> QED BY <2>1, NilAssumption
<1>2. run = [at |-> s, under |-> Nil, grid |-> Nil, room |-> "Start", act |-> 1,
             keys |-> {}, chestOpened |-> FALSE, reserved |-> FALSE, promise |-> "no",
             fight |-> Nil, outcome |-> Nil]
  BY DEF Init
<1> HIDE DEF e
<1>3. /\ s \in ScreenType /\ s.phase = "Event" /\ s.event = e /\ s.reward = Nil
      /\ s.shop = Nil /\ s.merchant = FALSE /\ s.treasure = Nil /\ s.restDone = FALSE
      /\ s.emerald = FALSE
  BY <1>1 DEF Screen, ScreenType, Phases
<1> HIDE DEF s
<1>4. /\ run \in RunType /\ run.at = s /\ run.under = Nil /\ run.grid = Nil
      /\ run.room = "Start" /\ run.act = 1 /\ run.keys = {} /\ run.chestOpened = FALSE
      /\ run.reserved = FALSE /\ run.promise = "no" /\ run.fight = Nil /\ run.outcome = Nil
  BY <1>2, <1>3 DEF RunType, Rooms
<1>5. Screens(run)
  BY <1>1, <1>3, <1>4, NilIsNoName DEF Screens, PhaseHasPayload, PayloadHasPhase,
    PayloadInRoom, LastActs, OutcomeAtEnd, Linked, Boss, FinalBoss, RoomOf, Fights,
    Outcomes
<1>6. Stages(run) /\ Overlaid(run) /\ Owned(run) /\ RewardFlow(run)
  BY <1>1, <1>3, <1>4 DEF Stages, EventHasStage, LastStage, Overlaid, GridHasOwner,
    NeowLeaves, Owned, RewardFlow
<1>7. visit = Fresh /\ Once(visit) /\ Unused(run, visit)
  BY <1>3, <1>4 DEF Init, Fresh, Once, Things, Unused, Linked
<1> QED BY <1>4, <1>5, <1>6, <1>7 DEF Safe, Good, Sound

LEMMA RewardsKeep ==
  ASSUME Safe(run, visit), OnRewards
  PROVE  Safe(run', visit')
<1>1. CASE OpenCardReward \/ CloseCardReward \/ TakeCardReward \/ SkipReward
  BY <1>1, OpenCardRewardKeeps, CloseCardRewardKeeps, TakeCardRewardKeeps,
    SkipRewardKeeps
<1>2. CASE TakeCoins \/ TakePotionReward \/ SkipPotionReward
  BY <1>2, CoinsAndPotionsKeep
<1>3. CASE TakeRelicReward \/ TakeSapphireKey \/ TakeEmeraldKey
  BY <1>3, TakeRelicRewardKeeps, TakeSapphireKeyKeeps, TakeEmeraldKeyKeeps
<1>4. CASE ChooseBossRelic \/ RewardProceed
  BY <1>4, ChooseBossRelicKeeps, RewardProceedKeeps
<1> QED BY <1>1, <1>2, <1>3, <1>4 DEF OnRewards

LEMMA RoomsKeep ==
  ASSUME Safe(run, visit), InRooms
  PROVE  Safe(run', visit')
<1>1. CASE OpenChest \/ TreasureProceed \/ UseCampfire \/ OpenCampfireGrid
  BY <1>1, OpenChestKeeps, TreasureProceedKeeps, UseCampfireKeeps, OpenCampfireGridKeeps
<1>2. CASE RestProceed \/ ShopProceed \/ EnterShop \/ LeaveShop
  BY <1>2, RoomProceeds, MerchantKeeps
<1>3. CASE OpenShopRemove \/ BuyShopRelic
  BY <1>3, OpenShopRemoveKeeps, BuyShopRelicKeeps
<1> QED BY <1>1, <1>2, <1>3 DEF InRooms

LEMMA NextKeeps ==
  ASSUME Safe(run, visit), [Next]_vars
  PROVE  Safe(run', visit')
<1>1. CASE OnMap
  BY <1>1, MapReturnKeeps, EnterRoomKeeps DEF OnMap
<1>2. CASE InCombat
  <2>1. CASE WinCombat \/ WinByPotionOrChoice \/ SmokeBomb
    BY <2>1, WinCombatKeeps, WinByPotionOrChoiceKeeps, SmokeBombKeeps
  <2>2. CASE LoseCombat \/ LossProceed \/ VictoryProceed
    BY <2>2, LoseCombatKeeps, LossProceedKeeps, VictoryProceedKeeps
  <2> QED BY <1>2, <2>1, <2>2 DEF InCombat
<1>3. CASE OnRewards
  BY <1>3, RewardsKeep
<1>4. CASE InRooms
  BY <1>4, RoomsKeep
<1>5. CASE Choose
  BY <1>5, ChooseKeeps
<1>6. CASE OnGrid
  <2>1. CASE GridSelect
    BY <2>1, GridSelectKeeps
  <2>2. CASE GridConfirm
    BY <2>2, ResolveKeeps DEF GridConfirm
  <2>3. CASE GridCancel
    BY <2>3, GridCancelKeeps
  <2> QED BY <1>6, <2>1, <2>2, <2>3 DEF OnGrid
<1>7. CASE UNCHANGED vars
  BY <1>7 DEF vars
<1> QED BY <1>1, <1>2, <1>3, <1>4, <1>5, <1>6, <1>7 DEF Next

\* Every screen, with what it suspends and what the visit used up, is one the
\* owners of its payloads agree about.
LEMMA AlwaysSafe == Spec => []Safe(run, visit)
<1>1. Init => Safe(run, visit)
  BY InitIsSafe
<1>2. Safe(run, visit) /\ [Next]_vars => Safe(run, visit)'
  BY NextKeeps
<1> QED BY <1>1, <1>2, PTL DEF Spec

LEMMA SafeIsValid ==
  ASSUME Safe(run, visit)
  PROVE  EveryBoundaryValidates
<1>1. run \in RunType /\ Valid(run)
  BY SoundIsValid DEF Safe, Good
<1>2. ASSUME run.under # Nil
      PROVE  /\ run.at.phase = "Idle"
             /\ run.under.phase \in {"Event", "Reward", "Rest", "Shop", "Treasure"}
             /\ Valid(MapReturned(run))
  <2>1. Suspends(run, visit)
    BY <1>2 DEF Safe, Good
  <2>2. MapReturned(run) \in RunType
    BY <1>1, <1>2, RunFields DEF MapReturned, RunType
  <2> QED BY <2>1, <2>2, SoundIsValid DEF Suspends
<1> QED BY <1>1, <1>2 DEF EveryBoundaryValidates

LEMMA SafeIsConcluded ==
  ASSUME Safe(run, visit)
  PROVE  EventConcluded
<1> DEFINE back == MapReturned(run)
<1>1. ASSUME run.under # Nil, run.under.phase = "Event"
      PROVE  \/ run.under.event \in {EventAt("LivingWall", 0), EventAt("Colosseum", 2)}
             \/ Offered(back) = Leave(back)
  <2>1. Concluded(run.under.event) /\ run \in RunType
    BY <1>1 DEF Safe, Good, Suspends
  <2>2. back.at.event = run.under.event
    BY <2>1 DEF MapReturned, RunType
  <2> HIDE DEF back
  <2> QED BY <2>1, <2>2 DEF Concluded
<1> QED BY <1>1 DEF EventConcluded

------------------------------------------------------------------------------
(* The theorems *)

\* RunState::validate accepts the state between any two decisions, and the room
\* a dismissable map would give back: every payload has the phase and the room
\* it belongs to, every reward screen and every grid the one owner that its
\* closing goes back to.
THEOREM BoundariesValidate == Spec => []EveryBoundaryValidates
BY AlwaysSafe, SafeIsValid, PTL

\* What a room gives once (its campfire, its chest, its boss relics, the card
\* removal of its merchant, the linked relic or the sapphire key) it gives once,
\* however often the map is opened over it and dismissed.
THEOREM RoomsGiveOnce == Spec => []OncePerRoom
<1>1. Safe(run, visit) => OncePerRoom
  BY DEF Safe, Once, OncePerRoom
<1> QED BY <1>1, AlwaysSafe, PTL

\* The map is opened over an event when nothing is left of it to take: all its
\* screen offers is the map.
THEOREM MapAfterEvent == Spec => []EventConcluded
BY AlwaysSafe, SafeIsConcluded, PTL

------------------------------------------------------------------------------
(* The relics of a reward screen *)

OffersLeft(o, w) ==
  /\ Len(w.relics) >= Len(o.relics) - 1
  /\ \A i \in DOMAIN w.relics : \E j \in DOMAIN o.relics : w.relics[i] = o.relics[j]

\* From a screen to the same screen with at most one relic less, or to none.
OffersFollow(r, q) ==
  r.at.reward # Nil /\ q.at.reward # Nil => OffersLeft(r.at.reward, q.at.reward)

LEMMA SameRelics ==
  ASSUME NEW o \in RewardType, NEW w, w.relics = o.relics
  PROVE  OffersLeft(o, w)
<1>1. Len(o.relics) \in Nat
  BY DEF RewardType
<1> QED BY <1>1 DEF OffersLeft

LEMMA RelicGone ==
  ASSUME NEW o \in RewardType, IsInjective(o.relics), NEW x,
         NEW w, w.relics = Without(o.relics, x)
  PROVE  OffersLeft(o, w)
<1>1. o.relics \in Seq(RelicOffers) /\ Len(o.relics) \in Nat
  BY DEF RewardType
<1>2. ToSet(w.relics) = ToSet(o.relics) \ {x}
  BY <1>1, SetOfWithout
<1>3. Len(w.relics) >= Len(o.relics) - 1
  <2>1. CASE x \in ToSet(o.relics)
    <3>1. Len(w.relics) = Len(o.relics) - 1
      BY <1>1, <2>1, CountWithout
    <3> QED BY <1>1, <3>1
  <2>2. CASE x \notin ToSet(o.relics)
    <3>1. Len(w.relics) = Len(o.relics)
      BY <1>1, <2>2, LenWithout
    <3> QED BY <1>1, <3>1
  <2> QED BY <2>1, <2>2
<1>4. ASSUME NEW i \in DOMAIN w.relics
      PROVE  \E j \in DOMAIN o.relics : w.relics[i] = o.relics[j]
  <2>1. w.relics[i] \in ToSet(o.relics)
    BY <1>2 DEF ToSet
  <2> QED BY <2>1 DEF ToSet
<1> QED BY <1>3, <1>4 DEF OffersLeft

\* A screen that closes, and one on which something but a relic is taken.
LEMMA ScreenCloses ==
  ASSUME NEW r, r \in RunType, NEW proceeding
  PROVE  CloseReward(r, proceeding).at.reward = Nil
<1>1. r.at \in ScreenType
  BY RunFields
<1>2. OpenMap(r).at.reward = Nil
  BY BlankScreen, OpenMapFields
<1>3. BackToOwner(r).at.reward = Nil
  BY <1>1 DEF BackToOwner, RunType, ScreenType
<1> QED BY <1>2, <1>3 DEF CloseReward

LEMMA OtherTaken ==
  ASSUME Standing(run, visit), run.at.phase = "Reward",
         NEW w, w.relics = Reward.relics, NEW q, q = [run EXCEPT !.at.reward = w]
  PROVE  OffersFollow(run, q) /\ OffersFollow(run, ReturnIfEmpty(q))
<1>1. /\ run \in RunType /\ run.at \in ScreenType /\ Reward \in RewardType
  BY OnRewardScreen, RunFields DEF Reward, Standing
<1>2. q.at.reward = w
  BY <1>1 DEF RunType, ScreenType
<1>3. OffersFollow(run, q)
  BY <1>1, <1>2, SameRelics DEF OffersFollow, Reward
<1>4. OpenMap(q).at.reward = Nil
  BY BlankScreen, <1>1 DEF OpenMap, RunType
<1>5. BackToOwner(q).at.reward = Nil
  BY <1>1 DEF BackToOwner, RunType, ScreenType
<1>6. CloseReward(q, FALSE).at.reward = Nil
  BY <1>4, <1>5 DEF CloseReward
<1>7. ReturnIfEmpty(q) = q \/ ReturnIfEmpty(q).at.reward = Nil
  BY <1>6 DEF ReturnIfEmpty
<1>8. OffersFollow(run, ReturnIfEmpty(q))
  <2>1. CASE ReturnIfEmpty(q).at.reward = Nil
    BY <2>1 DEF OffersFollow
  <2>2. CASE ReturnIfEmpty(q) = q
    BY <1>3, <2>2
  <2> QED BY <1>7, <2>1, <2>2
<1> QED BY <1>3, <1>8

LEMMA CardsFollow ==
  ASSUME Safe(run, visit),
         OpenCardReward \/ CloseCardReward \/ TakeCardReward \/ (SkipReward /\ Reward.active)
  PROVE  OffersFollow(run, run')
<1>1. Standing(run, visit) /\ run.at.phase = "Reward" /\ Reward \in RewardType
  BY HereStands, OnRewardScreen DEF OpenCardReward, CloseCardReward, TakeCardReward,
    SkipReward, OnReward, Reward
<1> DEFINE taken == CardResolved(Reward)
           q == [run EXCEPT !.at.reward = taken]
<1>2. taken.relics = Reward.relics
  BY <1>1 DEF CardResolved, RewardType
<1>3. q = [run EXCEPT !.at.reward = CardResolved(@)]
  BY DEF Reward
<1> HIDE DEF taken
<1>4. OffersFollow(run, q) /\ OffersFollow(run, ReturnIfEmpty(q))
  BY <1>1, <1>2, OtherTaken
<1>5. CASE run' = ReturnIfEmpty([run EXCEPT !.at.reward = CardResolved(@)])
  BY <1>3, <1>4, <1>5
<1>6. CASE TakeCardReward \/ (SkipReward /\ Reward.active)
  BY <1>5, <1>6 DEF TakeCardReward, SkipReward, Stays, Became
<1>7. CASE OpenCardReward
  <2>1. PICK shown :
          run' = [run EXCEPT !.at.reward.active = TRUE, !.at.reward.shown = shown]
    BY <1>7 DEF OpenCardReward, Stays, Became
  <2> DEFINE w == [Reward EXCEPT !.active = TRUE, !.shown = shown]
             p == [run EXCEPT !.at.reward = w]
  <2>2. w.relics = Reward.relics
    BY <1>1 DEF RewardType
  <2>3. run' = p
    <3>1. run \in RunType /\ run.at \in ScreenType
      BY <1>1, RunFields DEF Standing
    <3> DEFINE s == [run.at EXCEPT !.reward.active = TRUE, !.reward.shown = shown]
    <3>2. run' = [run EXCEPT !.at = s]
      BY <2>1, <3>1 DEF RunType
    <3>3. s = [run.at EXCEPT !.reward = w]
      BY <1>1, <3>1 DEF Reward, ScreenType, RewardType
    <3> HIDE DEF s
    <3> QED BY <3>2, <3>3
  <2> HIDE DEF w
  <2>4. OffersFollow(run, p)
    BY <1>1, <2>2, OtherTaken
  <2> QED BY <2>3, <2>4
<1>8. CASE CloseCardReward
  <2> DEFINE w == [Reward EXCEPT !.active = FALSE]
             p == [run EXCEPT !.at.reward = w]
  <2>1. \/ run' = ReturnIfEmpty([run EXCEPT !.at.reward = CardResolved(@)])
        \/ run' = p
    BY <1>8 DEF CloseCardReward, Stays, Became, Reward
  <2>2. w.relics = Reward.relics
    BY <1>1 DEF RewardType
  <2> HIDE DEF w
  <2>3. OffersFollow(run, p)
    BY <1>1, <2>2, OtherTaken
  <2> QED BY <1>5, <2>1, <2>3
<1> QED BY <1>6, <1>7, <1>8

LEMMA CoinsAndPotionsFollow ==
  ASSUME Safe(run, visit), TakeCoins \/ TakePotionReward \/ SkipPotionReward
  PROVE  OffersFollow(run, run')
<1>1. Standing(run, visit) /\ run.at.phase = "Reward" /\ Reward \in RewardType
  BY HereStands, OnRewardScreen DEF TakeCoins, TakePotionReward, SkipPotionReward,
    OnReward, Reward
<1>2. CASE TakeCoins
  <2>1. PICK coin \in Reward.coins : run' = [run EXCEPT !.at.reward.coins = @ \ {coin}]
    BY <1>2 DEF TakeCoins, Stays, Became
  <2> DEFINE w == [Reward EXCEPT !.coins = @ \ {coin}]
             q == [run EXCEPT !.at.reward = w]
  <2>2. run' = q
    BY <2>1 DEF Reward
  <2>3. w.relics = Reward.relics
    BY <1>1 DEF RewardType
  <2> HIDE DEF w
  <2> QED BY <1>1, <2>2, <2>3, OtherTaken
<1>3. CASE TakePotionReward /\ run' = [run EXCEPT !.at.reward.potions = @ - 1]
  <2> DEFINE w == [Reward EXCEPT !.potions = @ - 1]
             q == [run EXCEPT !.at.reward = w]
  <2>1. run' = q
    BY <1>3 DEF Reward
  <2>2. w.relics = Reward.relics
    BY <1>1 DEF RewardType
  <2> HIDE DEF w
  <2> QED BY <1>1, <2>1, <2>2, OtherTaken
<1>4. CASE TakePotionReward /\ run' = [run EXCEPT !.at.reward.potion = FALSE]
  <2> DEFINE w == [Reward EXCEPT !.potion = FALSE]
             q == [run EXCEPT !.at.reward = w]
  <2>1. run' = q
    BY <1>4 DEF Reward
  <2>2. w.relics = Reward.relics
    BY <1>1 DEF RewardType
  <2> HIDE DEF w
  <2> QED BY <1>1, <2>1, <2>2, OtherTaken
<1>5. CASE SkipPotionReward
  <2> DEFINE w == [Reward EXCEPT !.potion = FALSE, !.potions = 0]
             q == [run EXCEPT !.at.reward = w]
  <2>1. run' = q
    BY <1>5 DEF SkipPotionReward, Stays, Became, Reward
  <2>2. w.relics = Reward.relics
    BY <1>1 DEF RewardType
  <2> HIDE DEF w
  <2> QED BY <1>1, <2>1, <2>2, OtherTaken
<1> QED BY <1>2, <1>3, <1>4, <1>5 DEF TakePotionReward, Stays, Became

LEMMA RelicsFollow ==
  ASSUME Safe(run, visit), TakeRelicReward \/ TakeSapphireKey
  PROVE  OffersFollow(run, run')
<1>1. Standing(run, visit) /\ run.at.phase = "Reward"
  BY HereStands DEF TakeRelicReward, TakeSapphireKey, OnReward
<1>2. /\ run \in RunType /\ run.at \in ScreenType /\ Reward \in RewardType
      /\ IsInjective(Reward.relics)
  BY <1>1, OnRewardScreen, RunFields DEF Standing, Reward
<1>3. ASSUME NEW x, NEW q, q.at.reward = [Reward EXCEPT !.relics = Without(Reward.relics, x)]
      PROVE  OffersFollow(run, q)
  <2> DEFINE w == [Reward EXCEPT !.relics = Without(Reward.relics, x)]
  <2>1. w.relics = Without(Reward.relics, x)
    BY <1>2 DEF RewardType
  <2>2. q.at.reward = w
    BY <1>3
  <2> HIDE DEF w
  <2>3. OffersLeft(Reward, w)
    BY <1>2, <2>1, RelicGone
  <2> QED BY <2>2, <2>3 DEF OffersFollow, Reward
<1>4. CASE TakeRelicReward
  <2>1. PICK i \in DOMAIN Reward.relics :
          \E r \in Gained(WithoutOffer(run, i), Reward.relics[i]) : run' = r
    BY <1>4 DEF TakeRelicReward, Became
  <2> DEFINE x == Reward.relics[i]
             w == [Reward EXCEPT !.relics = Without(Reward.relics, x)]
             taken == [run EXCEPT !.at.reward = w]
             q == WithoutOffer(run, i)
  <2>2. x \in RelicOffers /\ x # Nil
    <3>1. Reward.relics \in Seq(RelicOffers)
      BY <1>2 DEF RewardType
    <3> QED BY <2>1, <3>1, NilAssumption
  <2>3. \/ q = taken
        \/ q = [taken EXCEPT !.at.treasure.link = Nil]
    BY DEF WithoutOffer, Others, Reward
  <2> HIDE DEF w, q
  <2>4. /\ "at" \in DOMAIN taken /\ "reward" \in DOMAIN taken.at /\ taken.at.reward = w
        /\ "at" \in DOMAIN q
    <3>1. /\ "at" \in DOMAIN taken /\ "reward" \in DOMAIN taken.at
          /\ taken.at.reward = w
      BY <1>2 DEF RunType, ScreenType
    <3> HIDE DEF taken
    <3> QED BY <2>3, <3>1
  <2>5. q.at.reward = w
    <3> HIDE DEF taken
    <3>1. CASE q = taken
      BY <2>4, <3>1
    <3>2. CASE q = [taken EXCEPT !.at.treasure.link = Nil]
      BY <2>4, <3>2
    <3> QED BY <2>3, <3>1, <3>2
  <2>6. \/ run' = q
        \/ run' = OpenGrid(q, "Bottle", 1)
    BY <2>1, <2>2 DEF Gained, MayOpen, RelicOffers, q
  <2>7. run'.at.reward = w
    <3>1. CASE run' = OpenGrid(q, "Bottle", 1)
      BY <2>4, <2>5, <3>1 DEF OpenGrid
    <3> QED BY <2>5, <2>6, <3>1
  <2> QED BY <1>3, <2>7 DEF w
<1>5. CASE TakeSapphireKey
  <2> DEFINE w == [Reward EXCEPT !.relics = Without(Reward.relics, Linked(run))]
             keys == run.keys \union {"sapphire"}
  <2>1. run' = [run EXCEPT !.at.reward = w, !.at.treasure.link = Nil, !.keys = keys]
    BY <1>5 DEF TakeSapphireKey, Became, Reward
  <2> HIDE DEF w, keys
  <2>2. run'.at.reward = w
    BY <1>2, <2>1 DEF RunType, ScreenType
  <2> QED BY <1>3, <2>2 DEF w
<1> QED BY <1>4, <1>5

\* Ways off a reward screen.
LEMMA ScreenLeft ==
  ASSUME NEW r, r \in RunType
  PROVE  /\ BossChest(r).at.reward = Nil /\ NextAct(r).at.reward = Nil
         /\ SpireHeart(r).at.reward = Nil /\ OpenMap(r).at.reward = Nil
<1>1. r.at \in ScreenType
  BY RunFields
<1>2. BossChest(r).at.reward = Nil
  BY <1>1 DEF BossChest, RunType, ScreenType
<1>3. NextAct(r).at.reward = Nil
  BY <1>1 DEF NextAct, RunType, ScreenType
<1>4. SpireHeart(r).at.reward = Nil
  BY <1>1 DEF SpireHeart, RunType, ScreenType
<1>5. OpenMap(r).at.reward = Nil
  BY BlankScreen, OpenMapFields
<1> QED BY <1>2, <1>3, <1>4, <1>5

LEMMA LeavingFollows ==
  ASSUME Safe(run, visit), RewardProceed \/ (SkipReward /\ ~Reward.active)
  PROVE  OffersFollow(run, run')
<1>1. run \in RunType /\ run.at \in ScreenType
  BY HereStands, RunFields DEF RewardProceed, SkipReward, OnReward, Standing
<1> DEFINE q == [run EXCEPT !.at.phase = "Treasure", !.at.reward = Nil,
                            !.chestOpened = FALSE]
<1>2. q.at.reward = Nil
  BY <1>1 DEF RunType, ScreenType
<1> HIDE DEF q
<1>3. CASE RewardProceed
  <2>1. run' = Proceeded(run)
    BY <1>3 DEF RewardProceed, Stays, Became
  <2>2. run'.at.reward = Nil
    BY <1>1, <2>1, ScreenLeft, ScreenCloses DEF Proceeded
  <2> QED BY <2>2 DEF OffersFollow
<1>4. CASE SkipReward /\ ~Reward.active
  <2>1. \/ run' = q
        \/ run' = BossChest(run)
        \/ run' = CloseReward(run, FALSE)
    BY <1>4 DEF SkipReward, Stays, Became, q
  <2>2. run'.at.reward = Nil
    <3>1. BossChest(run).at.reward = Nil
      BY <1>1, ScreenLeft
    <3>2. CloseReward(run, FALSE).at.reward = Nil
      BY <1>1, ScreenCloses
    <3> QED BY <1>2, <2>1, <3>1, <3>2
  <2> QED BY <2>2 DEF OffersFollow
<1> QED BY <1>3, <1>4

LEMMA EmeraldFollows ==
  ASSUME Safe(run, visit), TakeEmeraldKey
  PROVE  OffersFollow(run, run')
<1>1. Standing(run, visit) /\ run.at.phase = "Reward"
  BY HereStands DEF TakeEmeraldKey, OnReward
<1>2. run \in RunType /\ run.at \in ScreenType /\ run.at.reward \in RewardType
  BY <1>1, OnRewardScreen, RunFields DEF Standing
<1> DEFINE keys == run.keys \union {"emerald"}
<1>3. run' = [run EXCEPT !.at.emerald = FALSE, !.keys = keys]
  BY DEF TakeEmeraldKey, Stays, Became
<1> HIDE DEF keys
<1>4. run'.at.reward = run.at.reward
  BY <1>2, <1>3 DEF RunType, ScreenType
<1> QED BY <1>2, <1>4, SameRelics DEF OffersFollow

LEMMA BossRelicFollows ==
  ASSUME Safe(run, visit), ChooseBossRelic
  PROVE  OffersFollow(run, run')
<1>1. Standing(run, visit) /\ run.at.phase = "Reward"
  BY HereStands DEF ChooseBossRelic, OnReward
<1>2. run \in RunType /\ run.at \in ScreenType /\ run.at.reward \in RewardType
  BY <1>1, OnRewardScreen, RunFields DEF Standing
<1>3. PICK relic \in BossRelics :
        \E r \in Gained(IF relic = "TinyHouse"
                        THEN [run EXCEPT !.at.reward.boss = FALSE, !.reserved = FALSE]
                        ELSE [run EXCEPT !.at.phase = "Treasure", !.at.reward = Nil,
                                         !.reserved = FALSE],
                        relic) :
          run' = r
  BY DEF ChooseBossRelic, Became
<1>4. relic \in {"plain", "TinyHouse", "CallingBell", "EmptyCage", "PandorasBox",
                 "Astrolabe"}
  BY <1>3, EffectsAssumption
<1>5. CASE relic = "TinyHouse"
  <2> DEFINE o == [run.at.reward EXCEPT !.boss = FALSE]
             taken == [run EXCEPT !.at.reward = o, !.reserved = FALSE]
             w == House(o)
  <2>1. taken = [run EXCEPT !.at.reward.boss = FALSE, !.reserved = FALSE]
    BY <1>2 DEF RunType, ScreenType
  <2>2. o.relics = run.at.reward.relics /\ o \in RewardType
    BY <1>2 DEF RewardType
  <2>3. w.relics = run.at.reward.relics
    BY <2>2 DEF House, RewardType
  <2> HIDE DEF o, w
  <2>4. taken.at \in ScreenType /\ taken.at.reward = o /\ "at" \in DOMAIN taken
    BY <1>2, <2>2 DEF RunType, ScreenType
  <2>5. o # Nil
    BY <2>2, NilAssumption
  <2> HIDE DEF taken
  <2>6. run' = [taken EXCEPT !.at.reward = House(@)]
    BY <1>3, <1>5, <2>1, <2>4, <2>5 DEF Gained
  <2>7. run'.at.reward = w
    BY <2>4, <2>6 DEF ScreenType, w
  <2> QED BY <1>2, <2>3, <2>7, SameRelics DEF OffersFollow
<1>6. CASE relic # "TinyHouse"
  <2> DEFINE q == [run EXCEPT !.at.phase = "Treasure", !.at.reward = Nil,
                              !.reserved = FALSE]
  <2>1. q.at.reward = Nil /\ "at" \in DOMAIN q
    BY <1>2 DEF RunType, ScreenType
  <2>2. run' \in Gained(q, relic)
    BY <1>3, <1>6
  <2> HIDE DEF q
  <2>3. run' = q \/ \E purpose, need : run' = OpenGrid(q, purpose, need)
    BY <1>4, <1>6, <2>2 DEF Gained, MayOpen
  <2>4. run'.at.reward = Nil
    BY <2>1, <2>3 DEF OpenGrid
  <2> QED BY <2>4 DEF OffersFollow
<1> QED BY <1>5, <1>6

\* Over a reward screen lies the grid of a bottle, which gives it back as it is.
LEMMA GridsFollow ==
  ASSUME Safe(run, visit), OnGrid, run.at.phase = "Reward"
  PROVE  OffersFollow(run, run')
<1>1. Standing(run, visit) /\ run.grid # Nil /\ GridHasOwner(run) /\ run.grid \in GridType
  BY GridOpen DEF OnGrid, GridSelect, GridConfirm, GridCancel
<1>2. run \in RunType /\ run.at \in ScreenType /\ run.at.reward \in RewardType
  BY <1>1, OnRewardScreen, RunFields DEF Standing
<1>3. run.grid.purpose = "Bottle"
  BY <1>1 DEF GridHasOwner, AtMerchant, AtNeow, InBossChest, GridType, GridPurposes
<1> DEFINE done == [run EXCEPT !.grid = Nil]
<1>4. done.at = run.at /\ "at" \in DOMAIN done
  BY <1>2 DEF RunType
<1>5. Resolved(run) = done \/ Resolved(run) = [done EXCEPT !.at.phase = "Reward"]
  BY <1>3 DEF Resolved, EventGrids
<1> HIDE DEF done
<1>6. Resolved(run).at.reward = run.at.reward
  BY <1>2, <1>4, <1>5 DEF ScreenType
<1>7. \/ run' = Resolved(run)
      \/ \E g : run' = [run EXCEPT !.grid = g]
  <2>1. CASE GridSelect
    BY <2>1 DEF GridSelect, Resolve, Stays, Became
  <2>2. CASE GridConfirm
    BY <2>2 DEF GridConfirm, Resolve, Became
  <2>3. CASE GridCancel
    BY <2>3 DEF GridCancel, Stays, Became
  <2> QED BY <2>1, <2>2, <2>3 DEF OnGrid
<1>8. run'.at.reward = run.at.reward
  BY <1>2, <1>6, <1>7 DEF RunType
<1> QED BY <1>2, <1>8, SameRelics DEF OffersFollow

LEMMA StepFollows ==
  ASSUME Safe(run, visit), [Next]_vars
  PROVE  OffersFollow(run, run')
<1>1. CASE run.at.phase # "Reward"
  <2>1. run.at.reward = Nil
    BY <1>1 DEF Safe, Good, Sound, Screens, PayloadHasPhase
  <2> QED BY <2>1 DEF OffersFollow
<1>2. CASE run.at.phase = "Reward" /\ Next
  <2>1. OnRewards \/ OnGrid
    BY <1>2 DEF Next, OnMap, MapReturn, EnterRoom, InCombat, WinCombat,
      WinByPotionOrChoice, SmokeBomb, LoseCombat, LossProceed, VictoryProceed, Fighting,
      InRooms, OpenChest, TreasureProceed, UseCampfire, OpenCampfireGrid, RestProceed,
      EnterShop, LeaveShop, ShopProceed, OpenShopRemove, BuyShopRelic, Choose, Here
  <2>2. CASE OnRewards
    <3>1. CASE OpenCardReward \/ CloseCardReward \/ TakeCardReward
      BY <3>1, CardsFollow
    <3>2. CASE SkipReward
      BY <3>2, CardsFollow, LeavingFollows
    <3>3. CASE TakeCoins \/ TakePotionReward \/ SkipPotionReward
      BY <3>3, CoinsAndPotionsFollow
    <3>4. CASE TakeRelicReward \/ TakeSapphireKey
      BY <3>4, RelicsFollow
    <3>5. CASE TakeEmeraldKey \/ ChooseBossRelic \/ RewardProceed
      BY <3>5, EmeraldFollows, BossRelicFollows, LeavingFollows
    <3> QED BY <2>2, <3>1, <3>2, <3>3, <3>4, <3>5 DEF OnRewards
  <2>3. CASE OnGrid
    BY <1>2, <2>3, GridsFollow
  <2> QED BY <2>1, <2>2, <2>3
<1>3. CASE run.at.phase = "Reward" /\ UNCHANGED vars
  <2>1. run.at.reward \in RewardType /\ run' = run
    BY <1>3, StandsElsewhere, OnRewardScreen DEF vars
  <2> QED BY <2>1, SameRelics DEF OffersFollow
<1> QED BY <1>1, <1>2, <1>3

\* A decision takes at most one relic off a reward screen that stays up, at
\* whatever position it is claimed and whatever grid it opens first, and adds none.
THEOREM RelicsLeaveOneByOne == Spec => RelicOffersKept
<1>1. Safe(run, visit) /\ [Next]_vars
      => [ LET before == run.at.reward  after == run'.at.reward IN
           before # Nil /\ after # Nil =>
             /\ Len(after.relics) >= Len(before.relics) - 1
             /\ \A i \in DOMAIN after.relics :
                  \E j \in DOMAIN before.relics : after.relics[i] = before.relics[j]
         ]_run
  BY StepFollows DEF OffersFollow, OffersLeft
<1> QED BY <1>1, AlwaysSafe, PTL DEF Spec, RelicOffersKept
===============================================================================

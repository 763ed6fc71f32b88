--------------------------- MODULE CombatCardsProofs ---------------------------
(***************************************************************************)
(* Proofs about what the screens of CombatSelect hold on to: the work that *)
(* waits behind them, the played card that waits in limbo, and the cards   *)
(* of the combat, each in one place; then, what is drawn under a screen    *)
(* and how many cards a hand holds.                                        *)
(*                                                                         *)
(* Liquid Memories replaces an open screen without closing it, and with it *)
(* loses its parked work and its source; the theorems that this breaks are *)
(* about players who carry none.                                           *)
(***************************************************************************)
EXTENDS CombatSelectProofs

------------------------------------------------------------------------------
(* The actions of a stack of queues *)

Waiting(f) == UNION {ToSet(q) : q \in ToSet(f)}

LEMMA WaitingHead ==
  ASSUME NEW f \in WorkType, f # <<>>
  PROVE  Waiting(f) = ToSet(Head(f)) \union Waiting(Tail(f))
<1>1. ToSet(f) = {Head(f)} \union ToSet(Tail(f))
  BY SetOfTail DEF WorkType
<1> QED BY <1>1 DEF Waiting

LEMMA WaitingReplaced ==
  ASSUME NEW f \in WorkType, f # <<>>, NEW q \in Seq(InternalAction)
  PROVE  Waiting(<<q>> \o Tail(f)) = ToSet(q) \union Waiting(Tail(f))
<1>1. <<q>> \in WorkType /\ Tail(f) \in WorkType
  BY DEF WorkType
<1>2. ToSet(<<q>> \o Tail(f)) = ToSet(<<q>>) \union ToSet(Tail(f))
  BY ZenonT(60), <1>1, SetOfConcat DEF WorkType
<1>3. ToSet(<<q>>) = {q}
  BY SetOfOne
<1> QED BY <1>2, <1>3 DEF Waiting

LEMMA WaitingFew ==
  /\ Waiting(<<>>) = {}
  /\ \A q : Waiting(<<q>>) = ToSet(q)
  /\ \A q, r : Waiting(<<q, r>>) = ToSet(q) \union ToSet(r)
  /\ \A q, r, t : Waiting(<<q, r, t>>) = ToSet(q) \union ToSet(r) \union ToSet(t)
<1>1. ToSet(<<>>) = {} /\ \A q : ToSet(<<q>>) = {q}
  BY SetOfEmpty, SetOfOne
<1>2. \A q, r : ToSet(<<q, r>>) = {q, r}
  BY DEF ToSet
<1>3. \A q, r, t : ToSet(<<q, r, t>>) = {q, r, t}
  BY DEF ToSet
<1> QED BY <1>1, <1>2, <1>3 DEF Waiting

LEMMA WorkIs == Work = ToSet(decision.pending) \union Waiting(frames)
BY DEF Work, Waiting

------------------------------------------------------------------------------
(* What a screen holds *)

\* A closed screen parks nothing, and two kinds of screen hold their source.
ParkShape ==
  /\ ~ScreenOpen => decision.pending = <<>>
  /\ decision.held <=> decision.purpose \in {"Headbutt", "TrueGrit"}
  /\ IsInjective(decision.selected)

KInv == SInv /\ ParkShape /\ potions \subseteq Carried

\* The three ways an action of the queue goes on while the monsters live.
Ending == EndQueue /\ monstersAlive

Proceeding ==
  /\ \E op \in Ops :
       /\ Running(op)
       /\ limbo' = IF op \in SettleOps THEN Without(limbo, Current.card) ELSE limbo
  /\ Proceed

Showing(purpose, source) ==
  /\ \E op \in Ops \ SettleOps : Running(op)
  /\ ~ScreenOpen
  /\ \E held \in BOOLEAN : \E selectable :
       /\ held <=> purpose \in {"Headbutt", "TrueGrit"}
       /\ Show(Screen(purpose, source, held, selectable))
  /\ IF purpose \in HandSelects \union DrawSelects
     THEN PlayedCardWork /\ limbo' = Append(limbo, source)
     ELSE UNCHANGED limbo

LEMMA CardShows ==
  ASSUME SInv, monstersAlive, NEW op \in DOMAIN AwaitPurposes, Running(op)
  PROVE  /\ PlayedCardWork /\ ~ScreenOpen
         /\ Current.card \in ToSet(hand)
         /\ Current.purpose \in AwaitPurposes[op]
         /\ op \in Ops \ SettleOps
<1>1. op \in Ops /\ op \notin PotionOps \union SettleOps
  BY DEF AwaitPurposes, Ops, PotionOps, OpenOps, SettleOps
<1>2. PlayedCardWork
  BY <1>1, WhoRuns
<1> QED BY <1>1, <1>2, WhoAwaits DEF PlayedCardWork

LEMMA QueueSteps ==
  ASSUME SInv, RunQueue, monstersAlive'
  PROVE  /\ monstersAlive /\ UNCHANGED potions
         /\ \/ Ending
            \/ Proceeding
            \/ \E purpose \in Purposes, source \in CardIds \union {None} :
                 Showing(purpose, source)
<1>1. monstersAlive \in BOOLEAN
  BY DEF SInv, TInv, RestTypes
<1>2. monstersAlive /\ UNCHANGED potions
  BY <1>1 DEF RunQueue, EndQueue, Run_DealDamage, Run_MoveCard,
     Run_MoveDrawCardToHand, Run_DrawCards,
     Run_DrawCardsWhilePlayedCardIsInLimbo, Run_DeepBreathShuffle,
     Run_AddGeneratedCardToDrawPileRandomSpot, Run_ForethoughtAutoMove,
     Run_AwaitHandSelect_Open, Run_AwaitHandSelect_Auto, Run_AwaitDrawSelect,
     Run_AwaitDiscardSelect, Run_AwaitExhaustSelect, Run_OpenElixirSelection,
     Run_OpenGamblersBrewSelection, OpenPotionSelection,
     Run_OpenPotionCardReward, Run_SettleHandSource, Run_MoveDrawSelectSource,
     combat
<1>3. CASE EndQueue
  BY <1>2, <1>3 DEF Ending
<1>4. ASSUME \/ Run_DealDamage \/ Run_MoveCard \/ Run_MoveDrawCardToHand
             \/ Run_DrawCards \/ Run_DrawCardsWhilePlayedCardIsInLimbo
             \/ Run_DeepBreathShuffle
             \/ Run_AddGeneratedCardToDrawPileRandomSpot
             \/ Run_ForethoughtAutoMove \/ Run_AwaitHandSelect_Auto
      PROVE  Proceeding
  <2>1. Run_DealDamage => Proceed
    BY DEF Run_DealDamage, Proceed
  <2>2. {"DealDamage", "MoveCard", "MoveDrawCardToHand", "DrawCards",
         "DrawCardsWhilePlayedCardIsInLimbo", "DeepBreathShuffle",
         "AddGeneratedCardToDrawPileRandomSpot", "ForethoughtAutoMove",
         "AwaitHandSelect"} \subseteq Ops \ SettleOps
    BY DEF Ops, SettleOps
  <2>3. Proceed /\ UNCHANGED limbo /\ \E op \in Ops \ SettleOps : Running(op)
    BY <1>4, <2>1, <2>2
       DEF Run_DealDamage, Run_MoveCard, Run_MoveDrawCardToHand, Run_DrawCards,
           Run_DrawCardsWhilePlayedCardIsInLimbo, Run_DeepBreathShuffle,
           Run_AddGeneratedCardToDrawPileRandomSpot, Run_ForethoughtAutoMove,
           Run_AwaitHandSelect_Auto, piles
  <2> QED BY <2>3 DEF Proceeding
<1>5. ASSUME Run_SettleHandSource \/ Run_MoveDrawSelectSource
      PROVE  Proceeding
  <2>1. SettleOps \subseteq Ops
    BY DEF Ops, SettleOps
  <2>2. Proceed /\ limbo' = Without(limbo, Current.card)
        /\ \E op \in SettleOps : Running(op)
    BY <1>5 DEF Run_SettleHandSource, Run_MoveDrawSelectSource, LeaveLimbo, SettleOps
  <2> QED BY <2>1, <2>2 DEF Proceeding
<1>6. CASE Run_AwaitHandSelect_Open
  <2>1. /\ Running("AwaitHandSelect")
        /\ limbo' = IF Current.card \in ToSet(hand) THEN Append(limbo, Current.card)
                                                    ELSE limbo
        /\ Show(Screen(Current.purpose, Current.card, FALSE, {}))
    BY <1>6 DEF Run_AwaitHandSelect_Open
  <2>2. /\ PlayedCardWork /\ ~ScreenOpen /\ Current.card \in ToSet(hand)
        /\ Current.purpose \in HandSelects /\ "AwaitHandSelect" \in Ops \ SettleOps
    BY <1>2, <2>1, CardShows DEF AwaitPurposes
  <2>3. Current.card \in CardIds
    BY <2>2, ToSetType DEF SInv, TInv, PileTypes
  <2>4. Current.purpose \in Purposes /\ Current.purpose \notin {"Headbutt", "TrueGrit"}
    BY <2>2 DEF Purposes, HandSelects
  <2>5. Showing(Current.purpose, Current.card)
    BY <2>1, <2>2, <2>4 DEF Showing
  <2> QED BY <1>2, <2>3, <2>4, <2>5
<1>7. CASE Run_AwaitDrawSelect
  <2>1. /\ Running("AwaitDrawSelect")
        /\ limbo' = IF Current.card \in ToSet(hand) THEN Append(limbo, Current.card)
                                                    ELSE limbo
        /\ \E purpose \in DrawSelects : \E selectable :
             Show(Screen(purpose, Current.card, FALSE, selectable))
    BY <1>7 DEF Run_AwaitDrawSelect, DrawSelects
  <2>2. /\ PlayedCardWork /\ ~ScreenOpen /\ Current.card \in ToSet(hand)
        /\ "AwaitDrawSelect" \in Ops \ SettleOps
    BY <1>2, <2>1, CardShows DEF AwaitPurposes
  <2>3. Current.card \in CardIds
    BY <2>2, ToSetType DEF SInv, TInv, PileTypes
  <2>4. PICK purpose \in DrawSelects : \E selectable :
          Show(Screen(purpose, Current.card, FALSE, selectable))
    BY <2>1
  <2>5. purpose \in Purposes /\ purpose \notin {"Headbutt", "TrueGrit"}
    BY DEF Purposes, DrawSelects
  <2>6. Showing(purpose, Current.card)
    BY <2>1, <2>2, <2>4, <2>5 DEF Showing
  <2> QED BY <1>2, <2>3, <2>5, <2>6
<1>8. CASE Run_AwaitDiscardSelect \/ Run_AwaitExhaustSelect
  <2>1. /\ UNCHANGED limbo
        /\ \E op \in {"AwaitDiscardSelect", "AwaitExhaustSelect"} : Running(op)
        /\ \/ Proceed
           \/ \E purpose \in {"Headbutt", "TrueGrit"} :
                Show(Screen(purpose, Current.card, TRUE, {}))
    BY <1>8 DEF Run_AwaitDiscardSelect, Run_AwaitExhaustSelect
  <2>2. PICK op \in {"AwaitDiscardSelect", "AwaitExhaustSelect"} : Running(op)
    BY <2>1
  <2>3. op \in DOMAIN AwaitPurposes
    BY DEF AwaitPurposes
  <2>4. ~ScreenOpen /\ Current.card \in ToSet(hand) /\ op \in Ops \ SettleOps
    BY <1>2, <2>2, <2>3, CardShows
  <2>5. CASE Proceed
    BY <1>2, <2>1, <2>2, <2>4, <2>5 DEF Proceeding
  <2>6. CASE \E purpose \in {"Headbutt", "TrueGrit"} :
                Show(Screen(purpose, Current.card, TRUE, {}))
    <3>1. PICK purpose \in {"Headbutt", "TrueGrit"} :
            Show(Screen(purpose, Current.card, TRUE, {}))
      BY <2>6
    <3>2. purpose \in Purposes /\ purpose \notin HandSelects \union DrawSelects
      BY DEF Purposes, DiscardSelects, ExhaustSelects, HandSelects, DrawSelects
    <3>3. Current.card \in CardIds
      BY <2>4, ToSetType DEF SInv, TInv, PileTypes
    <3>4. Showing(purpose, Current.card)
      BY <2>1, <2>2, <2>4, <3>1, <3>2 DEF Showing
    <3> QED BY <1>2, <3>2, <3>3, <3>4
  <2> QED BY <2>1, <2>5, <2>6
<1>9. CASE \/ Run_OpenElixirSelection \/ Run_OpenGamblersBrewSelection
           \/ Run_OpenPotionCardReward
  <2>1. /\ UNCHANGED limbo /\ ~ScreenOpen
        /\ \E op \in OpenOps : Running(op)
        /\ \/ Proceed
           \/ \E purpose \in {"Exhaust", "GamblingChip", "CardReward"} :
                Show(Screen(purpose, None, FALSE, {}))
    BY <1>9 DEF Run_OpenElixirSelection, Run_OpenGamblersBrewSelection,
                OpenPotionSelection, Run_OpenPotionCardReward, OpenOps, piles
  <2>2. OpenOps \subseteq Ops \ SettleOps
    BY DEF OpenOps, Ops, SettleOps
  <2>3. CASE Proceed
    BY <1>2, <2>1, <2>2, <2>3 DEF Proceeding
  <2>4. CASE \E purpose \in {"Exhaust", "GamblingChip", "CardReward"} :
                Show(Screen(purpose, None, FALSE, {}))
    <3>1. PICK purpose \in {"Exhaust", "GamblingChip", "CardReward"} :
            Show(Screen(purpose, None, FALSE, {}))
      BY <2>4
    <3>2. purpose \in Purposes
          /\ purpose \notin HandSelects \union DrawSelects \union {"Headbutt", "TrueGrit"}
      BY DEF Purposes, ExhaustSelects, HandSelects, DrawSelects
    <3>3. Showing(purpose, None)
      BY <2>1, <2>2, <3>1, <3>2 DEF Showing
    <3> QED BY <1>2, <3>2, <3>3
  <2> QED BY <2>1, <2>3, <2>4
<1> QED BY <1>2, <1>3, <1>4, <1>5, <1>6, <1>7, <1>8, <1>9 DEF RunQueue

------------------------------------------------------------------------------
(* No card is chosen twice *)

LEMMA ToggledOnce ==
  ASSUME NEW S, decision.selected \in Seq(S), IsInjective(decision.selected),
         NEW i \in S
  PROVE  IsInjective(Toggled(i))
<1> DEFINE selected == decision.selected
<1>1. IsInjective(Without(selected, i))
  BY DroppedOnce DEF Without
<1>2. ASSUME i \notin ToSet(selected)
      PROVE  IsInjective(Append(selected, i))
  BY <1>2, AppendedOnce
<1>3. /\ i \in ToSet(selected) => Toggled(i) = Without(selected, i)
      /\ i \notin ToSet(selected) => Toggled(i) = Append(selected, i)
  BY DEF Toggled
<1> HIDE DEF selected
<1> QED BY <1>1, <1>2, <1>3

------------------------------------------------------------------------------
(* What a screen holds is kept by every step *)

LEMMA ClosedParks ==
  ASSUME decision' = NoScreen
  PROVE  ParkShape'
<1>1. /\ decision'.purpose = "None" /\ decision'.held = FALSE
      /\ decision'.selected = <<>> /\ decision'.pending = <<>>
  BY DEF NoScreen, Screen
<1>2. IsInjective(<<>>)
  BY DEF IsInjective
<1> QED BY <1>1, <1>2 DEF ParkShape

LEMMA ScreenParks ==
  ASSUME NEW purpose \in Purposes, NEW source, NEW held, NEW selectable,
         NEW pending,
         held <=> purpose \in {"Headbutt", "TrueGrit"}, held \in BOOLEAN,
         decision' = [Screen(purpose, source, held, selectable)
                        EXCEPT !.pending = pending]
  PROVE  /\ ParkShape' /\ ScreenOpen'
         /\ decision'.purpose = purpose /\ decision'.source = source
         /\ decision'.held = held /\ decision'.pending = pending
<1>1. /\ decision'.purpose = purpose /\ decision'.held = held
      /\ decision'.source = source
      /\ decision'.selected = <<>> /\ decision'.pending = pending
  BY DEF Screen
<1>2. IsInjective(<<>>)
  BY DEF IsInjective
<1>3. purpose # "None"
  BY DEF Purposes, HandSelects, DrawSelects, DiscardSelects, ExhaustSelects
<1> QED BY <1>1, <1>2, <1>3 DEF ParkShape, ScreenOpen

LEMMA SameScreenParks ==
  ASSUME ParkShape, UNCHANGED <<decision.purpose, decision.held>>,
         decision'.selected = decision.selected,
         ~ScreenOpen => decision'.pending = decision.pending
  PROVE  ParkShape'
BY DEF ParkShape, ScreenOpen

\* Where the rest of the first queue goes when its next action opens nothing.
LEMMA ProceedParks ==
  ASSUME TInv, frames # <<>>, Head(frames) # <<>>, Proceed
  PROVE  /\ decision'.purpose = decision.purpose
         /\ decision'.source = decision.source
         /\ decision'.held = decision.held
         /\ decision'.selected = decision.selected
         /\ ~ScreenOpen => decision' = decision
                           /\ frames' = <<Tail(Head(frames))>> \o Tail(frames)
         /\ ScreenOpen => decision'.pending = decision.pending \o Tail(Head(frames))
                          /\ frames' = <<<<>>>> \o Tail(frames)
BY DEF Proceed, GoOn, ScreenOpen, TInv, DecisionTypes, ScreenType

LEMMA ShowParks ==
  ASSUME KInv, NEW purpose \in Purposes, NEW source, Showing(purpose, source)
  PROVE  /\ ParkShape' /\ ScreenOpen'
         /\ decision'.purpose = purpose /\ decision'.source = source
         /\ decision'.held = (purpose \in {"Headbutt", "TrueGrit"})
         /\ decision'.pending = Tail(Head(frames))
         /\ frames' = <<<<>>>> \o Tail(frames)
<1>1. PICK held \in BOOLEAN : \E selectable :
        /\ held <=> purpose \in {"Headbutt", "TrueGrit"}
        /\ Show(Screen(purpose, source, held, selectable))
  BY DEF Showing
<1>2. PICK selectable :
        /\ held <=> purpose \in {"Headbutt", "TrueGrit"}
        /\ Show(Screen(purpose, source, held, selectable))
  BY <1>1
<1> DEFINE screen == Screen(purpose, source, held, selectable)
           left   == Tail(Head(frames))
<1>3. purpose # "None"
  BY DEF Purposes, HandSelects, DrawSelects, DiscardSelects, ExhaustSelects
<1>4. screen.purpose = purpose /\ screen.pending = <<>>
  BY DEF Screen
<1>5. left \in Seq(InternalAction)
  BY FramesTypes, ActionOps DEF KInv, SInv, Showing, Running
<1>6. decision' = [screen EXCEPT !.pending = left] /\ frames' = <<<<>>>> \o Tail(frames)
  <2>1. GoOn(screen, left)
    BY <1>2 DEF Show
  <2>2. <<>> \o left = left
    BY <1>5
  <2> HIDE DEF screen, left
  <2> QED BY <1>3, <1>4, <2>1, <2>2 DEF GoOn
<1> HIDE DEF left
<1>7. /\ ParkShape' /\ ScreenOpen'
      /\ decision'.purpose = purpose /\ decision'.source = source
      /\ decision'.held = held /\ decision'.pending = left
  BY <1>2, <1>6, ScreenParks
<1> QED BY <1>2, <1>6, <1>7 DEF left

LEMMA QueueParks ==
  ASSUME KInv, RunQueue, monstersAlive'
  PROVE  ParkShape'
<1>1. SInv /\ ParkShape
  BY DEF KInv
<1>2. CASE Ending
  BY <1>1, <1>2 DEF Ending, EndQueue, ParkShape, ScreenOpen
<1>3. CASE Proceeding
  <2>1. frames # <<>> /\ Head(frames) # <<>> /\ Proceed /\ TInv
    BY <1>1, <1>3 DEF Proceeding, Running, SInv
  <2> QED BY <1>1, <2>1, ProceedParks, SameScreenParks
<1>4. CASE \E purpose \in Purposes, source \in CardIds \union {None} :
             Showing(purpose, source)
  BY <1>4, ShowParks
<1> QED BY <1>1, <1>2, <1>3, <1>4, QueueSteps

LEMMA SelectParks ==
  ASSUME KInv, NEW selected, Select(selected), IsInjective(selected)
  PROVE  ParkShape'
<1>1. /\ decision'.purpose = decision.purpose /\ decision'.held = decision.held
      /\ decision'.selected = selected /\ decision'.pending = decision.pending
  BY DEF Select, KInv, SInv, TInv, DecisionTypes, ScreenType
<1> QED BY <1>1 DEF KInv, ParkShape, ScreenOpen

LEMMA ChooseParks ==
  ASSUME KInv, NEW i,
         ChooseHandSelect(i) \/ ChooseScry(i) \/ ChooseExhaustSelect(i)
  PROVE  ParkShape'
<1>1. IsInjective(<<i>>)
  BY DEF IsInjective
<1>2. IsInjective(decision.selected) /\ TInv
  BY DEF KInv, ParkShape, SInv
<1>3. CASE ChooseHandSelect(i)
  BY <1>1, <1>3, SelectParks DEF ChooseHandSelect
<1>4. CASE ChooseScry(i)
  <2>1. decision.selected \in Seq(CardIds) /\ i \in CardIds
    BY <1>2, <1>4 DEF ChooseScry, Answering, TInv, DecisionTypes, ChoiceHolds, ScreenType
  <2>2. IsInjective(Toggled(i))
    BY <1>2, <2>1, ToggledOnce
  <2> QED BY <1>4, <2>2, SelectParks DEF ChooseScry
<1>5. CASE ChooseExhaustSelect(i)
  <2>1. decision.selected \in Seq(Nat) /\ i \in Nat
    BY <1>2, <1>5 DEF ChooseExhaustSelect, TInv, PileTypes, DecisionTypes, ScreenType
  <2>2. IsInjective(Toggled(i))
    BY <1>2, <2>1, ToggledOnce
  <2> QED BY <1>1, <1>5, <2>2, SelectParks DEF ChooseExhaustSelect
<1> QED BY <1>3, <1>4, <1>5

\* The other answers close the screen.
Closing ==
  \/ ConfirmHandSelect \/ ConfirmScry \/ ConfirmTrueGrit \/ ConfirmElixir
  \/ ConfirmGamblingChip \/ ChooseCombatCardReward \/ SkipCombatCardReward
  \/ \E c \in CardIds : ChooseSecretTechnique(c)
  \/ \E i \in 1..Len(discardPile) : ChooseHeadbutt(i) \/ ChooseLiquidMemories(i)

LEMMA CommandIs ==
  ASSUME Command
  PROVE  \/ \E c \in CardIds : PlayCard(c)
         \/ EndTurn
         \/ \E p \in DOMAIN PotionAction : UseQueuedPotion(p)
         \/ UseFirePotion
         \/ UseLiquidMemories
         \/ \E i : ChooseHandSelect(i) \/ ChooseScry(i) \/ ChooseExhaustSelect(i)
         \/ Closing
BY DEF Command, Closing

LEMMA ClosingCloses ==
  ASSUME Closing
  PROVE  /\ CanCommand /\ UNCHANGED combat
         /\ \E work : Close(work)
         /\ decision' = NoScreen
BY DEF Closing, ConfirmHandSelect, ConfirmScry, ConfirmTrueGrit, ConfirmElixir,
       ConfirmGamblingChip, ChooseCombatCardReward, SkipCombatCardReward,
       ChooseSecretTechnique, ChooseHeadbutt, ChooseLiquidMemories, Answering, Close

LEMMA PotionParks ==
  ASSUME KInv, NEW p, UseQueuedPotion(p)
  PROVE  /\ ParkShape'
         /\ \/ UNCHANGED <<decision, frames>>
            \/ /\ ScreenOpen /\ UNCHANGED frames
               /\ decision' = [decision EXCEPT !.pending = Append(@, PotionAction[p])]
            \/ ~ScreenOpen /\ UNCHANGED decision /\ frames' = <<<<PotionAction[p]>>>>
<1>1. \/ UNCHANGED <<decision, frames>>
      \/ /\ ScreenOpen /\ UNCHANGED frames
         /\ decision' = [decision EXCEPT !.pending = Append(@, PotionAction[p])]
      \/ ~ScreenOpen /\ UNCHANGED decision /\ frames' = <<<<PotionAction[p]>>>>
  BY DEF UseQueuedPotion, QueuePotionAction
<1>2. ParkShape /\ decision \in ScreenType
  BY DEF KInv, SInv, TInv, DecisionTypes
<1>3. /\ decision'.purpose = decision.purpose /\ decision'.held = decision.held
      /\ decision'.selected = decision.selected
      /\ ~ScreenOpen => decision'.pending = decision.pending
  BY <1>1, <1>2 DEF ScreenType
<1> QED BY <1>1, <1>2, <1>3, SameScreenParks

LEMMA CommandParks ==
  ASSUME KInv, Command, monstersAlive'
  PROVE  ParkShape'
<1>1. ParkShape
  BY DEF KInv
<1>2. CASE (\E c \in CardIds : PlayCard(c)) \/ EndTurn
  BY <1>1, <1>2 DEF PlayCard, EndTurn, ParkShape, ScreenOpen
<1>3. CASE \E p \in DOMAIN PotionAction : UseQueuedPotion(p)
  BY <1>3, PotionParks
<1>4. CASE UseFirePotion
  BY <1>1, <1>4 DEF UseFirePotion, ParkShape, ScreenOpen
<1>5. CASE UseLiquidMemories
  <2>1. "LiquidMemories" \in Purposes \ {"Headbutt", "TrueGrit"}
    BY DEF Purposes, DiscardSelects
  <2>2. CASE decision' = decision
    BY <1>1, <2>2 DEF ParkShape, ScreenOpen
  <2>3. CASE decision' = Screen("LiquidMemories", None, FALSE, {})
    <3>1. /\ decision'.purpose = "LiquidMemories" /\ decision'.held = FALSE
          /\ decision'.selected = <<>> /\ decision'.pending = <<>>
      BY <2>3 DEF Screen
    <3>2. IsInjective(<<>>)
      BY DEF IsInjective
    <3> QED BY <2>1, <3>1, <3>2 DEF ParkShape, ScreenOpen
  <2> QED BY <1>5, <2>2, <2>3 DEF UseLiquidMemories
<1>6. CASE \E i : ChooseHandSelect(i) \/ ChooseScry(i) \/ ChooseExhaustSelect(i)
  BY <1>6, ChooseParks
<1>7. CASE Closing
  BY <1>7, ClosingCloses, ClosedParks
<1> QED BY <1>2, <1>3, <1>4, <1>5, <1>6, <1>7, CommandIs

LEMMA PotionsLeave ==
  ASSUME KInv, Next, monstersAlive'
  PROVE  (potions \subseteq Carried)'
<1>1. Command => potions' \subseteq potions
  BY CommandIs, ClosingCloses
     DEF PlayCard, EndTurn, UseQueuedPotion, UseFirePotion, UseLiquidMemories, Drink,
         ChooseHandSelect, ChooseScry, ChooseExhaustSelect, combat
<1>2. RunQueue => potions' = potions
  BY QueueSteps DEF KInv
<1>3. CombatOver => potions' = potions
  BY DEF CombatOver, vars, combat
<1> QED BY <1>1, <1>2, <1>3 DEF Next, KInv

LEMMA NextParks ==
  ASSUME KInv, [Next]_vars, monstersAlive'
  PROVE  KInv'
<1>1. SInv'
  BY NextShapes DEF KInv
<1>2. CASE UNCHANGED vars
  BY <1>1, <1>2 DEF KInv, ParkShape, ScreenOpen, vars, combat
<1>3. CASE RunQueue
  BY <1>1, <1>3, QueueParks, PotionsLeave DEF KInv, Next
<1>4. CASE Command
  BY <1>1, <1>4, CommandParks, PotionsLeave DEF KInv, Next
<1> QED BY <1>2, <1>3, <1>4 DEF Next, CombatOver

LEMMA InitParks == Init => KInv
<1> SUFFICES ASSUME Init PROVE KInv
  OBVIOUS
<1>1. SInv
  BY InitShapes
<1>2. decision = NoScreen /\ potions = Carried
  BY DEF Init, Deal
<1>3. IsInjective(<<>>)
  BY DEF IsInjective
<1>4. ParkShape
  BY <1>2, <1>3 DEF NoScreen, Screen, ParkShape, ScreenOpen
<1> QED BY <1>1, <1>2, <1>4 DEF KInv

LEMMA DeadStayDead ==
  ASSUME SInv, [Next]_vars, monstersAlive'
  PROVE  monstersAlive
<1>1. UNCHANGED vars \/ CombatOver => monstersAlive
  BY DEF CombatOver, vars, combat
<1>2. RunQueue => monstersAlive
  BY QueueSteps
<1>3. Command => monstersAlive
  <2>1. Command => CanCommand
    BY CommandIs, ClosingCloses
       DEF PlayCard, EndTurn, UseQueuedPotion, UseFirePotion, UseLiquidMemories,
           Drink, ChooseHandSelect, ChooseScry, ChooseExhaustSelect, Answering
  <2> QED BY <2>1, Commanding
<1> QED BY <1>1, <1>2, <1>3 DEF Next

THEOREM ScreensHoldTheirs == Spec => [](SInv /\ (monstersAlive => KInv))
<1>1. Init => SInv /\ (monstersAlive => KInv)
  BY InitParks, InitShapes
<1>2. SInv /\ (monstersAlive => KInv) /\ [Next]_vars
        => (SInv /\ (monstersAlive => KInv))'
  BY NextShapes, NextParks, DeadStayDead
<1> QED BY <1>1, <1>2, PTL DEF Spec

------------------------------------------------------------------------------
(* The work that waits *)

NoMemories == "LiquidMemories" \notin Carried

LEMMA SameWork ==
  ASSUME decision'.pending = decision.pending, frames' = frames
  PROVE  Work' = Work
BY DEF Work

\* The first queue goes on, or waits behind the screen that is now open.
LEMMA WorkGoesOn ==
  ASSUME TInv, frames # <<>>, Head(frames) # <<>>,
         \/ /\ decision'.pending = decision.pending
            /\ frames' = <<Tail(Head(frames))>> \o Tail(frames)
         \/ /\ decision'.pending = decision.pending \o Tail(Head(frames))
            /\ frames' = <<<<>>>> \o Tail(frames)
  PROVE  Work \ Executing \subseteq Work'
<1> DEFINE left == Tail(Head(frames))
           rest == Waiting(Tail(frames))
           pend == ToSet(decision.pending)
<1>1. /\ frames \in WorkType /\ Head(frames) \in Seq(InternalAction)
      /\ left \in Seq(InternalAction) /\ <<>> \in Seq(InternalAction)
      /\ decision.pending \in Seq(InternalAction)
  BY FramesTypes, ActionOps, EmptyType
<1>2. ToSet(Head(frames)) = {Current} \union ToSet(left)
  BY <1>1, SetOfTail DEF Current
<1>3. Work \ Executing \subseteq pend \union ToSet(left) \union rest
  BY <1>1, <1>2, WorkIs, WaitingHead DEF Executing
<1>4. Work' = ToSet(decision'.pending) \union Waiting(frames')
  BY DEF Work, Waiting
<1>5. CASE /\ decision'.pending = decision.pending
           /\ frames' = <<left>> \o Tail(frames)
  BY <1>1, <1>3, <1>4, <1>5, WaitingReplaced
<1>6. CASE /\ decision'.pending = decision.pending \o left
           /\ frames' = <<<<>>>> \o Tail(frames)
  <2>1. ToSet(decision'.pending) = pend \union ToSet(left)
    BY <1>1, <1>6, SetOfConcat
  <2>2. Waiting(frames') = {} \union rest
    BY <1>1, <1>6, WaitingReplaced, SetOfEmpty
  <2> QED BY <1>3, <1>4, <2>1, <2>2
<1> QED BY <1>5, <1>6

LEMMA QueueKeepsWork ==
  ASSUME KInv, RunQueue, monstersAlive'
  PROVE  Work \ Executing \subseteq Work'
<1>1. SInv /\ TInv /\ ParkShape
  BY DEF KInv, SInv
<1>2. CASE Ending
  <2>1. frames # <<>> /\ Head(frames) = <<>> /\ frames' = Tail(frames)
        /\ decision' = decision
    BY <1>2 DEF Ending, EndQueue
  <2>2. Waiting(frames) = {} \union Waiting(frames')
    BY <1>1, <2>1, FramesTypes, WaitingHead, SetOfEmpty
  <2> QED BY <2>1, <2>2, WorkIs DEF Work, Waiting
<1>3. CASE Proceeding
  <2>1. frames # <<>> /\ Head(frames) # <<>> /\ Proceed
    BY <1>3 DEF Proceeding, Running
  <2> QED BY <1>1, <2>1, ProceedParks, WorkGoesOn
<1>4. CASE \E purpose \in Purposes, source \in CardIds \union {None} :
             Showing(purpose, source)
  <2>1. /\ decision'.pending = Tail(Head(frames))
        /\ frames' = <<<<>>>> \o Tail(frames)
    BY <1>4, ShowParks
  <2>2. frames # <<>> /\ Head(frames) # <<>> /\ decision.pending = <<>>
    BY <1>1, <1>4 DEF Showing, Running, ParkShape
  <2>3. decision.pending \o Tail(Head(frames)) = Tail(Head(frames))
    BY <1>1, <2>2, FramesTypes, ActionOps, ConcatEmptySeq
  <2> QED BY <1>1, <2>1, <2>2, <2>3, WorkGoesOn
<1> QED BY <1>1, <1>2, <1>3, <1>4, QueueSteps

\* An answer that closes a screen resumes all that waited behind it.
LEMMA CloseKeepsWork ==
  ASSUME KInv, Closing
  PROVE  Work \subseteq Work'
<1> DEFINE pend == decision.pending
<1>1. /\ CanCommand /\ SInv
      /\ \E work : Close(work)
  BY ClosingCloses DEF KInv
<1>2. /\ frames = <<>> /\ pend \in Seq(InternalAction)
      /\ OpsIn(pend) \subseteq Ops
  BY <1>1, Commanding, ActionOps
<1>3. Work = ToSet(pend)
  BY <1>2, WorkIs, WaitingFew
<1>4. \/ Close(<<pend>>)
      \/ \E a : Close(<<pend, a>>) \/ Close(<<a, pend>>)
      \/ \E a : Close(<<Dropping(pend, ActionsOf({"DrawCards"})), a,
                        Dropping(pend, ActionsOf(Ops \ {"DrawCards"}))>>)
  BY DEF Closing, ConfirmHandSelect, ConfirmScry, ConfirmTrueGrit, ConfirmElixir,
         ConfirmGamblingChip, ChooseCombatCardReward, SkipCombatCardReward,
         ChooseSecretTechnique, ChooseHeadbutt, ChooseLiquidMemories
<1>5. \A work : Close(work) => Work' = Waiting(work)
  BY SetOfEmpty DEF Close, NoScreen, Screen, Work, Waiting
<1>6. ToSet(pend) \subseteq ToSet(Dropping(pend, ActionsOf({"DrawCards"})))
               \union ToSet(Dropping(pend, ActionsOf(Ops \ {"DrawCards"})))
  <2>1. ActionsOf({"DrawCards"}) \intersect ActionsOf(Ops \ {"DrawCards"}) = {}
    BY DEF ActionsOf
  <2>2. \A R : ToSet(Dropping(pend, R)) = ToSet(pend) \ R
    BY <1>2, SetOfDropping
  <2> HIDE DEF pend
  <2> QED BY <2>1, <2>2
<1> HIDE DEF pend
<1>7. Close(<<pend>>) => Work \subseteq Work'
  BY <1>3, <1>5, WaitingFew
<1>8. \A a : Close(<<pend, a>>) \/ Close(<<a, pend>>) => Work \subseteq Work'
  BY <1>3, <1>5, WaitingFew
<1>9. \A a : Close(<<Dropping(pend, ActionsOf({"DrawCards"})), a,
                     Dropping(pend, ActionsOf(Ops \ {"DrawCards"}))>>)
               => Work \subseteq Work'
  BY <1>3, <1>5, <1>6, WaitingFew
<1> QED BY <1>4, <1>7, <1>8, <1>9

LEMMA CommandKeepsWork ==
  ASSUME KInv, NoMemories, Command, monstersAlive'
  PROVE  Work \subseteq Work'
<1>1. SInv /\ ParkShape /\ decision \in ScreenType
  BY DEF KInv, SInv, TInv, DecisionTypes
<1>2. CanCommand => Work = ToSet(decision.pending) /\ frames = <<>>
  BY <1>1, Commanding, WorkIs, WaitingFew
<1>3. CASE (\E c \in CardIds : PlayCard(c)) \/ EndTurn
  <2>1. ~ScreenOpen /\ CanCommand
    BY <1>3 DEF PlayCard, EndTurn
  <2> QED BY <1>1, <1>2, <2>1, SetOfEmpty DEF ParkShape
<1>4. CASE \E p \in DOMAIN PotionAction : UseQueuedPotion(p)
  <2>1. PICK p \in DOMAIN PotionAction : UseQueuedPotion(p)
    BY <1>4
  <2>2. CASE UNCHANGED <<decision, frames>>
    BY <2>2, SameWork
  <2>3. CASE /\ ScreenOpen /\ UNCHANGED frames
             /\ decision' = [decision EXCEPT !.pending = Append(@, PotionAction[p])]
    <3>1. decision'.pending = Append(decision.pending, PotionAction[p])
      BY <1>1, <2>3 DEF ScreenType
    <3>2. decision.pending \in Seq(InternalAction)
      BY <1>1 DEF ScreenType
    <3>3. ToSet(decision.pending) \subseteq ToSet(Append(decision.pending, PotionAction[p]))
      <4>1. \A i \in DOMAIN decision.pending :
              /\ i \in DOMAIN Append(decision.pending, PotionAction[p])
              /\ decision.pending[i] = Append(decision.pending, PotionAction[p])[i]
        BY <3>2
      <4> QED BY <4>1 DEF ToSet
    <3> QED BY <2>3, <3>1, <3>3 DEF Work
  <2>4. CASE ~ScreenOpen
    <3>1. CanCommand
      BY <2>1 DEF UseQueuedPotion, Drink
    <3> QED BY <1>1, <1>2, <2>4, <3>1, SetOfEmpty DEF ParkShape
  <2> QED BY <2>1, <2>2, <2>3, <2>4, PotionParks
<1>5. CASE UseFirePotion
  BY <1>5, SameWork DEF UseFirePotion
<1>6. ~UseLiquidMemories
  BY DEF UseLiquidMemories, Drink, KInv, NoMemories
<1>7. CASE \E i : ChooseHandSelect(i) \/ ChooseScry(i) \/ ChooseExhaustSelect(i)
  <2>1. UNCHANGED frames /\ \E selected : Select(selected)
    BY <1>7 DEF ChooseHandSelect, ChooseScry, ChooseExhaustSelect
  <2>2. decision'.pending = decision.pending
    BY <1>1, <2>1 DEF Select, ScreenType
  <2> QED BY <2>1, <2>2, SameWork
<1>8. CASE Closing
  BY <1>8, CloseKeepsWork
<1> QED BY <1>3, <1>4, <1>5, <1>6, <1>7, <1>8, CommandIs

LEMMA StepKeepsWork ==
  ASSUME SInv, monstersAlive => KInv, NoMemories, [Next]_vars, monstersAlive'
  PROVE  Work \ Executing \subseteq Work'
<1>1. KInv
  BY DeadStayDead
<1>2. UNCHANGED vars => Work' = Work
  BY DEF vars, Work
<1> QED BY <1>1, <1>2, QueueKeepsWork, CommandKeepsWork DEF Next, CombatOver

\* QueuedWorkNeverDropped, for a player who carries no Liquid Memories: a screen
\* parks the rest of the queue that opened it, potions used under it join the
\* rest, and the answer that closes it resumes them all.
THEOREM ClosingResumesWork ==
  ASSUME "LiquidMemories" \notin Carried
  PROVE  Spec => QueuedWorkNeverDropped
<1>1. NoMemories
  BY DEF NoMemories
<1>2. SInv /\ (monstersAlive => KInv) /\ [Next]_vars =>
        [monstersAlive' => Work \ Executing \subseteq Work']_vars
  BY <1>1, StepKeepsWork
<1> QED BY <1>2, ScreensHoldTheirs, PTL DEF Spec, QueuedWorkNeverDropped

------------------------------------------------------------------------------
(* The played card that waits in limbo *)

\* The cards that a set of actions is going to settle from limbo.
SettledBy(A) == {a.card : a \in {b \in A : b.op \in SettleOps}}

LimboHolds ==
  ToSet(limbo) = IF decision.purpose \in HandSelects \union DrawSelects
                 THEN {decision.source} ELSE SettledBy(Waiting(frames))

LInv == KInv /\ LimboHolds

LEMMA SettledByBoth ==
  ASSUME NEW A, NEW B
  PROVE  SettledBy(A \union B) = SettledBy(A) \union SettledBy(B)
BY DEF SettledBy

LEMMA QuietUnion ==
  ASSUME NEW A, NEW B, SettledBy(A) = {}
  PROVE  SettledBy(A \union B) = SettledBy(B)
<1>1. SettledBy(A \union B) = SettledBy(A) \union SettledBy(B)
  BY SettledByBoth
<1> QED BY <1>1

LEMMA SettlingNothing ==
  /\ SettledBy({}) = {}
  /\ \A q : OpsIn(q) \intersect SettleOps = {} <=> SettledBy(ToSet(q)) = {}
  /\ \A a : a.op \in SettleOps => SettledBy(ToSet(<<a>>)) = {a.card}
<1>1. SettledBy({}) = {}
  BY DEF SettledBy
<1>2. \A q : OpsIn(q) \intersect SettleOps = {} <=> SettledBy(ToSet(q)) = {}
  BY DEF SettledBy, OpsIn
<1>3. ASSUME NEW a, a.op \in SettleOps
      PROVE  SettledBy(ToSet(<<a>>)) = {a.card}
  <2>1. ToSet(<<a>>) = {a}
    BY SetOfOne
  <2> QED BY <1>3, <2>1 DEF SettledBy
<1> QED BY <1>1, <1>2, <1>3

\* A queue whose next action settles nothing settles nothing at all.
LEMMA QuietQueue ==
  ASSUME SInv, monstersAlive, NEW op \in Ops \ SettleOps, Running(op)
  PROVE  /\ SettledBy(ToSet(Head(frames))) = {}
         /\ SettledBy(ToSet(Tail(Head(frames)))) = {}
<1> DEFINE q == Head(frames)
<1>1. /\ frames # <<>> /\ q # <<>> /\ op \in OpsIn(q)
      /\ PlayedCardWork \/ OtherWork
  BY WhoRuns
<1>2. q \in Seq(InternalAction) /\ TInv /\ q = frames[1] /\ 1 \in DOMAIN frames
  BY <1>1, FramesTypes DEF SInv
<1>3. OpsIn(q) \intersect SettleOps = {}
  <2>1. CASE PlayedCardWork
    <3>1. CardWork(q, cardInUse)
      BY <2>1 DEF PlayedCardWork
    <3>2. \A i \in DOMAIN q : q[i].op \in CardOps
      BY <3>1 DEF CardWork
    <3> HIDE DEF q
    <3> QED BY <3>2 DEF OpsIn, ToSet, CardOps
  <2>2. CASE OtherWork
    <3>1. Settling(q) => Len(q) = 1
      BY <1>2, <2>2 DEF OtherWork, Stack
    <3>2. Len(q) = 1 => OpsIn(q) = {op}
      <4>1. Head(q).op = op
        BY <1>1, WhoRuns DEF Current
      <4> HIDE DEF q
      <4>2. Len(q) = 1 => Tail(q) = <<>>
        BY <1>2, LoneTail
      <4>3. OpsIn(q) = {Head(q).op} \union OpsIn(Tail(q)) /\ OpsIn(<<>>) = {}
        BY <1>1, <1>2, ActionOps
      <4> QED BY <4>1, <4>2, <4>3
    <3> HIDE DEF q
    <3> QED BY <3>1, <3>2 DEF Settling
  <2> QED BY <1>1, <2>1, <2>2
<1> HIDE DEF q
<1>4. OpsIn(q) = {Head(q).op} \union OpsIn(Tail(q))
  BY <1>1, <1>2, ActionOps
<1>5. OpsIn(Tail(q)) \intersect SettleOps = {}
  BY <1>3, <1>4
<1>6. SettledBy(ToSet(q)) = {} /\ SettledBy(ToSet(Tail(q))) = {}
  BY <1>3, <1>5, SettlingNothing
<1> QED BY <1>6 DEF q

\* A settling action is alone in its queue, and no other one waits below.
LEMMA SettlingQueue ==
  ASSUME SInv, monstersAlive, NEW op \in SettleOps, Running(op)
  PROVE  /\ SettledBy(Waiting(frames)) = {Current.card}
         /\ Tail(Head(frames)) = <<>>
         /\ SettledBy(Waiting(Tail(frames))) = {}
<1> DEFINE q == Head(frames)
<1>1. op \in Ops
  BY DEF Ops, SettleOps
<1>2. frames # <<>> /\ q # <<>> /\ op \in OpsIn(q) /\ Stack(frames) /\ Current.op = op
  BY <1>1, WhoRuns DEF OtherWork
<1>3. /\ q \in Seq(InternalAction) /\ q = frames[1] /\ 1 \in DOMAIN frames
      /\ frames \in WorkType
  BY <1>2, FramesTypes DEF SInv
<1>4. Settling(q) /\ Len(q) = 1
  BY <1>2, <1>3 DEF Settling, Stack
<1>5. Tail(q) = <<>>
  BY <1>3, <1>4, LoneTail
<1>6. Waiting(frames) = {Current} \union Waiting(Tail(frames))
  <2>1. ToSet(q) = {Current} \union ToSet(Tail(q))
    BY <1>2, <1>3, SetOfTail DEF Current
  <2>2. Waiting(frames) = ToSet(q) \union Waiting(Tail(frames))
    BY <1>2, <1>3, WaitingHead
  <2> QED BY <1>5, <2>1, <2>2, SetOfEmpty
<1>7. ASSUME NEW a \in Waiting(Tail(frames)), a.op \in SettleOps
      PROVE  FALSE
  <2>1. PICK r \in ToSet(Tail(frames)) : a \in ToSet(r)
    BY DEF Waiting
  <2>2. PICK i \in DOMAIN Tail(frames) : r = Tail(frames)[i]
    BY <2>1 DEF ToSet
  <2>3. i + 1 \in DOMAIN frames /\ Tail(frames)[i] = frames[i + 1] /\ i + 1 # 1
    BY <1>2, <1>3, <2>2 DEF WorkType
  <2>4. Settling(frames[i + 1])
    BY <1>7, <2>1, <2>2, <2>3 DEF Settling, OpsIn
  <2>5. i + 1 = 1
    BY <1>2, <1>3, <1>4, <2>3, <2>4 DEF Stack
  <2> QED BY <2>3, <2>5
<1>8. SettledBy(Waiting(Tail(frames))) = {}
  BY <1>7 DEF SettledBy
<1>9. SettledBy({Current}) = {Current.card}
  BY <1>2, SettlingNothing, SetOfOne
<1> QED BY <1>5, <1>6, <1>8, <1>9, SettledByBoth

\* Under a screen that a played card opened nothing runs.
LEMMA RunningUnasked ==
  ASSUME SInv, frames # <<>>, Head(frames) # <<>>
  PROVE  decision.purpose \notin HandSelects \union DrawSelects
<1>1. 1 \in DOMAIN frames /\ Head(frames) = frames[1]
  BY FramesTypes DEF SInv
<1> QED BY <1>1 DEF SInv, PileShape, Sourced

LEMMA QueueKeepsLimbo ==
  ASSUME LInv, RunQueue, monstersAlive'
  PROVE  LimboHolds'
<1>1. SInv /\ TInv /\ KInv /\ ParkShape /\ LimboHolds /\ monstersAlive
  BY QueueSteps DEF LInv, KInv, SInv
<1>2. limbo \in Seq(CardIds) /\ frames \in WorkType
  BY <1>1, FramesTypes DEF TInv, PileTypes
<1>3. CASE Ending
  <2>1. frames # <<>> /\ Head(frames) = <<>> /\ frames' = Tail(frames)
        /\ decision' = decision /\ limbo' = limbo
    BY <1>3 DEF Ending, EndQueue, piles
  <2>2. Waiting(frames) = {} \union Waiting(frames')
    BY <1>2, <2>1, WaitingHead, SetOfEmpty
  <2> QED BY <1>1, <2>1, <2>2 DEF LimboHolds, Waiting
<1>4. CASE Proceeding
  <2>1. PICK op \in Ops :
          /\ Running(op)
          /\ limbo' = IF op \in SettleOps THEN Without(limbo, Current.card) ELSE limbo
    BY <1>4 DEF Proceeding
  <2>2. /\ frames # <<>> /\ Head(frames) # <<>> /\ Proceed
        /\ Tail(frames) \in WorkType /\ Head(frames) \in Seq(InternalAction)
        /\ Tail(Head(frames)) \in Seq(InternalAction) /\ <<>> \in Seq(InternalAction)
    BY <1>1, <1>4, <2>1, FramesTypes, ActionOps, EmptyType DEF Proceeding, Running
  <2>3. /\ decision.purpose \notin HandSelects \union DrawSelects
        /\ decision'.purpose = decision.purpose
    BY <1>1, <2>2, RunningUnasked, ProceedParks
  <2>4. \/ frames' = <<Tail(Head(frames))>> \o Tail(frames)
        \/ frames' = <<<<>>>> \o Tail(frames)
    BY <1>1, <2>2, ProceedParks
  <2>5. \/ Waiting(frames') = ToSet(Tail(Head(frames))) \union Waiting(Tail(frames))
        \/ Waiting(frames') = {} \union Waiting(Tail(frames))
    BY <1>2, <2>2, <2>4, WaitingReplaced, SetOfEmpty
  <2>6. CASE op \in SettleOps
    <3>1. /\ SettledBy(Waiting(frames)) = {Current.card}
          /\ Tail(Head(frames)) = <<>>
          /\ SettledBy(Waiting(Tail(frames))) = {}
      BY <1>1, <2>1, <2>6, SettlingQueue
    <3>2. SettledBy(Waiting(frames')) = {}
      BY <2>5, <3>1, SetOfEmpty
    <3>3. ToSet(limbo) = {Current.card}
      BY <1>1, <2>3, <3>1 DEF LimboHolds
    <3>4. ToSet(limbo') = {}
      BY <1>2, <2>1, <2>6, <3>3, SetOfWithout
    <3> QED BY <2>3, <3>2, <3>4 DEF LimboHolds, Waiting
  <2>7. CASE op \notin SettleOps
    <3>1. /\ SettledBy(ToSet(Head(frames))) = {}
          /\ SettledBy(ToSet(Tail(Head(frames)))) = {}
      BY <1>1, <2>1, <2>7, QuietQueue
    <3>2. Waiting(frames) = ToSet(Head(frames)) \union Waiting(Tail(frames))
      BY <1>2, <2>2, WaitingHead
    <3>3. SettledBy(Waiting(frames)) = SettledBy(Waiting(Tail(frames)))
      BY <3>1, <3>2, QuietUnion
    <3>4. SettledBy(Waiting(frames')) = SettledBy(Waiting(Tail(frames)))
      <4>1. SettledBy({}) = {}
        BY SettlingNothing
      <4> QED BY <2>5, <3>1, <4>1, QuietUnion
    <3>5. limbo' = limbo
      BY <2>1, <2>7
    <3> QED BY <1>1, <2>3, <3>3, <3>4, <3>5 DEF LimboHolds, Waiting
  <2> QED BY <2>6, <2>7
<1>5. CASE \E purpose \in Purposes, source \in CardIds \union {None} :
             Showing(purpose, source)
  <2>1. PICK purpose \in Purposes, source \in CardIds \union {None} :
             Showing(purpose, source)
    BY <1>5
  <2>2. /\ decision'.purpose = purpose /\ decision'.source = source
        /\ frames' = <<<<>>>> \o Tail(frames)
    BY <1>1, <2>1, ShowParks
  <2>3. PICK op \in Ops \ SettleOps : Running(op)
    BY <2>1 DEF Showing
  <2>4. SettledBy(ToSet(Head(frames))) = {} /\ frames # <<>>
        /\ Tail(frames) \in WorkType
    BY <1>1, <2>3, QuietQueue, FramesTypes DEF Running
  <2>5. SettledBy(Waiting(frames)) = SettledBy(Waiting(Tail(frames)))
    <3>1. Waiting(frames) = ToSet(Head(frames)) \union Waiting(Tail(frames))
      BY <1>2, <2>4, WaitingHead
    <3> QED BY <2>4, <3>1, QuietUnion
  <2>6. ~ScreenOpen
    BY <2>1 DEF Showing
  <2>7. ToSet(limbo) = SettledBy(Waiting(frames))
    BY <1>1, <2>6 DEF LimboHolds, ScreenOpen, HandSelects, DrawSelects
  <2>8. CASE purpose \in HandSelects \union DrawSelects
    <3>1. PlayedCardWork /\ limbo' = Append(limbo, source)
      BY <2>1, <2>8 DEF Showing
    <3>2. Len(frames) = 1
      BY <3>1 DEF PlayedCardWork
    <3>3. Tail(frames) = <<>>
      BY <1>2, <3>2, LoneTail DEF WorkType
    <3>4. ToSet(limbo) = {}
      BY <2>5, <2>7, <3>3, WaitingFew, SettlingNothing
    <3>5. source \in CardIds
      <4>1. decision' \in ScreenType
        BY <1>1, <2>1, NextTypes DEF Next, TInv, DecisionTypes
      <4>2. purpose \in Sourced
        BY <2>8 DEF Sourced
      <4> QED BY <2>2, <4>1, <4>2 DEF ScreenType
    <3>6. ToSet(limbo') = {source}
      BY <1>2, <3>1, <3>4, <3>5, SetOfAppend
    <3> QED BY <2>2, <2>8, <3>6 DEF LimboHolds
  <2>9. CASE purpose \notin HandSelects \union DrawSelects
    <3>1. limbo' = limbo
      BY <2>1, <2>9 DEF Showing
    <3>2. Waiting(frames') = {} \union Waiting(Tail(frames))
      BY <1>2, <2>2, <2>4, WaitingReplaced, EmptyType, SetOfEmpty
    <3> QED BY <2>2, <2>5, <2>7, <2>9, <3>1, <3>2 DEF LimboHolds, Waiting
  <2> QED BY <2>8, <2>9
<1> QED BY <1>1, <1>3, <1>4, <1>5, QueueSteps

LEMMA QuietFrames ==
  ASSUME NEW q, OpsIn(q) \intersect SettleOps = {}
  PROVE  SettledBy(Waiting(<<q>>)) = {}
BY SettlingNothing, WaitingFew

\* A command that starts work leaves limbo alone.
LEMMA StartsQuietly ==
  ASSUME LInv, CanCommand, UNCHANGED <<decision, limbo>>, NEW q, frames' = <<q>>,
         ~ScreenOpen, OpsIn(q) \intersect SettleOps = {}
  PROVE  LimboHolds'
<1>1. frames = <<>> /\ LimboHolds
  BY DEF LInv, CanCommand
<1>2. SettledBy(Waiting(frames)) = {} /\ SettledBy(Waiting(frames')) = {}
  BY <1>1, WaitingFew, SettlingNothing, QuietFrames
<1> QED BY <1>1, <1>2 DEF LimboHolds, ScreenOpen, Waiting

\* Closing a screen that held no card in limbo.
LEMMA ClosesQuietly ==
  ASSUME LInv, CanCommand, UNCHANGED limbo, NEW q, NEW r,
         Close(<<q>>) \/ Close(<<q, r>>),
         OpsIn(q) \intersect SettleOps = {}, OpsIn(r) \intersect SettleOps = {},
         decision.purpose \notin HandSelects \union DrawSelects
  PROVE  LimboHolds'
<1>1. frames = <<>> /\ LimboHolds
  BY DEF LInv, CanCommand
<1>2. SettledBy(Waiting(frames)) = {}
  BY <1>1, WaitingFew, SettlingNothing
<1>3. frames' = <<q>> \/ frames' = <<q, r>>
  BY DEF Close
<1>4. decision'.purpose \notin HandSelects \union DrawSelects
  BY DEF Close, NoScreen, Screen, HandSelects, DrawSelects
<1>5. SettledBy(ToSet(q)) = {} /\ SettledBy(ToSet(r)) = {}
  BY SettlingNothing
<1>6. SettledBy(Waiting(frames')) = {}
  BY <1>3, <1>5, WaitingFew, QuietUnion
<1> QED BY <1>1, <1>2, <1>4, <1>6 DEF LimboHolds, Waiting

LEMMA PendingQuiet ==
  ASSUME SInv
  PROVE  /\ decision.pending \in Seq(InternalAction)
         /\ OpsIn(decision.pending) \subseteq PotionOps
         /\ OpsIn(decision.pending) \intersect SettleOps = {}
<1>1. OpsIn(decision.pending) \subseteq PotionOps
  BY DEF SInv, PendingShape
<1>2. PotionOps \intersect SettleOps = {}
  BY DEF PotionOps, OpenOps, SettleOps
<1> QED BY <1>1, <1>2, FramesTypes DEF SInv

LEMMA ClosingKeepsLimbo ==
  ASSUME LInv, Closing
  PROVE  LimboHolds'
<1> DEFINE pend == decision.pending
           source == decision.source
<1>1. /\ SInv /\ TInv /\ LimboHolds /\ limbo \in Seq(CardIds)
      /\ CanCommand /\ frames = <<>> /\ decision' = NoScreen
  BY ClosingCloses DEF LInv, KInv, SInv, TInv, PileTypes, CanCommand
<1>2. OpsIn(pend) \intersect SettleOps = {} /\ pend \in Seq(InternalAction)
  BY <1>1, PendingQuiet
<1>3. SettledBy(ToSet(pend)) = {}
  BY <1>2, SettlingNothing
<1>4. decision'.purpose \notin HandSelects \union DrawSelects
  BY <1>1 DEF NoScreen, Screen, HandSelects, DrawSelects
<1>5. OpsIn(<<>>) \intersect SettleOps = {}
  BY SetOfEmpty DEF OpsIn
<1>6. CASE ConfirmHandSelect
  <2> DEFINE other == Dropping(pend, ActionsOf({"DrawCards"}))
             draws == Dropping(pend, ActionsOf(Ops \ {"DrawCards"}))
             a     == Act("SettleHandSource", source, 0)
  <2>1. frames' = <<other, <<a>>, draws>> /\ limbo' = limbo
        /\ decision.purpose \in HandSelects
    BY <1>6 DEF ConfirmHandSelect, Close, Answering
  <2>2. SettledBy(ToSet(other)) = {} /\ SettledBy(ToSet(draws)) = {}
    <3>1. OpsIn(other) \intersect SettleOps = {} /\ OpsIn(draws) \intersect SettleOps = {}
      BY <1>2, DroppingOps
    <3> HIDE DEF other, draws
    <3> QED BY <3>1, SettlingNothing
  <2>3. a.op \in SettleOps /\ a.card = source
    BY DEF Act, SettleOps
  <2> HIDE DEF other, draws, a
  <2>4. SettledBy(ToSet(<<a>>)) = {source}
    BY <2>3, SettlingNothing
  <2>5. Waiting(frames') = ToSet(other) \union ToSet(<<a>>) \union ToSet(draws)
    BY <2>1, WaitingFew
  <2>6. SettledBy(Waiting(frames')) = {source}
    <3>1. SettledBy(ToSet(other) \union ToSet(<<a>>)) = {source}
      BY <2>2, <2>4, QuietUnion
    <3> DEFINE A == ToSet(other) \union ToSet(<<a>>)
               B == ToSet(draws)
    <3>2. SettledBy(A \union B) = SettledBy(A) \union SettledBy(B)
      BY SettledByBoth
    <3> QED BY <2>2, <2>5, <3>1, <3>2
  <2> QED BY <1>1, <1>4, <2>1, <2>6 DEF LimboHolds, Waiting
<1>7. CASE \E c \in CardIds : ChooseSecretTechnique(c)
  <2> DEFINE a == Act("MoveDrawSelectSource", source, 0)
  <2>1. frames' = <<pend, <<a>>>> /\ limbo' = limbo
        /\ decision.purpose \in DrawSelects
    BY <1>7 DEF ChooseSecretTechnique, Close, Answering, DrawSelects
  <2>2. a.op \in SettleOps /\ a.card = source
    BY DEF Act, SettleOps
  <2> HIDE DEF a, pend
  <2>3. SettledBy(ToSet(<<a>>)) = {source}
    BY <2>2, SettlingNothing
  <2>4. Waiting(frames') = ToSet(pend) \union ToSet(<<a>>)
    BY <2>1, WaitingFew
  <2>5. SettledBy(Waiting(frames')) = {source}
    BY <1>3, <2>3, <2>4, SettledByBoth
  <2> QED BY <1>1, <1>4, <2>1, <2>5 DEF LimboHolds, Waiting
<1>8. CASE ConfirmScry
  <2>1. frames' = <<pend>> /\ limbo' = Without(limbo, source)
        /\ decision.purpose \in DrawSelects
    BY <1>8 DEF ConfirmScry, Close, Answering, DrawSelects, LeaveLimbo
  <2>2. ToSet(limbo) = {source}
    BY <1>1, <2>1 DEF LimboHolds
  <2>3. ToSet(limbo') = {}
    BY <1>1, <2>1, <2>2, SetOfWithout
  <2>4. SettledBy(Waiting(frames')) = {}
    BY <1>2, <2>1, QuietFrames
  <2> QED BY <1>4, <2>3, <2>4 DEF LimboHolds, Waiting
<1>9. CASE \/ ConfirmTrueGrit \/ ConfirmElixir \/ ChooseCombatCardReward
           \/ SkipCombatCardReward
           \/ \E i \in 1..Len(discardPile) : ChooseHeadbutt(i) \/ ChooseLiquidMemories(i)
  <2>1. Close(<<pend>>) /\ UNCHANGED limbo
        /\ decision.purpose \notin HandSelects \union DrawSelects
    BY <1>9 DEF ConfirmTrueGrit, ConfirmElixir, ChooseCombatCardReward,
       SkipCombatCardReward, ChooseHeadbutt, ChooseLiquidMemories, Answering,
       HandSelects, DrawSelects, piles
  <2> QED BY <1>1, <1>2, <1>5, <2>1, ClosesQuietly
<1>10. CASE ConfirmGamblingChip
  <2> DEFINE q == <<Act("DrawCards", None, Len(Chosen))>>
  <2>1. Close(<<q, pend>>) /\ UNCHANGED limbo
        /\ decision.purpose \notin HandSelects \union DrawSelects
    BY <1>10 DEF ConfirmGamblingChip, Answering, HandSelects, DrawSelects
  <2>2. OpsIn(q) \intersect SettleOps = {}
    BY OneOp DEF Act, SettleOps
  <2> HIDE DEF q, pend
  <2> QED BY <1>1, <1>2, <2>1, <2>2, ClosesQuietly
<1> QED BY <1>6, <1>7, <1>8, <1>9, <1>10 DEF Closing

LEMMA CommandKeepsLimbo ==
  ASSUME LInv, NoMemories, Command, monstersAlive'
  PROVE  LimboHolds'
<1>1. SInv /\ KInv /\ LimboHolds /\ decision \in ScreenType
  BY DEF LInv, KInv, SInv, TInv, DecisionTypes
<1>2. CASE \E c \in CardIds : PlayCard(c)
  <2>1. PICK c \in CardIds : PlayCard(c)
    BY <1>2
  <2> DEFINE q == PlayCardQueue(c)
  <2>2. /\ CanCommand /\ ~ScreenOpen /\ frames' = <<q>> /\ UNCHANGED <<decision, limbo>>
        /\ Playable(c)
    BY <2>1 DEF PlayCard, piles
  <2>3. Begins(q, c)
    BY <1>1, <2>2, QueueBegins
  <2> HIDE DEF q
  <2>4. CardWork(q, c)
    BY <2>3 DEF Begins
  <2>5. OpsIn(q) \intersect SettleOps = {}
    <3>1. \A i \in DOMAIN q : q[i].op \in CardOps
      BY <2>4 DEF CardWork
    <3> QED BY <3>1 DEF OpsIn, ToSet, CardOps
  <2> QED BY <2>2, <2>5, StartsQuietly
<1>3. CASE EndTurn
  <2> DEFINE q == <<Act("DrawCards", None, HandSize)>>
  <2>1. CanCommand /\ ~ScreenOpen /\ frames' = <<q>> /\ UNCHANGED <<decision, limbo>>
    BY <1>3 DEF EndTurn
  <2>2. OpsIn(q) \intersect SettleOps = {}
    BY OneOp DEF Act, SettleOps
  <2> HIDE DEF q
  <2> QED BY <2>1, <2>2, StartsQuietly
<1>4. CASE \E p \in DOMAIN PotionAction : UseQueuedPotion(p)
  <2>1. PICK p \in DOMAIN PotionAction : UseQueuedPotion(p)
    BY <1>4
  <2> DEFINE a == PotionAction[p]
  <2>2. a.op \notin SettleOps
    BY <2>1 DEF PotionAction, Act, SettleOps
  <2>3. limbo' = limbo /\ CanCommand
    BY <2>1 DEF UseQueuedPotion, Drink, piles
  <2>4. CASE UNCHANGED <<decision, frames>>
    BY <1>1, <2>3, <2>4 DEF LimboHolds, Waiting
  <2>5. CASE /\ ScreenOpen /\ UNCHANGED frames
             /\ decision' = [decision EXCEPT !.pending = Append(@, a)]
    <3>1. decision'.purpose = decision.purpose /\ decision'.source = decision.source
      BY <1>1, <2>5 DEF ScreenType
    <3> QED BY <1>1, <2>3, <2>5, <3>1 DEF LimboHolds, Waiting
  <2>6. CASE ~ScreenOpen /\ UNCHANGED decision /\ frames' = <<<<a>>>>
    <3> HIDE DEF a
    <3>1. OpsIn(<<a>>) \intersect SettleOps = {}
      BY <2>2, OneOp
    <3> QED BY <2>3, <2>6, <3>1, StartsQuietly
  <2> QED BY <1>1, <2>1, <2>4, <2>5, <2>6, PotionParks
<1>5. CASE UseFirePotion
  BY <1>1, <1>5 DEF UseFirePotion, piles, LimboHolds, Waiting
<1>6. ~UseLiquidMemories
  BY <1>1 DEF UseLiquidMemories, Drink, KInv, NoMemories
<1>7. CASE \E i : ChooseHandSelect(i) \/ ChooseScry(i) \/ ChooseExhaustSelect(i)
  <2>1. UNCHANGED <<frames, limbo>> /\ \E selected : Select(selected)
    BY <1>7 DEF ChooseHandSelect, ChooseScry, ChooseExhaustSelect, piles
  <2>2. decision'.purpose = decision.purpose /\ decision'.source = decision.source
    BY <1>1, <2>1 DEF Select, ScreenType
  <2> QED BY <1>1, <2>1, <2>2 DEF LimboHolds, Waiting
<1>8. CASE Closing
  BY <1>8, ClosingKeepsLimbo
<1> QED BY <1>2, <1>3, <1>4, <1>5, <1>6, <1>7, <1>8, CommandIs

LEMMA NextKeepsLimbo ==
  ASSUME LInv, NoMemories, [Next]_vars, monstersAlive'
  PROVE  LInv'
<1>1. KInv'
  BY NextParks DEF LInv
<1>2. UNCHANGED vars => LimboHolds'
  BY DEF LInv, LimboHolds, Waiting, vars, piles
<1>3. LimboHolds'
  BY <1>2, QueueKeepsLimbo, CommandKeepsLimbo DEF Next, CombatOver
<1> QED BY <1>1, <1>3 DEF LInv

LEMMA LiveLimbo ==
  ASSUME NoMemories
  PROVE  Spec => [](SInv /\ (monstersAlive => LInv))
<1>1. Init => SInv /\ (monstersAlive => LInv)
  <2> SUFFICES ASSUME Init PROVE LInv
    BY InitShapes
  <2>1. KInv
    BY InitParks
  <2>2. limbo = <<>> /\ frames = <<>> /\ decision = NoScreen
    BY DEF Init, Deal
  <2>3. ToSet(limbo) = {} /\ SettledBy(Waiting(frames)) = {}
    BY <2>2, SetOfEmpty, WaitingFew, SettlingNothing
  <2> QED BY <2>1, <2>2, <2>3
          DEF LInv, LimboHolds, NoScreen, Screen, HandSelects, DrawSelects
<1>2. SInv /\ (monstersAlive => LInv) /\ [Next]_vars
        => (SInv /\ (monstersAlive => LInv))'
  BY NextShapes, NextKeepsLimbo, DeadStayDead
<1> QED BY <1>1, <1>2, PTL DEF Spec

\* SourceParked, for a player who carries no Liquid Memories: from the moment a
\* played card opens its screen until it is settled it is the one card in limbo.
THEOREM SourceWaitsInLimbo ==
  ASSUME "LiquidMemories" \notin Carried
  PROVE  Spec => []SourceParked
<1>1. NoMemories
  BY DEF NoMemories
<1>2. SInv /\ (monstersAlive => LInv) => SourceParked
  <2> SUFFICES ASSUME SInv, monstersAlive => LInv, Quiescent
               PROVE  ToSet(limbo) = IF decision.purpose \in HandSelects \union DrawSelects
                                     THEN {decision.source} ELSE {}
    BY DEF SourceParked
  <2>1. LInv /\ frames = <<>>
    BY Commanding DEF Quiescent, CanCommand
  <2>2. SettledBy(Waiting(frames)) = {}
    BY <2>1, WaitingFew, SettlingNothing
  <2> QED BY <2>1, <2>2 DEF LInv, LimboHolds
<1> QED BY <1>1, <1>2, LiveLimbo, PTL

------------------------------------------------------------------------------
(* Counting the cards of a pile *)

\* The elements of a stretch of a sequence.
LEMMA CountSlice ==
  ASSUME NEW S, NEW s \in Seq(S), NEW m \in 1..(Len(s) + 1), NEW n \in 0..Len(s),
         m <= n + 1
  PROVE  /\ SubSeq(s, m, n) \in Seq(S) /\ Len(SubSeq(s, m, n)) = n - m + 1
         /\ ToSet(SubSeq(s, m, n)) = {s[i] : i \in m..n}
<1> DEFINE t == SubSeq(s, m, n)
<1>1. /\ t \in Seq(S) /\ Len(t) = n - m + 1 /\ DOMAIN t = 1..Len(t)
      /\ \A i \in 1..(n - m + 1) : t[i] = s[i + m - 1]
  OBVIOUS
<1> HIDE DEF t
<1>2. ASSUME NEW x \in ToSet(t)
      PROVE  x \in {s[i] : i \in m..n}
  <2>1. PICK i \in 1..(n - m + 1) : x = t[i]
    BY <1>1 DEF ToSet
  <2>2. x = s[i + m - 1] /\ i + m - 1 \in m..n
    BY <1>1, <2>1
  <2> QED BY <2>2
<1>3. ASSUME NEW i \in m..n
      PROVE  s[i] \in ToSet(t)
  <2>1. i - m + 1 \in 1..(n - m + 1) /\ (i - m + 1) + m - 1 = i
    OBVIOUS
  <2>2. t[i - m + 1] = s[i] /\ i - m + 1 \in DOMAIN t
    BY <1>1, <2>1
  <2> QED BY <2>2 DEF ToSet
<1> QED BY <1>1, <1>2, <1>3 DEF t

LEMMA Slices ==
  ASSUME NEW S, NEW s \in Seq(S)
  PROVE  \A m \in 1..(Len(s) + 1), n \in 0..Len(s) :
           m <= n + 1 =>
             /\ SubSeq(s, m, n) \in Seq(S) /\ Len(SubSeq(s, m, n)) = n - m + 1
             /\ ToSet(SubSeq(s, m, n)) = {s[i] : i \in m..n}
BY CountSlice

LEMMA CountTop ==
  ASSUME NEW S, NEW s \in Seq(S), NEW k \in 0..Len(s)
  PROVE  /\ TopOf(s, k) \in Seq(S) /\ Len(TopOf(s, k)) = k
         /\ DropTop(s, k) \in Seq(S) /\ Len(DropTop(s, k)) = Len(s) - k
         /\ ToSet(TopOf(s, k)) \union ToSet(DropTop(s, k)) = ToSet(s)
<1> DEFINE n == Len(s) - k
<1>1. TopOf(s, k) \in Seq(S) /\ Len(TopOf(s, k)) = k
  BY TopType
<1>2. n \in 0..Len(s) /\ Len(s) \in Nat /\ 1 \in 1..(Len(s) + 1) /\ 1 <= n + 1
  OBVIOUS
<1>3. /\ DropTop(s, k) \in Seq(S) /\ Len(DropTop(s, k)) = n - 1 + 1
      /\ ToSet(DropTop(s, k)) = {s[i] : i \in 1..n}
  <2> HIDE DEF n
  <2>1. /\ SubSeq(s, 1, n) \in Seq(S) /\ Len(SubSeq(s, 1, n)) = n - 1 + 1
        /\ ToSet(SubSeq(s, 1, n)) = {s[i] : i \in 1..n}
    BY <1>2, CountSlice
  <2> QED BY <2>1 DEF DropTop, n
<1>4. ToSet(TopOf(s, k)) = {s[Len(s) + 1 - i] : i \in 1..k}
  BY DEF TopOf, ToSet
<1>5. ASSUME NEW x \in ToSet(s)
      PROVE  x \in {s[Len(s) + 1 - i] : i \in 1..k} \union {s[i] : i \in 1..n}
  <2>1. PICK i \in 1..Len(s) : x = s[i]
    BY DEF ToSet
  <2>2. CASE i <= n
    <3>1. i \in 1..n
      BY <1>2, <2>1, <2>2
    <3> QED BY <2>1, <3>1
  <2>3. CASE ~(i <= n)
    <3>1. Len(s) + 1 - i \in 1..k /\ Len(s) + 1 - (Len(s) + 1 - i) = i
      BY <1>2, <2>1, <2>3
    <3> QED BY <2>1, <3>1
  <2> QED BY <2>2, <2>3
<1>6. /\ \A i \in 1..k : Len(s) + 1 - i \in 1..Len(s)
      /\ \A i \in 1..n : i \in 1..Len(s)
      /\ DOMAIN s = 1..Len(s)
  BY <1>2
<1>7. {s[Len(s) + 1 - i] : i \in 1..k} \union {s[i] : i \in 1..n} \subseteq ToSet(s)
  <2> HIDE DEF n
  <2> QED BY <1>6 DEF ToSet
<1>8. n - 1 + 1 = Len(s) - k
  OBVIOUS
<1> HIDE DEF n
<1> QED BY <1>1, <1>3, <1>4, <1>5, <1>7, <1>8

LEMMA CountReverse ==
  ASSUME NEW S, NEW s \in Seq(S)
  PROVE  /\ Reverse(s) \in Seq(S) /\ Len(Reverse(s)) = Len(s)
         /\ ToSet(Reverse(s)) = ToSet(s)
<1>1. Reverse(s) \in [1..Len(s) -> S] /\ Len(s) \in Nat /\ DOMAIN s = 1..Len(s)
  BY DEF Reverse
<1>2. \A i \in 1..Len(s) : /\ Len(s) - i + 1 \in 1..Len(s)
                           /\ Reverse(s)[i] = s[Len(s) - i + 1]
                           /\ Len(s) - (Len(s) - i + 1) + 1 = i
  BY DEF Reverse
<1>3. \A i \in 1..Len(s) : Reverse(s)[Len(s) - i + 1] = s[i]
  BY <1>2
<1>4. ToSet(Reverse(s)) = ToSet(s)
  <2>1. ToSet(Reverse(s)) = {Reverse(s)[i] : i \in 1..Len(s)}
    BY <1>1 DEF ToSet
  <2>2. ToSet(s) = {s[i] : i \in 1..Len(s)}
    BY DEF ToSet
  <2> QED BY <1>2, <1>3, <2>1, <2>2
<1> QED BY <1>1, <1>4

LEMMA CountRemoveAt ==
  ASSUME NEW S, NEW s \in Seq(S), NEW i \in DOMAIN s
  PROVE  /\ RemoveAt(s, i) \in Seq(S) /\ Len(RemoveAt(s, i)) = Len(s) - 1
         /\ ToSet(RemoveAt(s, i)) \union {s[i]} = ToSet(s)
<1> DEFINE a == SubSeq(s, 1, i - 1)
           b == SubSeq(s, i + 1, Len(s))
<1>1. /\ i \in 1..Len(s) /\ Len(s) \in Nat /\ DOMAIN s = 1..Len(s)
      /\ i - 1 \in 0..Len(s) /\ 1 \in 1..(Len(s) + 1) /\ 1 <= (i - 1) + 1
      /\ i + 1 \in 1..(Len(s) + 1) /\ Len(s) \in 0..Len(s) /\ i + 1 <= Len(s) + 1
  OBVIOUS
<1>2. /\ a \in Seq(S) /\ Len(a) = i - 1
      /\ ToSet(a) = {s[j] : j \in 1..(i - 1)}
  <2> DEFINE n == i - 1
  <2>1. n \in 0..Len(s) /\ 1 <= n + 1 /\ n - 1 + 1 = n
    BY <1>1
  <2> HIDE DEF n
  <2>2. /\ SubSeq(s, 1, n) \in Seq(S) /\ Len(SubSeq(s, 1, n)) = n - 1 + 1
        /\ ToSet(SubSeq(s, 1, n)) = {s[j] : j \in 1..n}
    <3>1. 1 \in 1..(Len(s) + 1) /\ n \in 0..Len(s) /\ 1 <= n + 1
      BY <1>1, <2>1
    <3> QED BY <3>1, Slices, SMTT(30)
  <2> QED BY <2>1, <2>2 DEF n
<1>3. /\ b \in Seq(S) /\ Len(b) = Len(s) - i
      /\ ToSet(b) = {s[j] : j \in (i + 1)..Len(s)}
  <2> DEFINE m == i + 1
  <2>1. m \in 1..(Len(s) + 1) /\ m <= Len(s) + 1
    BY <1>1
  <2>2. Len(s) - m + 1 = Len(s) - i
    BY <1>1
  <2> HIDE DEF m
  <2>3. /\ SubSeq(s, m, Len(s)) \in Seq(S)
        /\ Len(SubSeq(s, m, Len(s))) = Len(s) - m + 1
        /\ ToSet(SubSeq(s, m, Len(s))) = {s[j] : j \in m..Len(s)}
    BY <1>1, <2>1, Slices
  <2> QED BY <2>2, <2>3 DEF m
<1>4. RemoveAt(s, i) = a \o b
  BY DEF RemoveAt
<1> HIDE DEF a, b
<1>5. /\ RemoveAt(s, i) \in Seq(S) /\ Len(RemoveAt(s, i)) = Len(s) - 1
      /\ ToSet(RemoveAt(s, i)) = ToSet(a) \union ToSet(b)
  <2>1. a \in Seq(S) /\ b \in Seq(S)
    BY <1>2, <1>3
  <2>2. /\ a \o b \in Seq(S) /\ Len(a \o b) = Len(a) + Len(b)
        /\ ToSet(a \o b) = ToSet(a) \union ToSet(b)
    BY <2>1, CountConcat, Zenon
  <2>3. Len(a) + Len(b) = Len(s) - 1
    BY <1>1, <1>2, <1>3
  <2> QED BY <1>4, <2>2, <2>3
<1>6. ToSet(s) = {s[j] : j \in 1..Len(s)}
  BY DEF ToSet
<1>7. \A j \in 1..Len(s) : j \in 1..(i - 1) \/ j = i \/ j \in (i + 1)..Len(s)
  BY <1>1
<1>8. /\ \A j \in 1..(i - 1) : j \in 1..Len(s)
      /\ \A j \in (i + 1)..Len(s) : j \in 1..Len(s)
  BY <1>1
<1>9. ToSet(s) = {s[j] : j \in 1..(i - 1)} \union {s[i]}
                 \union {s[j] : j \in (i + 1)..Len(s)}
  BY <1>1, <1>6, <1>7, <1>8
<1> QED BY <1>2, <1>3, <1>5, <1>9

LEMMA CountInsertAt ==
  ASSUME NEW S, NEW s \in Seq(S), NEW i \in 1..(Len(s) + 1), NEW c \in S
  PROVE  /\ InsertAt(s, i, c) \in Seq(S) /\ Len(InsertAt(s, i, c)) = Len(s) + 1
         /\ ToSet(InsertAt(s, i, c)) = ToSet(s) \union {c}
<1> DEFINE a == SubSeq(s, 1, i - 1)
           b == SubSeq(s, i, Len(s))
           d == a \o <<c>>
<1>1. /\ Len(s) \in Nat /\ i - 1 \in 0..Len(s) /\ 1 \in 1..(Len(s) + 1)
      /\ 1 <= (i - 1) + 1 /\ Len(s) \in 0..Len(s) /\ i <= Len(s) + 1
  OBVIOUS
<1>2. /\ a \in Seq(S) /\ Len(a) = i - 1 - 1 + 1
      /\ ToSet(a) = {s[j] : j \in 1..(i - 1)}
  BY <1>1, CountSlice
<1>3. /\ b \in Seq(S) /\ Len(b) = Len(s) - i + 1
      /\ ToSet(b) = {s[j] : j \in i..Len(s)}
  BY <1>1, CountSlice
<1>4. InsertAt(s, i, c) = d \o b
  BY DEF InsertAt
<1>5. <<c>> \in Seq(S) /\ Len(<<c>>) = 1 /\ ToSet(<<c>>) = {c}
  BY SetOfOne
<1> HIDE DEF a, b
<1>6. d \in Seq(S) /\ Len(d) = Len(a) + 1 /\ ToSet(d) = ToSet(a) \union {c}
  <2>1. a \in Seq(S) /\ <<c>> \in Seq(S)
    BY <1>2, <1>5
  <2>2. /\ a \o <<c>> \in Seq(S) /\ Len(a \o <<c>>) = Len(a) + Len(<<c>>)
        /\ ToSet(a \o <<c>>) = ToSet(a) \union ToSet(<<c>>)
    BY <2>1, CountConcat, Zenon
  <2> QED BY <1>5, <2>2
<1> HIDE DEF d
<1>7. /\ InsertAt(s, i, c) \in Seq(S) /\ Len(InsertAt(s, i, c)) = Len(d) + Len(b)
      /\ ToSet(InsertAt(s, i, c)) = ToSet(d) \union ToSet(b)
  <2>1. d \in Seq(S) /\ b \in Seq(S)
    BY <1>3, <1>6
  <2>2. /\ d \o b \in Seq(S) /\ Len(d \o b) = Len(d) + Len(b)
        /\ ToSet(d \o b) = ToSet(d) \union ToSet(b)
    BY <2>1, CountConcat, Zenon
  <2> QED BY <1>4, <2>2
<1>8. ToSet(s) = {s[j] : j \in 1..Len(s)}
  BY DEF ToSet
<1>9. /\ \A j \in 1..Len(s) : j \in 1..(i - 1) \/ j \in i..Len(s)
      /\ \A j \in 1..(i - 1) : j \in 1..Len(s)
      /\ \A j \in i..Len(s) : j \in 1..Len(s)
  BY <1>1
<1>10. ToSet(s) = {s[j] : j \in 1..(i - 1)} \union {s[j] : j \in i..Len(s)}
  BY <1>8, <1>9
<1>11. Len(InsertAt(s, i, c)) = Len(s) + 1
  <2>1. Len(s) \in Nat /\ i \in Nat
    BY <1>1
  <2>2. Len(InsertAt(s, i, c)) = ((i - 1 - 1 + 1) + 1) + (Len(s) - i + 1)
    BY <1>2, <1>3, <1>6, <1>7, Zenon
  <2> QED BY <2>1, <2>2
<1> QED BY <1>2, <1>3, <1>6, <1>7, <1>10, <1>11

\* A shuffle of the cards of a set holds each of them once.
LEMMA CountOrders ==
  ASSUME NEW T, IsFiniteSet(T), NEW n \in Nat, Cardinality(T) = n,
         NEW order \in Orders(T, n)
  PROVE  order \in Seq(T) /\ Len(order) = n /\ ToSet(order) = T
<1>1. order \in [1..n -> T] /\ IsInjective(order)
  BY DEF Orders
<1>2. order \in Injection(1..n, T)
  BY <1>1 DEF Injection
<1>3. Cardinality(1..n) = n
  BY FS_Interval
<1>4. order \in Surjection(1..n, T)
  BY <1>2, <1>3, FS_Injection
<1>5. ToSet(order) = T
  BY <1>1, <1>4 DEF ToSet, Surjection
<1> QED BY <1>1, <1>5

------------------------------------------------------------------------------
(* Each card in one place *)

Total == Len(hand) + Len(drawPile) + Len(discardPile) + Len(exhaustPile)
         + Len(limbo) + Len(HeldCards)

\* CardsConserved as a count: as many cards as were issued, and all of those.
EachCardOnce == Located = issued /\ Total = Cardinality(issued)

CInv == LInv /\ EachCardOnce

\* The types that counting needs.
Countable ==
  /\ {hand, drawPile, discardPile, exhaustPile, limbo, HeldCards} \subseteq Seq(CardIds)
  /\ {Len(hand), Len(drawPile), Len(discardPile), Len(exhaustPile), Len(limbo),
      Len(HeldCards)} \subseteq Nat

LEMMA PilesCount ==
  ASSUME KInv
  PROVE  Countable
<1>1. /\ TInv /\ ParkShape /\ decision \in ScreenType
      /\ {hand, drawPile, discardPile, exhaustPile, limbo} \subseteq Seq(CardIds)
  BY DEF KInv, SInv, TInv, DecisionTypes, PileTypes, RecordTypes
<1>2. decision.held => decision.source \in CardIds
  BY <1>1 DEF ParkShape, ScreenType, Sourced
<1>3. HeldCards \in Seq(CardIds)
  <2>1. CASE decision.held
    <3>1. <<decision.source>> \in Seq(CardIds)
      BY <1>2, <2>1
    <3> QED BY <2>1, <3>1 DEF HeldCards
  <2>2. CASE ~decision.held
    BY <2>2, EmptyType DEF HeldCards
  <2> QED BY <2>1, <2>2
<1>4. \A s \in Seq(CardIds) : Len(s) \in Nat
  OBVIOUS
<1> QED BY <1>1, <1>3, <1>4 DEF Countable

LEMMA ConcatOnce ==
  ASSUME NEW S, NEW s \in Seq(S), NEW t \in Seq(S), IsInjective(s \o t)
  PROVE  /\ IsInjective(s) /\ IsInjective(t)
         /\ ToSet(s) \intersect ToSet(t) = {}
<1>1. /\ s \o t \in Seq(S) /\ Len(s \o t) = Len(s) + Len(t)
      /\ ToSet(s \o t) = ToSet(s) \union ToSet(t)
  BY CountConcat
<1> DEFINE A == ToSet(s)
           B == ToSet(t)
<1>2. /\ IsFiniteSet(A) /\ IsFiniteSet(B)
      /\ Cardinality(A) <= Len(s) /\ Cardinality(B) <= Len(t)
      /\ Cardinality(A) \in Nat /\ Cardinality(B) \in Nat
      /\ Len(s) \in Nat /\ Len(t) \in Nat
  BY CountOnce
<1>3. Len(s) + Len(t) = Cardinality(A \union B)
  BY <1>1, CountOnce
<1> HIDE DEF A, B
<1>4. /\ Cardinality(A \union B)
           = Cardinality(A) + Cardinality(B) - Cardinality(A \intersect B)
      /\ IsFiniteSet(A \intersect B) /\ Cardinality(A \intersect B) \in Nat
  BY <1>2, FS_Union, FS_Intersection, FS_CardinalityType
<1>5. /\ Cardinality(A) = Len(s) /\ Cardinality(B) = Len(t)
      /\ Cardinality(A \intersect B) = 0
  BY <1>2, <1>3, <1>4
<1>6. A \intersect B = {}
  BY <1>4, <1>5, FS_EmptySet
<1> QED BY <1>5, <1>6, CountOnce DEF A, B

\* The two forms of the invariant agree.
LEMMA PlacesAreCounted ==
  ASSUME Countable
  PROVE  /\ Places \in Seq(CardIds) /\ ToSet(Places) = Located /\ Len(Places) = Total
         /\ Total \in Nat
<1> DEFINE p2 == hand \o drawPile
           p3 == p2 \o discardPile
           p4 == p3 \o exhaustPile
           p5 == p4 \o limbo
           p6 == p5 \o HeldCards
<1>0. \A s, t \in Seq(CardIds) :
        /\ s \o t \in Seq(CardIds) /\ Len(s \o t) = Len(s) + Len(t)
        /\ ToSet(s \o t) = ToSet(s) \union ToSet(t)
  BY CountConcat
<1>1. /\ p2 \in Seq(CardIds) /\ Len(p2) = Len(hand) + Len(drawPile)
      /\ ToSet(p2) = ToSet(hand) \union ToSet(drawPile)
  BY <1>0 DEF Countable
<1> HIDE DEF p2
<1>2. /\ p3 \in Seq(CardIds) /\ Len(p3) = Len(p2) + Len(discardPile)
      /\ ToSet(p3) = ToSet(p2) \union ToSet(discardPile)
  BY <1>0, <1>1 DEF Countable
<1> HIDE DEF p3
<1>3. /\ p4 \in Seq(CardIds) /\ Len(p4) = Len(p3) + Len(exhaustPile)
      /\ ToSet(p4) = ToSet(p3) \union ToSet(exhaustPile)
  BY <1>0, <1>2 DEF Countable
<1> HIDE DEF p4
<1>4. /\ p5 \in Seq(CardIds) /\ Len(p5) = Len(p4) + Len(limbo)
      /\ ToSet(p5) = ToSet(p4) \union ToSet(limbo)
  BY <1>0, <1>3 DEF Countable
<1> HIDE DEF p5
<1>5. /\ p6 \in Seq(CardIds) /\ Len(p6) = Len(p5) + Len(HeldCards)
      /\ ToSet(p6) = ToSet(p5) \union ToSet(HeldCards)
  BY <1>0, <1>4 DEF Countable
<1>6. Places = p6
  BY DEF Places, p5, p4, p3, p2
<1> HIDE DEF p6
<1>7. Len(p6) = Total /\ Total \in Nat
  BY <1>1, <1>2, <1>3, <1>4, <1>5 DEF Total, Countable
<1>8. ToSet(p6) = Located
  BY <1>1, <1>2, <1>3, <1>4, <1>5 DEF Located
<1> QED BY <1>5, <1>6, <1>7, <1>8

LEMMA CountedAreApart ==
  ASSUME Countable, EachCardOnce
  PROVE  /\ IsInjective(hand) /\ IsInjective(drawPile) /\ IsInjective(discardPile)
         /\ IsInjective(exhaustPile) /\ IsInjective(limbo) /\ IsInjective(Places)
         /\ ToSet(drawPile) \intersect ToSet(discardPile) = {}
         /\ IsFiniteSet(issued)
<1> DEFINE p2 == hand \o drawPile
           p3 == p2 \o discardPile
           p4 == p3 \o exhaustPile
           p5 == p4 \o limbo
           p6 == p5 \o HeldCards
<1>1. /\ p2 \in Seq(CardIds) /\ ToSet(p2) = ToSet(hand) \union ToSet(drawPile)
  BY SetOfConcat DEF Countable
<1>2. p3 \in Seq(CardIds)
  <2> HIDE DEF p2
  <2> QED BY <1>1, SetOfConcat DEF Countable
<1>3. p4 \in Seq(CardIds)
  <2> HIDE DEF p3
  <2> QED BY <1>2, SetOfConcat DEF Countable
<1>4. p5 \in Seq(CardIds)
  <2> HIDE DEF p4
  <2> QED BY <1>3, SetOfConcat DEF Countable
<1>5. IsInjective(Places) /\ Places = p6 /\ IsFiniteSet(issued)
  <2>1. Places = p6
    BY DEF Places
  <2>2. IsInjective(Places) /\ IsFiniteSet(issued)
    BY PlacesAreCounted, CountOnce DEF EachCardOnce
  <2> QED BY <2>1, <2>2
<1>6. IsInjective(p5)
  <2> HIDE DEF p5
  <2> QED BY <1>4, <1>5, ConcatOnce DEF Countable
<1>7. IsInjective(p4) /\ IsInjective(limbo)
  <2> HIDE DEF p4
  <2> QED BY <1>3, <1>6, ConcatOnce DEF Countable
<1>8. IsInjective(p3) /\ IsInjective(exhaustPile)
  <2> HIDE DEF p3
  <2> QED BY <1>2, <1>7, ConcatOnce DEF Countable
<1>9. /\ IsInjective(p2) /\ IsInjective(discardPile)
      /\ ToSet(p2) \intersect ToSet(discardPile) = {}
  <2> HIDE DEF p2
  <2> QED BY <1>1, <1>8, ConcatOnce DEF Countable
<1>10. IsInjective(hand) /\ IsInjective(drawPile)
  BY <1>9, ConcatOnce DEF Countable
<1> QED BY <1>1, <1>5, <1>7, <1>8, <1>9, <1>10

LEMMA CountedIsConserved ==
  ASSUME KInv, EachCardOnce
  PROVE  IsInjective(Places) /\ ToSet(Places) = issued
BY PilesCount, PlacesAreCounted, CountedAreApart DEF EachCardOnce

\* The cards move, and none comes or goes.
LEMMA CardsMove ==
  ASSUME EachCardOnce, Located' = Located, Total' = Total, UNCHANGED issued
  PROVE  EachCardOnce'
BY DEF EachCardOnce

\* One card comes.
LEMMA CardComes ==
  ASSUME Countable, EachCardOnce, NEW c, c \notin Located,
         Located' = Located \union {c}, Total' = Total + 1,
         issued' = issued \union {c}
  PROVE  EachCardOnce'
<1>1. IsFiniteSet(issued) /\ Cardinality(issued) = Total /\ c \notin issued
  BY CountedAreApart DEF EachCardOnce
<1>2. Cardinality(issued \union {c}) = Cardinality(issued) + 1
  BY <1>1, FS_AddElement
<1> QED BY <1>1, <1>2 DEF EachCardOnce

------------------------------------------------------------------------------
(* Steps of the queue move cards and lose none *)

\* No card comes or goes, whatever pile it is in.
Moves == Located' = Located /\ Total' = Total

LEMMA MovesKeep ==
  ASSUME EachCardOnce, Moves, UNCHANGED issued
  PROVE  EachCardOnce'
BY CardsMove DEF Moves

LEMMA ProceedHolds ==
  ASSUME KInv, NEW op, Running(op), Proceed
  PROVE  HeldCards' = HeldCards
<1>1. frames # <<>> /\ Head(frames) # <<>> /\ TInv
  BY DEF Running, KInv, SInv
<1> QED BY <1>1, ProceedParks DEF HeldCards

LEMMA ShowHolds ==
  ASSUME KInv, ~ScreenOpen, NEW purpose \in Purposes, NEW source,
         NEW held \in BOOLEAN, NEW selectable,
         Show(Screen(purpose, source, held, selectable))
  PROVE  HeldCards = <<>> /\ HeldCards' = IF held THEN <<source>> ELSE <<>>
<1>1. decision.purpose = "None" /\ ~decision.held
  BY DEF KInv, ParkShape, ScreenOpen
<1>2. purpose # "None"
  BY DEF Purposes, HandSelects, DrawSelects, DiscardSelects, ExhaustSelects
<1>3. decision'.held = held /\ decision'.source = source
  BY <1>2 DEF Show, GoOn, Screen
<1> QED BY <1>1, <1>3 DEF HeldCards

\* One more card at either end of a pile.
LEMMA OneMore ==
  ASSUME NEW c \in CardIds
  PROVE  \A s \in Seq(CardIds) :
           /\ Len(Append(s, c)) = Len(s) + 1 /\ Len(<<c>> \o s) = Len(s) + 1
           /\ ToSet(Append(s, c)) = ToSet(s) \union {c}
           /\ ToSet(<<c>> \o s) = ToSet(s) \union {c}
BY CountAppend

LEMMA Settles ==
  ASSUME Countable, NEW c \in CardIds, SettleSource(c)
  PROVE  /\ Len(discardPile') + Len(exhaustPile')
              = Len(discardPile) + Len(exhaustPile) + 1
         /\ ToSet(discardPile') \union ToSet(exhaustPile')
              = ToSet(discardPile) \union ToSet(exhaustPile) \union {c}
<1>1. \A s \in {discardPile, exhaustPile} :
        Len(Append(s, c)) = Len(s) + 1 /\ ToSet(Append(s, c)) = ToSet(s) \union {c}
  BY OneMore DEF Countable
<1>2. CASE Exhausts(c)
  <2>1. discardPile' = discardPile /\ exhaustPile' = Append(exhaustPile, c)
    BY <1>2 DEF SettleSource
  <2>2. Len(exhaustPile') = Len(exhaustPile) + 1
        /\ ToSet(exhaustPile') = ToSet(exhaustPile) \union {c}
    BY <1>1, <2>1
  <2>3. Len(discardPile') + Len(exhaustPile') = Len(discardPile) + Len(exhaustPile) + 1
    BY <2>1, <2>2 DEF Countable
  <2> QED BY <2>1, <2>2, <2>3
<1>3. CASE ~Exhausts(c)
  <2>1. exhaustPile' = exhaustPile /\ discardPile' = Append(discardPile, c)
    BY <1>3 DEF SettleSource
  <2>2. Len(discardPile') = Len(discardPile) + 1
        /\ ToSet(discardPile') = ToSet(discardPile) \union {c}
    BY <1>1, <2>1
  <2>3. Len(discardPile') + Len(exhaustPile') = Len(discardPile) + Len(exhaustPile) + 1
    BY <2>1, <2>2 DEF Countable
  <2> QED BY <2>1, <2>2, <2>3
<1> QED BY <1>2, <1>3

LEMMA PutsOn ==
  ASSUME Countable, NEW c \in CardIds, PutOnTop(c) \/ PutOnBottom(c)
  PROVE  Len(drawPile') = Len(drawPile) + 1
         /\ ToSet(drawPile') = ToSet(drawPile) \union {c}
<1>1. drawPile \in Seq(CardIds)
  BY DEF Countable
<1>2. drawPile' = Append(drawPile, c) \/ drawPile' = <<c>> \o drawPile
  BY DEF PutOnTop, PutOnBottom
<1> QED BY <1>1, <1>2, OneMore

LEMMA Takes ==
  ASSUME Countable, EachCardOnce, NEW c \in ToSet(drawPile), TakeFromDrawPile(c)
  PROVE  /\ Len(hand') + Len(drawPile') + Len(discardPile')
              = Len(hand) + Len(drawPile) + Len(discardPile)
         /\ ToSet(hand') \union ToSet(drawPile') \union ToSet(discardPile')
              = ToSet(hand) \union ToSet(drawPile) \union ToSet(discardPile)
<1>1. /\ IsInjective(drawPile) /\ drawPile' = Without(drawPile, c)
      /\ {hand, drawPile, discardPile} \subseteq Seq(CardIds)
      /\ {Len(hand), Len(drawPile), Len(discardPile)} \subseteq Nat
  BY CountedAreApart DEF TakeFromDrawPile, Countable
<1>2. c \in CardIds
  BY <1>1, ToSetType
<1>3. Len(drawPile') = Len(drawPile) - 1 /\ ToSet(drawPile') \union {c} = ToSet(drawPile)
  BY <1>1, CountWithout
<1>4. \A s \in {hand, discardPile} :
        Len(Append(s, c)) = Len(s) + 1 /\ ToSet(Append(s, c)) = ToSet(s) \union {c}
  BY <1>1, <1>2, OneMore
<1>5. \/ /\ Len(hand') = Len(hand) + 1 /\ ToSet(hand') = ToSet(hand) \union {c}
         /\ discardPile' = discardPile
      \/ /\ Len(discardPile') = Len(discardPile) + 1
         /\ ToSet(discardPile') = ToSet(discardPile) \union {c}
         /\ hand' = hand
  BY <1>4 DEF TakeFromDrawPile
<1>6. Len(hand') + Len(drawPile') + Len(discardPile')
        = Len(hand) + Len(drawPile) + Len(discardPile)
  BY <1>1, <1>3, <1>5
<1> QED BY <1>3, <1>5, <1>6

LEMMA DrawMoves ==
  ASSUME KInv, EachCardOnce, NEW n \in Nat, NEW base \in Seq(CardIds),
         NEW occupied \in Nat, NEW tail \in Seq(CardIds),
         Draw(n, base, occupied, tail)
  PROVE  /\ Len(hand') + Len(drawPile') + Len(discardPile')
              = Len(base) + Len(tail) + Len(drawPile) + Len(discardPile)
         /\ ToSet(hand') \union ToSet(drawPile') \union ToSet(discardPile')
              = ToSet(base) \union ToSet(tail) \union ToSet(drawPile)
                \union ToSet(discardPile)
<1>0. /\ TInv /\ Countable
      /\ drawPile \in Seq(CardIds) /\ discardPile \in Seq(CardIds)
      /\ Len(drawPile) \in Nat /\ Len(discardPile) \in Nat
      /\ Len(base) \in Nat /\ Len(tail) \in Nat
      /\ IsInjective(discardPile)
  BY PilesCount, CountedAreApart DEF KInv, SInv, Countable
<1>c. \A s, t \in Seq(CardIds) :
        /\ s \o t \in Seq(CardIds) /\ Len(s \o t) = Len(s) + Len(t)
        /\ ToSet(s \o t) = ToSet(s) \union ToSet(t)
  BY CountConcat
<1>1. ASSUME NEW k \in 0..Len(drawPile),
             hand' = base \o TopOf(drawPile, k) \o tail,
             drawPile' = DropTop(drawPile, k), discardPile' = discardPile
      PROVE  /\ Len(hand') + Len(drawPile') + Len(discardPile')
                  = Len(base) + Len(tail) + Len(drawPile) + Len(discardPile)
             /\ ToSet(hand') \union ToSet(drawPile') \union ToSet(discardPile')
                  = ToSet(base) \union ToSet(tail) \union ToSet(drawPile)
                    \union ToSet(discardPile)
  <2> DEFINE top == TopOf(drawPile, k)
             front == base \o top
  <2>1. /\ top \in Seq(CardIds) /\ Len(top) = k
        /\ Len(drawPile') = Len(drawPile) - k
        /\ ToSet(top) \union ToSet(drawPile') = ToSet(drawPile)
    BY <1>0, <1>1, CountTop
  <2>2. hand' = front \o tail
    BY <1>1
  <2> HIDE DEF top
  <2>3. front \in Seq(CardIds) /\ Len(front) = Len(base) + k
        /\ ToSet(front) = ToSet(base) \union ToSet(top)
    BY <1>c, <2>1
  <2> HIDE DEF front
  <2>4. Len(hand') = Len(front) + Len(tail)
        /\ ToSet(hand') = ToSet(front) \union ToSet(tail)
    BY <1>c, <2>2, <2>3
  <2>5. Len(hand') + Len(drawPile') + Len(discardPile')
          = Len(base) + Len(tail) + Len(drawPile) + Len(discardPile)
    BY <1>0, <1>1, <2>1, <2>3, <2>4
  <2> QED BY <1>1, <2>1, <2>3, <2>4, <2>5
<1>2. ASSUME NEW order \in Orders(ToSet(discardPile), Len(discardPile)),
             NEW l \in 0..Len(discardPile),
             hand' = base \o TopOf(drawPile, Len(drawPile)) \o TopOf(order, l) \o tail,
             drawPile' = DropTop(order, l), discardPile' = <<>>
      PROVE  /\ Len(hand') + Len(drawPile') + Len(discardPile')
                  = Len(base) + Len(tail) + Len(drawPile) + Len(discardPile)
             /\ ToSet(hand') \union ToSet(drawPile') \union ToSet(discardPile')
                  = ToSet(base) \union ToSet(tail) \union ToSet(drawPile)
                    \union ToSet(discardPile)
  <2> DEFINE all == TopOf(drawPile, Len(drawPile))
             top == TopOf(order, l)
             one == base \o all
             two == one \o top
  <2>1. IsFiniteSet(ToSet(discardPile))
        /\ Cardinality(ToSet(discardPile)) = Len(discardPile)
    BY <1>0, CountOnce
  <2>2. /\ order \in Seq(CardIds) /\ Len(order) = Len(discardPile)
        /\ ToSet(order) = ToSet(discardPile)
    <3>1. order \in Seq(CardIds)
      BY <1>0, OrdersOfCards
    <3>2. Len(order) = Len(discardPile) /\ ToSet(order) = ToSet(discardPile)
      BY <1>0, <2>1, CountOrders
    <3> QED BY <3>1, <3>2
  <2>3. /\ all \in Seq(CardIds) /\ Len(all) = Len(drawPile)
        /\ ToSet(all) = ToSet(drawPile)
    <3>1. Len(drawPile) \in 0..Len(drawPile) /\ Len(drawPile) - Len(drawPile) = 0
      BY <1>0
    <3>2. /\ all \in Seq(CardIds) /\ Len(all) = Len(drawPile)
          /\ Len(DropTop(drawPile, Len(drawPile))) = 0
          /\ DropTop(drawPile, Len(drawPile)) \in Seq(CardIds)
          /\ ToSet(all) \union ToSet(DropTop(drawPile, Len(drawPile))) = ToSet(drawPile)
      BY SMTT(20), <1>0, <3>1, CountTop
    <3>3. DropTop(drawPile, Len(drawPile)) = <<>>
      BY <3>2
    <3> QED BY <3>2, <3>3, SetOfEmpty
  <2>4. /\ top \in Seq(CardIds) /\ Len(top) = l
        /\ Len(drawPile') = Len(order) - l
        /\ ToSet(top) \union ToSet(drawPile') = ToSet(order)
    BY <1>2, <2>2, CountTop
  <2>5. hand' = two \o tail
    BY <1>2
  <2> HIDE DEF all, top
  <2>6. one \in Seq(CardIds) /\ Len(one) = Len(base) + Len(drawPile)
        /\ ToSet(one) = ToSet(base) \union ToSet(drawPile)
    BY <1>c, <2>3
  <2> HIDE DEF one
  <2>7. two \in Seq(CardIds) /\ Len(two) = Len(one) + l
        /\ ToSet(two) = ToSet(one) \union ToSet(top)
    BY <1>c, <2>4, <2>6
  <2> HIDE DEF two
  <2>8. Len(hand') = Len(two) + Len(tail)
        /\ ToSet(hand') = ToSet(two) \union ToSet(tail)
    BY <1>c, <2>5, <2>7
  <2>9. Len(discardPile') = 0 /\ ToSet(discardPile') = {}
    BY <1>2, SetOfEmpty
  <2>10. Len(hand') + Len(drawPile') + Len(discardPile')
          = Len(base) + Len(tail) + Len(drawPile) + Len(discardPile)
    BY <1>0, <2>2, <2>4, <2>6, <2>7, <2>8, <2>9
  <2> QED BY <2>2, <2>4, <2>6, <2>7, <2>8, <2>9, <2>10
<1>3. \/ \E k \in 0..Len(drawPile) :
           /\ k <= Room(occupied)
           /\ hand' = base \o TopOf(drawPile, k) \o tail
           /\ drawPile' = DropTop(drawPile, k)
           /\ discardPile' = discardPile
      \/ \E order \in Orders(ToSet(discardPile), Len(discardPile)),
            l \in 0..Len(discardPile) :
           /\ Len(drawPile) + l <= Room(occupied)
           /\ hand' = base \o TopOf(drawPile, Len(drawPile))
                           \o TopOf(order, l) \o tail
           /\ drawPile' = DropTop(order, l)
           /\ discardPile' = <<>>
  <2>1. TInv
    BY <1>0
  <2> QED BY <2>1, DrawCases, Zenon
<1> QED BY <1>1, <1>2, <1>3, Zenon

LEMMA SameHolds ==
  ASSUME UNCHANGED <<piles, HeldCards>>
  PROVE  Moves
BY DEF Moves, Located, Total, piles, HeldCards

LEMMA CountsAreNumbers ==
  ASSUME Countable
  PROVE  /\ Len(hand) \in Nat /\ Len(drawPile) \in Nat /\ Len(discardPile) \in Nat
         /\ Len(exhaustPile) \in Nat /\ Len(limbo) \in Nat /\ Len(HeldCards) \in Nat
BY DEF Countable

\* A card leaves the hand to be settled.
LEMMA HandSettles ==
  ASSUME Countable, Countable', EachCardOnce, NEW c \in ToSet(hand),
         hand' = Without(hand, c), SettleSource(c),
         UNCHANGED <<drawPile, limbo>>, HeldCards' = HeldCards
  PROVE  Moves
<1>1. IsInjective(hand) /\ hand \in Seq(CardIds) /\ c \in CardIds
  BY CountedAreApart, ToSetType DEF Countable
<1>2. Len(hand') = Len(hand) - 1 /\ ToSet(hand') \union {c} = ToSet(hand)
  BY <1>1, CountWithout
<1>3. /\ Len(discardPile') + Len(exhaustPile')
           = Len(discardPile) + Len(exhaustPile) + 1
      /\ ToSet(discardPile') \union ToSet(exhaustPile')
           = ToSet(discardPile) \union ToSet(exhaustPile) \union {c}
  BY <1>1, Settles
<1>4. Total' = Total
  <2>1. /\ Len(discardPile') \in Nat /\ Len(exhaustPile') \in Nat
        /\ UNCHANGED <<Len(drawPile), Len(limbo), Len(HeldCards)>>
    BY DEF Countable
  <2> QED BY <1>2, <1>3, <2>1, CountsAreNumbers DEF Total
<1>5. Located' = Located
  BY <1>2, <1>3 DEF Located
<1> QED BY <1>4, <1>5 DEF Moves

\* The source waiting in limbo is settled.
LEMMA LimboSettles ==
  ASSUME Countable, Countable', EachCardOnce, NEW c \in ToSet(limbo),
         limbo' = Without(limbo, c), SettleSource(c),
         UNCHANGED <<hand, drawPile>>, HeldCards' = HeldCards
  PROVE  Moves
<1>1. IsInjective(limbo) /\ limbo \in Seq(CardIds) /\ c \in CardIds
  BY CountedAreApart, ToSetType DEF Countable
<1>2. Len(limbo') = Len(limbo) - 1 /\ ToSet(limbo') \union {c} = ToSet(limbo)
  BY <1>1, CountWithout
<1>3. /\ Len(discardPile') + Len(exhaustPile')
           = Len(discardPile) + Len(exhaustPile) + 1
      /\ ToSet(discardPile') \union ToSet(exhaustPile')
           = ToSet(discardPile) \union ToSet(exhaustPile) \union {c}
  BY <1>1, Settles
<1>4. Total' = Total
  <2>1. /\ Len(discardPile') \in Nat /\ Len(exhaustPile') \in Nat
        /\ UNCHANGED <<Len(drawPile), Len(hand), Len(HeldCards)>>
    BY DEF Countable
  <2> QED BY <1>2, <1>3, <2>1, CountsAreNumbers DEF Total
<1>5. Located' = Located
  BY <1>2, <1>3 DEF Located
<1> QED BY <1>4, <1>5 DEF Moves

LEMMA SettleMoves ==
  ASSUME KInv, Countable, Countable', EachCardOnce,
         Run_MoveCard \/ Run_SettleHandSource \/ Run_MoveDrawSelectSource
  PROVE  Moves
<1>1. PICK op : Running(op) /\ Proceed
  BY DEF Run_MoveCard, Run_SettleHandSource, Run_MoveDrawSelectSource
<1>2. HeldCards' = HeldCards
  BY <1>1, ProceedHolds
<1>3. CASE Run_MoveCard
  BY <1>2, <1>3, HandSettles DEF Run_MoveCard
<1>4. CASE Run_SettleHandSource \/ Run_MoveDrawSelectSource
  BY <1>2, <1>4, LimboSettles
     DEF Run_SettleHandSource, Run_MoveDrawSelectSource, LeaveLimbo
<1> QED BY <1>3, <1>4

LEMMA TakeMoves ==
  ASSUME Countable, Countable', EachCardOnce, NEW c \in ToSet(drawPile),
         TakeFromDrawPile(c), UNCHANGED <<exhaustPile, limbo>>,
         HeldCards' = HeldCards
  PROVE  Moves
<1>1. /\ Len(hand') + Len(drawPile') + Len(discardPile')
           = Len(hand) + Len(drawPile) + Len(discardPile)
      /\ ToSet(hand') \union ToSet(drawPile') \union ToSet(discardPile')
           = ToSet(hand) \union ToSet(drawPile) \union ToSet(discardPile)
  BY Takes
<1>2. Total' = Total
  BY <1>1 DEF Total, Countable
<1>3. Located' = Located
  BY <1>1 DEF Located
<1> QED BY <1>2, <1>3 DEF Moves

\* A draw behind some of the hand, with the card in use at the end or not.
LEMMA DrawnMoves ==
  ASSUME KInv, Countable, Countable', EachCardOnce,
         NEW n \in Nat, NEW base \in Seq(CardIds),
         NEW occupied \in Nat, NEW tail \in Seq(CardIds),
         Draw(n, base, occupied, tail),
         Len(base) + Len(tail) = Len(hand),
         ToSet(base) \union ToSet(tail) = ToSet(hand),
         UNCHANGED <<exhaustPile, limbo>>, HeldCards' = HeldCards
  PROVE  Moves
<1>1. /\ Len(hand') + Len(drawPile') + Len(discardPile')
           = Len(base) + Len(tail) + Len(drawPile) + Len(discardPile)
      /\ ToSet(hand') \union ToSet(drawPile') \union ToSet(discardPile')
           = ToSet(base) \union ToSet(tail) \union ToSet(drawPile)
             \union ToSet(discardPile)
  BY DrawMoves
<1>2. Total' = Total
  BY <1>1 DEF Total, Countable
<1>3. Located' = Located
  BY <1>1 DEF Located
<1> QED BY <1>2, <1>3 DEF Moves

LEMMA DrawCardsMoves ==
  ASSUME KInv, Countable, Countable', EachCardOnce, Run_DrawCards
  PROVE  Moves
<1>1. /\ TInv /\ hand \in Seq(CardIds) /\ <<>> \in Seq(CardIds) /\ Len(hand) \in Nat
      /\ Running("DrawCards") /\ Proceed /\ UNCHANGED <<exhaustPile, limbo>>
      /\ Draw(Current.n, hand, Len(Without(hand, cardInUse)), <<>>)
  BY DEF KInv, SInv, Countable, Run_DrawCards
<1>2. Current.n \in Nat
  BY <1>1, RunningTypes DEF Ops, InternalAction, ActionsOf
<1>3. Len(Without(hand, cardInUse)) \in Nat
  BY <1>1, WithoutType
<1>4. Len(hand) + Len(<<>>) = Len(hand) /\ ToSet(hand) \union ToSet(<<>>) = ToSet(hand)
  <2>1. Len(<<>>) = 0
    OBVIOUS
  <2> QED BY <1>1, <2>1, SetOfEmpty
<1>5. HeldCards' = HeldCards
  BY <1>1, ProceedHolds
<1> QED BY <1>1, <1>2, <1>3, <1>4, <1>5, DrawnMoves

LEMMA LimboDrawMoves ==
  ASSUME KInv, Countable, Countable', EachCardOnce,
         Run_DrawCardsWhilePlayedCardIsInLimbo
  PROVE  Moves
<1> DEFINE c    == Current.card
           rest == Without(hand, c)
           tail == IF c \in ToSet(hand) THEN <<c>> ELSE <<>>
<1>1. /\ TInv /\ hand \in Seq(CardIds) /\ Len(hand) \in Nat
      /\ Running("DrawCardsWhilePlayedCardIsInLimbo") /\ Proceed
      /\ UNCHANGED <<exhaustPile, limbo>>
      /\ Draw(Current.n, rest, Len(rest), tail)
  BY DEF KInv, SInv, Countable, Run_DrawCardsWhilePlayedCardIsInLimbo
<1>2. Current.n \in Nat /\ IsInjective(hand)
  BY <1>1, RunningTypes, CountedAreApart DEF Ops, InternalAction, ActionsOf
<1>3. /\ rest \in Seq(CardIds) /\ Len(rest) \in Nat /\ tail \in Seq(CardIds)
  BY <1>1, SetOfWithout, ToSetType
<1>4. Len(rest) + Len(tail) = Len(hand) /\ ToSet(rest) \union ToSet(tail) = ToSet(hand)
  <2>1. CASE c \in ToSet(hand)
    <3>1. Len(rest) = Len(hand) - 1 /\ ToSet(rest) \union {c} = ToSet(hand)
      BY <1>1, <1>2, <2>1, CountWithout
    <3>2. tail = <<c>> /\ Len(tail) = 1 /\ ToSet(<<c>>) = {c}
      BY <2>1, SetOfOne
    <3> HIDE DEF rest, tail
    <3> QED BY <1>1, <3>1, <3>2
  <2>2. CASE c \notin ToSet(hand)
    <3>1. tail = <<>> /\ Len(tail) = 0 /\ ToSet(<<>>) = {}
      BY <2>2, SetOfEmpty
    <3>2. IsInjective(rest) /\ ToSet(rest) = ToSet(hand) \ {c}
      BY <1>1, <1>2, DroppedOnce, SetOfWithout DEF Without
    <3>3. ToSet(rest) = ToSet(hand)
      BY <2>2, <3>2
    <3>4. Len(rest) = Len(hand)
      BY <1>1, <1>2, <1>3, <3>2, <3>3, CountOnce
    <3> HIDE DEF rest, tail
    <3> QED BY <1>1, <3>1, <3>3, <3>4
  <2> QED BY <2>1, <2>2
<1>5. HeldCards' = HeldCards
  BY <1>1, ProceedHolds
<1> HIDE DEF rest, tail
<1> QED BY <1>1, <1>2, <1>3, <1>4, <1>5, DrawnMoves

------------------------------------------------------------------------------
(* The next free id *)

LEMMA MaxIsBound ==
  ASSUME NEW m \in Nat, NEW S \in SUBSET (0..m), S # {}
  PROVE  Max(S) \in S /\ \A y \in S : y <= Max(S)
<1> DEFINE T == {m - x : x \in S}
           below == OpToRel(<, Nat)
<1>1. T \in SUBSET Nat /\ T # {}
  <2>1. \A x \in S : x \in 0..m
    OBVIOUS
  <2>2. \A x \in 0..m : m - x \in Nat
    OBVIOUS
  <2> QED BY <2>1, <2>2
<1>2. PICK t \in T : \A y \in T : t <= y
  <2> HIDE DEF T
  <2>1. IsWellFoundedOn(below, Nat)
    BY NatLessThanWellFounded
  <2>2. PICK t \in T : \A y \in T : ~(<<y, t>> \in below)
    <3> HIDE DEF below
    <3> QED BY <1>1, <2>1, WFMin
  <2>3. ASSUME NEW y \in T
        PROVE  t <= y
    <3>1. <<y, t>> \in Nat \X Nat /\ ~(<<y, t>> \in below)
      BY <1>1, <2>2
    <3>2. below = {ss \in Nat \X Nat : ss[1] < ss[2]}
      BY DEF OpToRel
    <3>3. ~(y < t)
      <4> HIDE DEF below
      <4> QED BY <3>1, <3>2
    <3> QED BY <1>1, <3>3
  <2> QED BY <2>3
<1>3. PICK x \in S : t = m - x
  BY <1>2
<1>4. \A y \in S : m - x <= m - y
  BY <1>2, <1>3
<1>5. \A y \in S : x >= y
  BY <1>3, <1>4
<1> QED BY <1>3, <1>5 DEF Max

\* A generated card gets an id that no card has.
LEMMA NextIdIsFree ==
  ASSUME KInv
  PROVE  NextCardInstanceId \notin Located
<1> DEFINE S == Located \union {0} \union ({cardInUse} \ {None})
<1>1. MaxCardId \in Nat /\ CardIds = 1..MaxCardId
  BY DeckAssumption DEF CardIds
<1>2. Located \subseteq CardIds
  BY PilesCount, ToSetType DEF Located, Countable
<1>3. cardInUse \in CardIds \union {None}
  BY DEF KInv, SInv, TInv, RestTypes
<1>4. S \in SUBSET (0..MaxCardId) /\ S # {}
  <2>1. CardIds \union {0} \subseteq 0..MaxCardId
    BY <1>1
  <2> QED BY <1>2, <1>3, <2>1
<1>5. Max(S) \in S /\ \A y \in S : y <= Max(S)
  <2> HIDE DEF S
  <2> QED BY <1>1, <1>4, MaxIsBound
<1>6. NextCardInstanceId = 1 + Max(S)
  BY DEF NextCardInstanceId
<1>7. Max(S) \in Nat
  <2> HIDE DEF S
  <2>1. Max(S) \in 0..MaxCardId
    BY <1>4, <1>5
  <2> QED BY <1>1, <2>1
<1>8. NextCardInstanceId \notin S
  <2> HIDE DEF S
  <2> QED BY <1>5, <1>6, <1>7
<1> QED BY <1>8

LEMMA RandomSpotKeeps ==
  ASSUME KInv, Countable, Countable', EachCardOnce, monstersAlive,
         Run_AddGeneratedCardToDrawPileRandomSpot
  PROVE  EachCardOnce'
<1> DEFINE c == NextCardInstanceId
<1>1. HeldCards' = HeldCards
  BY ProceedHolds DEF Run_AddGeneratedCardToDrawPileRandomSpot
<1>2. /\ Issue(c, "Wound") /\ UNCHANGED <<hand, discardPile, exhaustPile, limbo>>
      /\ \/ PutOnTop(c)
         \/ /\ drawPile # <<>>
            /\ \E i \in RandomSpots(drawPile) : drawPile' = InsertAt(drawPile, i, c)
  BY DEF Run_AddGeneratedCardToDrawPileRandomSpot
<1>3. c \notin Located
  BY NextIdIsFree
<1> HIDE DEF c
<1>4. c \in CardIds /\ issued' = issued \union {c} /\ drawPile \in Seq(CardIds)
  BY <1>2 DEF Issue, Countable
<1>5. Len(drawPile') = Len(drawPile) + 1 /\ ToSet(drawPile') = ToSet(drawPile) \union {c}
  <2>1. CASE PutOnTop(c)
    BY <1>4, <2>1, PutsOn
  <2>2. ASSUME NEW i \in RandomSpots(drawPile), drawPile' = InsertAt(drawPile, i, c)
        PROVE  Len(drawPile') = Len(drawPile) + 1
               /\ ToSet(drawPile') = ToSet(drawPile) \union {c}
    <3>1. i \in 1..(Len(drawPile) + 1)
      BY <1>4, <2>2 DEF RandomSpots
    <3> QED BY <1>4, <2>2, <3>1, CountInsertAt
  <2> QED BY <1>2, <2>1, <2>2
<1>6. Total' = Total + 1
  BY <1>1, <1>2, <1>5, CountsAreNumbers DEF Total
<1>7. Located' = Located \union {c}
  BY <1>1, <1>2, <1>5 DEF Located
<1> QED BY <1>3, <1>4, <1>6, <1>7, CardComes

LEMMA DeepBreathMoves ==
  ASSUME KInv, Countable, Countable', EachCardOnce, Run_DeepBreathShuffle
  PROVE  Moves
<1>1. HeldCards' = HeldCards /\ UNCHANGED <<hand, exhaustPile, limbo>>
  BY ProceedHolds DEF Run_DeepBreathShuffle
<1>2. CASE discardPile = <<>>
  BY <1>1, <1>2, SameHolds DEF Run_DeepBreathShuffle, piles
<1>3. CASE discardPile # <<>>
  <2> DEFINE A == ToSet(drawPile)
             B == ToSet(discardPile)
             n == Len(drawPile) + Len(discardPile)
  <2>1. drawPile' \in Orders(A \union B, n) /\ discardPile' = <<>>
    BY <1>3 DEF Run_DeepBreathShuffle
  <2>2. /\ IsInjective(drawPile) /\ IsInjective(discardPile)
        /\ drawPile \in Seq(CardIds) /\ discardPile \in Seq(CardIds)
        /\ A \intersect B = {}
    BY CountedAreApart DEF Countable
  <2>3. /\ IsFiniteSet(A) /\ Cardinality(A) = Len(drawPile) /\ Len(drawPile) \in Nat
        /\ IsFiniteSet(B) /\ Cardinality(B) = Len(discardPile) /\ Len(discardPile) \in Nat
    BY <2>2, CountOnce
  <2> HIDE DEF A, B
  <2>4. IsFiniteSet(A \union B)
    BY <2>3, FS_Union
  <2>5. Cardinality(A \union B) = n
    <3>1. Cardinality(A \union B)
            = Cardinality(A) + Cardinality(B) - Cardinality(A \intersect B)
      BY <2>3, FS_Union
    <3>2. Cardinality(A \intersect B) = 0
      BY <2>2, FS_EmptySet
    <3> QED BY <2>3, <3>1, <3>2
  <2>6. n \in Nat
    BY <2>3
  <2> HIDE DEF n
  <2>7. Len(drawPile') = n /\ ToSet(drawPile') = A \union B
    BY <2>1, <2>4, <2>5, <2>6, CountOrders
  <2>8. Len(discardPile') = 0 /\ ToSet(discardPile') = {}
    BY <2>1, SetOfEmpty
  <2>9. Total' = Total
    BY <1>1, <2>7, <2>8, CountsAreNumbers DEF Total, n
  <2>10. Located' = Located
    BY <1>1, <2>7, <2>8 DEF Located, A, B
  <2> QED BY <2>9, <2>10 DEF Moves
<1> QED BY <1>2, <1>3

------------------------------------------------------------------------------
(* Opening a screen moves the source and no other card *)

\* A hand of the source and one other card.
LEMMA HandOfTwo ==
  ASSUME NEW S, NEW s \in Seq(S), IsInjective(s), NEW c \in ToSet(s),
         Len(Without(s, c)) = 1
  PROVE  /\ Len(s) = 2 /\ Without(s, c)[1] \in S
         /\ ToSet(s) = {c, Without(s, c)[1]}
         /\ \A other \in ToSet(s) \ {c} : other = Without(s, c)[1]
<1> DEFINE t == Without(s, c)
<1>1. /\ Len(t) = Len(s) - 1 /\ ToSet(t) = ToSet(s) \ {c}
      /\ t \in Seq(S) /\ Len(s) \in Nat
  <2>1. Len(t) = Len(s) - 1 /\ ToSet(t) = ToSet(s) \ {c}
    BY CountWithout
  <2>2. t \in Seq(S) /\ Len(s) \in Nat
    BY SetOfWithout
  <2> QED BY <2>1, <2>2
<1> HIDE DEF t
<1>2. Len(t) = 1
  BY DEF t
<1>3. t = <<t[1]>> /\ t[1] \in S
  BY <1>1, <1>2
<1>4. ToSet(t) = {t[1]}
  BY <1>3, SetOfOne
<1>5. /\ Len(s) = 2 /\ ToSet(s) = {c, t[1]}
      /\ \A other \in ToSet(s) \ {c} : other = t[1]
  <2>1. Len(s) = 2
    <3>1. \A n \in Nat : 1 = n - 1 => n = 2
      OBVIOUS
    <3> QED BY <1>1, <1>2, <3>1
  <2> QED BY <1>1, <1>4, <2>1
<1> QED BY <1>3, <1>5 DEF t

LEMMA ForethoughtMoves ==
  ASSUME KInv, Countable, Countable', EachCardOnce, monstersAlive,
         Run_ForethoughtAutoMove
  PROVE  Moves
<1> DEFINE c == Current.card
<1>1. /\ Running("ForethoughtAutoMove") /\ c \in ToSet(hand) /\ hand' = <<>>
      /\ SettleSource(c) /\ UNCHANGED limbo /\ SInv
      /\ \E other \in ToSet(hand) \ {c} : PutOnBottom(other)
  BY DEF Run_ForethoughtAutoMove, KInv
<1>2. HeldCards' = HeldCards
  BY ProceedHolds DEF Run_ForethoughtAutoMove
<1>3. Len(Without(hand, c)) = 1
  <2>1. "ForethoughtAutoMove" \in Ops /\ "ForethoughtAutoMove" \in FinalOps
        /\ "ForethoughtAutoMove" \notin PotionOps \union SettleOps
    BY DEF Ops, FinalOps, PotionOps, OpenOps, SettleOps
  <2>2. PlayedCardWork /\ Current.op = "ForethoughtAutoMove"
        /\ frames # <<>> /\ TInv
    BY <1>1, <2>1, WhoRuns DEF SInv
  <2>3. c = cardInUse
    BY <2>1, <2>2, FramesTypes, CardTail DEF PlayedCardWork, Current
  <2> QED BY <2>2, <2>3 DEF PlayedCardWork, Prepared
<1>4. IsInjective(hand) /\ hand \in Seq(CardIds) /\ c \in CardIds
  BY <1>1, CountedAreApart, ToSetType DEF Countable
<1> HIDE DEF c
<1>5. PICK other \in ToSet(hand) \ {c} : PutOnBottom(other)
  BY <1>1
<1>6. Len(hand) = 2 /\ ToSet(hand) = {c, other} /\ other \in CardIds
  BY <1>1, <1>3, <1>4, <1>5, HandOfTwo
<1>7. Len(drawPile') = Len(drawPile) + 1 /\ ToSet(drawPile') = ToSet(drawPile) \union {other}
  BY <1>5, <1>6, PutsOn
<1>8. /\ Len(discardPile') + Len(exhaustPile')
           = Len(discardPile) + Len(exhaustPile) + 1
      /\ ToSet(discardPile') \union ToSet(exhaustPile')
           = ToSet(discardPile) \union ToSet(exhaustPile) \union {c}
  BY <1>1, <1>4, Settles
<1>9. Len(hand') = 0 /\ ToSet(hand') = {}
  BY <1>1, SetOfEmpty
<1>10. Total' = Total
  <2>1. Len(discardPile') \in Nat /\ Len(exhaustPile') \in Nat
    BY DEF Countable
  <2> QED BY <1>1, <1>2, <1>6, <1>7, <1>8, <1>9, <2>1, CountsAreNumbers DEF Total
<1>11. Located' = Located
  BY <1>1, <1>2, <1>6, <1>7, <1>8, <1>9 DEF Located
<1> QED BY <1>10, <1>11 DEF Moves

LEMMA WarcryAloneMoves ==
  ASSUME KInv, Countable, Countable', EachCardOnce, Run_AwaitHandSelect_Auto
  PROVE  Moves
<1> DEFINE c == Current.card
           others == Without(hand, c)
<1>1. /\ c \in ToSet(hand) /\ hand' = <<>> /\ Len(others) <= 1
      /\ SettleSource(c) /\ UNCHANGED limbo
      /\ IF others = <<>> THEN UNCHANGED drawPile ELSE PutOnTop(others[1])
  BY DEF Run_AwaitHandSelect_Auto
<1>2. HeldCards' = HeldCards
  BY ProceedHolds DEF Run_AwaitHandSelect_Auto
<1>4. IsInjective(hand) /\ hand \in Seq(CardIds) /\ c \in CardIds
  BY <1>1, CountedAreApart, ToSetType DEF Countable
<1> HIDE DEF c
<1>5. /\ Len(others) = Len(hand) - 1 /\ ToSet(others) = ToSet(hand) \ {c}
      /\ others \in Seq(CardIds) /\ Len(hand) \in Nat /\ Len(others) \in Nat
  BY <1>1, <1>4, CountWithout, SetOfWithout
<1>6. /\ Len(drawPile') = Len(drawPile) + Len(others)
      /\ ToSet(drawPile') = ToSet(drawPile) \union ToSet(others)
  <2>1. CASE others = <<>>
    <3>1. Len(others) = 0 /\ ToSet(others) = {}
      BY <2>1, SetOfEmpty
    <3> HIDE DEF others
    <3> QED BY <1>1, <2>1, <3>1, CountsAreNumbers
  <2>2. CASE others # <<>>
    <3>1. Len(others) = 1
      <4> HIDE DEF others
      <4> QED BY <1>1, <1>5, <2>2
    <3>2. others[1] \in CardIds /\ ToSet(hand) = {c, others[1]}
      BY <1>1, <1>4, <3>1, HandOfTwo
    <3>3. others = <<others[1]>>
      <4> HIDE DEF others
      <4> QED BY <1>5, <3>1
    <3> HIDE DEF others
    <3>4. ToSet(others) = {others[1]}
      BY <3>3, SetOfOne
    <3> QED BY <1>1, <2>2, <3>1, <3>2, <3>4, PutsOn
  <2> QED BY <2>1, <2>2
<1> HIDE DEF others
<1>8. /\ Len(discardPile') + Len(exhaustPile')
           = Len(discardPile) + Len(exhaustPile) + 1
      /\ ToSet(discardPile') \union ToSet(exhaustPile')
           = ToSet(discardPile) \union ToSet(exhaustPile) \union {c}
  BY <1>1, <1>4, Settles
<1>9. Len(hand') = 0 /\ ToSet(hand') = {}
  BY <1>1, SetOfEmpty
<1>10. Total' = Total
  <2>1. Len(discardPile') \in Nat /\ Len(exhaustPile') \in Nat
    BY DEF Countable
  <2> QED BY <1>1, <1>2, <1>5, <1>6, <1>8, <1>9, <2>1, CountsAreNumbers DEF Total
<1>11. Located' = Located
  BY <1>1, <1>2, <1>5, <1>6, <1>8, <1>9 DEF Located
<1> QED BY <1>10, <1>11 DEF Moves

\* The source goes to limbo.
LEMMA IntoLimbo ==
  ASSUME Countable, Countable', EachCardOnce, NEW c \in ToSet(hand),
         hand' = Without(hand, c), limbo' = Append(limbo, c),
         UNCHANGED <<drawPile, discardPile, exhaustPile>>, HeldCards' = HeldCards
  PROVE  Moves
<1>1. IsInjective(hand) /\ hand \in Seq(CardIds) /\ limbo \in Seq(CardIds) /\ c \in CardIds
  BY CountedAreApart, ToSetType DEF Countable
<1>2. Len(hand') = Len(hand) - 1 /\ ToSet(hand') \union {c} = ToSet(hand)
  BY <1>1, CountWithout
<1>3. Len(limbo') = Len(limbo) + 1 /\ ToSet(limbo') = ToSet(limbo) \union {c}
  BY <1>1, OneMore
<1>4. Total' = Total
  BY <1>2, <1>3, CountsAreNumbers DEF Total
<1>5. Located' = Located
  BY <1>2, <1>3 DEF Located
<1> QED BY <1>4, <1>5 DEF Moves

LEMMA LimboScreenMoves ==
  ASSUME KInv, Countable, Countable', EachCardOnce, monstersAlive,
         Run_AwaitHandSelect_Open \/ Run_AwaitDrawSelect
  PROVE  Moves
<1> DEFINE c == Current.card
<1>1. PICK op \in {"AwaitHandSelect", "AwaitDrawSelect"} :
        /\ Running(op)
        /\ \E selectable : \E purpose \in {Current.purpose, "Scry", "SecretTechnique"} :
             Show(Screen(purpose, c, FALSE, selectable))
  BY DEF Run_AwaitHandSelect_Open, Run_AwaitDrawSelect
<1>2. op \in DOMAIN AwaitPurposes /\ SInv
  BY DEF AwaitPurposes, KInv
<1>3. ~ScreenOpen /\ c \in ToSet(hand) /\ Current.purpose \in AwaitPurposes[op]
  BY <1>1, <1>2, CardShows
<1>4. Current.purpose \in Purposes /\ {"Scry", "SecretTechnique"} \subseteq Purposes
  BY <1>3 DEF AwaitPurposes, Purposes, DrawSelects
<1>5. HeldCards' = HeldCards
  <2>1. PICK purpose \in Purposes : \E selectable :
          Show(Screen(purpose, c, FALSE, selectable))
    BY <1>1, <1>4
  <2>2. FALSE \in BOOLEAN
    OBVIOUS
  <2>3. HeldCards = <<>> /\ HeldCards' = <<>>
    BY <1>3, <2>1, <2>2, ShowHolds
  <2> QED BY <2>3
<1>6. /\ hand' = Without(hand, c) /\ limbo' = Append(limbo, c)
      /\ UNCHANGED <<drawPile, discardPile, exhaustPile>>
  BY <1>3 DEF Run_AwaitHandSelect_Open, Run_AwaitDrawSelect
<1> HIDE DEF c
<1> QED BY <1>3, <1>5, <1>6, IntoLimbo

LEMMA HeadbuttScreenMoves ==
  ASSUME KInv, Countable, Countable', EachCardOnce, monstersAlive,
         Run_AwaitDiscardSelect
  PROVE  Moves
<1> DEFINE c == Current.card
<1>1. /\ Running("AwaitDiscardSelect") /\ c \in ToSet(hand)
      /\ hand' = Without(hand, c) /\ UNCHANGED <<exhaustPile, limbo>>
      /\ \/ /\ Len(discardPile) = 1 /\ PutOnTop(discardPile[1])
            /\ discardPile' = <<c>> /\ Proceed
         \/ discardPile' = Append(discardPile, c) /\ Proceed /\ UNCHANGED drawPile
         \/ Show(Screen("Headbutt", c, TRUE, {})) /\ UNCHANGED <<discardPile, drawPile>>
  BY DEF Run_AwaitDiscardSelect
<1>2. /\ IsInjective(hand) /\ hand \in Seq(CardIds) /\ c \in CardIds
      /\ discardPile \in Seq(CardIds)
  BY <1>1, CountedAreApart, ToSetType DEF Countable
<1>3. ~ScreenOpen
  <2>1. "AwaitDiscardSelect" \in DOMAIN AwaitPurposes /\ SInv
    BY DEF AwaitPurposes, KInv
  <2> QED BY <1>1, <2>1, CardShows
<1> HIDE DEF c
<1>4. Len(hand') = Len(hand) - 1 /\ ToSet(hand') \union {c} = ToSet(hand)
  BY <1>1, <1>2, CountWithout
<1>5. ToSet(<<c>>) = {c} /\ Len(<<c>>) = 1
  BY SetOfOne
<1>6. CASE /\ Len(discardPile) = 1 /\ PutOnTop(discardPile[1])
           /\ discardPile' = <<c>> /\ Proceed
  <2>1. discardPile = <<discardPile[1]>> /\ discardPile[1] \in CardIds
    BY <1>2, <1>6
  <2>2. ToSet(discardPile) = {discardPile[1]}
    BY <2>1, SetOfOne
  <2>3. Len(drawPile') = Len(drawPile) + 1
        /\ ToSet(drawPile') = ToSet(drawPile) \union {discardPile[1]}
    BY <1>6, <2>1, PutsOn
  <2>4. HeldCards' = HeldCards
    BY <1>1, <1>6, ProceedHolds
  <2>5. Len(discardPile') = 1 /\ ToSet(discardPile') = {c}
    BY <1>5, <1>6
  <2>6. Total' = Total
    BY <1>1, <1>4, <1>6, <2>3, <2>4, <2>5, CountsAreNumbers DEF Total
  <2>7. Located' = Located
    BY <1>1, <1>4, <2>2, <2>3, <2>4, <2>5 DEF Located
  <2> QED BY <2>6, <2>7 DEF Moves
<1>7. CASE discardPile' = Append(discardPile, c) /\ Proceed /\ UNCHANGED drawPile
  <2>1. HeldCards' = HeldCards
    BY <1>1, <1>7, ProceedHolds
  <2>2. Len(discardPile') = Len(discardPile) + 1
        /\ ToSet(discardPile') = ToSet(discardPile) \union {c}
    BY <1>2, <1>7, OneMore
  <2>3. Total' = Total
    BY <1>1, <1>4, <1>7, <2>1, <2>2, CountsAreNumbers DEF Total
  <2>4. Located' = Located
    BY <1>1, <1>4, <1>7, <2>1, <2>2 DEF Located
  <2> QED BY <2>3, <2>4 DEF Moves
<1>8. CASE Show(Screen("Headbutt", c, TRUE, {})) /\ UNCHANGED <<discardPile, drawPile>>
  <2>1. "Headbutt" \in Purposes
    BY DEF Purposes, DiscardSelects
  <2>2. HeldCards = <<>> /\ HeldCards' = <<c>>
    BY <1>3, <1>8, <2>1, ShowHolds
  <2>3. /\ Len(HeldCards) = 0 /\ Len(HeldCards') = 1
        /\ ToSet(HeldCards) = {} /\ ToSet(HeldCards') = {c}
    BY <1>5, <2>2, SetOfEmpty
  <2>4. Total' = Total
    BY <1>1, <1>4, <1>8, <2>3, CountsAreNumbers DEF Total
  <2>5. Located' = Located
    BY <1>1, <1>4, <1>8, <2>3 DEF Located
  <2> QED BY <2>4, <2>5 DEF Moves
<1> QED BY <1>1, <1>6, <1>7, <1>8

LEMMA TrueGritScreenMoves ==
  ASSUME KInv, Countable, Countable', EachCardOnce, monstersAlive,
         Run_AwaitExhaustSelect
  PROVE  Moves
<1> DEFINE c == Current.card
           others == Without(hand, c)
<1>1. /\ Running("AwaitExhaustSelect") /\ c \in ToSet(hand)
      /\ UNCHANGED <<drawPile, limbo>>
      /\ \/ /\ hand' = <<>> /\ exhaustPile' = exhaustPile \o others
            /\ discardPile' = Append(discardPile, c) /\ Proceed
         \/ /\ hand' = others /\ Show(Screen("TrueGrit", c, TRUE, {}))
            /\ UNCHANGED <<exhaustPile, discardPile>>
  BY DEF Run_AwaitExhaustSelect
<1>2. /\ IsInjective(hand) /\ hand \in Seq(CardIds) /\ c \in CardIds
      /\ discardPile \in Seq(CardIds) /\ exhaustPile \in Seq(CardIds)
  BY <1>1, CountedAreApart, ToSetType DEF Countable
<1>3. ~ScreenOpen
  <2>1. "AwaitExhaustSelect" \in DOMAIN AwaitPurposes /\ SInv
    BY DEF AwaitPurposes, KInv
  <2> QED BY <1>1, <2>1, CardShows
<1> HIDE DEF c
<1>4. /\ Len(others) = Len(hand) - 1 /\ ToSet(others) \union {c} = ToSet(hand)
      /\ others \in Seq(CardIds)
  BY <1>1, <1>2, CountWithout, SetOfWithout
<1> HIDE DEF others
<1>5. CASE /\ hand' = <<>> /\ exhaustPile' = exhaustPile \o others
           /\ discardPile' = Append(discardPile, c) /\ Proceed
  <2>1. HeldCards' = HeldCards
    BY <1>1, <1>5, ProceedHolds
  <2>2. Len(discardPile') = Len(discardPile) + 1
        /\ ToSet(discardPile') = ToSet(discardPile) \union {c}
    BY <1>2, <1>5, OneMore
  <2>3. Len(exhaustPile') = Len(exhaustPile) + Len(others)
        /\ ToSet(exhaustPile') = ToSet(exhaustPile) \union ToSet(others)
    <3>1. \A s, t \in Seq(CardIds) :
            /\ Len(s \o t) = Len(s) + Len(t)
            /\ ToSet(s \o t) = ToSet(s) \union ToSet(t)
      BY CountConcat
    <3> QED BY <1>2, <1>4, <1>5, <3>1
  <2>4. Len(hand') = 0 /\ ToSet(hand') = {}
    BY <1>5, SetOfEmpty
  <2>5. Total' = Total
    BY <1>1, <1>4, <2>1, <2>2, <2>3, <2>4, CountsAreNumbers DEF Total
  <2>6. Located' = Located
    BY <1>1, <1>4, <2>1, <2>2, <2>3, <2>4 DEF Located
  <2> QED BY <2>5, <2>6 DEF Moves
<1>6. CASE /\ hand' = others /\ Show(Screen("TrueGrit", c, TRUE, {}))
           /\ UNCHANGED <<exhaustPile, discardPile>>
  <2>1. "TrueGrit" \in Purposes
    BY DEF Purposes, ExhaustSelects
  <2>2. HeldCards = <<>> /\ HeldCards' = <<c>>
    BY <1>3, <1>6, <2>1, ShowHolds
  <2>3. /\ Len(HeldCards) = 0 /\ Len(HeldCards') = 1
        /\ ToSet(HeldCards) = {} /\ ToSet(HeldCards') = {c}
    BY <2>2, SetOfEmpty, SetOfOne
  <2>4. Total' = Total
    BY <1>1, <1>4, <1>6, <2>3, CountsAreNumbers DEF Total
  <2>5. Located' = Located
    BY <1>1, <1>4, <1>6, <2>3 DEF Located
  <2> QED BY <2>4, <2>5 DEF Moves
<1> QED BY <1>1, <1>5, <1>6

LEMMA PotionScreenMoves ==
  ASSUME KInv, Run_OpenElixirSelection \/ Run_OpenGamblersBrewSelection
               \/ Run_OpenPotionCardReward
  PROVE  Moves
<1>1. /\ ~ScreenOpen /\ UNCHANGED piles
      /\ \E op : Running(op)
      /\ \/ Proceed
         \/ \E purpose \in {"Exhaust", "GamblingChip", "CardReward"} :
              Show(Screen(purpose, None, FALSE, {}))
  BY DEF Run_OpenElixirSelection, Run_OpenGamblersBrewSelection,
         OpenPotionSelection, Run_OpenPotionCardReward
<1>2. {"Exhaust", "GamblingChip", "CardReward"} \subseteq Purposes
  BY DEF Purposes, ExhaustSelects
<1>3. ASSUME Proceed
      PROVE  HeldCards' = HeldCards
  BY <1>1, <1>3, ProceedHolds
<1>4. ASSUME \E purpose \in {"Exhaust", "GamblingChip", "CardReward"} :
               Show(Screen(purpose, None, FALSE, {}))
      PROVE  HeldCards' = HeldCards
  <2>1. PICK purpose \in Purposes : Show(Screen(purpose, None, FALSE, {}))
    BY <1>2, <1>4
  <2>2. FALSE \in BOOLEAN /\ ~ScreenOpen
    BY <1>1
  <2>3. HeldCards = <<>> /\ HeldCards' = <<>>
    BY <2>1, <2>2, ShowHolds
  <2> QED BY <2>3
<1>5. HeldCards' = HeldCards
  BY <1>1, <1>3, <1>4
<1> QED BY <1>1, <1>5, SameHolds

LEMMA QueueKeepsCards ==
  ASSUME CInv, RunQueue, monstersAlive', Countable'
  PROVE  EachCardOnce'
<1>1. /\ KInv /\ SInv /\ EachCardOnce /\ Countable
  BY PilesCount DEF CInv, LInv, KInv
<1>2. monstersAlive
  BY <1>1, QueueSteps
<1>3. CASE Run_AddGeneratedCardToDrawPileRandomSpot
  BY <1>1, <1>2, <1>3, RandomSpotKeeps
<1>4. CASE EndQueue \/ Run_DealDamage
  <2>1. UNCHANGED piles /\ UNCHANGED issued
    BY <1>4 DEF EndQueue, Run_DealDamage, cards
  <2>2. HeldCards' = HeldCards
    <3>1. CASE EndQueue
      BY <1>2, <3>1 DEF EndQueue, HeldCards
    <3>2. CASE Run_DealDamage
      <4>1. Running("DealDamage") /\ Proceed
        BY <3>2 DEF Run_DealDamage, Proceed
      <4> QED BY <1>1, <4>1, ProceedHolds
    <3> QED BY <1>4, <3>1, <3>2
  <2> QED BY <1>1, <2>1, <2>2, SameHolds, MovesKeep
<1>5. CASE Run_MoveDrawCardToHand
  <2>1. /\ Current.card \in ToSet(drawPile) /\ TakeFromDrawPile(Current.card)
        /\ UNCHANGED <<exhaustPile, limbo, issued>>
        /\ Running("MoveDrawCardToHand") /\ Proceed
    BY <1>5 DEF Run_MoveDrawCardToHand, cards
  <2>2. HeldCards' = HeldCards
    BY <1>1, <2>1, ProceedHolds
  <2> DEFINE c == Current.card
  <2> HIDE DEF c
  <2>3. c \in ToSet(drawPile) /\ TakeFromDrawPile(c)
    BY <2>1 DEF c
  <2> QED BY <1>1, <2>1, <2>2, <2>3, TakeMoves, MovesKeep
<1>6. CASE Run_MoveCard \/ Run_SettleHandSource \/ Run_MoveDrawSelectSource
  <2>1. UNCHANGED issued
    BY <1>6 DEF Run_MoveCard, Run_SettleHandSource, Run_MoveDrawSelectSource, cards
  <2> QED BY <1>1, <1>6, <2>1, SettleMoves, MovesKeep
<1>7. CASE Run_DrawCards \/ Run_DrawCardsWhilePlayedCardIsInLimbo
           \/ Run_DeepBreathShuffle
  <2>1. UNCHANGED issued
    BY <1>7 DEF Run_DrawCards, Run_DrawCardsWhilePlayedCardIsInLimbo,
                Run_DeepBreathShuffle, cards
  <2> QED BY <1>1, <1>7, <2>1, DrawCardsMoves, LimboDrawMoves, DeepBreathMoves,
             MovesKeep
<1>8. CASE Run_ForethoughtAutoMove \/ Run_AwaitHandSelect_Auto
  <2>1. UNCHANGED issued
    BY <1>8 DEF Run_ForethoughtAutoMove, Run_AwaitHandSelect_Auto, cards
  <2> QED BY <1>1, <1>2, <1>8, <2>1, ForethoughtMoves, WarcryAloneMoves, MovesKeep
<1>9. CASE Run_AwaitHandSelect_Open \/ Run_AwaitDrawSelect
           \/ Run_AwaitDiscardSelect \/ Run_AwaitExhaustSelect
  <2>1. UNCHANGED issued
    BY <1>9 DEF Run_AwaitHandSelect_Open, Run_AwaitDrawSelect,
                Run_AwaitDiscardSelect, Run_AwaitExhaustSelect, cards
  <2> QED BY <1>1, <1>2, <1>9, <2>1, LimboScreenMoves, HeadbuttScreenMoves,
             TrueGritScreenMoves, MovesKeep
<1>10. CASE Run_OpenElixirSelection \/ Run_OpenGamblersBrewSelection
            \/ Run_OpenPotionCardReward
  <2>1. UNCHANGED issued
    BY <1>10 DEF Run_OpenElixirSelection, Run_OpenGamblersBrewSelection,
                 OpenPotionSelection, Run_OpenPotionCardReward, cards
  <2> QED BY <1>1, <1>10, <2>1, PotionScreenMoves, MovesKeep
<1> QED BY <1>3, <1>4, <1>5, <1>6, <1>7, <1>8, <1>9, <1>10 DEF RunQueue

------------------------------------------------------------------------------
(* Answers move cards and lose none *)

LEMMA ClosedHolds ==
  ASSUME NEW work, Close(work)
  PROVE  HeldCards' = <<>> /\ Len(HeldCards') = 0 /\ ToSet(HeldCards') = {}
<1>1. decision'.held = FALSE
  BY DEF Close, NoScreen, Screen
<1>2. HeldCards' = <<>>
  BY <1>1 DEF HeldCards
<1>3. Len(<<>>) = 0
  OBVIOUS
<1> QED BY <1>2, <1>3, SetOfEmpty

LEMMA AnsweredHolds ==
  ASSUME ParkShape
  PROVE  /\ decision.purpose \in {"Headbutt", "TrueGrit"} =>
              Len(HeldCards) = 1 /\ ToSet(HeldCards) = {decision.source}
         /\ decision.purpose \notin {"Headbutt", "TrueGrit"} =>
              HeldCards = <<>> /\ Len(HeldCards) = 0 /\ ToSet(HeldCards) = {}
<1>1. CASE decision.purpose \in {"Headbutt", "TrueGrit"}
  <2>1. HeldCards = <<decision.source>>
    BY <1>1 DEF HeldCards, ParkShape
  <2>2. Len(<<decision.source>>) = 1 /\ ToSet(<<decision.source>>) = {decision.source}
    BY SetOfOne
  <2> QED BY <1>1, <2>1, <2>2
<1>2. CASE decision.purpose \notin {"Headbutt", "TrueGrit"}
  <2>1. HeldCards = <<>>
    BY <1>2 DEF HeldCards, ParkShape
  <2>2. Len(<<>>) = 0
    OBVIOUS
  <2> QED BY <1>2, <2>1, <2>2, SetOfEmpty
<1> QED BY <1>1, <1>2

\* The chosen cards and the others make up the hand.
LEMMA ChoiceSplitsHand ==
  ASSUME KInv, Countable, EachCardOnce,
         decision.purpose \in HandSelects \union ExhaustSelects
  PROVE  /\ Chosen \in Seq(CardIds) /\ Len(Chosen) \in Nat
         /\ Len(NotChosen) + Len(Chosen) = Len(hand)
         /\ ToSet(NotChosen) \union ToSet(Chosen) = ToSet(hand)
<1> DEFINE sel == decision.selected
<1>1. /\ IsInjective(sel) /\ sel \in Seq(Nat) /\ ToSet(sel) \subseteq DOMAIN hand
  BY DEF KInv, SInv, TInv, DecisionTypes, ScreenType, ChoiceHolds, ParkShape
<1>2. IsInjective(hand) /\ hand \in Seq(CardIds) /\ Len(hand) \in Nat
  BY CountedAreApart DEF Countable
<1>3. \A k \in DOMAIN sel : sel[k] \in DOMAIN hand
  BY <1>1 DEF ToSet
<1>4. Chosen = [k \in DOMAIN sel |-> hand[sel[k]]] /\ DOMAIN sel = 1..Len(sel)
      /\ Len(sel) \in Nat
  BY <1>1 DEF Chosen
<1> HIDE DEF sel
<1>5. \A i \in DOMAIN hand : hand[i] \in CardIds /\ hand[i] \in ToSet(hand)
  BY <1>2 DEF ToSet
<1>6. Chosen \in Seq(CardIds)
  BY <1>3, <1>4, <1>5
<1>7. IsInjective(Chosen)
  BY <1>1, <1>2, <1>3, <1>4 DEF IsInjective
<1>8. ToSet(Chosen) \in SUBSET ToSet(hand)
  BY <1>3, <1>4, <1>5 DEF ToSet
<1>9. Len(Chosen) = Cardinality(ToSet(Chosen)) /\ Len(Chosen) \in Nat
  BY <1>6, <1>7, CountOnce
<1>10. /\ Len(NotChosen) = Len(hand) - Cardinality(ToSet(Chosen))
       /\ ToSet(NotChosen) = ToSet(hand) \ ToSet(Chosen)
  BY <1>2, <1>8, CountDropping, SetOfDropping DEF NotChosen
<1>11. Len(NotChosen) + Len(Chosen) = Len(hand)
  BY <1>2, <1>9, <1>10
<1> QED BY <1>6, <1>8, <1>9, <1>10, <1>11

LEMMA ConfirmHandMoves ==
  ASSUME KInv, Countable, Countable', EachCardOnce, ConfirmHandSelect
  PROVE  Moves
<1> DEFINE i == decision.selected[1]
           c == hand[i]
<1>1. /\ decision.purpose \in HandSelects /\ decision.selected # <<>>
      /\ hand' = Without(hand, c) /\ (PutOnTop(c) \/ PutOnBottom(c))
      /\ UNCHANGED <<discardPile, exhaustPile, limbo>>
      /\ \E work : Close(work)
  BY DEF ConfirmHandSelect, Answering
<1>2. /\ IsInjective(hand) /\ hand \in Seq(CardIds) /\ ParkShape
      /\ decision.selected \in Seq(Nat) /\ ToSet(decision.selected) \subseteq DOMAIN hand
  BY <1>1, CountedAreApart
     DEF Countable, KInv, SInv, TInv, DecisionTypes, ScreenType, ChoiceHolds
<1>3. i \in DOMAIN hand
  <2>1. 1 \in DOMAIN decision.selected
    BY <1>1, <1>2
  <2> QED BY <1>2, <2>1 DEF ToSet
<1>4. c \in ToSet(hand) /\ c \in CardIds
  <2> HIDE DEF i
  <2> QED BY <1>2, <1>3 DEF ToSet
<1> HIDE DEF c
<1>5. Len(hand') = Len(hand) - 1 /\ ToSet(hand') \union {c} = ToSet(hand)
  BY <1>1, <1>2, <1>4, CountWithout
<1>6. Len(drawPile') = Len(drawPile) + 1 /\ ToSet(drawPile') = ToSet(drawPile) \union {c}
  BY <1>1, <1>4, PutsOn
<1>7. decision.purpose \notin {"Headbutt", "TrueGrit"}
  BY <1>1 DEF HandSelects
<1>8. HeldCards' = HeldCards
  BY <1>1, <1>2, <1>7, ClosedHolds, AnsweredHolds
<1>9. Total' = Total
  BY <1>1, <1>5, <1>6, <1>8, CountsAreNumbers DEF Total
<1>10. Located' = Located
  BY <1>1, <1>5, <1>6, <1>8 DEF Located
<1> QED BY <1>9, <1>10 DEF Moves

LEMMA SearchMoves ==
  ASSUME KInv, Countable, Countable', EachCardOnce,
         NEW c, ChooseSecretTechnique(c)
  PROVE  Moves
<1>1. /\ decision.purpose = "SecretTechnique" /\ c \in ToSet(drawPile)
      /\ TakeFromDrawPile(c) /\ UNCHANGED <<exhaustPile, limbo>>
      /\ \E work : Close(work)
  BY DEF ChooseSecretTechnique, Answering
<1>2. HeldCards' = HeldCards
  BY <1>1, ClosedHolds, AnsweredHolds DEF KInv
<1> QED BY <1>1, <1>2, TakeMoves

LEMMA ConfirmScryMoves ==
  ASSUME LInv, Countable, Countable', EachCardOnce, ConfirmScry
  PROVE  Moves
<1> DEFINE sel == decision.selected
           c   == decision.source
           out == discardPile \o sel
<1>1. /\ decision.purpose = "Scry" /\ KInv /\ SInv /\ ParkShape
      /\ discardPile' = Append(out, c) /\ limbo' = Without(limbo, c)
      /\ UNCHANGED <<hand, exhaustPile>>
      /\ \E work : Close(work)
  BY DEF ConfirmScry, Answering, LInv, KInv, LeaveLimbo
<1>2. HeldCards' = HeldCards
  BY <1>1, ClosedHolds, AnsweredHolds
<1>3. /\ sel \in Seq(CardIds) /\ IsInjective(sel) /\ ToSet(sel) \in SUBSET ToSet(drawPile)
  BY <1>1 DEF SInv, TInv, DecisionTypes, ChoiceHolds, ParkShape, PileShape
<1>4. ToSet(limbo) = {c}
  BY <1>1 DEF LInv, LimboHolds, DrawSelects
<1>5. /\ IsInjective(drawPile) /\ IsInjective(limbo) /\ drawPile \in Seq(CardIds)
      /\ limbo \in Seq(CardIds) /\ discardPile \in Seq(CardIds)
  BY CountedAreApart DEF Countable
<1>6. /\ Len(drawPile') = Len(drawPile) - Cardinality(ToSet(sel))
      /\ ToSet(drawPile') = ToSet(drawPile) \ ToSet(sel)
  <2>1. CASE ToSet(sel) = {}
    <3>1. drawPile' = drawPile
      BY <2>1 DEF ConfirmScry
    <3>2. Cardinality(ToSet(sel)) = 0
      BY <2>1, FS_EmptySet
    <3> HIDE DEF sel
    <3> QED BY <2>1, <3>1, <3>2, CountsAreNumbers
  <2>2. CASE ToSet(sel) # {}
    <3>1. drawPile' = Dropping(drawPile, ToSet(sel))
      BY <2>2 DEF ConfirmScry
    <3> HIDE DEF sel
    <3> QED BY <1>3, <1>5, <3>1, CountDropping, SetOfDropping
  <2> QED BY <2>1, <2>2
<1>7. c \in ToSet(limbo) /\ c \in CardIds
  BY <1>4, <1>5, ToSetType
<1> HIDE DEF sel, c
<1>8. Len(sel) = Cardinality(ToSet(sel)) /\ Len(sel) \in Nat
  BY <1>3, CountOnce
<1>9. /\ out \in Seq(CardIds) /\ Len(out) = Len(discardPile) + Len(sel)
      /\ ToSet(out) = ToSet(discardPile) \union ToSet(sel)
  BY <1>3, <1>5, CountConcat
<1> HIDE DEF out
<1>10. Len(discardPile') = Len(out) + 1 /\ ToSet(discardPile') = ToSet(out) \union {c}
  BY <1>1, <1>7, <1>9, OneMore
<1>11. Len(limbo') = Len(limbo) - 1 /\ ToSet(limbo') \union {c} = ToSet(limbo)
  BY <1>1, <1>5, <1>7, CountWithout
<1>12. Total' = Total
  <2>1. /\ Len(drawPile') = Len(drawPile) - Len(sel)
        /\ Len(discardPile') = (Len(discardPile) + Len(sel)) + 1
        /\ Len(limbo') = Len(limbo) - 1 /\ Len(sel) \in Nat
        /\ Len(hand') = Len(hand) /\ Len(exhaustPile') = Len(exhaustPile)
        /\ Len(HeldCards') = Len(HeldCards)
    BY <1>1, <1>2, <1>6, <1>8, <1>9, <1>10, <1>11
  <2> QED BY <2>1, CountsAreNumbers DEF Total
<1>13. Located' = Located
  BY <1>1, <1>2, <1>3, <1>6, <1>9, <1>10, <1>11 DEF Located
<1> QED BY <1>12, <1>13 DEF Moves

LEMMA ChooseDiscardMoves ==
  ASSUME KInv, Countable, Countable', EachCardOnce,
         NEW i, ChooseHeadbutt(i) \/ ChooseLiquidMemories(i)
  PROVE  Moves
<1> DEFINE x == discardPile[i]
           left == RemoveAt(discardPile, i)
           c == decision.source
<1>1. /\ i \in DOMAIN discardPile /\ discardPile \in Seq(CardIds)
      /\ decision \in ScreenType /\ ParkShape /\ \E work : Close(work)
      /\ UNCHANGED <<exhaustPile, limbo>> /\ hand \in Seq(CardIds)
  BY DEF ChooseHeadbutt, ChooseLiquidMemories, Countable, KInv, SInv, TInv,
         DecisionTypes
<1>2. /\ Len(left) = Len(discardPile) - 1 /\ left \in Seq(CardIds)
      /\ ToSet(left) \union {x} = ToSet(discardPile) /\ x \in CardIds
  <2>1. /\ Len(left) = Len(discardPile) - 1 /\ left \in Seq(CardIds)
        /\ ToSet(left) \union {x} = ToSet(discardPile)
    BY <1>1, CountRemoveAt
  <2> QED BY <1>1, <2>1
<1>3. CASE ChooseHeadbutt(i)
  <2>1. /\ decision.purpose = "Headbutt" /\ PutOnTop(x) /\ hand' = hand
        /\ discardPile' = Append(left, c)
    BY <1>3 DEF ChooseHeadbutt, Answering
  <2>2. c \in CardIds
    BY <1>1, <2>1 DEF ScreenType, Sourced
  <2>3. /\ Len(HeldCards) = 1 /\ ToSet(HeldCards) = {c}
        /\ Len(HeldCards') = 0 /\ ToSet(HeldCards') = {}
    BY <1>1, <2>1, ClosedHolds, AnsweredHolds
  <2> HIDE DEF x, left, c
  <2>4. Len(drawPile') = Len(drawPile) + 1
        /\ ToSet(drawPile') = ToSet(drawPile) \union {x}
    BY <1>2, <2>1, PutsOn
  <2>5. Len(discardPile') = Len(left) + 1 /\ ToSet(discardPile') = ToSet(left) \union {c}
    BY <1>2, <2>1, <2>2, OneMore
  <2>6. Total' = Total
    <3>1. /\ Len(discardPile') = (Len(discardPile) - 1) + 1
          /\ Len(hand') = Len(hand) /\ Len(limbo') = Len(limbo)
          /\ Len(exhaustPile') = Len(exhaustPile)
      BY <1>1, <1>2, <2>1, <2>5
    <3> QED BY <2>3, <2>4, <3>1, CountsAreNumbers DEF Total
  <2>7. Located' = Located
    BY <1>1, <1>2, <2>1, <2>3, <2>4, <2>5 DEF Located
  <2> QED BY <2>6, <2>7 DEF Moves
<1>4. CASE ChooseLiquidMemories(i)
  <2>1. /\ decision.purpose = "LiquidMemories" /\ drawPile' = drawPile
        /\ \/ hand' = hand \o <<x>> /\ discardPile' = left
           \/ UNCHANGED <<hand, discardPile>>
    BY <1>4 DEF ChooseLiquidMemories, Answering, Returned
  <2>2. HeldCards' = HeldCards
    BY <1>1, <2>1, ClosedHolds, AnsweredHolds
  <2>3. CASE UNCHANGED <<hand, discardPile>>
    BY <1>1, <2>1, <2>2, <2>3, SameHolds DEF piles
  <2>4. CASE hand' = hand \o <<x>> /\ discardPile' = left
    <3>1. <<x>> \in Seq(CardIds) /\ Len(<<x>>) = 1 /\ ToSet(<<x>>) = {x}
      BY <1>2, SetOfOne
    <3> HIDE DEF x, left
    <3>2. Len(hand') = Len(hand) + 1 /\ ToSet(hand') = ToSet(hand) \union {x}
      <4>1. \A s, t \in Seq(CardIds) :
              /\ Len(s \o t) = Len(s) + Len(t)
              /\ ToSet(s \o t) = ToSet(s) \union ToSet(t)
        BY CountConcat
      <4> QED BY ZenonT(60), <1>1, <2>4, <3>1, <4>1
    <3>3. Len(discardPile') = Len(discardPile) - 1
          /\ ToSet(discardPile') \union {x} = ToSet(discardPile)
      BY <1>2, <2>4
    <3>4. Total' = Total
      BY <1>1, <2>1, <2>2, <3>2, <3>3, CountsAreNumbers DEF Total
    <3>5. Located' = Located
      BY <1>1, <2>1, <2>2, <3>2, <3>3 DEF Located
    <3> QED BY <3>4, <3>5 DEF Moves
  <2> QED BY <2>1, <2>3, <2>4
<1> QED BY <1>3, <1>4

LEMMA ConfirmExhaustMoves ==
  ASSUME KInv, Countable, Countable', EachCardOnce,
         ConfirmTrueGrit \/ ConfirmElixir \/ ConfirmGamblingChip
  PROVE  Moves
<1> DEFINE c == decision.source
<1>1. /\ decision.purpose \in ExhaustSelects /\ decision \in ScreenType
      /\ ParkShape /\ \E work : Close(work)
      /\ hand' = NotChosen /\ UNCHANGED <<drawPile, limbo>>
      /\ discardPile \in Seq(CardIds) /\ exhaustPile \in Seq(CardIds)
  BY DEF ConfirmTrueGrit, ConfirmElixir, ConfirmGamblingChip, Answering,
         ExhaustSelects, Countable, KInv, SInv, TInv, DecisionTypes
<1>2. /\ Chosen \in Seq(CardIds) /\ Len(Chosen) \in Nat
      /\ Len(hand') + Len(Chosen) = Len(hand)
      /\ ToSet(hand') \union ToSet(Chosen) = ToSet(hand)
  BY <1>1, ChoiceSplitsHand
<1>3. \A s \in {discardPile, exhaustPile} :
        /\ Len(s \o Chosen) = Len(s) + Len(Chosen)
        /\ ToSet(s \o Chosen) = ToSet(s) \union ToSet(Chosen)
  <2>1. \A s, t \in Seq(CardIds) :
          /\ Len(s \o t) = Len(s) + Len(t)
          /\ ToSet(s \o t) = ToSet(s) \union ToSet(t)
    BY CountConcat
  <2> QED BY <1>1, <1>2, <2>1
<1>4. Len(hand') \in Nat
  BY DEF Countable
<1>5. CASE ConfirmTrueGrit
  <2>1. /\ decision.purpose = "TrueGrit" /\ exhaustPile' = exhaustPile \o Chosen
        /\ discardPile' = Append(discardPile, c)
    BY <1>5 DEF ConfirmTrueGrit, Answering
  <2>2. c \in CardIds
    BY <1>1, <2>1 DEF ScreenType, Sourced
  <2>3. /\ Len(HeldCards) = 1 /\ ToSet(HeldCards) = {c}
        /\ Len(HeldCards') = 0 /\ ToSet(HeldCards') = {}
    BY <1>1, <2>1, ClosedHolds, AnsweredHolds
  <2> HIDE DEF c
  <2>4. Len(discardPile') = Len(discardPile) + 1
        /\ ToSet(discardPile') = ToSet(discardPile) \union {c}
    BY <1>1, <2>1, <2>2, OneMore
  <2>5. Len(exhaustPile') = Len(exhaustPile) + Len(Chosen)
        /\ ToSet(exhaustPile') = ToSet(exhaustPile) \union ToSet(Chosen)
    BY <1>3, <2>1
  <2>6. Total' = Total
    BY <1>1, <1>2, <1>4, <2>3, <2>4, <2>5, CountsAreNumbers DEF Total
  <2>7. Located' = Located
    BY <1>1, <1>2, <2>3, <2>4, <2>5 DEF Located
  <2> QED BY <2>6, <2>7 DEF Moves
<1>6. CASE ConfirmElixir \/ ConfirmGamblingChip
  <2>1. /\ decision.purpose \notin {"Headbutt", "TrueGrit"}
        /\ \/ exhaustPile' = exhaustPile \o Chosen /\ discardPile' = discardPile
           \/ discardPile' = discardPile \o Chosen /\ exhaustPile' = exhaustPile
    BY <1>6 DEF ConfirmElixir, ConfirmGamblingChip, Answering
  <2>2. HeldCards' = HeldCards
    BY <1>1, <2>1, ClosedHolds, AnsweredHolds
  <2>3. /\ Len(discardPile') + Len(exhaustPile')
             = Len(discardPile) + Len(exhaustPile) + Len(Chosen)
        /\ ToSet(discardPile') \union ToSet(exhaustPile')
             = ToSet(discardPile) \union ToSet(exhaustPile) \union ToSet(Chosen)
    <3>1. CASE exhaustPile' = exhaustPile \o Chosen /\ discardPile' = discardPile
      <4>1. Len(exhaustPile') = Len(exhaustPile) + Len(Chosen)
            /\ ToSet(exhaustPile') = ToSet(exhaustPile) \union ToSet(Chosen)
            /\ Len(discardPile') = Len(discardPile)
            /\ ToSet(discardPile') = ToSet(discardPile)
        BY <1>3, <3>1
      <4>2. Len(discardPile') + Len(exhaustPile')
             = Len(discardPile) + Len(exhaustPile) + Len(Chosen)
        BY <1>2, <4>1, CountsAreNumbers
      <4> QED BY <4>1, <4>2
    <3>2. CASE discardPile' = discardPile \o Chosen /\ exhaustPile' = exhaustPile
      <4>1. Len(discardPile') = Len(discardPile) + Len(Chosen)
            /\ ToSet(discardPile') = ToSet(discardPile) \union ToSet(Chosen)
            /\ Len(exhaustPile') = Len(exhaustPile)
            /\ ToSet(exhaustPile') = ToSet(exhaustPile)
        BY <1>3, <3>2
      <4>2. Len(discardPile') + Len(exhaustPile')
             = Len(discardPile) + Len(exhaustPile) + Len(Chosen)
        BY <1>2, <4>1, CountsAreNumbers
      <4> QED BY <4>1, <4>2
    <3> QED BY <2>1, <3>1, <3>2
  <2>4. Total' = Total
    <3>1. /\ Len(discardPile') \in Nat /\ Len(exhaustPile') \in Nat
          /\ Len(drawPile') = Len(drawPile) /\ Len(limbo') = Len(limbo)
          /\ Len(HeldCards') = Len(HeldCards)
      BY <1>1, <2>2 DEF Countable
    <3> QED BY <1>2, <1>4, <2>3, <3>1, CountsAreNumbers DEF Total
  <2>5. Located' = Located
    BY <1>1, <1>2, <2>2, <2>3 DEF Located
  <2> QED BY <2>4, <2>5 DEF Moves
<1> QED BY <1>5, <1>6

LEMMA RewardKeeps ==
  ASSUME KInv, Countable, Countable', EachCardOnce, ChooseCombatCardReward
  PROVE  EachCardOnce'
<1> DEFINE c == NextCardInstanceId
<1>1. /\ Issue(c, "Strike") /\ hand' = Append(hand, c)
      /\ UNCHANGED <<drawPile, discardPile, exhaustPile, limbo>>
      /\ decision.purpose = "CardReward" /\ ParkShape
      /\ \E work : Close(work)
  BY DEF ChooseCombatCardReward, Answering, KInv
<1>2. c \notin Located
  BY NextIdIsFree
<1>3. HeldCards' = HeldCards
  BY <1>1, ClosedHolds, AnsweredHolds
<1> HIDE DEF c
<1>4. c \in CardIds /\ issued' = issued \union {c} /\ hand \in Seq(CardIds)
  BY <1>1 DEF Issue, Countable
<1>5. Len(hand') = Len(hand) + 1 /\ ToSet(hand') = ToSet(hand) \union {c}
  BY <1>1, <1>4, OneMore
<1>6. Total' = Total + 1
  BY <1>1, <1>3, <1>5, CountsAreNumbers DEF Total
<1>7. Located' = Located \union {c}
  BY <1>1, <1>3, <1>5 DEF Located
<1> QED BY <1>2, <1>4, <1>6, <1>7, CardComes

LEMMA EndTurnMoves ==
  ASSUME Countable, EndTurn
  PROVE  Moves
<1>1. /\ hand' = <<>> /\ discardPile' = discardPile \o Reverse(hand)
      /\ UNCHANGED <<drawPile, exhaustPile, limbo>> /\ UNCHANGED HeldCards
      /\ hand \in Seq(CardIds) /\ discardPile \in Seq(CardIds)
  BY DEF EndTurn, Countable, HeldCards
<1> DEFINE r == Reverse(hand)
<1>2. r \in Seq(CardIds) /\ Len(r) = Len(hand) /\ ToSet(r) = ToSet(hand)
  BY <1>1, CountReverse
<1> HIDE DEF r
<1>3. Len(discardPile') = Len(discardPile) + Len(hand)
      /\ ToSet(discardPile') = ToSet(discardPile) \union ToSet(hand)
  <2>1. discardPile' = discardPile \o r
    BY <1>1 DEF r
  <2>2. \A s, t \in Seq(CardIds) :
          /\ Len(s \o t) = Len(s) + Len(t)
          /\ ToSet(s \o t) = ToSet(s) \union ToSet(t)
    BY CountConcat
  <2> QED BY <1>1, <1>2, <2>1, <2>2
<1>4. Len(hand') = 0 /\ ToSet(hand') = {}
  BY <1>1, SetOfEmpty
<1>5. Total' = Total
  BY <1>1, <1>3, <1>4, CountsAreNumbers DEF Total
<1>6. Located' = Located
  BY <1>1, <1>3, <1>4 DEF Located
<1> QED BY <1>5, <1>6 DEF Moves

LEMMA ClosingKeepsCards ==
  ASSUME CInv, Closing, Countable'
  PROVE  EachCardOnce'
<1>1. LInv /\ KInv /\ EachCardOnce /\ Countable /\ ParkShape
  BY PilesCount DEF CInv, LInv, KInv
<1>2. CASE ChooseCombatCardReward
  BY <1>1, <1>2, RewardKeeps
<1>3. CASE SkipCombatCardReward
  <2>1. /\ decision.purpose = "CardReward" /\ UNCHANGED <<piles, issued>>
        /\ \E work : Close(work)
    BY <1>3 DEF SkipCombatCardReward, Answering, cards
  <2>2. HeldCards' = HeldCards
    BY <1>1, <2>1, ClosedHolds, AnsweredHolds
  <2> QED BY <1>1, <2>1, <2>2, SameHolds, MovesKeep
<1>4. CASE ConfirmHandSelect \/ ConfirmScry
  <2>1. UNCHANGED issued
    BY <1>4 DEF ConfirmHandSelect, ConfirmScry, cards
  <2> QED BY <1>1, <1>4, <2>1, ConfirmHandMoves, ConfirmScryMoves, MovesKeep
<1>5. CASE ConfirmTrueGrit \/ ConfirmElixir \/ ConfirmGamblingChip
  <2>1. UNCHANGED issued
    BY <1>5 DEF ConfirmTrueGrit, ConfirmElixir, ConfirmGamblingChip, cards
  <2> QED BY <1>1, <1>5, <2>1, ConfirmExhaustMoves, MovesKeep
<1>6. CASE \E c \in CardIds : ChooseSecretTechnique(c)
  <2>1. PICK c : ChooseSecretTechnique(c)
    BY <1>6
  <2>2. UNCHANGED issued
    BY <2>1 DEF ChooseSecretTechnique, cards
  <2> QED BY <1>1, <2>1, <2>2, SearchMoves, MovesKeep
<1>7. CASE \E i \in 1..Len(discardPile) : ChooseHeadbutt(i) \/ ChooseLiquidMemories(i)
  <2>1. PICK i : ChooseHeadbutt(i) \/ ChooseLiquidMemories(i)
    BY <1>7
  <2>2. UNCHANGED issued
    BY <2>1 DEF ChooseHeadbutt, ChooseLiquidMemories, cards
  <2> QED BY <1>1, <2>1, <2>2, ChooseDiscardMoves, MovesKeep
<1> QED BY <1>2, <1>3, <1>4, <1>5, <1>6, <1>7 DEF Closing

LEMMA CommandKeepsCards ==
  ASSUME CInv, NoMemories, Command, monstersAlive', Countable'
  PROVE  EachCardOnce'
<1>1. KInv /\ EachCardOnce /\ Countable /\ decision \in ScreenType
  BY PilesCount DEF CInv, LInv, KInv, SInv, TInv, DecisionTypes
<1>2. CASE EndTurn
  <2>1. UNCHANGED issued
    BY <1>2 DEF EndTurn, cards
  <2> QED BY <1>1, <1>2, <2>1, EndTurnMoves, MovesKeep
<1>3. CASE \/ \E c \in CardIds : PlayCard(c)
           \/ \E p \in DOMAIN PotionAction : UseQueuedPotion(p)
           \/ UseFirePotion
           \/ \E i : ChooseHandSelect(i) \/ ChooseScry(i) \/ ChooseExhaustSelect(i)
  <2>1. UNCHANGED <<piles, issued>>
    BY <1>3 DEF PlayCard, UseQueuedPotion, UseFirePotion, ChooseHandSelect,
                ChooseScry, ChooseExhaustSelect, cards
  <2>2. decision'.held = decision.held /\ decision'.source = decision.source
    <3>1. CASE UNCHANGED decision
      BY <3>1
    <3>2. CASE \E p \in DOMAIN PotionAction : UseQueuedPotion(p)
      <4>1. \/ UNCHANGED decision
            \/ \E a : decision' = [decision EXCEPT !.pending = Append(@, a)]
        BY <3>2 DEF UseQueuedPotion, QueuePotionAction
      <4> QED BY <1>1, <4>1 DEF ScreenType
    <3>3. CASE \E i : ChooseHandSelect(i) \/ ChooseScry(i) \/ ChooseExhaustSelect(i)
      <4>1. \E selected : Select(selected)
        BY <3>3 DEF ChooseHandSelect, ChooseScry, ChooseExhaustSelect
      <4> QED BY <1>1, <4>1 DEF Select, ScreenType
    <3>4. (\E c \in CardIds : PlayCard(c)) \/ UseFirePotion => UNCHANGED decision
      BY DEF PlayCard, UseFirePotion
    <3> QED BY <1>3, <3>1, <3>2, <3>3, <3>4
  <2>3. HeldCards' = HeldCards
    BY <2>2 DEF HeldCards
  <2> QED BY <1>1, <2>1, <2>3, SameHolds, MovesKeep
<1>4. ~UseLiquidMemories
  BY <1>1 DEF UseLiquidMemories, Drink, KInv, NoMemories
<1>5. CASE Closing
  BY <1>5, ClosingKeepsCards
<1> QED BY <1>2, <1>3, <1>4, <1>5, CommandIs

LEMMA NextKeepsCards ==
  ASSUME CInv, NoMemories, [Next]_vars, monstersAlive', Countable'
  PROVE  CInv'
<1>1. LInv'
  BY NextKeepsLimbo DEF CInv
<1>2. UNCHANGED vars => EachCardOnce'
  BY DEF CInv, EachCardOnce, Located, Total, HeldCards, vars, piles, cards
<1>3. EachCardOnce'
  BY <1>2, QueueKeepsCards, CommandKeepsCards DEF Next, CombatOver
<1> QED BY <1>1, <1>3 DEF CInv

LEMMA DealtOnce ==
  ASSUME Init
  PROVE  EachCardOnce
<1> DEFINE n == Len(Deck)
           dealt == Min2(HandSize, n)
<1>1. n \in Nat /\ dealt \in 0..n
  BY DeckAssumption, SizesAssumption DEF Min2
<1>2. PICK order \in Orders(1..n, n) :
        /\ hand = TopOf(order, dealt) /\ drawPile = DropTop(order, dealt)
        /\ discardPile = <<>> /\ exhaustPile = <<>> /\ limbo = <<>>
        /\ issued = 1..n /\ decision = NoScreen
  BY DEF Init, Deal
<1> HIDE DEF dealt, n
<1>3. IsFiniteSet(1..n) /\ Cardinality(1..n) = n
  <2>1. 1 \in Int /\ n \in Int
    BY <1>1
  <2>2. IsFiniteSet(1..n) /\ Cardinality(1..n) = IF 1 > n THEN 0 ELSE n - 1 + 1
    BY <2>1, FS_Interval
  <2> QED BY <1>1, <2>2
<1>4. order \in Seq(1..n) /\ Len(order) = n /\ ToSet(order) = 1..n
  BY <1>1, <1>3, CountOrders
<1>5. /\ Len(hand) = dealt /\ Len(drawPile) = n - dealt
      /\ ToSet(hand) \union ToSet(drawPile) = 1..n
  <2>1. dealt \in 0..Len(order)
    BY <1>1, <1>4
  <2>2. /\ Len(TopOf(order, dealt)) = dealt
        /\ Len(DropTop(order, dealt)) = Len(order) - dealt
        /\ ToSet(TopOf(order, dealt)) \union ToSet(DropTop(order, dealt)) = ToSet(order)
    BY <1>4, <2>1, CountTop
  <2> QED BY <1>2, <1>4, <2>2
<1>6. /\ Len(discardPile) = 0 /\ Len(exhaustPile) = 0 /\ Len(limbo) = 0
      /\ ToSet(discardPile) = {} /\ ToSet(exhaustPile) = {} /\ ToSet(limbo) = {}
  BY <1>2, SetOfEmpty
<1>7. HeldCards = <<>>
  BY <1>2 DEF HeldCards, NoScreen, Screen
<1>8. Len(HeldCards) = 0 /\ ToSet(HeldCards) = {}
  BY <1>7, SetOfEmpty
<1>9. Total = n
  BY <1>1, <1>5, <1>6, <1>8 DEF Total
<1>10. Located = 1..n
  BY <1>5, <1>6, <1>8 DEF Located
<1> QED BY <1>2, <1>3, <1>9, <1>10 DEF EachCardOnce

\* CardsConserved, for a player who carries no Liquid Memories: every card
\* instance ever issued is in exactly one place between any two steps.
THEOREM CardsStayInOnePlace ==
  ASSUME "LiquidMemories" \notin Carried
  PROVE  Spec => []CardsConserved
<1>1. NoMemories
  BY DEF NoMemories
<1> DEFINE Good == SInv /\ (monstersAlive => CInv)
<1>2. Init => Good
  <2> SUFFICES ASSUME Init PROVE SInv /\ CInv
    OBVIOUS
  <2>1. SInv /\ KInv /\ EachCardOnce
    BY InitShapes, InitParks, DealtOnce
  <2>2. limbo = <<>> /\ frames = <<>> /\ decision = NoScreen
    BY DEF Init, Deal
  <2>3. ToSet(limbo) = {} /\ SettledBy(Waiting(frames)) = {}
    BY <2>2, SetOfEmpty, WaitingFew, SettlingNothing
  <2>4. LimboHolds
    BY <2>2, <2>3 DEF LimboHolds, NoScreen, Screen, HandSelects, DrawSelects
  <2> QED BY <2>1, <2>4 DEF CInv, LInv
<1>3. SInv /\ (monstersAlive => KInv) => (monstersAlive => Countable)
  BY PilesCount
<1>4. Good /\ [Next]_vars /\ (monstersAlive => Countable)' => Good'
  BY <1>1, NextShapes, NextKeepsCards, DeadStayDead
<1>5. Good => CardsConserved
  BY CountedIsConserved DEF CardsConserved, CInv, LInv
<1> HIDE DEF Good
<1> QED BY <1>2, <1>3, <1>4, <1>5, ScreensHoldTheirs, PTL DEF Spec

------------------------------------------------------------------------------
(* What the deck and the potions can ask for *)

\* The actions that the potions the player starts with can queue, and the one
\* with which some cards of the deck ask for a card of the hand.
Earned ==
  {PotionAction[p].op : p \in Carried \intersect DOMAIN PotionAction}
  \union (IF \E i \in DOMAIN Deck : Deck[i] \in HandSelects
          THEN {"AwaitHandSelect"} ELSE {})
AskingOps == OpenOps \union {"AwaitHandSelect"}

\* No other potion's or hand screen is ever asked for.
EarnedShape ==
  /\ \A a \in Work : a.op \in AskingOps => a.op \in Earned
  /\ decision.purpose = "CardReward" => "OpenPotionCardReward" \in Earned
  /\ decision.purpose \in HandSelects => "AwaitHandSelect" \in Earned
  /\ \A c \in CardIds : content[c] \in HandSelects => "AwaitHandSelect" \in Earned

\* A card that is generated asks for nothing.
LEMMA ContentStays ==
  ASSUME TInv, [Next]_vars, NEW c \in CardIds, content'[c] \in HandSelects
  PROVE  content[c] \in HandSelects
<1>1. \A d, what :
        what \in {"Wound", "Strike"} /\ Issue(d, what) => content[c] \in HandSelects
  BY DEF Issue, TInv, RestTypes, HandSelects
<1>2. CASE UNCHANGED content
  BY <1>2
<1>3. CASE Run_AddGeneratedCardToDrawPileRandomSpot
  BY <1>1, <1>2, <1>3 DEF Run_AddGeneratedCardToDrawPileRandomSpot, cards
<1>4. CASE ChooseCombatCardReward
  BY <1>1, <1>4 DEF ChooseCombatCardReward
<1>5. UNCHANGED vars \/ CombatOver => UNCHANGED content
  BY DEF vars, cards, CombatOver
<1>6. RunQueue => UNCHANGED content \/ Run_AddGeneratedCardToDrawPileRandomSpot
  BY DEF RunQueue, EndQueue, Run_DealDamage, Run_MoveCard, Run_MoveDrawCardToHand,
         Run_DrawCards, Run_DrawCardsWhilePlayedCardIsInLimbo,
         Run_DeepBreathShuffle, Run_ForethoughtAutoMove,
         Run_AwaitHandSelect_Open, Run_AwaitHandSelect_Auto, Run_AwaitDrawSelect,
         Run_AwaitDiscardSelect, Run_AwaitExhaustSelect, Run_OpenElixirSelection,
         Run_OpenGamblersBrewSelection, OpenPotionSelection,
         Run_OpenPotionCardReward, Run_SettleHandSource, Run_MoveDrawSelectSource,
         cards
<1>7. Command => UNCHANGED content \/ ChooseCombatCardReward
  BY DEF Command, PlayCard, EndTurn, UseQueuedPotion, UseFirePotion,
         UseLiquidMemories, ChooseHandSelect, ConfirmHandSelect,
         ChooseSecretTechnique, ChooseScry, ConfirmScry, ChooseHeadbutt,
         ChooseLiquidMemories, ChooseExhaustSelect, ConfirmTrueGrit,
         ConfirmElixir, ConfirmGamblingChip, SkipCombatCardReward, cards
<1> QED BY <1>2, <1>3, <1>4, <1>5, <1>6, <1>7 DEF Next

\* Running an action adds nothing to what is left to do.
LEMMA QueueAddsNothing ==
  ASSUME KInv, RunQueue, monstersAlive'
  PROVE  Work' \subseteq Work
<1>1. SInv /\ TInv /\ ParkShape
  BY DEF KInv, SInv
<1>2. /\ frames \in WorkType /\ decision.pending \in Seq(InternalAction)
      /\ <<>> \in Seq(InternalAction)
  BY <1>1, FramesTypes, EmptyType
<1>3. Work' = ToSet(decision'.pending) \union Waiting(frames')
  BY DEF Work, Waiting
<1>4. CASE Ending
  <2>1. frames # <<>> /\ Head(frames) = <<>> /\ frames' = Tail(frames)
        /\ decision' = decision
    BY <1>4 DEF Ending, EndQueue
  <2>2. Waiting(frames) = {} \union Waiting(frames')
    BY <1>2, <2>1, WaitingHead, SetOfEmpty
  <2> QED BY <1>3, <2>1, <2>2, WorkIs
<1>5. ASSUME frames # <<>>, Head(frames) # <<>>,
             \/ /\ decision'.pending = decision.pending
                /\ frames' = <<Tail(Head(frames))>> \o Tail(frames)
             \/ /\ decision'.pending = decision.pending \o Tail(Head(frames))
                /\ frames' = <<<<>>>> \o Tail(frames)
      PROVE  Work' \subseteq Work
  <2> DEFINE left == Tail(Head(frames))
             rest == Waiting(Tail(frames))
             pend == ToSet(decision.pending)
  <2>1. Head(frames) \in Seq(InternalAction) /\ left \in Seq(InternalAction)
    BY <1>1, <1>5, FramesTypes, ActionOps
  <2>2. ToSet(Head(frames)) = {Head(Head(frames))} \union ToSet(left)
    BY <1>5, <2>1, SetOfTail
  <2>3. pend \union ToSet(left) \union rest \subseteq Work
    BY <1>2, <1>5, <2>2, WorkIs, WaitingHead
  <2>4. CASE /\ decision'.pending = decision.pending
             /\ frames' = <<left>> \o Tail(frames)
    BY <1>2, <1>3, <1>5, <2>1, <2>3, <2>4, WaitingReplaced
  <2>5. CASE /\ decision'.pending = decision.pending \o left
             /\ frames' = <<<<>>>> \o Tail(frames)
    <3>1. ToSet(decision'.pending) = pend \union ToSet(left)
      BY <1>2, <2>1, <2>5, SetOfConcat
    <3>2. Waiting(frames') = {} \union rest
      BY <1>2, <1>5, <2>5, WaitingReplaced, SetOfEmpty
    <3> QED BY <1>3, <2>3, <3>1, <3>2
  <2> QED BY <1>5, <2>4, <2>5
<1>6. CASE Proceeding
  <2>1. frames # <<>> /\ Head(frames) # <<>> /\ Proceed
    BY <1>6 DEF Proceeding, Running
  <2> QED BY <1>1, <1>5, <2>1, ProceedParks
<1>7. CASE \E purpose \in Purposes, source \in CardIds \union {None} :
             Showing(purpose, source)
  <2>1. /\ decision'.pending = Tail(Head(frames))
        /\ frames' = <<<<>>>> \o Tail(frames)
    BY <1>7, ShowParks
  <2>2. frames # <<>> /\ Head(frames) # <<>> /\ decision.pending = <<>>
    BY <1>1, <1>7 DEF Showing, Running, ParkShape
  <2>3. decision.pending \o Tail(Head(frames)) = Tail(Head(frames))
    BY <1>1, <2>2, FramesTypes, ActionOps, ConcatEmptySeq
  <2> QED BY <1>5, <2>1, <2>2, <2>3
<1> QED BY <1>1, <1>4, <1>6, <1>7, QueueSteps

\* Which actions open a screen, and which one an offer of cards.
LEMMA WhoOpens ==
  ASSUME SInv, RunQueue, monstersAlive'
  PROVE  \/ decision'.purpose = decision.purpose
         \/ \E op \in DOMAIN AwaitPurposes :
              /\ Running(op)
              /\ decision'.purpose # "CardReward"
              /\ decision'.purpose \in HandSelects => op = "AwaitHandSelect"
         \/ \E op \in OpenOps :
              /\ Running(op)
              /\ decision'.purpose = "CardReward" => op = "OpenPotionCardReward"
              /\ decision'.purpose \notin HandSelects
<1>1. TInv /\ decision \in ScreenType
  BY DEF SInv, TInv, DecisionTypes
<1>2. Proceed => decision'.purpose = decision.purpose
  BY <1>1 DEF Proceed, GoOn, ScreenType
<1>4. \A purpose, source, held, selectable :
        Show(Screen(purpose, source, held, selectable)) => decision'.purpose = purpose
  <2> TAKE purpose, source, held, selectable
  <2> HAVE Show(Screen(purpose, source, held, selectable))
  <2> DEFINE screen == Screen(purpose, source, held, selectable)
  <2>1. \/ decision' = screen
        \/ \E pending : decision' = [screen EXCEPT !.pending = pending]
    BY DEF Show, GoOn
  <2> QED BY <2>1 DEF Screen
<1>5. CASE EndQueue
  BY <1>5 DEF EndQueue
<1>6. CASE \/ Run_DealDamage \/ Run_MoveCard \/ Run_MoveDrawCardToHand
           \/ Run_DrawCards \/ Run_DrawCardsWhilePlayedCardIsInLimbo
           \/ Run_DeepBreathShuffle
           \/ Run_AddGeneratedCardToDrawPileRandomSpot
           \/ Run_ForethoughtAutoMove \/ Run_AwaitHandSelect_Auto
           \/ Run_SettleHandSource \/ Run_MoveDrawSelectSource
  <2>1. Run_DealDamage => Proceed
    BY DEF Run_DealDamage, Proceed
  <2>2. Proceed
    BY <1>6, <2>1 DEF Run_MoveCard, Run_MoveDrawCardToHand, Run_DrawCards,
          Run_DrawCardsWhilePlayedCardIsInLimbo, Run_DeepBreathShuffle,
          Run_AddGeneratedCardToDrawPileRandomSpot, Run_ForethoughtAutoMove,
          Run_AwaitHandSelect_Auto, Run_SettleHandSource, Run_MoveDrawSelectSource
  <2> QED BY <1>2, <2>2
<1>7. CASE Run_AwaitHandSelect_Open
  <2>1. Running("AwaitHandSelect") /\ "AwaitHandSelect" \in DOMAIN AwaitPurposes
        /\ Show(Screen(Current.purpose, Current.card, FALSE, {}))
    BY <1>7 DEF Run_AwaitHandSelect_Open, AwaitPurposes
  <2>2. Current.purpose \in AwaitPurposes["AwaitHandSelect"]
    BY <1>1, <2>1, AwaitingTypes
  <2>3. decision'.purpose \in HandSelects
    BY <1>4, <2>1, <2>2 DEF AwaitPurposes
  <2> QED BY <2>1, <2>3 DEF HandSelects
<1>8. CASE Run_AwaitDrawSelect
  <2>1. Running("AwaitDrawSelect") /\ "AwaitDrawSelect" \in DOMAIN AwaitPurposes
        /\ \E purpose \in DrawSelects : \E selectable :
             Show(Screen(purpose, Current.card, FALSE, selectable))
    BY <1>8 DEF Run_AwaitDrawSelect, AwaitPurposes, DrawSelects
  <2>2. decision'.purpose \in DrawSelects
    BY <1>4, <2>1
  <2> QED BY <2>1, <2>2 DEF DrawSelects, HandSelects
<1>9. CASE Run_AwaitDiscardSelect \/ Run_AwaitExhaustSelect
  <2>1. /\ \E op \in DOMAIN AwaitPurposes : Running(op)
        /\ \/ Proceed
           \/ \E purpose \in {"Headbutt", "TrueGrit"} :
                Show(Screen(purpose, Current.card, TRUE, {}))
    BY <1>9 DEF Run_AwaitDiscardSelect, Run_AwaitExhaustSelect, AwaitPurposes
  <2>2. decision'.purpose = decision.purpose
        \/ decision'.purpose \in {"Headbutt", "TrueGrit"}
    BY <1>2, <1>4, <2>1
  <2> QED BY <2>1, <2>2 DEF HandSelects
<1>10. CASE Run_OpenElixirSelection \/ Run_OpenGamblersBrewSelection
  <2>1. /\ \E op \in OpenOps : Running(op)
        /\ \/ Proceed
           \/ \E purpose \in {"Exhaust", "GamblingChip"} :
                Show(Screen(purpose, None, FALSE, {}))
    BY <1>10 DEF Run_OpenElixirSelection, Run_OpenGamblersBrewSelection,
                 OpenPotionSelection, OpenOps
  <2>2. decision'.purpose = decision.purpose
        \/ decision'.purpose \in {"Exhaust", "GamblingChip"}
    BY <1>2, <1>4, <2>1
  <2> QED BY <2>1, <2>2 DEF HandSelects
<1>11. CASE Run_OpenPotionCardReward
  <2>1. /\ Running("OpenPotionCardReward") /\ "OpenPotionCardReward" \in OpenOps
        /\ Show(Screen("CardReward", None, FALSE, {}))
    BY <1>11 DEF Run_OpenPotionCardReward, OpenOps
  <2>2. decision'.purpose = "CardReward"
    BY <1>4, <2>1
  <2> QED BY <2>1, <2>2 DEF HandSelects
<1> QED BY <1>5, <1>6, <1>7, <1>8, <1>9, <1>10, <1>11 DEF RunQueue

LEMMA QueueEarned ==
  ASSUME KInv, EarnedShape, RunQueue, monstersAlive'
  PROVE  EarnedShape'
<1>1. SInv /\ TInv
  BY DEF KInv, SInv
<1>2. Work' \subseteq Work /\ Earned' = Earned
  BY QueueAddsNothing DEF Earned
<1>3. ASSUME NEW op \in {"OpenPotionCardReward", "AwaitHandSelect"}, Running(op)
      PROVE  op \in Earned
  <2>1. Current.op = op /\ frames # <<>> /\ Head(frames) # <<>>
    BY <1>1, <1>3, WhoRuns DEF Ops
  <2>2. /\ frames \in WorkType /\ Head(frames) \in Seq(InternalAction)
    BY <1>1, <2>1, FramesTypes DEF SInv
  <2>3. Current \in ToSet(Head(frames))
    BY <2>1, <2>2, SetOfTail DEF Current
  <2>4. Current \in Work
    BY <2>1, <2>2, <2>3, WaitingHead, WorkIs
  <2> QED BY <2>1, <2>4 DEF EarnedShape, OpenOps, AskingOps
<1>4. decision'.purpose = "CardReward" => "OpenPotionCardReward" \in Earned
  BY <1>1, <1>3, WhoOpens DEF EarnedShape
<1>5. decision'.purpose \in HandSelects => "AwaitHandSelect" \in Earned
  BY <1>1, <1>3, WhoOpens DEF EarnedShape
<1>6. \A c \in CardIds : content'[c] \in HandSelects => "AwaitHandSelect" \in Earned
  BY <1>1, ContentStays DEF Next, EarnedShape
<1> QED BY <1>2, <1>4, <1>5, <1>6 DEF EarnedShape

\* What the answers that close a screen leave to do.
LEMMA ClosingForms ==
  ASSUME Closing
  PROVE  \/ Close(<<decision.pending>>)
         \/ \E a : a.op \in SettleOps /\ Close(<<decision.pending, <<a>>>>)
         \/ \E a : a.op = "DrawCards" /\ Close(<<<<a>>, decision.pending>>)
         \/ \E a : /\ a.op \in SettleOps
                   /\ decision.purpose \in HandSelects
                   /\ Close(<<Dropping(decision.pending, ActionsOf({"DrawCards"})),
                              <<a>>,
                              Dropping(decision.pending,
                                       ActionsOf(Ops \ {"DrawCards"}))>>)
<1>1. \A op, c, n : Act(op, c, n).op = op
  BY DEF Act
<1>2. {"SettleHandSource", "MoveDrawSelectSource"} = SettleOps
  BY DEF SettleOps
<1>3. ConfirmGamblingChip =>
        \E a : a.op = "DrawCards" /\ Close(<<<<a>>, decision.pending>>)
  BY <1>1 DEF ConfirmGamblingChip
<1>4. ConfirmHandSelect =>
        \E a : /\ a.op \in SettleOps
               /\ decision.purpose \in HandSelects
               /\ Close(<<Dropping(decision.pending, ActionsOf({"DrawCards"})),
                          <<a>>,
                          Dropping(decision.pending,
                                   ActionsOf(Ops \ {"DrawCards"}))>>)
  BY <1>1, <1>2 DEF ConfirmHandSelect, Answering
<1>5. (\E c : ChooseSecretTechnique(c)) =>
        \E a : a.op \in SettleOps /\ Close(<<decision.pending, <<a>>>>)
  BY <1>1, <1>2 DEF ChooseSecretTechnique
<1> QED BY <1>3, <1>4, <1>5
        DEF Closing, ConfirmScry, ConfirmTrueGrit, ConfirmElixir,
            ChooseCombatCardReward, SkipCombatCardReward, ChooseHeadbutt,
            ChooseLiquidMemories

\* A played card queues no potion action, and asks for a card of the hand only
\* if its content does.
LEMMA CardQueueOpens ==
  ASSUME SInv, NEW c \in CardIds, PlayCard(c)
  PROVE  /\ frames' = <<PlayCardQueue(c)>>
         /\ CardWork(PlayCardQueue(c), c)
         /\ OpsIn(PlayCardQueue(c)) \intersect OpenOps = {}
         /\ content[c] \notin HandSelects =>
              OpsIn(PlayCardQueue(c)) \intersect AskingOps = {}
<1> DEFINE q == PlayCardQueue(c)
<1>1. frames' = <<q>> /\ CardWork(q, c)
  BY QueueBegins DEF PlayCard, Begins
<1>2. content[c] \notin HandSelects =>
        \A i \in DOMAIN q : q[i].op # "AwaitHandSelect"
  <2>1. /\ content[c] \in Contents \ {"Wound"}
        /\ \A op, d, n, purpose : Act(op, d, n).op = op /\ Await(op, d, purpose).op = op
    BY DEF SInv, TInv, RestTypes, PlayCard, Playable, Act, Await
  <2> QED BY <2>1 DEF HandSelects, PlayCardQueue, Contents, Attacks, Skills
<1> HIDE DEF q
<1>3. \A i \in DOMAIN q : q[i].op \notin OpenOps
  BY <1>1 DEF CardWork, CardOps
<1>4. OpsIn(q) \intersect OpenOps = {}
  BY <1>3 DEF OpsIn, ToSet
<1>5. content[c] \notin HandSelects => OpsIn(q) \intersect AskingOps = {}
  BY <1>2, <1>3 DEF OpsIn, ToSet, AskingOps
<1> QED BY <1>1, <1>4, <1>5 DEF q

LEMMA CommandEarned ==
  ASSUME KInv, EarnedShape, Command, monstersAlive'
  PROVE  EarnedShape'
<1>1. /\ SInv /\ decision \in ScreenType /\ potions \subseteq Carried
      /\ Earned' = Earned /\ TInv
  BY DEF KInv, SInv, TInv, DecisionTypes, Earned
<1>12. \A c \in CardIds : content'[c] \in HandSelects => "AwaitHandSelect" \in Earned
  BY <1>1, ContentStays DEF Next, EarnedShape
<1>2. Work' = ToSet(decision'.pending) \union Waiting(frames')
  BY DEF Work, Waiting
<1>3. CanCommand => Work = ToSet(decision.pending) /\ Waiting(frames) = {}
  BY <1>1, Commanding, WorkIs, WaitingFew
<1>4. ASSUME CanCommand,
             UNCHANGED frames \/ \E q : frames' = <<q>> /\ OpsIn(q) \intersect AskingOps \subseteq Earned,
             ToSet(decision'.pending) \subseteq Work,
             \/ decision'.purpose = decision.purpose
             \/ decision'.purpose \notin HandSelects \union {"CardReward"}
      PROVE  EarnedShape'
  <2>1. \A a \in Waiting(frames') : a.op \in AskingOps => a.op \in Earned
    BY <1>3, <1>4, WaitingFew DEF OpsIn
  <2>2. \A a \in Work' : a.op \in AskingOps => a.op \in Earned
    BY <1>2, <1>4, <2>1 DEF EarnedShape
  <2> QED BY <1>1, <1>4, <2>2, <1>12 DEF EarnedShape
<1>5. CASE \E c \in CardIds : PlayCard(c)
  <2>1. PICK c \in CardIds : PlayCard(c)
    BY <1>5
  <2>2. CanCommand /\ decision' = decision
    BY <2>1 DEF PlayCard
  <2> DEFINE q == PlayCardQueue(c)
  <2>3. /\ frames' = <<q>> /\ OpsIn(q) \intersect OpenOps = {}
        /\ content[c] \notin HandSelects => OpsIn(q) \intersect AskingOps = {}
    BY <1>1, <2>1, CardQueueOpens
  <2> HIDE DEF q
  <2>4. OpsIn(q) \intersect AskingOps \subseteq Earned
    BY <2>3 DEF AskingOps, EarnedShape
  <2> QED BY <1>3, <1>4, <2>2, <2>3, <2>4
<1>6. CASE EndTurn
  <2>1. /\ CanCommand /\ decision' = decision
        /\ frames' = <<<<Act("DrawCards", None, HandSize)>>>>
    BY <1>6 DEF EndTurn
  <2>2. OpsIn(<<Act("DrawCards", None, HandSize)>>) \intersect AskingOps = {}
    BY OneOp DEF Act, AskingOps, OpenOps
  <2> QED BY <1>3, <1>4, <2>1, <2>2
<1>7. CASE \E p \in DOMAIN PotionAction : UseQueuedPotion(p)
  <2>1. PICK p \in DOMAIN PotionAction : UseQueuedPotion(p)
    BY <1>7
  <2>2. CanCommand /\ PotionAction[p].op \in Earned
    BY <1>1, <2>1 DEF UseQueuedPotion, Drink, Earned
  <2>3. CASE UNCHANGED <<decision, frames>>
    BY <1>3, <1>4, <2>2, <2>3
  <2>4. CASE ~ScreenOpen /\ UNCHANGED decision /\ frames' = <<<<PotionAction[p]>>>>
    <3>1. OpsIn(<<PotionAction[p]>>) \intersect AskingOps \subseteq Earned
      BY <2>2, OneOp
    <3> QED BY <1>3, <1>4, <2>2, <2>4, <3>1
  <2>5. CASE /\ ScreenOpen /\ UNCHANGED frames
             /\ decision' = [decision EXCEPT !.pending = Append(@, PotionAction[p])]
    <3>1. /\ decision'.pending = Append(decision.pending, PotionAction[p])
          /\ decision'.purpose = decision.purpose
          /\ decision.pending \in Seq(InternalAction)
      BY <1>1, <2>5 DEF ScreenType
    <3>2. ToSet(decision'.pending) \subseteq ToSet(decision.pending) \union {PotionAction[p]}
      BY <3>1 DEF ToSet
    <3>3. \A a \in Work' : a.op \in AskingOps => a.op \in Earned
      BY <1>2, <1>3, <2>2, <2>5, <3>2 DEF EarnedShape
    <3> QED BY <1>1, <1>12, <3>1, <3>3 DEF EarnedShape
  <2> QED BY <2>1, <2>3, <2>4, <2>5, PotionParks
<1>8. CASE UseFirePotion
  <2>1. CanCommand /\ UNCHANGED frames /\ UNCHANGED decision
    BY <1>8 DEF UseFirePotion, Drink
  <2> QED BY <1>3, <1>4, <2>1
<1>9. CASE UseLiquidMemories
  <2>1. /\ CanCommand /\ UNCHANGED frames
        /\ decision' = decision \/ decision' = Screen("LiquidMemories", None, FALSE, {})
    BY <1>9 DEF UseLiquidMemories, Drink
  <2>2. decision' = Screen("LiquidMemories", None, FALSE, {}) =>
          decision'.purpose = "LiquidMemories" /\ ToSet(decision'.pending) = {}
    BY SetOfEmpty DEF Screen
  <2> QED BY <1>3, <1>4, <2>1, <2>2 DEF HandSelects
<1>10. CASE \E i : ChooseHandSelect(i) \/ ChooseScry(i) \/ ChooseExhaustSelect(i)
  <2>1. CanCommand /\ UNCHANGED frames /\ \E selected : Select(selected)
    BY <1>10 DEF ChooseHandSelect, ChooseScry, ChooseExhaustSelect, Answering
  <2>2. decision'.pending = decision.pending /\ decision'.purpose = decision.purpose
    BY <1>1, <2>1 DEF Select, ScreenType
  <2> QED BY <1>3, <1>4, <2>1, <2>2
<1>11. CASE Closing
  <2> DEFINE pend  == decision.pending
             other == Dropping(pend, ActionsOf({"DrawCards"}))
             draws == Dropping(pend, ActionsOf(Ops \ {"DrawCards"}))
  <2>1. CanCommand /\ decision'.pending = <<>> /\ decision'.purpose = "None"
    BY <1>11, ClosingCloses DEF NoScreen, Screen
  <2>2. ToSet(other) \subseteq ToSet(pend) /\ ToSet(draws) \subseteq ToSet(pend)
    <3>1. pend \in Seq(InternalAction)
      BY <1>1 DEF ScreenType
    <3> QED BY <3>1, SetOfDropping
  <2>3. ASSUME NEW a, a.op \in SettleOps \union {"DrawCards"}
        PROVE  \A b \in ToSet(<<a>>) : b.op \notin AskingOps
    BY <2>3, SetOfOne DEF SettleOps, AskingOps, OpenOps
  <2>4. \A work : Close(work) => Waiting(frames') = Waiting(work)
    BY DEF Close
  <2> HIDE DEF other, draws
  <2>5. \A a \in Waiting(frames') : a \in ToSet(pend) \/ a.op \notin AskingOps
    <3>1. CASE Close(<<pend>>)
      BY <2>4, <3>1, WaitingFew
    <3>2. CASE \E a : a.op \in SettleOps /\ Close(<<pend, <<a>>>>)
      BY <2>3, <2>4, <3>2, WaitingFew
    <3>3. CASE \E a : a.op = "DrawCards" /\ Close(<<<<a>>, pend>>)
      BY <2>3, <2>4, <3>3, WaitingFew
    <3>4. CASE \E a : a.op \in SettleOps /\ Close(<<other, <<a>>, draws>>)
      BY <2>2, <2>3, <2>4, <3>4, WaitingFew
    <3> QED BY <1>11, <3>1, <3>2, <3>3, <3>4, ClosingForms DEF other, draws
  <2>6. \A a \in Work' : a.op \in AskingOps => a.op \in Earned
    BY <1>1, <1>2, <1>3, <2>1, <2>5, SetOfEmpty DEF EarnedShape
  <2> QED BY <1>1, <1>12, <2>1, <2>6 DEF EarnedShape, HandSelects
<1> QED BY <1>5, <1>6, <1>7, <1>8, <1>9, <1>10, <1>11, CommandIs

LEMMA NextEarned ==
  ASSUME KInv, EarnedShape, [Next]_vars, monstersAlive'
  PROVE  EarnedShape'
<1>1. UNCHANGED vars => EarnedShape'
  BY DEF vars, cards, EarnedShape, Work, Earned
<1> QED BY <1>1, QueueEarned, CommandEarned DEF Next, CombatOver

LEMMA InitEarned == ASSUME Init PROVE EarnedShape
<1>1. /\ decision = NoScreen /\ frames = <<>>
      /\ content = [c \in CardIds |-> IF c <= Len(Deck) THEN Deck[c] ELSE "Wound"]
  BY DEF Init, Deal
<1>2. Work = {}
  BY <1>1, WorkIs, WaitingFew, SetOfEmpty DEF NoScreen, Screen
<1>3. ASSUME NEW c \in CardIds, content[c] \in HandSelects
      PROVE  "AwaitHandSelect" \in Earned
  <2>1. c \in DOMAIN Deck /\ Deck[c] \in HandSelects
    BY <1>1, <1>3, DeckAssumption DEF CardIds, HandSelects
  <2> QED BY <2>1 DEF Earned
<1> QED BY <1>1, <1>2, <1>3 DEF EarnedShape, NoScreen, Screen, HandSelects

------------------------------------------------------------------------------
(* Draws and screens *)

Drawing(q) == "DrawCards" \in OpsIn(q)
NoDraws(f) == \A i \in DOMAIN f : ~Drawing(f[i])

\* No draw waits below a queue that opens a screen, and none but a Swift Potion's
\* waits in it.
Ordered(f) ==
  /\ \A i, j \in DOMAIN f : i < j /\ Opening(f[i]) => ~Drawing(f[j])
  /\ \A i \in DOMAIN f : Opening(f[i]) /\ Drawing(f[i]) => "Swift" \in Carried

DrawShape ==
  /\ Ordered(frames)
  /\ ScreenOpen => NoDraws(frames)
  /\ Drawing(decision.pending) => "Swift" \in Carried

\* A potion that draws, one that opens a screen and a card that asks for a card
\* of the hand are not all there.
NeverTangled ==
  \/ "Swift" \notin Carried
  \/ Carried \intersect {"Elixir", "GamblersBrew", "Attack"} = {}
  \/ \A i \in DOMAIN Deck : Deck[i] \notin HandSelects

LEMMA OrderedShrinks ==
  ASSUME NEW f \in WorkType, f # <<>>, NEW q \in Seq(InternalAction),
         OpsIn(q) \subseteq OpsIn(Head(f))
  PROVE  /\ Ordered(f) => Ordered(<<q>> \o Tail(f)) /\ Ordered(Tail(f))
         /\ NoDraws(f) => NoDraws(<<q>> \o Tail(f)) /\ NoDraws(Tail(f))
         /\ Ordered(f) /\ Opening(Head(f)) /\ q = <<>> => NoDraws(<<q>> \o Tail(f))
<1> DEFINE g == <<q>> \o Tail(f)
           h == Tail(f)
<1>1. /\ Len(f) \in Nat \ {0} /\ Head(f) = f[1] /\ DOMAIN f = 1..Len(f)
      /\ DOMAIN g = 1..Len(f) /\ g[1] = q
      /\ \A i \in 2..Len(f) : g[i] = f[i]
      /\ DOMAIN h = 1..(Len(f) - 1)
      /\ \A i \in DOMAIN h : h[i] = f[i + 1]
  BY DEF WorkType
<1> HIDE DEF g, h
<1>2. /\ Opening(q) => Opening(f[1])
      /\ Drawing(q) => Drawing(f[1])
      /\ q = <<>> => ~Drawing(q)
  BY <1>1, ActionOps DEF Opening, Drawing
<1>3. Ordered(f) => Ordered(g)
  BY <1>1, <1>2 DEF Ordered
<1>4. Ordered(f) => Ordered(h)
  <2> SUFFICES ASSUME Ordered(f) PROVE Ordered(h)
    OBVIOUS
  <2>1. \A i \in DOMAIN h : i + 1 \in DOMAIN f /\ h[i] = f[i + 1] /\ i \in Int
    BY <1>1
  <2>2. \A i, j \in DOMAIN h : i < j => i + 1 < j + 1
    BY <1>1
  <2> QED BY <2>1, <2>2 DEF Ordered
<1>5. NoDraws(f) => NoDraws(g) /\ NoDraws(h)
  BY <1>1, <1>2 DEF NoDraws
<1>6. Ordered(f) /\ Opening(Head(f)) /\ q = <<>> => NoDraws(g)
  <2> SUFFICES ASSUME Ordered(f), Opening(f[1]), q = <<>>, NEW i \in DOMAIN g
               PROVE  ~Drawing(g[i])
    BY <1>1 DEF NoDraws
  <2>1. CASE i = 1
    BY <1>1, <1>2, <2>1
  <2>2. CASE i # 1
    <3>1. 1 \in DOMAIN f /\ i \in DOMAIN f /\ 1 < i /\ g[i] = f[i]
      BY <1>1, <2>2
    <3> QED BY <3>1 DEF Ordered
  <2> QED BY <2>1, <2>2
<1> QED BY <1>3, <1>4, <1>5, <1>6 DEF g, h

\* Stacks of one, two and three queues.
LEMMA OrderedFew ==
  /\ Ordered(<<>>) /\ NoDraws(<<>>)
  /\ \A q : (Opening(q) /\ Drawing(q) => "Swift" \in Carried) => Ordered(<<q>>)
  /\ \A q, r : /\ ~Drawing(r) \/ ~Opening(q)
               /\ Opening(q) /\ Drawing(q) => "Swift" \in Carried
               /\ Opening(r) /\ Drawing(r) => "Swift" \in Carried
               => Ordered(<<q, r>>)
  /\ \A q, r, t : /\ ~Drawing(q) /\ ~Opening(r) /\ ~Drawing(r) /\ ~Opening(t)
                  /\ ~Drawing(t) \/ ~Opening(q)
                  => Ordered(<<q, r, t>>)
<1>1. Ordered(<<>>) /\ NoDraws(<<>>)
  BY DEF Ordered, NoDraws
<1>2. ASSUME NEW q, Opening(q) /\ Drawing(q) => "Swift" \in Carried
      PROVE  Ordered(<<q>>)
  <2>1. DOMAIN <<q>> = {1} /\ <<q>>[1] = q
    OBVIOUS
  <2> QED BY <1>2, <2>1 DEF Ordered
<1>3. ASSUME NEW q, NEW r, ~Drawing(r) \/ ~Opening(q),
             Opening(q) /\ Drawing(q) => "Swift" \in Carried,
             Opening(r) /\ Drawing(r) => "Swift" \in Carried
      PROVE  Ordered(<<q, r>>)
  <2> DEFINE f == <<q, r>>
  <2>1. DOMAIN f = {1, 2} /\ f[1] = q /\ f[2] = r
    OBVIOUS
  <2> HIDE DEF f
  <2>2. \A i, j \in DOMAIN f : i < j => i = 1 /\ j = 2
    BY <2>1
  <2>3. Ordered(f)
    BY <1>3, <2>1, <2>2 DEF Ordered
  <2> QED BY <2>3 DEF f
<1>4. ASSUME NEW q, NEW r, NEW t,
             ~Drawing(q), ~Opening(r), ~Drawing(r), ~Opening(t),
             ~Drawing(t) \/ ~Opening(q)
      PROVE  Ordered(<<q, r, t>>)
  <2> DEFINE f == <<q, r, t>>
  <2>1. DOMAIN f = {1, 2, 3} /\ f[1] = q /\ f[2] = r /\ f[3] = t
    OBVIOUS
  <2> HIDE DEF f
  <2>2. \A i, j \in DOMAIN f : i < j => (i = 1 \/ i = 2) /\ (j = 2 \/ j = 3)
    BY <2>1
  <2>3. Ordered(f)
    BY <1>4, <2>1, <2>2 DEF Ordered
  <2> QED BY <2>3 DEF f
<1> QED BY <1>1, <1>2, <1>3, <1>4

LEMMA QueueDraws ==
  ASSUME KInv, DrawShape, RunQueue, monstersAlive'
  PROVE  DrawShape'
<1>1. /\ SInv /\ TInv /\ monstersAlive /\ decision.pending \in Seq(InternalAction)
      /\ frames \in WorkType
  BY QueueSteps, FramesTypes DEF KInv, SInv
<1>2. CASE Ending
  <2>1. frames # <<>> /\ Head(frames) = <<>> /\ frames' = Tail(frames)
        /\ decision' = decision
    BY <1>2 DEF Ending, EndQueue
  <2>2. Head(frames) \in Seq(InternalAction)
    BY <1>1, <2>1, FramesTypes
  <2>3. /\ Ordered(frames) => Ordered(frames')
        /\ NoDraws(frames) => NoDraws(frames')
    BY <1>1, <2>1, <2>2, OrderedShrinks
  <2> QED BY <2>1, <2>3 DEF DrawShape, ScreenOpen
<1>3. ASSUME frames # <<>>, Head(frames) # <<>>
      PROVE  /\ Head(frames) \in Seq(InternalAction)
             /\ Tail(Head(frames)) \in Seq(InternalAction)
             /\ <<>> \in Seq(InternalAction)
             /\ OpsIn(Head(frames)) = {Current.op} \union OpsIn(Tail(Head(frames)))
             /\ OpsIn(<<>>) = {}
             /\ 1 \in DOMAIN frames /\ Head(frames) = frames[1]
  BY <1>1, <1>3, FramesTypes, ActionOps, EmptyType DEF Current
<1>4. CASE Proceeding
  <2>1. frames # <<>> /\ Head(frames) # <<>> /\ Proceed
    BY <1>4 DEF Proceeding, Running
  <2> DEFINE left == Tail(Head(frames))
  <2>2. decision'.purpose = decision.purpose
    BY <1>1, <2>1, ProceedParks
  <2>3. CASE ~ScreenOpen
    <3>1. decision' = decision /\ frames' = <<left>> \o Tail(frames)
      BY <1>1, <2>1, <2>3, ProceedParks
    <3>2. Ordered(frames) => Ordered(frames')
      BY <1>1, <1>3, <2>1, <3>1, OrderedShrinks
    <3> QED BY <2>3, <3>1, <3>2 DEF DrawShape, ScreenOpen
  <2>4. CASE ScreenOpen
    <3>1. decision'.pending = decision.pending \o left
          /\ frames' = <<<<>>>> \o Tail(frames)
      BY <1>1, <2>1, <2>4, ProceedParks
    <3>2. /\ Ordered(frames) => Ordered(frames')
          /\ NoDraws(frames) => NoDraws(frames')
      BY <1>1, <1>3, <2>1, <3>1, OrderedShrinks
    <3>3. ~Drawing(left)
      BY <1>3, <2>1, <2>4 DEF DrawShape, NoDraws, Drawing
    <3>4. Drawing(decision'.pending) => Drawing(decision.pending)
      BY <1>1, <1>3, <2>1, <3>1, <3>3, ConcatOps DEF Drawing
    <3> QED BY <2>4, <3>2, <3>4 DEF DrawShape, ScreenOpen
  <2> QED BY <2>3, <2>4
<1>5. ASSUME NEW purpose \in Purposes, NEW source, Showing(purpose, source)
      PROVE  DrawShape'
  <2>1. /\ decision'.pending = Tail(Head(frames))
        /\ frames' = <<<<>>>> \o Tail(frames)
        /\ decision'.purpose # decision.purpose
    BY <1>5, ShowParks DEF Showing, ScreenOpen
  <2>2. frames # <<>> /\ Head(frames) # <<>>
    BY <1>5 DEF Showing, Running
  <2>3. Ordered(frames')
    BY <1>1, <1>3, <2>1, <2>2, OrderedShrinks DEF DrawShape
  <2>4. ASSUME NEW op \in DOMAIN AwaitPurposes, Running(op)
        PROVE  NoDraws(frames') /\ ~Drawing(decision'.pending)
    <3>1. /\ PlayedCardWork /\ Current.op = op /\ op \in FinalOps
      BY <1>1, <2>4, CardShows, WhoRuns DEF FinalOps
    <3>2. Tail(Head(frames)) = <<>>
      BY <1>3, <2>2, <3>1, CardTail DEF PlayedCardWork, Current
    <3>3. frames' = <<<<>>>>
      BY <1>1, <1>3, <2>1, <2>2, <3>1, OneFrame DEF PlayedCardWork
    <3>4. \A i \in DOMAIN <<<<>>>> : <<<<>>>>[i] = <<>>
      OBVIOUS
    <3>5. NoDraws(<<<<>>>>)
      BY <1>3, <2>2, <3>4 DEF NoDraws, Drawing
    <3> QED BY <1>3, <2>1, <2>2, <3>2, <3>3, <3>5 DEF Drawing
  <2>5. ASSUME NEW op \in OpenOps, Running(op)
        PROVE  /\ NoDraws(frames')
               /\ Drawing(decision'.pending) => "Swift" \in Carried
    <3>1. Current.op = op /\ Opening(Head(frames))
      BY <1>1, <1>3, <2>2, <2>5, WhoRuns DEF Opening, OpenOps, Ops
    <3>2. NoDraws(frames')
      BY <1>1, <1>3, <2>1, <2>2, <3>1, OrderedShrinks DEF DrawShape
    <3>3. Drawing(decision'.pending) => Drawing(Head(frames))
      BY <1>3, <2>1, <2>2 DEF Drawing
    <3> QED BY <1>3, <2>2, <3>1, <3>2, <3>3 DEF DrawShape, Ordered
  <2> QED BY <1>1, <2>1, <2>3, <2>4, <2>5, WhoOpens DEF DrawShape
<1> QED BY <1>1, <1>2, <1>4, <1>5, QueueSteps

\* A command that starts one queue, or none.
LEMMA StartDraws ==
  ASSUME SInv, CanCommand, DrawShape, decision' = decision,
         \/ UNCHANGED frames
         \/ \E q : /\ ~ScreenOpen /\ frames' = <<q>>
                   /\ Opening(q) /\ Drawing(q) => "Swift" \in Carried
  PROVE  DrawShape'
<1>1. \A q : (Opening(q) /\ Drawing(q) => "Swift" \in Carried) => Ordered(<<q>>)
  BY OrderedFew
<1>2. Ordered(frames')
  BY <1>1 DEF DrawShape
<1> QED BY <1>2 DEF DrawShape, ScreenOpen

\* What a hand screen's answer puts after its source draws only if no potion
\* waited to open a screen.
LEMMA ParkedIsTold ==
  ASSUME KInv, EarnedShape, DrawShape
  PROVE  /\ decision.pending \in Seq(InternalAction)
         /\ Drawing(decision.pending) => "Swift" \in Carried
         /\ Opening(decision.pending) =>
              Carried \intersect {"Elixir", "GamblersBrew", "Attack"} # {}
         /\ decision.purpose \in HandSelects =>
              \E i \in DOMAIN Deck : Deck[i] \in HandSelects
<1>1. decision.pending \in Seq(InternalAction)
  BY FramesTypes DEF KInv, SInv
<1>2. /\ \A p \in DOMAIN PotionAction :
           /\ PotionAction[p].op \in OpenOps => p \in {"Elixir", "GamblersBrew", "Attack"}
           /\ PotionAction[p].op # "AwaitHandSelect"
  BY DEF PotionAction, Act, OpenOps
<1>3. \A op \in OpenOps : op # "AwaitHandSelect"
  BY DEF OpenOps
<1>4. \A op \in Earned \intersect OpenOps :
        Carried \intersect {"Elixir", "GamblersBrew", "Attack"} # {}
  BY <1>2, <1>3 DEF Earned
<1>5. "AwaitHandSelect" \in Earned => \E i \in DOMAIN Deck : Deck[i] \in HandSelects
  BY <1>2 DEF Earned
<1>6. ASSUME Opening(decision.pending)
      PROVE  Earned \intersect OpenOps # {}
  <2>1. PICK a \in ToSet(decision.pending) : a.op \in OpenOps
    BY <1>6 DEF Opening, OpsIn
  <2>2. a.op \in Earned
    BY <2>1, WorkIs DEF EarnedShape, AskingOps
  <2> QED BY <2>1, <2>2
<1> QED BY <1>1, <1>4, <1>5, <1>6 DEF EarnedShape, DrawShape

LEMMA ClosingDraws ==
  ASSUME KInv, EarnedShape, DrawShape, NeverTangled, Closing
  PROVE  DrawShape'
<1> DEFINE pend  == decision.pending
           other == Dropping(pend, ActionsOf({"DrawCards"}))
           draws == Dropping(pend, ActionsOf(Ops \ {"DrawCards"}))
<1>1. /\ pend \in Seq(InternalAction)
      /\ Drawing(pend) => "Swift" \in Carried
      /\ Opening(pend) => Carried \intersect {"Elixir", "GamblersBrew", "Attack"} # {}
      /\ decision.purpose \in HandSelects =>
           \E i \in DOMAIN Deck : Deck[i] \in HandSelects
  BY ParkedIsTold
<1>2. /\ OpsIn(other) = OpsIn(pend) \ {"DrawCards"}
      /\ OpsIn(draws) = OpsIn(pend) \ (Ops \ {"DrawCards"})
  BY <1>1, DroppingOps
<1>3. /\ ~Drawing(other) /\ ~Opening(draws)
      /\ Drawing(draws) => Drawing(pend)
      /\ Opening(other) => Opening(pend)
  <2>1. OpenOps \subseteq Ops \ {"DrawCards"}
    BY DEF OpenOps, Ops
  <2> QED BY <1>2, <2>1 DEF Drawing, Opening
<1>4. \A a : /\ Drawing(<<a>>) <=> a.op = "DrawCards"
             /\ Opening(<<a>>) <=> a.op \in OpenOps
  BY OneOp DEF Drawing, Opening
<1>5. \A op \in SettleOps \union {"DrawCards"} : op \notin OpenOps
  BY DEF SettleOps, OpenOps
<1>6. "DrawCards" \notin SettleOps
  BY DEF SettleOps
<1>7. /\ ~ScreenOpen' /\ decision'.pending = <<>> /\ ~Drawing(<<>>)
      /\ \A work : Close(work) => frames' = work
  BY ClosingCloses, SetOfEmpty DEF NoScreen, Screen, ScreenOpen, Close, Drawing, OpsIn
<1> HIDE DEF other, draws
<1>8. CASE Close(<<pend>>)
  <2>1. Ordered(<<pend>>)
    BY <1>1, OrderedFew
  <2> QED BY <1>7, <1>8, <2>1 DEF DrawShape
<1>9. CASE \E a : a.op \in SettleOps /\ Close(<<pend, <<a>>>>)
  <2>1. PICK a : a.op \in SettleOps /\ Close(<<pend, <<a>>>>)
    BY <1>9
  <2>2. ~Drawing(<<a>>) /\ ~Opening(<<a>>)
    BY <1>4, <1>5, <1>6, <2>1
  <2>3. Ordered(<<pend, <<a>>>>)
    BY <1>1, <2>2, OrderedFew
  <2> QED BY <1>7, <2>1, <2>3 DEF DrawShape
<1>10. CASE \E a : a.op = "DrawCards" /\ Close(<<<<a>>, pend>>)
  <2>1. PICK a : a.op = "DrawCards" /\ Close(<<<<a>>, pend>>)
    BY <1>10
  <2>2. ~Opening(<<a>>)
    BY <1>4, <1>5, <2>1
  <2>3. Ordered(<<<<a>>, pend>>)
    BY <1>1, <2>2, OrderedFew
  <2> QED BY <1>7, <2>1, <2>3 DEF DrawShape
<1>11. CASE \E a : /\ a.op \in SettleOps
                   /\ decision.purpose \in HandSelects
                   /\ Close(<<other, <<a>>, draws>>)
  <2>1. PICK a : /\ a.op \in SettleOps
                 /\ decision.purpose \in HandSelects
                 /\ Close(<<other, <<a>>, draws>>)
    BY <1>11
  <2>2. ~Drawing(<<a>>) /\ ~Opening(<<a>>)
    BY <1>4, <1>5, <1>6, <2>1
  <2>3. ~Drawing(draws) \/ ~Opening(other)
    BY <1>1, <1>3, <2>1 DEF NeverTangled
  <2>4. Ordered(<<other, <<a>>, draws>>)
    BY <1>3, <2>2, <2>3, OrderedFew
  <2> QED BY <1>7, <2>1, <2>4 DEF DrawShape
<1> QED BY <1>8, <1>9, <1>10, <1>11, ClosingForms DEF other, draws

LEMMA CommandDraws ==
  ASSUME KInv, EarnedShape, DrawShape, NeverTangled, Command, monstersAlive'
  PROVE  DrawShape'
<1>1. /\ SInv /\ decision \in ScreenType /\ potions \subseteq Carried
  BY DEF KInv, SInv, TInv, DecisionTypes
<1>2. \A a : /\ Drawing(<<a>>) <=> a.op = "DrawCards"
             /\ Opening(<<a>>) <=> a.op \in OpenOps
  BY OneOp DEF Drawing, Opening
<1>3. "DrawCards" \notin OpenOps
  BY DEF OpenOps
<1>4. CASE \E c \in CardIds : PlayCard(c)
  <2>1. PICK c \in CardIds : PlayCard(c)
    BY <1>4
  <2>2. CanCommand /\ ~ScreenOpen /\ decision' = decision
    BY <2>1 DEF PlayCard
  <2>3. frames' = <<PlayCardQueue(c)>> /\ ~Opening(PlayCardQueue(c))
    BY <1>1, <2>1, CardQueueOpens DEF Opening
  <2> QED BY <1>1, <2>2, <2>3, StartDraws
<1>5. CASE EndTurn
  <2>1. /\ CanCommand /\ ~ScreenOpen /\ decision' = decision
        /\ frames' = <<<<Act("DrawCards", None, HandSize)>>>>
    BY <1>5 DEF EndTurn
  <2>2. ~Opening(<<Act("DrawCards", None, HandSize)>>)
    BY <1>2, <1>3 DEF Act
  <2> QED BY <1>1, <2>1, <2>2, StartDraws
<1>6. CASE \E p \in DOMAIN PotionAction : UseQueuedPotion(p)
  <2>1. PICK p \in DOMAIN PotionAction : UseQueuedPotion(p)
    BY <1>6
  <2>2. CanCommand /\ p \in Carried
    BY <1>1, <2>1 DEF UseQueuedPotion, Drink
  <2>3. CASE UNCHANGED <<decision, frames>>
    BY <1>1, <2>2, <2>3, StartDraws
  <2>4. CASE ~ScreenOpen /\ UNCHANGED decision /\ frames' = <<<<PotionAction[p]>>>>
    <3>1. ~(Opening(<<PotionAction[p]>>) /\ Drawing(<<PotionAction[p]>>))
      BY <1>2, <1>3
    <3> QED BY <1>1, <2>2, <2>4, <3>1, StartDraws
  <2>5. CASE /\ ScreenOpen /\ UNCHANGED frames
             /\ decision' = [decision EXCEPT !.pending = Append(@, PotionAction[p])]
    <3>1. /\ decision'.pending = Append(decision.pending, PotionAction[p])
          /\ decision'.purpose = decision.purpose
          /\ decision.pending \in Seq(InternalAction)
      BY <1>1, <2>5 DEF ScreenType
    <3>2. ToSet(decision'.pending) \subseteq ToSet(decision.pending) \union {PotionAction[p]}
      BY <3>1 DEF ToSet
    <3>3. PotionAction[p].op = "DrawCards" => p = "Swift"
      BY <2>1 DEF PotionAction, Act
    <3>4. Drawing(decision'.pending) =>
            Drawing(decision.pending) \/ PotionAction[p].op = "DrawCards"
      BY <3>2 DEF Drawing, OpsIn
    <3> QED BY <2>2, <2>5, <3>1, <3>3, <3>4 DEF DrawShape, ScreenOpen
  <2> QED BY <2>1, <2>3, <2>4, <2>5, PotionParks
<1>7. CASE UseFirePotion
  <2>1. CanCommand /\ UNCHANGED frames /\ UNCHANGED decision
    BY <1>7 DEF UseFirePotion, Drink
  <2> QED BY <1>1, <2>1, StartDraws
<1>8. CASE UseLiquidMemories
  <2>1. /\ CanCommand /\ UNCHANGED frames
        /\ decision' = decision \/ decision' = Screen("LiquidMemories", None, FALSE, {})
    BY <1>8 DEF UseLiquidMemories, Drink
  <2>2. CASE decision' = decision
    BY <1>1, <2>1, <2>2, StartDraws
  <2>3. CASE decision' = Screen("LiquidMemories", None, FALSE, {})
    <3>1. decision'.pending = <<>> /\ ~Drawing(<<>>)
      BY <2>3, SetOfEmpty DEF Screen, Drawing, OpsIn
    <3>2. frames = <<>> /\ NoDraws(<<>>)
      BY <1>1, <2>1, Commanding, OrderedFew
    <3> QED BY <2>1, <3>1, <3>2 DEF DrawShape
  <2> QED BY <2>1, <2>2, <2>3
<1>9. CASE \E i : ChooseHandSelect(i) \/ ChooseScry(i) \/ ChooseExhaustSelect(i)
  <2>1. UNCHANGED frames /\ \E selected : Select(selected)
    BY <1>9 DEF ChooseHandSelect, ChooseScry, ChooseExhaustSelect, Answering
  <2>2. decision'.pending = decision.pending /\ decision'.purpose = decision.purpose
    BY <1>1, <2>1 DEF Select, ScreenType
  <2> QED BY <2>1, <2>2 DEF DrawShape, ScreenOpen
<1>10. CASE Closing
  BY <1>10, ClosingDraws
<1> QED BY <1>4, <1>5, <1>6, <1>7, <1>8, <1>9, <1>10, CommandIs

DInv == KInv /\ EarnedShape /\ DrawShape

LEMMA NextDraws ==
  ASSUME DInv, NeverTangled, [Next]_vars, monstersAlive'
  PROVE  DInv'
<1>1. UNCHANGED vars => DrawShape'
  BY DEF vars, DInv, DrawShape, ScreenOpen
<1>2. KInv' /\ EarnedShape'
  BY NextParks, NextEarned DEF DInv
<1> QED BY <1>1, <1>2, QueueDraws, CommandDraws DEF Next, CombatOver, DInv

LEMMA LiveDraws ==
  ASSUME NeverTangled
  PROVE  Spec => [](SInv /\ (monstersAlive => DInv))
<1> DEFINE Inv == SInv /\ (monstersAlive => DInv)
<1>1. Init => Inv
  <2> SUFFICES ASSUME Init PROVE Inv
    OBVIOUS
  <2>1. KInv /\ EarnedShape /\ decision = NoScreen /\ frames = <<>>
    BY InitParks, InitEarned DEF Init, Deal
  <2>2. DrawShape
    BY <2>1, OrderedFew, SetOfEmpty
       DEF DrawShape, NoScreen, Screen, Drawing, OpsIn, ScreenOpen
  <2> QED BY <2>1, <2>2 DEF DInv, KInv
<1>2. Inv /\ [Next]_vars => Inv'
  BY NextShapes, DeadStayDead, NextDraws
<1> QED BY <1>1, <1>2, PTL DEF Spec

\* DrawWaitsForScreen, unless a Swift Potion, a potion that opens a screen and a
\* card that puts a card of the hand on the draw pile come together: a draw
\* is queued behind whatever opens a screen before it, and waits with the screen.
THEOREM DrawsWaitForScreens ==
  ASSUME \/ "Swift" \notin Carried
         \/ Carried \intersect {"Elixir", "GamblersBrew", "Attack"} = {}
         \/ \A i \in DOMAIN Deck : Deck[i] \notin HandSelects
  PROVE  Spec => []DrawWaitsForScreen
<1>1. NeverTangled
  BY DEF NeverTangled
<1>2. SInv /\ (monstersAlive => DInv) => DrawWaitsForScreen
  <2> SUFFICES ASSUME SInv, monstersAlive => DInv, Running("DrawCards")
               PROVE  ~ScreenOpen
    BY DEF DrawWaitsForScreen
  <2>1. /\ frames # <<>> /\ "DrawCards" \in OpsIn(Head(frames))
        /\ ~monstersAlive => ~ScreenOpen
    BY WhoRuns DEF Ops
  <2>2. 1 \in DOMAIN frames /\ Head(frames) = frames[1]
    BY <2>1, FramesTypes DEF SInv
  <2> QED BY <2>1, <2>2 DEF DInv, DrawShape, NoDraws, Drawing
<1>3. Spec => [](SInv /\ (monstersAlive => DInv))
  BY <1>1, LiveDraws
<1> QED BY <1>2, <1>3, PTL

------------------------------------------------------------------------------
(* How many cards a hand holds *)

\* A draw takes no more cards than there is room for.
LEMMA DrawAtMost ==
  ASSUME TInv, NEW n \in Nat, NEW base \in Seq(CardIds),
         NEW occupied \in Nat, NEW tail \in Seq(CardIds),
         Draw(n, base, occupied, tail)
  PROVE  \E drawn \in Seq(CardIds) :
           Len(drawn) <= Room(occupied) /\ hand' = base \o drawn \o tail
<1>1. drawPile \in Seq(CardIds) /\ Len(drawPile) \in Nat
  BY DEF TInv, RecordTypes
<1>2. CASE \E k \in 0..Len(drawPile) :
             /\ k <= Room(occupied)
             /\ hand' = base \o TopOf(drawPile, k) \o tail
  BY <1>1, <1>2, CountTop
<1>3. CASE \E order \in Orders(ToSet(discardPile), Len(discardPile)),
              l \in 0..Len(discardPile) :
             /\ Len(drawPile) + l <= Room(occupied)
             /\ hand' = base \o TopOf(drawPile, Len(drawPile))
                             \o TopOf(order, l) \o tail
  <2>1. PICK order \in Orders(ToSet(discardPile), Len(discardPile)),
             l \in 0..Len(discardPile) :
               /\ Len(drawPile) + l <= Room(occupied)
               /\ hand' = base \o TopOf(drawPile, Len(drawPile))
                               \o TopOf(order, l) \o tail
    BY <1>3
  <2> DEFINE upper == TopOf(drawPile, Len(drawPile))
             lower == TopOf(order, l)
  <2>2. upper \in Seq(CardIds) /\ Len(upper) = Len(drawPile)
    BY <1>1, CountTop
  <2>3. lower \in Seq(CardIds) /\ Len(lower) = l
    BY <2>1, OrdersOfCards, CountTop
  <2> HIDE DEF upper, lower
  <2>4. /\ (base \o upper) \o lower = base \o (upper \o lower)
        /\ upper \o lower \in Seq(CardIds)
        /\ Len(upper \o lower) = Len(drawPile) + l
    <3>1. (base \o upper) \o lower = base \o (upper \o lower)
      BY <2>2, <2>3, ConcatAssociative
    <3>2. upper \o lower \in Seq(CardIds)
          /\ Len(upper \o lower) = Len(upper) + Len(lower)
      BY <2>2, <2>3, CountConcat
    <3> QED BY <2>2, <2>3, <3>1, <3>2
  <2> QED BY <2>1, <2>4 DEF upper, lower
<1> QED BY <1>2, <1>3, DrawCases

------------------------------------------------------------------------------
(* The hand limit *)

\* While a card is in use its queue is running or has just run.
UseShape == cardInUse # None => PlayedCardWork \/ frames = <<<<>>>>

\* A hand is full at most beside the card in use.
HandFits ==
  \/ Len(hand) <= MaxHandSize
  \/ PlayedCardWork /\ Len(Without(hand, cardInUse)) <= MaxHandSize
HandShape == UseShape /\ HandFits

LEMMA CardIsNoStack ==
  ASSUME NEW q \in Seq(InternalAction), NEW c, CardWork(q, c)
  PROVE  ~Stack(<<q>>)
<1>1. Len(q) \in DOMAIN q /\ q[Len(q)].op \in FinalOps
  <2>1. q # <<>> /\ Len(q) \in Nat /\ DOMAIN q = 1..Len(q)
    BY DEF CardWork
  <2>2. Len(q) # 0
    BY <2>1
  <2>3. Len(q) \in 1..Len(q)
    BY <2>1, <2>2
  <2> QED BY <2>1, <2>3 DEF CardWork
<1>2. q[Len(q)].op \in OpsIn(q)
  BY <1>1, ActionOps
<1>3. \A op \in FinalOps : op \notin PotionOps \union SettleOps
  BY DEF FinalOps, AwaitPurposes, PotionOps, OpenOps, SettleOps
<1>4. DOMAIN <<q>> = {1} /\ <<q>>[1] = q
  OBVIOUS
<1> QED BY <1>1, <1>2, <1>3, <1>4 DEF Stack

\* A step of the queue of a played card: the last one leaves nothing.
LEMMA CardStep ==
  ASSUME KInv, SInv', RunQueue, monstersAlive', PlayedCardWork
  PROVE  /\ ~EndQueue /\ cardInUse' = cardInUse
         /\ \E op \in Ops :
              /\ Running(op)
              /\ op \in FinalOps => frames' = <<<<>>>> /\ Current.card = cardInUse
              /\ op \notin FinalOps => PlayedCardWork'
<1> DEFINE left == Tail(Head(frames))
<1>1. /\ SInv /\ TInv /\ monstersAlive /\ frames \in WorkType /\ Len(frames) = 1
      /\ CardWork(Head(frames), cardInUse) /\ ~ScreenOpen
  BY QueueSteps, FramesTypes DEF KInv, SInv, PlayedCardWork
<1>2. frames # <<>> /\ Head(frames) # <<>> /\ Head(frames) \in Seq(InternalAction)
      /\ left \in Seq(InternalAction) /\ <<>> \in Seq(InternalAction)
  BY <1>1, FramesTypes, ActionOps, EmptyType DEF CardWork
<1>3. ~EndQueue
  BY <1>2 DEF EndQueue
<1>4. cardInUse' = cardInUse
  BY <1>3 DEF RunQueue, Run_DealDamage, Run_MoveCard, Run_MoveDrawCardToHand,
         Run_DrawCards, Run_DrawCardsWhilePlayedCardIsInLimbo,
         Run_DeepBreathShuffle, Run_AddGeneratedCardToDrawPileRandomSpot,
         Run_ForethoughtAutoMove, Run_AwaitHandSelect_Open,
         Run_AwaitHandSelect_Auto, Run_AwaitDrawSelect,
         Run_AwaitDiscardSelect, Run_AwaitExhaustSelect, Run_OpenElixirSelection,
         Run_OpenGamblersBrewSelection, OpenPotionSelection,
         Run_OpenPotionCardReward, Run_SettleHandSource, Run_MoveDrawSelectSource,
         combat
<1>5. ASSUME NEW op \in Ops, Running(op), op \in FinalOps
      PROVE  /\ left = <<>> /\ Current.card = cardInUse
             /\ <<left>> \o Tail(frames) = <<<<>>>>
             /\ <<<<>>>> \o Tail(frames) = <<<<>>>>
  <2>1. Head(Head(frames)).op = op
    BY <1>1, <1>5, WhoRuns DEF Current
  <2>2. left = <<>> /\ Head(Head(frames)).card = cardInUse
    BY <1>1, <1>2, <1>5, <2>1, CardTail
  <2> QED BY <1>1, <1>2, <2>2, OneFrame DEF Current
<1>6. ASSUME NEW op \in Ops, Running(op), op \notin FinalOps, Proceed
      PROVE  PlayedCardWork'
  <2>1. Head(Head(frames)).op = op
    BY <1>1, <1>6, WhoRuns DEF Current
  <2>2. CardWork(left, cardInUse)
    BY <1>1, <1>2, <1>6, <2>1, CardTail
  <2>3. frames' = <<left>> \o Tail(frames)
    BY <1>1, <1>2, <1>6, ProceedParks
  <2>4. frames' = <<left>>
    BY <1>1, <1>2, <2>3, OneFrame
  <2>5. ~Stack(frames')
    BY <1>2, <2>2, <2>4, CardIsNoStack
  <2> QED BY <2>5 DEF SInv, AliveShape, OtherWork
<1>7. CASE Proceeding
  <2>1. PICK op \in Ops : Running(op) /\ Proceed
    BY <1>7 DEF Proceeding
  <2>2. frames' = <<left>> \o Tail(frames)
    BY <1>1, <1>2, <2>1, ProceedParks
  <2> QED BY <1>3, <1>4, <1>5, <1>6, <2>1, <2>2
<1>8. ASSUME NEW purpose \in Purposes, NEW source, Showing(purpose, source)
      PROVE  \E op \in Ops :
               /\ Running(op) /\ op \in FinalOps
               /\ frames' = <<<<>>>> /\ Current.card = cardInUse
  <2>1. frames' = <<<<>>>> \o Tail(frames) /\ decision'.purpose # decision.purpose
    BY <1>8, ShowParks DEF Showing, ScreenOpen
  <2>2. \E op \in DOMAIN AwaitPurposes \union OpenOps : Running(op)
    BY <1>1, <2>1, WhoOpens
  <2>3. PICK op \in DOMAIN AwaitPurposes \union OpenOps : Running(op)
    BY <2>2
  <2>4. op \in Ops
    BY DEF AwaitPurposes, OpenOps, Ops
  <2>5. Head(Head(frames)).op = op
    BY <1>1, <2>3, <2>4, WhoRuns DEF Current
  <2>6. op \in CardOps
    BY <1>1, <1>2, <2>5, CardTail
  <2>7. op \in FinalOps
    BY <2>6 DEF CardOps, FinalOps
  <2> QED BY <1>5, <2>1, <2>3, <2>4, <2>7
<1> QED BY <1>1, <1>3, <1>4, <1>7, <1>8, QueueSteps DEF Ending

LEMMA QueueUses ==
  ASSUME KInv, SInv', UseShape, RunQueue, monstersAlive'
  PROVE  UseShape'
<1>1. CASE EndQueue
  <2>1. frames # <<>> /\ Head(frames) = <<>> /\ frames' = Tail(frames)
        /\ cardInUse' = IF Tail(frames) = <<>> THEN None ELSE cardInUse
    BY <1>1 DEF EndQueue
  <2>2. ~PlayedCardWork
    BY <2>1 DEF PlayedCardWork, CardWork
  <2>3. frames = <<<<>>>> => Tail(frames) = <<>>
    OBVIOUS
  <2> QED BY <2>1, <2>2, <2>3 DEF UseShape
<1>2. CASE PlayedCardWork
  BY <1>2, CardStep DEF UseShape
<1>3. CASE ~EndQueue /\ ~PlayedCardWork
  <2>1. cardInUse' = cardInUse
    BY <1>3 DEF RunQueue, Run_DealDamage, Run_MoveCard, Run_MoveDrawCardToHand,
         Run_DrawCards, Run_DrawCardsWhilePlayedCardIsInLimbo,
         Run_DeepBreathShuffle, Run_AddGeneratedCardToDrawPileRandomSpot,
         Run_ForethoughtAutoMove, Run_AwaitHandSelect_Open,
         Run_AwaitHandSelect_Auto, Run_AwaitDrawSelect,
         Run_AwaitDiscardSelect, Run_AwaitExhaustSelect, Run_OpenElixirSelection,
         Run_OpenGamblersBrewSelection, OpenPotionSelection,
         Run_OpenPotionCardReward, Run_SettleHandSource, Run_MoveDrawSelectSource,
         combat
  <2>2. frames # <<>> /\ Head(frames) # <<>>
    BY <1>3, QueueSteps DEF KInv, Ending, Proceeding, Showing, Running
  <2>3. Head(<<<<>>>>) = <<>>
    OBVIOUS
  <2> QED BY <1>3, <2>1, <2>2, <2>3 DEF UseShape
<1> QED BY <1>1, <1>2, <1>3

\* What the actions of a queue do to the hand.
LEMMA HandMoves ==
  ASSUME RunQueue
  PROVE  \/ UNCHANGED hand /\ (EndQueue \/ \E op \in Ops \ FinalOps : Running(op))
         \/ \E op \in FinalOps :
              Running(op) /\ hand' \in {<<>>, Without(hand, Current.card)}
         \/ Run_MoveDrawCardToHand
         \/ Run_DrawCards
         \/ Run_DrawCardsWhilePlayedCardIsInLimbo
<1>1. FinalOps = {"AwaitHandSelect", "AwaitDrawSelect", "AwaitDiscardSelect",
                  "AwaitExhaustSelect", "MoveCard", "ForethoughtAutoMove"}
  BY DEF FinalOps, AwaitPurposes
<1>2. CASE \/ EndQueue \/ Run_DealDamage \/ Run_DeepBreathShuffle
           \/ Run_AddGeneratedCardToDrawPileRandomSpot
           \/ Run_OpenElixirSelection \/ Run_OpenGamblersBrewSelection
           \/ Run_OpenPotionCardReward \/ Run_SettleHandSource
           \/ Run_MoveDrawSelectSource
  BY <1>1, <1>2 DEF EndQueue, Run_DealDamage, Run_DeepBreathShuffle,
       Run_AddGeneratedCardToDrawPileRandomSpot, Run_OpenElixirSelection,
       Run_OpenGamblersBrewSelection, OpenPotionSelection,
       Run_OpenPotionCardReward, Run_SettleHandSource, Run_MoveDrawSelectSource,
       piles, Ops
<1>3. CASE \/ Run_MoveCard \/ Run_ForethoughtAutoMove
           \/ Run_AwaitHandSelect_Open \/ Run_AwaitHandSelect_Auto
           \/ Run_AwaitDrawSelect \/ Run_AwaitDiscardSelect
           \/ Run_AwaitExhaustSelect
  BY <1>1, <1>3 DEF Run_MoveCard, Run_ForethoughtAutoMove,
       Run_AwaitHandSelect_Open, Run_AwaitHandSelect_Auto, Run_AwaitDrawSelect,
       Run_AwaitDiscardSelect, Run_AwaitExhaustSelect
<1> QED BY <1>2, <1>3 DEF RunQueue

LEMMA RoomFits ==
  ASSUME NEW occupied \in Nat, occupied <= MaxHandSize
  PROVE  Room(occupied) \in Nat /\ occupied + Room(occupied) <= MaxHandSize
  BY SizesAssumption DEF Room

LEMMA QueueFits ==
  ASSUME KInv, SInv', HandShape, RunQueue, monstersAlive'
  PROVE  HandFits'
<1> DEFINE slots == Len(Without(hand, cardInUse))
<1>1. /\ SInv /\ TInv /\ monstersAlive /\ hand \in Seq(CardIds) /\ Len(hand) \in Nat
      /\ cardInUse \in CardIds \union {None} /\ None \notin CardIds
      /\ MaxHandSize \in Nat /\ <<>> \in Seq(CardIds) /\ Len(<<>>) = 0
  BY QueueSteps, SizesAssumption, NamesAssumption, EmptyType
     DEF KInv, SInv, TInv, PileTypes, RestTypes
<1>2. /\ slots \in Nat /\ slots <= MaxHandSize
      /\ ~PlayedCardWork => Len(hand) <= MaxHandSize
      /\ Len(hand) <= MaxHandSize \/ PlayedCardWork
  BY <1>1, LenWithout DEF HandShape, HandFits
<1> HIDE DEF slots
<1>3. ASSUME PlayedCardWork
      PROVE  /\ ~EndQueue /\ cardInUse' = cardInUse
             /\ \E op \in Ops : /\ Running(op) /\ Current.op = op
                                /\ op \notin FinalOps => PlayedCardWork'
                                /\ op \in FinalOps => Current.card = cardInUse
  BY <1>1, <1>3, CardStep, WhoRuns
<1>4. CASE UNCHANGED hand /\ (EndQueue \/ \E op \in Ops \ FinalOps : Running(op))
  <2>1. CASE Len(hand) <= MaxHandSize
    BY <1>4, <2>1 DEF HandFits
  <2>2. CASE ~(Len(hand) <= MaxHandSize)
    <3>1. PICK op \in Ops \ FinalOps : Running(op)
      BY <1>2, <1>3, <1>4, <2>2
    <3>2. Current.op = op
      BY <1>1, <3>1, WhoRuns
    <3>3. PlayedCardWork' /\ cardInUse' = cardInUse
      BY <1>2, <1>3, <2>2, <3>1, <3>2
    <3> QED BY <1>2, <1>4, <3>3 DEF HandFits, slots
  <2> QED BY <2>1, <2>2
<1>5. CASE \E op \in FinalOps :
             Running(op) /\ hand' \in {<<>>, Without(hand, Current.card)}
  <2>1. PICK op \in FinalOps :
               Running(op) /\ hand' \in {<<>>, Without(hand, Current.card)}
    BY <1>5
  <2>2. op \in Ops /\ op \notin PotionOps \union SettleOps
    BY DEF FinalOps, AwaitPurposes, Ops, PotionOps, OpenOps, SettleOps
  <2>3. PlayedCardWork /\ Current.op = op
    BY <1>1, <2>1, <2>2, WhoRuns
  <2>4. Current.card = cardInUse
    BY <1>3, <2>3
  <2>5. hand' = <<>> \/ Len(hand') = slots
    BY <2>1, <2>4 DEF slots
  <2> QED BY <1>1, <1>2, <2>5 DEF HandFits
<1>6. CASE Run_MoveDrawCardToHand
  <2>1. Running("MoveDrawCardToHand") /\ TakeFromDrawPile(Current.card)
    BY <1>6 DEF Run_MoveDrawCardToHand
  <2>2. Current.card \in CardIds
    BY <1>1, <1>6 DEF Run_MoveDrawCardToHand, TInv, RecordTypes, ToSet
  <2>3. CASE Len(hand) >= MaxHandSize
    <3>1. UNCHANGED hand
      BY <2>1, <2>3 DEF TakeFromDrawPile
    <3>2. "MoveDrawCardToHand" \in Ops \ FinalOps
      BY DEF Ops, FinalOps, AwaitPurposes
    <3> QED BY <1>4, <2>1, <3>1, <3>2
  <2>4. CASE ~(Len(hand) >= MaxHandSize)
    <3>1. hand' = Append(hand, Current.card)
      BY <2>1, <2>4 DEF TakeFromDrawPile
    <3>2. Len(hand') = Len(hand) + 1
      BY <1>1, <2>2, <3>1, OneMore
    <3> QED BY <1>1, <2>4, <3>2 DEF HandFits
  <2> QED BY <2>3, <2>4
<1>7. slots + Room(slots) <= MaxHandSize /\ Room(slots) \in Nat
  BY <1>2, RoomFits
<1>8. CASE Run_DrawCards
  <2>1. Running("DrawCards") /\ Draw(Current.n, hand, slots, <<>>)
    BY <1>8 DEF Run_DrawCards, slots
  <2>2. Current.n \in Nat
    BY <1>1, <2>1, RunningTypes DEF Ops, InternalAction, ActionsOf
  <2>3. PICK drawn \in Seq(CardIds) :
               Len(drawn) <= Room(slots) /\ hand' = hand \o drawn \o <<>>
    <3>1. /\ TInv /\ Current.n \in Nat /\ hand \in Seq(CardIds) /\ slots \in Nat
          /\ <<>> \in Seq(CardIds) /\ Draw(Current.n, hand, slots, <<>>)
      BY <1>1, <1>2, <2>1, <2>2
    <3> QED BY <3>1, DrawAtMost, ZenonT(60)
  <2>4. /\ hand' = hand \o drawn /\ Len(hand') = Len(hand) + Len(drawn)
        /\ Len(drawn) \in Nat /\ hand' \in Seq(CardIds)
    BY <1>1, <2>3, ConcatEmptySeq, CountConcat
  <2>5. CASE PlayedCardWork
    <3>1. "DrawCards" \in Ops \ FinalOps
      BY DEF Ops, FinalOps, AwaitPurposes
    <3>2. Current.op = "DrawCards"
      BY <1>1, <2>1, <3>1, WhoRuns
    <3>3. PlayedCardWork' /\ cardInUse' = cardInUse
      BY <1>3, <2>5, <3>1, <3>2
    <3>4. cardInUse \in CardIds
      BY <1>1, <2>5 DEF PlayedCardWork, ToSet
    <3>5. Len(Without(hand \o drawn, cardInUse)) <= slots + Len(drawn)
      BY <1>1, <3>4, LenBehind DEF slots
    <3>6. Len(Without(hand \o drawn, cardInUse)) \in Nat
      BY <2>4, LenWithout
    <3>7. Len(Without(hand \o drawn, cardInUse)) <= MaxHandSize
      BY <1>1, <1>2, <1>7, <2>3, <2>4, <3>5, <3>6
    <3> QED BY <2>4, <3>3, <3>7 DEF HandFits
  <2>6. CASE ~PlayedCardWork
    <3>1. frames # <<>> /\ Head(frames) # <<>> /\ Head(<<<<>>>>) = <<>>
      BY <2>1 DEF Running
    <3>2. cardInUse = None
      BY <2>6, <3>1 DEF HandShape, UseShape
    <3>3. None \notin ToSet(hand)
      BY <1>1 DEF ToSet
    <3>4. slots = Len(hand)
      BY <1>1, <3>2, <3>3, LenWithout DEF slots
    <3> QED BY <1>1, <1>7, <2>3, <2>4, <3>4 DEF HandFits
  <2> QED BY <2>5, <2>6
<1>9. CASE Run_DrawCardsWhilePlayedCardIsInLimbo
  <2> DEFINE c    == cardInUse
             rest == Without(hand, c)
             op   == "DrawCardsWhilePlayedCardIsInLimbo"
  <2>1. op \in Ops /\ op \notin FinalOps \union PotionOps \union SettleOps /\ Running(op)
    BY <1>9 DEF Ops, FinalOps, AwaitPurposes, PotionOps, OpenOps, SettleOps,
                Run_DrawCardsWhilePlayedCardIsInLimbo
  <2>2. PlayedCardWork /\ Current.op = op
    BY <1>1, <2>1, WhoRuns
  <2>3. PlayedCardWork' /\ cardInUse' = cardInUse
    BY <1>3, <2>1, <2>2
  <2>4. /\ Current.card = c /\ c \in ToSet(hand) /\ c \in CardIds
    <3>1. CardWork(Head(frames), c) /\ c \in ToSet(hand) /\ frames # <<>>
      BY <2>1, <2>2 DEF PlayedCardWork, Running
    <3>2. Head(frames) \in Seq(InternalAction)
      BY <1>1, <3>1, FramesTypes
    <3>3. Current.card = c
      BY <2>2, <3>1, <3>2, CardTail DEF Current
    <3> QED BY <1>1, <3>1, <3>3 DEF ToSet
  <2>5. Draw(Current.n, rest, slots, <<c>>)
    BY <1>9, <2>4 DEF Run_DrawCardsWhilePlayedCardIsInLimbo, slots
  <2>6. Current.n \in Nat /\ rest \in Seq(CardIds) /\ <<c>> \in Seq(CardIds)
        /\ Len(rest) = slots
    <3>1. Current.n \in Nat
      BY <1>1, <2>1, RunningTypes DEF InternalAction, ActionsOf
    <3>2. rest \in Seq(CardIds) /\ Len(rest) = slots
      BY <1>1, LenWithout DEF slots
    <3> QED BY <2>4, <3>1, <3>2
  <2> HIDE DEF rest
  <2>7. PICK drawn \in Seq(CardIds) :
               Len(drawn) <= Room(slots) /\ hand' = rest \o drawn \o <<c>>
    <3>1. /\ TInv /\ Current.n \in Nat /\ rest \in Seq(CardIds) /\ slots \in Nat
          /\ <<c>> \in Seq(CardIds) /\ Draw(Current.n, rest, slots, <<c>>)
      BY <1>1, <1>2, <2>5, <2>6
    <3> QED BY <3>1, DrawAtMost, ZenonT(60)
  <2>8. /\ rest \o drawn \in Seq(CardIds) /\ Len(drawn) \in Nat
        /\ Len(rest \o drawn) = slots + Len(drawn)
        /\ hand' \in Seq(CardIds)
    <3>1. /\ rest \o drawn \in Seq(CardIds) /\ Len(drawn) \in Nat
          /\ Len(rest \o drawn) = Len(rest) + Len(drawn)
      BY <2>6, CountConcat
    <3>2. (rest \o drawn) \o <<c>> \in Seq(CardIds)
      BY <2>6, <3>1, CountConcat
    <3> QED BY <2>6, <2>7, <3>1, <3>2
  <2>9. /\ Len(Without(hand', c)) <= Len(rest \o drawn)
        /\ Len(Without(hand', c)) \in Nat
    BY <2>4, <2>7, <2>8, LenBehind, LenWithout
  <2>10. Len(Without(hand', c)) <= MaxHandSize
    BY <1>1, <1>2, <1>7, <2>7, <2>8, <2>9
  <2> QED BY <2>3, <2>10 DEF HandFits
<1> QED BY <1>4, <1>5, <1>6, <1>8, <1>9, HandMoves

\* A command finds no card in use and leaves none but the card it plays.
LEMMA CommandHand ==
  ASSUME KInv, SInv', EarnedShape, HandShape, Command, monstersAlive',
         "Attack" \notin Carried
  PROVE  HandShape'
<1>1. /\ SInv /\ TInv /\ hand \in Seq(CardIds) /\ Len(hand) \in Nat
      /\ discardPile \in Seq(CardIds) /\ Len(discardPile) \in Nat
      /\ MaxHandSize \in Nat /\ <<>> \in Seq(CardIds) /\ Len(<<>>) = 0
      /\ decision \in ScreenType
  BY SizesAssumption, EmptyType DEF KInv, SInv, TInv, PileTypes, DecisionTypes
<1>2. ASSUME CanCommand
      PROVE  Len(hand) <= MaxHandSize /\ cardInUse = None
  <2>1. frames = <<>> /\ Len(frames) = 0 /\ <<>> # <<<<>>>>
    BY <1>2 DEF CanCommand
  <2>2. ~PlayedCardWork
    BY <2>1 DEF PlayedCardWork
  <2> QED BY <2>1, <2>2 DEF HandShape, UseShape, HandFits
<1>3. ASSUME CanCommand, cardInUse' = cardInUse,
             Len(hand') <= MaxHandSize \/ UNCHANGED hand
      PROVE  HandShape'
  BY <1>2, <1>3 DEF HandShape, UseShape, HandFits
<1>4. CASE \E c \in CardIds : PlayCard(c)
  <2>1. PICK c \in CardIds : PlayCard(c)
    BY <1>4
  <2> DEFINE q == PlayCardQueue(c)
  <2>2. /\ CanCommand /\ UNCHANGED hand
    BY <2>1 DEF PlayCard, piles
  <2>3. frames' = <<q>> /\ CardWork(q, c)
    BY <1>1, <2>1, CardQueueOpens
  <2>4. q \in Seq(InternalAction)
    BY <1>1, <2>1, PlayCardQueueTypes DEF PlayCard
  <2> HIDE DEF q
  <2>5. ~Stack(frames')
    BY <2>3, <2>4, CardIsNoStack
  <2>6. PlayedCardWork'
    BY <2>5 DEF SInv, AliveShape, OtherWork
  <2> QED BY <1>2, <2>2, <2>6 DEF HandShape, UseShape, HandFits
<1>5. CASE EndTurn
  BY <1>1, <1>3, <1>5 DEF EndTurn, combat
<1>6. CASE \E p \in DOMAIN PotionAction : UseQueuedPotion(p)
  <2>1. CanCommand /\ UNCHANGED <<hand, cardInUse>>
    BY <1>6 DEF UseQueuedPotion, Drink, piles
  <2> QED BY <1>3, <2>1
<1>7. CASE UseFirePotion
  <2>1. CanCommand /\ UNCHANGED <<hand, cardInUse>>
    BY <1>7 DEF UseFirePotion, Drink, piles
  <2> QED BY <1>3, <2>1
<1>8. CASE UseLiquidMemories
  <2>1. /\ CanCommand /\ UNCHANGED cardInUse
        /\ \/ UNCHANGED hand
           \/ /\ Len(discardPile) <= 1 /\ Len(hand) < MaxHandSize
              /\ hand' = hand \o discardPile
    BY <1>8 DEF UseLiquidMemories, Drink, Returned
  <2>2. Len(hand \o discardPile) = Len(hand) + Len(discardPile)
    BY <1>1, CountConcat
  <2>3. Len(hand') <= MaxHandSize \/ UNCHANGED hand
    BY <1>1, <2>1, <2>2
  <2> QED BY <1>3, <2>1, <2>3
<1>9. CASE \E i : ChooseHandSelect(i) \/ ChooseScry(i) \/ ChooseExhaustSelect(i)
  <2>1. CanCommand /\ UNCHANGED <<hand, cardInUse>>
    BY <1>9 DEF ChooseHandSelect, ChooseScry, ChooseExhaustSelect, Answering,
                piles, combat
  <2> QED BY <1>3, <2>1
<1>10. CASE Closing
  <2>1. CanCommand /\ UNCHANGED cardInUse
    BY <1>10, ClosingCloses DEF combat
  <2>2. \A R : Len(Dropping(hand, R)) \in Nat /\ Len(Dropping(hand, R)) <= Len(hand)
    BY <1>1, LenDropping
  <2>3. ASSUME \E R : hand' = Dropping(hand, R)
        PROVE  Len(hand') <= MaxHandSize
    BY <1>1, <1>2, <2>1, <2>2, <2>3
  <2>4. CASE ConfirmHandSelect \/ ConfirmTrueGrit \/ ConfirmElixir \/ ConfirmGamblingChip
    <3>1. \E R : hand' = Dropping(hand, R)
      BY <2>4 DEF ConfirmHandSelect, ConfirmTrueGrit, ConfirmElixir,
                  ConfirmGamblingChip, NotChosen, Without
    <3> QED BY <1>3, <2>1, <2>3, <3>1
  <2>5. CASE \/ ConfirmScry \/ SkipCombatCardReward
             \/ \E i : ChooseHeadbutt(i)
    BY <1>3, <2>1, <2>5 DEF ConfirmScry, SkipCombatCardReward, ChooseHeadbutt, piles
  <2>6. ~ChooseCombatCardReward
    <3>1. SUFFICES ASSUME decision.purpose = "CardReward" PROVE FALSE
      BY DEF ChooseCombatCardReward, Answering
    <3>2. "OpenPotionCardReward" \in Earned
      BY <3>1 DEF EarnedShape
    <3>3. \A p \in DOMAIN PotionAction :
            PotionAction[p].op = "OpenPotionCardReward" => p = "Attack"
      BY DEF PotionAction, Act
    <3> QED BY <3>2, <3>3 DEF Earned
  <2>7. CASE \E c \in CardIds : ChooseSecretTechnique(c)
    <3>1. PICK c \in CardIds : ChooseSecretTechnique(c)
      BY <2>7
    <3>2. UNCHANGED hand \/ (Len(hand) < MaxHandSize /\ hand' = Append(hand, c))
      BY <1>1, <3>1 DEF ChooseSecretTechnique, TakeFromDrawPile
    <3>3. Len(Append(hand, c)) = Len(hand) + 1
      BY <1>1, OneMore
    <3> QED BY <1>1, <1>3, <2>1, <3>2, <3>3
  <2>8. CASE \E i \in 1..Len(discardPile) : ChooseLiquidMemories(i)
    <3>1. PICK i \in 1..Len(discardPile) : ChooseLiquidMemories(i)
      BY <2>8
    <3>2. UNCHANGED hand \/ (Len(hand) < MaxHandSize
                             /\ hand' = hand \o <<discardPile[i]>>)
      BY <3>1 DEF ChooseLiquidMemories, Returned
    <3>3. <<discardPile[i]>> \in Seq(CardIds) /\ Len(<<discardPile[i]>>) = 1
      BY <1>1
    <3>4. Len(hand \o <<discardPile[i]>>) = Len(hand) + 1
      BY <1>1, <3>3, CountConcat
    <3> QED BY <1>1, <1>3, <2>1, <3>2, <3>4
  <2> QED BY <1>10, <2>4, <2>5, <2>6, <2>7, <2>8 DEF Closing
<1> QED BY <1>4, <1>5, <1>6, <1>7, <1>8, <1>9, <1>10, CommandIs

HInv == KInv /\ EarnedShape /\ HandShape

LEMMA NextHand ==
  ASSUME HInv, SInv', "Attack" \notin Carried, [Next]_vars, monstersAlive'
  PROVE  HInv'
<1>1. UNCHANGED vars => HandShape'
  BY DEF vars, piles, cards, combat, HInv, HandShape, UseShape, HandFits,
         PlayedCardWork, Prepared, Current, ScreenOpen, SkillsIn
<1>2. KInv' /\ EarnedShape'
  BY NextParks, NextEarned DEF HInv
<1> QED BY <1>1, <1>2, QueueUses, QueueFits, CommandHand
        DEF Next, CombatOver, HInv, HandShape

LEMMA LiveHand ==
  ASSUME "Attack" \notin Carried, HandSize <= MaxHandSize
  PROVE  Spec => [](SInv /\ (monstersAlive => HInv))
<1> DEFINE Inv == SInv /\ (monstersAlive => HInv)
<1>1. Init => Inv
  <2> SUFFICES ASSUME Init PROVE Inv
    OBVIOUS
  <2>1. KInv /\ EarnedShape /\ cardInUse = None
    BY InitParks, InitEarned DEF Init, Deal
  <2> DEFINE n == Len(Deck)
             dealt == Min2(HandSize, n)
  <2>2. PICK order \in Orders(1..n, n) : hand = TopOf(order, dealt)
    BY DEF Init, Deal
  <2>3. n \in Nat /\ HandSize \in Nat /\ MaxHandSize \in Nat
    BY DeckAssumption, SizesAssumption
  <2>4. order \in Seq(1..n) /\ Len(order) = n
    BY <2>2, <2>3, OrdersType
  <2>5. dealt \in 0..n /\ dealt <= HandSize
    BY <2>3 DEF Min2
  <2> HIDE DEF dealt
  <2>6. Len(hand) = dealt
    BY <2>2, <2>4, <2>5, CountTop
  <2>7. Len(hand) <= MaxHandSize
    BY <2>3, <2>5, <2>6
  <2> QED BY <2>1, <2>7 DEF HInv, KInv, HandShape, UseShape, HandFits
<1>2. Inv /\ [Next]_vars => Inv'
  BY NextShapes, DeadStayDead, NextHand
<1> QED BY <1>1, <1>2, PTL DEF Spec

\* HandWithinCap, for a player who carries no Attack Potion: the slot that the
\* card in use frees for its draws is taken back before the command ends.
THEOREM HandsFit ==
  ASSUME "Attack" \notin Carried, HandSize <= MaxHandSize
  PROVE  Spec => []HandWithinCap
<1>1. SInv /\ (monstersAlive => HInv) => HandWithinCap
  <2> SUFFICES ASSUME SInv, monstersAlive => HInv, Quiescent
               PROVE  Len(hand) <= MaxHandSize
    BY DEF HandWithinCap
  <2>1. frames = <<>> /\ Len(frames) = 0 /\ phase # "Won"
    BY DEF Quiescent
  <2>2. monstersAlive /\ ~PlayedCardWork
    BY <2>1 DEF SInv, LethalShape, PlayedCardWork
  <2> QED BY <2>2 DEF HInv, HandShape, HandFits
<1>2. Spec => [](SInv /\ (monstersAlive => HInv))
  BY LiveHand
<1> QED BY <1>1, <1>2, PTL
==============================================================================

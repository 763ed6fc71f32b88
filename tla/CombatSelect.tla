----------------------------- MODULE CombatSelect -----------------------------
(***************************************************************************)
(* The card-selection core of a combat: the five card piles, the selection *)
(* screen a card or a potion opens, the internal actions that are running  *)
(* or parked behind that screen, and the public record of draw positions.  *)
(*                                                                         *)
(* A player command (play, end turn, use a potion, choose, confirm) starts *)
(* work only when none is running.  The work is a stack of frames.  A      *)
(* frame is the local queue of one process_internal_queue call, or one     *)
(* statement that the code runs after such a call returns.  Each Run_      *)
(* action executes the action at the head of the first frame; when it      *)
(* leaves a screen open, the rest of that frame is parked in the screen,   *)
(* but the frames below it still run, as the code after the call does.     *)
(*                                                                         *)
(* Left out: energy, block, damage amounts, powers, relics, copied cards   *)
(* and forced plays.                                                       *)
(***************************************************************************)
EXTENDS PileKnowledge

CONSTANTS
  Deck,            \* Deck[c] is the content of card instance c
  MaxCardId,       \* bound on the ids of generated cards
  MaxHandSize,     \* 10 in the code
  HandSize,        \* cards drawn for a turn, 5 in the code
  ScryCount,       \* 3, or 5 for an upgraded Third Eye
  SwiftDraw,       \* 3 in the code
  Carried,         \* the potions the player starts with
  None             \* no card

Attacks  == {"Strike", "Headbutt", "PommelStrike", "WildStrike"}
Skills   == {"Defend", "Warcry", "Forethought", "SecretTechnique", "ThirdEye",
             "DeepBreath", "TrueGrit"}
Contents == Attacks \union Skills \union {"Wound"}
Potions  == {"Swift", "Elixir", "GamblersBrew", "Attack", "LiquidMemories",
             "Fire"}
CardIds  == 1..MaxCardId

ASSUME DeckAssumption ==
  /\ MaxCardId \in Nat
  /\ Deck \in Seq(Contents)
  /\ Len(Deck) <= MaxCardId
ASSUME SizesAssumption ==
  /\ MaxHandSize \in Nat \ {0}
  /\ {HandSize, ScryCount, SwiftDraw} \subseteq Nat
ASSUME NamesAssumption ==
  /\ Carried \subseteq Potions
  /\ None \notin CardIds

VARIABLES
  hand, drawPile, discardPile, exhaustPile, limbo,  \* CardPiles
  known,           \* CardPiles.draw_pile_knowledge
  content,         \* content of every card instance
  decision,        \* CombatState.decision
  frames,          \* the work in progress
  cardInUse,       \* CombatState.card_in_use
  phase,           \* CombatState.phase
  monstersAlive,   \* some monster is alive
  potions,         \* the potions the player still holds
  possible,        \* auxiliary: draw orders the public history leaves open
  issued           \* auxiliary: the card instances that exist

piles   == <<hand, drawPile, discardPile, exhaustPile, limbo>>
public  == <<known, possible>>
cards   == <<content, issued>>
combat  == <<cardInUse, phase, monstersAlive, potions>>
vars    == <<piles, public, cards, combat, decision, frames>>

------------------------------------------------------------------------------
(* Internal actions and selection screens *)

Ops == {"DealDamage", "MoveCard", "MoveDrawCardToHand", "DrawCards",
        "DrawCardsWhilePlayedCardIsInLimbo", "DeepBreathShuffle",
        "AddGeneratedCardToDrawPileRandomSpot", "ForethoughtAutoMove",
        "AwaitHandSelect", "AwaitDrawSelect", "AwaitDiscardSelect",
        "AwaitExhaustSelect", "OpenElixirSelection",
        "OpenGamblersBrewSelection", "OpenPotionCardReward",
        "SettleHandSource", "MoveDrawSelectSource"}
HandSelects    == {"Warcry", "Forethought"}
DrawSelects    == {"SecretTechnique", "Scry"}
DiscardSelects == {"Headbutt", "LiquidMemories"}
ExhaustSelects == {"Exhaust", "GamblingChip", "TrueGrit"}
Purposes == HandSelects \union DrawSelects \union DiscardSelects
            \union ExhaustSelects \union {"CardReward"}

\* The actions that open a screen for a played card, and what it may be for.
AwaitPurposes == [AwaitHandSelect    |-> HandSelects,
                  AwaitDrawSelect    |-> DrawSelects,
                  AwaitDiscardSelect |-> DiscardSelects,
                  AwaitExhaustSelect |-> ExhaustSelects]

ActionsOf(ops) == [op : ops, card : CardIds \union {None}, n : Nat,
                   purpose : Purposes \union {"None"}]
InternalAction ==
  {a \in ActionsOf(Ops) :
     a.op \in DOMAIN AwaitPurposes =>
       a.card \in CardIds /\ a.purpose \in AwaitPurposes[a.op]}

Act(op, c, n) == [op |-> op, card |-> c, n |-> n, purpose |-> "None"]
Await(op, c, purpose) == [Act(op, c, 0) EXCEPT !.purpose = purpose]

\* held: the source card has left the piles and lives in the screen itself.
Screen(purpose, source, held, selectable) ==
  [purpose |-> purpose, source |-> source, held |-> held,
   selectable |-> selectable, selected |-> <<>>, pending |-> <<>>]
NoScreen == Screen("None", None, FALSE, {})

ScreenOpen == decision.purpose # "None"
HeldCards  == IF decision.held THEN <<decision.source>> ELSE <<>>

\* Mutant: an exhausted card no longer reserves its id.
LocatedButNotExhausted ==
  ToSet(hand) \union ToSet(drawPile) \union ToSet(discardPile) \union ToSet(limbo)
  \union ToSet(HeldCards)

\* Cards in every authoritative location.
Located == ToSet(hand) \union ToSet(drawPile) \union ToSet(discardPile)
           \union ToSet(exhaustPile) \union ToSet(limbo) \union ToSet(HeldCards)

NextCardInstanceId ==
  1 + Max(Located \union {0} \union ({cardInUse} \ {None}))

SkillsIn(pile) == Dropping(pile, {c \in CardIds : content[c] \notin Skills})

Exhausts(c) == content[c] \in {"Warcry", "SecretTechnique"}

\* Mutant: the card is settled but also stays in limbo.
StayInLimbo(c) == limbo' = limbo
LeaveLimbo(c) == limbo' = Without(limbo, c)

\* Settles a played card in the pile its definition names.
SettleSource(c) ==
  /\ discardPile' = IF Exhausts(c) THEN discardPile ELSE Append(discardPile, c)
  /\ exhaustPile' = IF Exhausts(c) THEN Append(exhaustPile, c) ELSE exhaustPile

------------------------------------------------------------------------------
(* Running the queue *)

Current == Head(Head(frames))
Running(op) == /\ frames # <<>>
               /\ Head(frames) # <<>>
               /\ Current \in ActionsOf({op})

\* Mutant: the draw of a card in use is not cancelled.
CancelledExceptLimboDraw ==
  {"DrawCards", "OpenElixirSelection", "OpenGamblersBrewSelection",
   "OpenPotionCardReward"}

CancelledPostLethal ==
  {"DrawCards", "DrawCardsWhilePlayedCardIsInLimbo", "OpenElixirSelection",
   "OpenGamblersBrewSelection", "OpenPotionCardReward"}

\* Mutant: opening a screen forgets the rest of the queue.
GoOnForgetting(screen, left) ==
  /\ decision' = screen
  /\ frames' = <<IF screen.purpose = "None" THEN left ELSE <<>>>> \o Tail(frames)

\* Goes on with the actions left, or parks them behind the screen.
GoOn(screen, left) ==
  IF screen.purpose # "None"
  THEN /\ decision' = [screen EXCEPT !.pending = @ \o left]
       /\ frames' = <<<<>>>> \o Tail(frames)
  ELSE /\ decision' = screen
       /\ frames' = <<left>> \o Tail(frames)

\* Mutant: the executed action is read but not popped.
ProceedWithoutPop == GoOn(decision, Head(frames))
Proceed == GoOn(decision, Tail(Head(frames)))
Show(screen) == GoOn(screen, Tail(Head(frames)))

\* The end of a process_internal_queue call, and of the command after the last.
EndQueue ==
  /\ frames # <<>>
  /\ Head(frames) = <<>>
  /\ frames' = Tail(frames)
  /\ phase' = IF monstersAlive THEN phase ELSE "Won"
  /\ decision' = IF monstersAlive THEN decision ELSE NoScreen
  /\ cardInUse' = IF Tail(frames) = <<>> THEN None ELSE cardInUse
  /\ UNCHANGED <<piles, public, cards, monstersAlive, potions>>

Run_DealDamage ==
  /\ Running("DealDamage")
  /\ \E lethal \in BOOLEAN :
       /\ monstersAlive' = (monstersAlive /\ ~lethal)
       /\ GoOn(decision,
               IF lethal
               THEN Dropping(Tail(Head(frames)), ActionsOf(CancelledPostLethal))
               ELSE Tail(Head(frames)))
  /\ UNCHANGED <<piles, public, cards, cardInUse, phase, potions>>

Run_MoveCard ==
  /\ Running("MoveCard")
  /\ Current.card \in ToSet(hand)
  /\ hand' = Without(hand, Current.card)
  /\ SettleSource(Current.card)
  /\ Proceed
  /\ UNCHANGED <<drawPile, limbo, public, cards, combat>>

\* Mutant: the record forgets the card but keeps the positions of the others.
TakeKeepingPositions(c) ==
  /\ drawPile' = Without(drawPile, c)
  /\ known' = Forget(known, c)
  /\ possible' = AfterRemoval(possible, {c}, Len(drawPile'))
  /\ hand' = Append(hand, c)
  /\ discardPile' = discardPile

\* A full hand sends the card to the discard pile.
TakeFromDrawPile(c) ==
  /\ drawPile' = Without(drawPile, c)
  /\ known' = Nothing
  /\ possible' = AfterRemoval(possible, {c}, Len(drawPile'))
  /\ IF Len(hand) >= MaxHandSize
     THEN /\ discardPile' = Append(discardPile, c)
          /\ hand' = hand
     ELSE /\ hand' = Append(hand, c)
          /\ discardPile' = discardPile

Run_MoveDrawCardToHand ==
  /\ Running("MoveDrawCardToHand")
  /\ Current.card \in ToSet(drawPile)
  /\ TakeFromDrawPile(Current.card)
  /\ Proceed
  /\ UNCHANGED <<exhaustPile, limbo, cards, combat>>

------------------------------------------------------------------------------
(* Drawing *)

\* Mutant: a full hand still takes a card.
RoomOffByOne(occupied) ==
  IF occupied <= MaxHandSize THEN MaxHandSize + 1 - occupied ELSE 0
Room(occupied) ==
  IF occupied < MaxHandSize THEN MaxHandSize - occupied ELSE 0

\* Draws up to n cards behind the cards of base.  occupied hand slots count
\* against the hand limit; behind the drawn cards come those of tail.
Draw(n, base, occupied, tail) ==
  LET want  == Min2(n, Room(occupied))
      first == Min2(want, Len(drawPile))
  IN  IF want > Len(drawPile) /\ discardPile # <<>> /\ monstersAlive
      THEN LET later    == Min2(want - first, Len(discardPile))
               shuffles == Orders(ToSet(discardPile), Len(discardPile))
           IN  \E order \in shuffles :
                 /\ hand' = base \o TopOf(drawPile, first)
                                 \o TopOf(order, later) \o tail
                 /\ drawPile' = DropTop(order, later)
                 /\ discardPile' = <<>>
                 /\ known' = RemoveTop(Nothing, later)
                 /\ possible' = AfterDraw(shuffles, TopOf(order, later))
      ELSE /\ hand' = base \o TopOf(drawPile, first) \o tail
           /\ drawPile' = DropTop(drawPile, first)
           /\ known' = RemoveTop(known, first)
           /\ possible' = AfterDraw(possible, TopOf(drawPile, first))
           /\ UNCHANGED discardPile

Run_DrawCards ==
  /\ Running("DrawCards")
  /\ Draw(Current.n, hand, Len(Without(hand, cardInUse)), <<>>)
  /\ Proceed
  /\ UNCHANGED <<exhaustPile, limbo, cards, combat>>

Run_DrawCardsWhilePlayedCardIsInLimbo ==
  /\ Running("DrawCardsWhilePlayedCardIsInLimbo")
  /\ LET c   == Current.card
         rest == Without(hand, c)
     IN  Draw(Current.n, rest, Len(rest),
              IF c \in ToSet(hand) THEN <<c>> ELSE <<>>)
  /\ Proceed
  /\ UNCHANGED <<exhaustPile, limbo, cards, combat>>

Run_DeepBreathShuffle ==
  /\ Running("DeepBreathShuffle")
  /\ IF discardPile = <<>>
     THEN UNCHANGED <<drawPile, discardPile, public>>
     ELSE LET shuffles == Orders(ToSet(drawPile) \union ToSet(discardPile),
                                 Len(drawPile) + Len(discardPile))
          IN  /\ drawPile' \in shuffles
              /\ possible' = shuffles
              /\ known' = Nothing
              /\ discardPile' = <<>>
  /\ Proceed
  /\ UNCHANGED <<hand, exhaustPile, limbo, cards, combat>>

------------------------------------------------------------------------------
(* Cards put on the draw pile *)

PutOnTop(c) ==
  /\ drawPile' = Append(drawPile, c)
  /\ known' = InsertTop(known, c)
  /\ possible' = AfterPushTop(possible, c)

\* Mutant: the card goes on top while the record says bottom.
PutOnWrongEnd(c) ==
  /\ drawPile' = Append(drawPile, c)
  /\ known' = InsertBottom(known, c, Len(drawPile) + 1)
  /\ possible' = AfterPushBottom(possible, c)

PutOnBottom(c) ==
  /\ drawPile' = <<c>> \o drawPile
  /\ known' = InsertBottom(known, c, Len(drawPile) + 1)
  /\ possible' = AfterPushBottom(possible, c)

\* Ids are bounded by MaxCardId.
Issue(c, what) ==
  /\ c \in CardIds
  /\ content' = [content EXCEPT ![c] = what]
  /\ issued' = issued \union {c}

\* Skipped when the damage before it has ended the combat.
Run_AddGeneratedCardToDrawPileRandomSpot ==
  /\ Running("AddGeneratedCardToDrawPileRandomSpot")
  /\ IF ~monstersAlive
     THEN UNCHANGED <<drawPile, public, cards>>
     ELSE LET c == NextCardInstanceId
          IN  /\ Issue(c, "Wound")
              /\ IF drawPile = <<>>
                 THEN PutOnTop(c)
                 ELSE /\ \E i \in RandomSpots(drawPile) :
                           drawPile' = InsertAt(drawPile, i, c)
                      /\ known' = Nothing
                      /\ possible' = AfterRandomInsert(possible, c)
  /\ Proceed
  /\ UNCHANGED <<hand, discardPile, exhaustPile, limbo, combat>>

\* The only other hand card goes to the bottom, then Forethought settles.
Run_ForethoughtAutoMove ==
  /\ Running("ForethoughtAutoMove")
  /\ Current.card \in ToSet(hand)
  /\ \E other \in ToSet(hand) \ {Current.card} : PutOnBottom(other)
  /\ hand' = <<>>
  /\ SettleSource(Current.card)
  /\ Proceed
  /\ UNCHANGED <<limbo, cards, combat>>

------------------------------------------------------------------------------
(* Opening a selection screen *)

\* await_hand_select, with two other cards or more: the source waits in limbo.
Run_AwaitHandSelect_Open ==
  /\ Running("AwaitHandSelect")
  /\ LET c == Current.card
         others == Without(hand, c)
     IN  /\ Current.purpose = "Warcry" => Len(others) > 1
         /\ hand' = others
         /\ limbo' = IF c \in ToSet(hand) THEN Append(limbo, c) ELSE limbo
         /\ Show(Screen(Current.purpose, c, FALSE, {}))
  /\ UNCHANGED <<drawPile, discardPile, exhaustPile, public, cards, combat>>

\* Warcry puts back a lone card without asking, and nothing from an empty hand.
Run_AwaitHandSelect_Auto ==
  /\ Running("AwaitHandSelect")
  /\ LET c == Current.card
         others == Without(hand, c)
     IN  /\ Current.purpose = "Warcry"
         /\ Len(others) <= 1
         /\ c \in ToSet(hand)
         /\ IF others = <<>> THEN UNCHANGED <<drawPile, public>>
            ELSE PutOnTop(others[1])
         /\ hand' = <<>>
         /\ SettleSource(c)
  /\ Proceed
  /\ UNCHANGED <<limbo, cards, combat>>

\* await_draw_select: Scry reveals the top cards, Secret Technique lists skills.
Run_AwaitDrawSelect ==
  /\ Running("AwaitDrawSelect")
  /\ LET c   == Current.card
         top == TopOf(drawPile, Min2(ScryCount, Len(drawPile)))
     IN  /\ hand' = Without(hand, c)
         /\ limbo' = IF c \in ToSet(hand) THEN Append(limbo, c) ELSE limbo
         /\ IF Current.purpose = "Scry"
            THEN /\ known' = RevealPrefix(known, top)
                 /\ possible' = AfterReveal(possible, top)
                 /\ Show(Screen("Scry", c, FALSE, ToSet(top)))
            ELSE /\ Show(Screen("SecretTechnique", c, FALSE,
                                ToSet(SkillsIn(drawPile))))
                 /\ UNCHANGED public
  /\ UNCHANGED <<drawPile, discardPile, exhaustPile, cards, combat>>

\* await_discard_select for Headbutt: the screen itself holds the source.
Run_AwaitDiscardSelect ==
  /\ Running("AwaitDiscardSelect")
  /\ LET c == Current.card
     IN  /\ c \in ToSet(hand)
         /\ hand' = Without(hand, c)
         /\ IF Len(discardPile) = 1
            THEN /\ PutOnTop(discardPile[1])
                 /\ discardPile' = <<c>>
                 /\ Proceed
            ELSE IF discardPile = <<>> \/ ~monstersAlive
            THEN /\ discardPile' = Append(discardPile, c)
                 /\ Proceed
                 /\ UNCHANGED <<drawPile, public>>
            ELSE /\ Show(Screen("Headbutt", c, TRUE, {}))
                 /\ UNCHANGED <<discardPile, drawPile, public>>
  /\ UNCHANGED <<exhaustPile, limbo, cards, combat>>

\* await_exhaust_select for True Grit+: a lone card is exhausted without asking.
Run_AwaitExhaustSelect ==
  /\ Running("AwaitExhaustSelect")
  /\ LET c == Current.card
         others == Without(hand, c)
     IN  /\ c \in ToSet(hand)
         /\ IF Len(others) <= 1
            THEN /\ hand' = <<>>
                 /\ exhaustPile' = exhaustPile \o others
                 /\ discardPile' = Append(discardPile, c)
                 /\ Proceed
            ELSE /\ hand' = others
                 /\ Show(Screen("TrueGrit", c, TRUE, {}))
                 /\ UNCHANGED <<exhaustPile, discardPile>>
  /\ UNCHANGED <<drawPile, limbo, public, cards, combat>>

\* Both potion selectors refuse to start under an open screen.
OpenPotionSelection(op, purpose) ==
  /\ Running(op)
  /\ ~ScreenOpen
  /\ IF hand = <<>> THEN Proceed ELSE Show(Screen(purpose, None, FALSE, {}))
  /\ UNCHANGED <<piles, public, cards, combat>>

Run_OpenElixirSelection ==
  OpenPotionSelection("OpenElixirSelection", "Exhaust")
Run_OpenGamblersBrewSelection ==
  OpenPotionSelection("OpenGamblersBrewSelection", "GamblingChip")

Run_OpenPotionCardReward ==
  /\ Running("OpenPotionCardReward")
  /\ ~ScreenOpen
  /\ Show(Screen("CardReward", None, FALSE, {}))
  /\ UNCHANGED <<piles, public, cards, combat>>

------------------------------------------------------------------------------
(* Statements that run after the queue of a confirmed screen *)

\* move_delayed_played_source: from limbo through the hand to its destination.
Run_SettleHandSource ==
  /\ Running("SettleHandSource")
  /\ Current.card \in ToSet(limbo)
  /\ LeaveLimbo(Current.card)
  /\ SettleSource(Current.card)
  /\ Proceed
  /\ UNCHANGED <<hand, drawPile, public, cards, combat>>

Run_MoveDrawSelectSource ==
  /\ Running("MoveDrawSelectSource")
  /\ Current.card \in ToSet(limbo)
  /\ LeaveLimbo(Current.card)
  /\ SettleSource(Current.card)
  /\ Proceed
  /\ UNCHANGED <<hand, drawPile, public, cards, combat>>

RunQueue ==
  \/ EndQueue
  \/ Run_DealDamage
  \/ Run_MoveCard
  \/ Run_MoveDrawCardToHand
  \/ Run_DrawCards
  \/ Run_DrawCardsWhilePlayedCardIsInLimbo
  \/ Run_DeepBreathShuffle
  \/ Run_AddGeneratedCardToDrawPileRandomSpot
  \/ Run_ForethoughtAutoMove
  \/ Run_AwaitHandSelect_Open
  \/ Run_AwaitHandSelect_Auto
  \/ Run_AwaitDrawSelect
  \/ Run_AwaitDiscardSelect
  \/ Run_AwaitExhaustSelect
  \/ Run_OpenElixirSelection
  \/ Run_OpenGamblersBrewSelection
  \/ Run_OpenPotionCardReward
  \/ Run_SettleHandSource
  \/ Run_MoveDrawSelectSource

------------------------------------------------------------------------------
(* Player commands *)

CanCommand == frames = <<>> /\ phase = "WaitingForPlayer"

PlayCardQueue(c) ==
  LET settle == Act("MoveCard", c, 0)
      hit    == Act("DealDamage", c, 0)
      others == Len(Without(hand, c))
  IN  CASE content[c] = "Strike"       -> <<hit, settle>>
        [] content[c] = "Headbutt"     -> <<hit, Await("AwaitDiscardSelect", c, "Headbutt")>>
        [] content[c] = "PommelStrike" ->
             <<hit, Act("DrawCardsWhilePlayedCardIsInLimbo", c, 1), settle>>
        [] content[c] = "WildStrike"   ->
             <<hit, Act("AddGeneratedCardToDrawPileRandomSpot", None, 0), settle>>
        [] content[c] = "Defend"       -> <<settle>>
        [] content[c] = "Warcry"       ->
             <<Act("DrawCardsWhilePlayedCardIsInLimbo", c, 1),
               Await("AwaitHandSelect", c, "Warcry")>>
        [] content[c] = "Forethought"  ->
             IF others = 0 THEN <<settle>>
             ELSE IF others = 1 THEN <<Act("ForethoughtAutoMove", c, 0)>>
             ELSE <<Await("AwaitHandSelect", c, "Forethought")>>
        [] content[c] = "SecretTechnique" ->
             IF Len(SkillsIn(drawPile)) = 1
             THEN <<Act("MoveDrawCardToHand", SkillsIn(drawPile)[1], 0), settle>>
             ELSE <<Await("AwaitDrawSelect", c, "SecretTechnique")>>
        [] content[c] = "ThirdEye"     -> <<Await("AwaitDrawSelect", c, "Scry")>>
        [] content[c] = "DeepBreath"   ->
             <<Act("DeepBreathShuffle", None, 0), Act("DrawCards", None, 1), settle>>
        [] content[c] = "TrueGrit"     -> <<Await("AwaitExhaustSelect", c, "TrueGrit")>>

\* One id stays free for the card an Attack Potion still held may offer.
GenerationBound ==
  /\ NextCardInstanceId \in CardIds
  /\ "Attack" \in potions => NextCardInstanceId < MaxCardId

\* Mutant: a search is playable with nothing to find.
PlayableWithoutTarget(c) == content[c] # "Wound"
Playable(c) ==
  /\ content[c] # "Wound"
  /\ content[c] = "SecretTechnique" => SkillsIn(drawPile) # <<>>

PlayCard(c) ==
  /\ CanCommand /\ ~ScreenOpen
  /\ c \in ToSet(hand)
  /\ Playable(c)
  /\ content[c] = "WildStrike" => GenerationBound
  /\ frames' = <<PlayCardQueue(c)>>
  /\ cardInUse' = c
  /\ UNCHANGED <<piles, public, cards, phase, monstersAlive, potions, decision>>

\* Discards the hand from its back, lets the monsters act and draws a new hand.
EndTurn ==
  /\ CanCommand /\ ~ScreenOpen
  /\ hand' = <<>>
  /\ discardPile' = discardPile \o Reverse(hand)
  /\ frames' = <<<<Act("DrawCards", None, HandSize)>>>>
  /\ UNCHANGED <<drawPile, exhaustPile, limbo, public, cards, combat, decision>>

\* Mutant: a potion's actions run at once, under whatever is open.
RunPotionActionNow(a) == frames' = <<<<a>>>> /\ UNCHANGED decision

\* queue_combat_potion_actions: behind the open screen, or now.
QueuePotionAction(a) ==
  IF ScreenOpen
  THEN /\ decision' = [decision EXCEPT !.pending = Append(@, a)]
       /\ UNCHANGED frames
  ELSE /\ frames' = <<<<a>>>>
       /\ UNCHANGED decision

PotionAction ==
  [Swift        |-> Act("DrawCards", None, SwiftDraw),
   Elixir       |-> Act("OpenElixirSelection", None, 0),
   GamblersBrew |-> Act("OpenGamblersBrewSelection", None, 0),
   Attack       |-> Act("OpenPotionCardReward", None, 0)]

Drink(p) ==
  /\ CanCommand
  /\ p \in potions
  /\ potions' = potions \ {p}

\* Gambler's Brew alone is tested at use; Elixir when its action runs.
UseQueuedPotion(p) ==
  /\ Drink(p)
  /\ IF p = "GamblersBrew" /\ hand = <<>>
     THEN UNCHANGED <<decision, frames>>
     ELSE QueuePotionAction(PotionAction[p])
  /\ UNCHANGED <<piles, public, cards, cardInUse, phase, monstersAlive>>

\* Mutant: the open screen outlives a combat won by a potion.
FirePotionKeepingScreen ==
  /\ Drink("Fire")
  /\ \/ UNCHANGED <<phase, monstersAlive>>
     \/ monstersAlive' = FALSE /\ phase' = "Won"
  /\ UNCHANGED <<piles, public, cards, cardInUse, frames, decision>>

\* A lethal Fire Potion wins at once and clears whatever screen is open.
UseFirePotion ==
  /\ Drink("Fire")
  /\ \/ UNCHANGED <<decision, phase, monstersAlive>>
     \/ /\ monstersAlive' = FALSE
        /\ phase' = "Won"
        /\ decision' = NoScreen
  /\ UNCHANGED <<piles, public, cards, cardInUse, frames>>

\* Mutant: returned cards enter the hand at the front.
ReturnedInFront(returned) == returned \o hand
Returned(returned) == hand \o returned

\* Liquid Memories runs at once: a lone discard returns to the hand if it fits,
\* otherwise its screen replaces the one that is open.
UseLiquidMemories ==
  /\ Drink("LiquidMemories")
  /\ IF Len(discardPile) <= 1
     THEN /\ IF discardPile # <<>> /\ Len(hand) < MaxHandSize
             THEN /\ hand' = Returned(discardPile)
                  /\ discardPile' = <<>>
             ELSE UNCHANGED <<hand, discardPile>>
          /\ UNCHANGED decision
     ELSE /\ decision' = Screen("LiquidMemories", None, FALSE, {})
          /\ UNCHANGED <<hand, discardPile>>
  /\ UNCHANGED <<drawPile, exhaustPile, limbo, public, cards, cardInUse, phase,
                 monstersAlive, frames>>

------------------------------------------------------------------------------
(* Answering a screen *)

Answering(purposes) == CanCommand /\ decision.purpose \in purposes

Select(selected) == decision' = [decision EXCEPT !.selected = selected]

Toggled(i) ==
  IF i \in ToSet(decision.selected) THEN Without(decision.selected, i)
  ELSE Append(decision.selected, i)

Close(work) == decision' = NoScreen /\ frames' = work

ChooseHandSelect(i) ==
  /\ Answering(HandSelects)
  /\ i \in DOMAIN hand
  /\ decision.selected # <<i>>
  /\ Select(<<i>>)
  /\ UNCHANGED <<piles, public, cards, combat, frames>>

\* Draws parked behind a put-on-deck screen follow the source, the rest precede.
ConfirmHandSelect ==
  /\ Answering(HandSelects)
  /\ decision.selected # <<>>
  /\ LET c == hand[decision.selected[1]]
     IN  /\ hand' = Without(hand, c)
         /\ IF decision.purpose = "Warcry" THEN PutOnTop(c) ELSE PutOnBottom(c)
  /\ Close(<<Dropping(decision.pending, ActionsOf({"DrawCards"})),
             <<Act("SettleHandSource", decision.source, 0)>>,
             Dropping(decision.pending, ActionsOf(Ops \ {"DrawCards"}))>>)
  /\ UNCHANGED <<discardPile, exhaustPile, limbo, cards, combat>>

\* A Secret Technique search closes with the choice.
ChooseSecretTechnique(c) ==
  /\ Answering({"SecretTechnique"})
  /\ c \in decision.selectable \intersect ToSet(drawPile)
  /\ TakeFromDrawPile(c)
  /\ Close(<<decision.pending,
             <<Act("MoveDrawSelectSource", decision.source, 0)>>>>)
  /\ UNCHANGED <<exhaustPile, limbo, cards, combat>>

ChooseScry(c) ==
  /\ Answering({"Scry"})
  /\ c \in decision.selectable \intersect ToSet(drawPile)
  /\ Select(Toggled(c))
  /\ UNCHANGED <<piles, public, cards, combat, frames>>

\* Scry discards what was chosen, settles its source, then runs what waited.
ConfirmScry ==
  /\ Answering({"Scry"})
  /\ LET chosen == ToSet(decision.selected)
     IN  IF chosen = {} THEN UNCHANGED <<drawPile, public>>
         ELSE /\ drawPile' = Dropping(drawPile, chosen)
              /\ known' = Nothing
              /\ possible' = AfterRemoval(possible, chosen, Len(drawPile'))
  /\ discardPile' = Append(discardPile \o decision.selected, decision.source)
  /\ LeaveLimbo(decision.source)
  /\ Close(<<decision.pending>>)
  /\ UNCHANGED <<hand, exhaustPile, cards, combat>>

\* Headbutt closes with the choice: the card goes on top, the source settles.
ChooseHeadbutt(i) ==
  /\ Answering({"Headbutt"})
  /\ i \in DOMAIN discardPile
  /\ PutOnTop(discardPile[i])
  /\ discardPile' = Append(RemoveAt(discardPile, i), decision.source)
  /\ Close(<<decision.pending>>)
  /\ UNCHANGED <<hand, exhaustPile, limbo, cards, combat>>

ChooseLiquidMemories(i) ==
  /\ Answering({"LiquidMemories"})
  /\ i \in DOMAIN discardPile
  /\ IF Len(hand) < MaxHandSize
     THEN /\ hand' = Returned(<<discardPile[i]>>)
          /\ discardPile' = RemoveAt(discardPile, i)
     ELSE UNCHANGED <<hand, discardPile>>
  /\ Close(<<decision.pending>>)
  /\ UNCHANGED <<drawPile, exhaustPile, limbo, public, cards, combat>>

ChooseExhaustSelect(i) ==
  /\ Answering(ExhaustSelects)
  /\ i \in DOMAIN hand
  /\ Select(IF decision.purpose = "TrueGrit" THEN <<i>> ELSE Toggled(i))
  /\ UNCHANGED <<piles, public, cards, combat, frames>>

\* The chosen hand cards, in the order of the choice, and the others.
Chosen    == [k \in DOMAIN decision.selected |-> hand[decision.selected[k]]]
\* Mutant: the chosen indices are removed one by one as the hand shrinks.
RemovedOneByOne ==
  FoldLeft(LAMBDA h, i : IF i <= Len(h) THEN RemoveAt(h, i) ELSE h,
           hand, decision.selected)
NotChosen == Dropping(hand, ToSet(Chosen))

ConfirmTrueGrit ==
  /\ Answering({"TrueGrit"})
  /\ Len(decision.selected) = 1
  /\ hand' = NotChosen
  /\ exhaustPile' = exhaustPile \o Chosen
  /\ discardPile' = Append(discardPile, decision.source)
  /\ Close(<<decision.pending>>)
  /\ UNCHANGED <<drawPile, limbo, public, cards, combat>>

ConfirmElixir ==
  /\ Answering({"Exhaust"})
  /\ hand' = NotChosen
  /\ exhaustPile' = exhaustPile \o Chosen
  /\ Close(<<decision.pending>>)
  /\ UNCHANGED <<drawPile, discardPile, limbo, public, cards, combat>>

\* Discards the chosen cards and draws as many before anything that waited.
ConfirmGamblingChip ==
  /\ Answering({"GamblingChip"})
  /\ hand' = NotChosen
  /\ discardPile' = discardPile \o Chosen
  /\ Close(<<<<Act("DrawCards", None, Len(Chosen))>>, decision.pending>>)
  /\ UNCHANGED <<drawPile, exhaustPile, limbo, public, cards, combat>>

\* The offered card joins the hand whatever the hand's size.
ChooseCombatCardReward ==
  /\ Answering({"CardReward"})
  /\ LET c == NextCardInstanceId
     IN  /\ Issue(c, "Strike")
         /\ hand' = Append(hand, c)
  /\ Close(<<decision.pending>>)
  /\ UNCHANGED <<drawPile, discardPile, exhaustPile, limbo, public, combat>>

\* Mutant: declining the offer drops what waited behind it.
SkipDroppingPending ==
  /\ Answering({"CardReward"})
  /\ Close(<<<<>>>>)
  /\ UNCHANGED <<piles, public, cards, combat>>

SkipCombatCardReward ==
  /\ Answering({"CardReward"})
  /\ Close(<<decision.pending>>)
  /\ UNCHANGED <<piles, public, cards, combat>>

Command ==
  \/ \E c \in CardIds : PlayCard(c)
  \/ EndTurn
  \/ \E p \in DOMAIN PotionAction : UseQueuedPotion(p)
  \/ UseFirePotion
  \/ UseLiquidMemories
  \/ \E i \in 1..Len(hand) : ChooseHandSelect(i)
  \/ ConfirmHandSelect
  \/ \E c \in CardIds : ChooseSecretTechnique(c)
  \/ \E c \in CardIds : ChooseScry(c)
  \/ ConfirmScry
  \/ \E i \in 1..Len(discardPile) : ChooseHeadbutt(i)
  \/ \E i \in 1..Len(discardPile) : ChooseLiquidMemories(i)
  \/ \E i \in 1..Len(hand) : ChooseExhaustSelect(i)
  \/ ConfirmTrueGrit
  \/ ConfirmElixir
  \/ ConfirmGamblingChip
  \/ ChooseCombatCardReward
  \/ SkipCombatCardReward

\* A won combat has no command left.
CombatOver == phase = "Won" /\ frames = <<>> /\ UNCHANGED vars

------------------------------------------------------------------------------
(* setup.rs: the deck is shuffled and the opening hand dealt from its top. *)
Deal(deck, carried) ==
  \E order \in Orders(1..Len(deck), Len(deck)) :
    LET dealt == Min2(HandSize, Len(deck))
    IN  /\ hand = TopOf(order, dealt)
        /\ drawPile = DropTop(order, dealt)
        /\ possible = AfterDraw(Orders(1..Len(deck), Len(deck)), hand)
        /\ discardPile = <<>> /\ exhaustPile = <<>> /\ limbo = <<>>
        /\ known = {}
        /\ content = [c \in CardIds |-> IF c <= Len(deck) THEN deck[c] ELSE "Wound"]
        /\ issued = 1..Len(deck)
        /\ decision = NoScreen
        /\ frames = <<>>
        /\ cardInUse = None
        /\ phase = "WaitingForPlayer"
        /\ monstersAlive = TRUE
        /\ potions = carried

Init == Deal(Deck, Carried)

Next == RunQueue \/ Command \/ CombatOver

\* The code runs the work of an accepted command to its end in a loop.
Spec == Init /\ [][Next]_vars /\ WF_vars(RunQueue)

------------------------------------------------------------------------------
(* Properties *)

Quiescent == frames = <<>> /\ phase = "WaitingForPlayer"

\* Types of every variable.
TypeOK ==
  /\ {hand, drawPile, discardPile, exhaustPile, limbo} \subseteq Seq(CardIds)
  /\ known \subseteq (0..MaxPosition) \X CardIds
  /\ content \in [CardIds -> Contents]
  /\ decision.purpose \in Purposes \union {"None"}
  /\ decision.source \in CardIds \union {None}
  /\ decision.held \in BOOLEAN
  /\ decision.selectable \subseteq CardIds
  /\ decision.selected \in Seq(Nat)
  /\ decision.pending \in Seq(InternalAction)
  /\ frames \in Seq(Seq(InternalAction))
  /\ cardInUse \in CardIds \union {None}
  /\ phase \in {"WaitingForPlayer", "Won"}
  /\ monstersAlive \in BOOLEAN
  /\ potions \subseteq Potions
  /\ possible \subseteq Seq(CardIds)
  /\ issued \subseteq CardIds

\* The record the player is shown never says more of the draw pile than the
\* public history implies: it agrees with every order that history leaves open.
KnowledgeNeverLeaks == \A s \in possible : Agrees(known, s)

\* The record is never wrong about the real pile (unseen desynchronisation of
\* draw_pile and draw_pile_knowledge, which separate call sites update).
KnowledgeSound == Agrees(known, drawPile)

\* The real pile is among the orders that the public history leaves open.
TruthPossible == drawPile \in possible

\* Every card instance ever issued is in exactly one place, the open screen
\* included, between any two steps; generated ids never collide.
Places == hand \o drawPile \o discardPile \o exhaustPile \o limbo \o HeldCards
CardsConserved ==
  monstersAlive => IsInjective(Places) /\ ToSet(Places) = issued

\* No settled hand is above the hand limit: the slot that the card in use
\* frees for a draw is never counted twice.
HandWithinCap == Quiescent => Len(hand) <= MaxHandSize

\* A screen that waits for the player can be answered and what is already
\* chosen in it still exists, whatever was used while it was open.
ScreenAnswerable ==
  Quiescent =>
    CASE decision.purpose \in HandSelects \union ExhaustSelects ->
           hand # <<>> /\ ToSet(decision.selected) \subseteq DOMAIN hand
      [] decision.purpose \in DiscardSelects -> discardPile # <<>>
      [] decision.purpose = "SecretTechnique" ->
           decision.selectable \intersect ToSet(drawPile) # {}
      [] decision.purpose = "Scry" ->
           ToSet(decision.selected) \subseteq decision.selectable
                                              \intersect ToSet(drawPile)
      [] OTHER -> TRUE

\* A played card waits in limbo exactly while the screen it opened is open:
\* no command leaves it there, and nothing else takes it out early.
SourceParked ==
  Quiescent =>
    ToSet(limbo) = IF decision.purpose \in HandSelects \union DrawSelects
                   THEN {decision.source} ELSE {}

\* A won combat keeps no screen, and with it no parked work, alive.
ClearedAfterWin == phase = "Won" /\ frames = <<>> => ~ScreenOpen

\* A card draw never runs under an open screen: it waits behind the grid.
DrawWaitsForScreen == Running("DrawCards") => ~ScreenOpen

\* What remains to be done, parked behind the screen or running.
Work == ToSet(decision.pending) \union UNION {ToSet(q) : q \in ToSet(frames)}
Executing == IF frames = <<>> \/ Head(frames) = <<>> THEN {} ELSE {Current}

\* No step loses queued work, other than the action it executes, unless the
\* combat is decided: closing a screen resumes all that waited behind it.
QueuedWorkNeverDropped ==
  [][monstersAlive' => Work \ Executing \subseteq Work']_vars

\* While a screen over the hand stays open with the same choice, the choice
\* still denotes the same cards (indices survive a card entering the hand).
ChoiceKeepsItsCards ==
  [][/\ decision.purpose \in HandSelects \union ExhaustSelects
     /\ decision'.purpose = decision.purpose
     /\ decision'.selected = decision.selected
     => Chosen' = Chosen]_vars

\* After the last monster has died no card enters the hand.
NoDrawAfterLethal ==
  [][~monstersAlive => ToSet(hand') \subseteq ToSet(hand)]_vars

\* Every accepted command runs to its end: none fails halfway or loops.
CommandFinishes == frames # <<>> ~> frames = <<>>
==============================================================================

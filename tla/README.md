# Formal models of the Slay the Spire simulator

TLA+ modules, TLC configurations and TLAPS proofs for the simulator in this
repository. All paths below are relative to the repository root; `core/` is
short for `simulator/crates/sts_core/src/`.

## 1. Inventory

The program simulates runs of a card game exactly enough to replay recorded
games, and offers the simulation to learning code through an interface that
shows only what a player may know.

| Component | Source | State | Operations |
|---|---|---|---|
| Draw-pile knowledge | `core/combat/pile_knowledge.rs`, `piles.rs`, `draw.rs` | draw pile, public record of known positions | push, pop, insert, remove, shuffle, reveal |
| Combat selection core | `core/combat/transition*.rs`, `state.rs`, `action.rs`, `legal.rs`, `card_effects.rs` | five piles, open decision and its parked actions, card in use, phase | play, end turn, choose, confirm; the internal action queue |
| Combat potions | `core/run/potion.rs` | potion slots | use, discard, take or decline a card offer |
| Combat turn and monsters | `core/combat/turn*.rs`, `damage.rs`, `content/monsters.rs` | the row of monsters with intents, histories and half deaths; powers, resume flags | end of turn, monster turn, start of turn; hits, deaths, summons, splits |
| Run flow | `core/run/*` | phase, room, rewards, grids, event, shop, map position | every decision outside combat |
| Map generation, random streams | `core/map/`, `rng.rs`, `seed.rs` | generator counters | pure functions |
| Fair environment | `simulator/crates/sts_env/src/environment.rs`, `action.rs` | run state, decision revision | construct, clone, derive a root, step |
| Observation projection | `sts_env/src/*_observation.rs`, `fair_catalog.rs` | none | project |
| Python binding | `simulator/bindings/py_sts/src/` | State objects, borrows, batches | single steps, numeric batches on worker threads |
| Trace verification | `simulator/crates/sts_verify/` | none | replay and compare |
| Trace collection | `simulator/tools/communication/*.js` | command queue, lease, status files | accept, dispatch, observe, time out, take over |
| CommunicationMod | `simulator/mods/CommunicationMod/`, `mods/abandon-run-control/` | waiting flags, sequence numbers | detect stable states, run commands |
| Combat explorer | `rl/combat_explorer/` | session trees, jobs, idempotency table, files | act, delete, continue, cancel, save, load |
| Reinforcement learning | `rl/run_training/` | networks, buffers | collect, train |

How they interact. A Python caller holds `State` objects and calls `step` or
`numeric_steps`. Each object owns a `FairEnvironment`, which checks the revision
and the choice, has the run rules compute a successor, projects it and only then
commits. The run rules pass a combat choice to the selection core, which runs
internal actions until the player must decide again. Potions act on a combat from
outside, in the run rules, and are legal **while a selection screen is open**: that
is where most of the difficult interleavings of this code come from. The trace
collectors drive the real game through CommunicationMod and never touch the
simulator's state.

What is hard, component by component, and the property that makes it right:

* *Selection core and potions* — steps of two actors (a screen being answered, a
  potion used meanwhile); work parked in one place and resumed in another; cards
  that are temporarily in no pile; hand indices stored for later; ids derived from
  the cards in sight; cancellation after a killing hit. Right when no card and no
  queued work is lost, screens stay answerable and commands finish.
* *Draw-pile knowledge* — two pieces of state updated by separate call sites, one of
  which must never reveal anything. Right when the record agrees with every pile
  the public history leaves possible.
* *Fair environment and binding* — stale requests, failures after the successor has
  been computed, worker threads running without the interpreter lock, error
  merging, a counter at its limit. Right when every handle behaves like one atomic
  session, whatever the threads do.
* *Run flow, shop* — screens that lie over one another (a grid over a room, the map
  over a completed room that can be taken back), rewards that return to different
  owners, fifty events with screens of their own. Right when every state between two
  decisions passes `RunState::validate`, nothing pays twice, and there is always
  something to decide.
* *Collection, CommunicationMod* — timeouts racing late answers, retries under one id,
  lease takeover, preemption, a bridge process replaced while commands and answers are
  in the pipes. Right when an accepted command runs at most once and only its own
  answer frees the bridge.
* *Explorer* — a worker thread that uses the session between other requests, retries
  under a request id, deletions, a save in two halves, a crash. Right when a session is
  busy exactly while its job runs, and what is saved can be loaded.
* *Monsters* — a turn that runs over captured ids while the row grows to the left of the
  actor, monsters that fall and rise again, moves replaced between the moment they are
  shown and the moment they are performed, move tables that read a history all of this
  writes, and a queue that runs twice when a turn ends under Time Warp. Right when each monster performs what it showed
  at most once in each pass of the queue, the limits of the tables hold for the moves performed, the dead stay dead and minions fall with their leader.
* *Combat turn* — pauses resumed from stored flags, copies of random counters.

## 2. Plan

Done, in this order:

1. `PileKnowledge`, `CombatSelect`: the selection core with its potions and the
   public record of positions. Proofs: the record is sound and leaks nothing; types; the shape of
   the queues and screens; parked work, the card in limbo, the conservation of cards; draws and the hand limit.
2. `PublicGame`, `DecisionSession`, `FairSessions`: the environment, handles, threads
   and batches, shown to implement an abstract session. Proofs: types, revisions,
   batch isolation, serial reports, the refinement.
3. `CommandLifecycle`, `GameListener`, `CommandBridge`: the trace bridge and the game's
   side of it over pipes, shown to implement a command's life cycle. Proofs: all five properties.
4. `ExplorerSessions`, `ExplorerFiles`: sessions, jobs, retries, saves and crashes. Proofs: all
   their safety properties.
5. `RunScreens`, `RunEvents`, `RunRooms`: the run's screens, all its events, its grids. Proofs: all
   its properties but the one about what is enabled.
6. `MonsterMoves`, `MonsterTurn`: the move tables, the row of monsters and their turn. Proofs: all four properties.

Left:

7. `CombatTurn`: the player's end of a turn with its pauses (Nilry's Codex, queued opening
   decisions, resume flags), composed with `CombatSelect`.
8. `MapPaths`: path generation checked against a reference on small maps.

## 3. Modules

### Vectors, PileKnowledge
`Vectors` has what the code does with `Vec::retain` and `Vec::remove`; the selection core, the run and the row of monsters use it.
`PileKnowledge` has draw piles as sequences (the last element is the next draw, as in the code), the
public record as a set of pairs of position and card, and one operator per update of
`pile_knowledge.rs`. Beside them stands what the record is *about*: `possible`, the set
of pile orders that someone who sees only public events still holds possible, with one
operator per kind of public event (`AfterPushTop`, `AfterDraw`, `AfterRemoval`, ...).
`possible` is an auxiliary variable: no action depends on it.

### CombatSelect
One variable per pile and one each for the open decision, the work in progress, the
card in use, the phase and the potions left. `frames` is the call stack of
`process_internal_queue`: each frame is the queue of one call, or one statement that the
code runs after such a call (the settlement of a source card after what was parked has
run). `Run_X` executes internal action `X` from the head of the first frame; when that
leaves a screen open, the rest of the frame is parked in the screen (`GoOn`) while the
frames below still run, exactly as the code after the call does. `EndQueue` is what follows
the loop: combat end and its clearing of decisions. Commands (`PlayCard`, `EndTurn`, the
potions, `ChooseX`, `ConfirmX`) start only when no frame is left.

| Screen | opened by | source card waits in | closed by |
|---|---|---|---|
| hand (put on deck) | Warcry, Forethought | limbo | confirm |
| draw pile | Secret Technique, Third Eye | limbo | choose / confirm |
| discard pile | Headbutt, Liquid Memories | the screen / no source | choose |
| exhaust | True Grit, Elixir, Gambler's Brew | the screen / no source | confirm |
| card offer | Attack Potion | no source | choose or skip |

`legal_combat_select_actions_on_run` completes a choice that needs no confirmation in the
same command (Headbutt, Liquid Memories, Secret Technique), so those are one action here.

The deck mixes eleven cards chosen so that every queue shape of the core occurs: an attack that only
hits, one that draws while it is in play, one that generates a card, one that opens each kind of screen,
and one that reshuffles. Damage is reduced to lethal or not; a shuffle and a random insertion are a choice among all
their outcomes.

Abstracted: energy, block, powers, relics and monsters' moves (`EndTurn` discards the
hand from its back and draws anew; the monsters' turn changes no pile); the card that
is offered by the Attack Potion (one content); copied cards, forced top-card plays and
exhaust callbacks, so their lanes in the queue are absent.

### PublicGame, DecisionSession, FairSessions
`PublicGame` is the game as the fair interface sees it, in constants: the public list of
choices of each state and the successor of each choice, which the rules may refuse or
which may not be projectable. `DecisionSession` is the promise: a handle stands at one
decision, named by a revision, and moves only by one legal choice to a projectable
successor under the next revision. `FairSessions` is the code: `Answer` has the checks of
`step_at_public_index` in their order, `After` its commit. Calls that hold the interpreter lock
are one action. A batch is several: `StartBatch` takes all borrows or refuses,
`WorkerStep` steps one state of one worker's chunk without the lock, `FinishBatch` joins
the workers, merges their results and drops the borrows. A refused call changes
nothing and is left out. `seen` is auxiliary: the decisions callers may hold, from which requests take
their revisions, old and foreign ones included.

### CommandLifecycle, GameListener, CommandBridge
`CommandLifecycle` is the promise: a command is accepted once, executed at most once, and
holds the bridge until it is answered, withdrawn before it was sent, preempted, or lost with the
process. `GameListener` is CommunicationMod's bookkeeping, as functions on one record: what a
command, a refusal, a stable state and a publication do to the waiting flags and sequence
numbers. `CommandBridge` is both programs with a pipe each way. The bridge is one JavaScript
thread, so a handler up to its next `await` is one action: `ReceiveLine` (a published state
and the completions it passes), `PassivePoll`, `Submit`, `Preempt`, `ObservationTimeout`, `Acquire`,
`TakeOver`, `Release`. The game runs its three listener hooks once per frame: `ReadFrame` and
`StableFrame`. `Stir` is the game changing by itself, `Restart` the game replacing the bridge
process, with what the reader thread had already taken from the old one. A command may be refused, except
ABANDON: `AbandonRunControl` carries each one out in place of the executor (`Abandoned`), in no run without effect. It is also
accepted where the game is not ready but offers it, as START is in a menu; `offers` in a published state says
which of the two, and a START is a `play` here. `told`, `fate` and `former` are
auxiliary: what controllers were told, what the game did, and the ids of earlier processes.
A schema-7 game with `abandon-run-control` installed is assumed, as the live workflow has it (`mods/README.md`); of the trace file nothing is modelled, and of the run controller
and the campaign scripts only that they are controllers.

### ExplorerSessions, ExplorerFiles
A node is its path in the tree and the number of deletions before it was made. A handler that keeps the
session's lock is one action (`Move`, `Continue`, `Cancel`, `Delete`); loading a checkpoint lets the lock go
and is two; a continuation job (`_run_continue`) is the actions of `Work`, split where it lets the
lock go. `effects` is auxiliary: what each request id made. `ExplorerFiles` adds the file: `SaveJobs` and `SaveTree` are the
two uses of the lock by a save, `Rename` replaces the file or fails, `Crash` loses everything else and `Load`
builds the session of a new server.

### RunScreens, RunEvents, RunRooms
`run.at` is the screen that owns the next decision with its payloads (event, reward, shop,
treasure, campfire flag), `run.under` the room suspended under a map that can be dismissed, `run.grid` a
card grid over it. `RunScreens` has rooms, fights, rewards, chests, campfires and the shop, `RunEvents` for every
event and stage the set of states its options lead to, `RunRooms` the grids and where each returns,
the specification, and `Valid`: the parts of `RunState::validate` that relate screens. `visit` is auxiliary: how often
each thing a room offers once was used in this visit. Hit points, gold, prices, decks and the map's
edges are open choices, so a fight ends either way and a purchase is affordable or not.

### MonsterMoves, MonsterTurn
`MonsterMoves` has the move tables of `prepare_rolled_next_intent`: the code draws a number from 0 to 99 and walks
thresholds, so a table is the set of moves that some draw leads to, one set per interval between two thresholds,
as a function of the monster's history and of the ascension (20 or 0, all the tables depend on).

| Code | Model |
|---|---|
| `resolve_calculated_attack_damage` and its reactions | `Hit`, `Wounded`, `Settled` |
| `end_player_turn_owned` up to the monsters | `EndTurn` (captures ids, in `queue`) |
| one turn of the loop in `run_monster_turn` | `Skip`, `PoisonKills`, `Act` (poison, move, thorns, roll), `PlayerFalls` |
| the second pass of that loop (`queue_count` 2) | `SecondPass`; `Actor` gives the captured intent, and there is no poison |
| rallies, spawns, splits | `Rally`, `TorchHeads`, `Daggers`, `Split` with `Join` |
| `awaken_one_after_first_death`, `resolve_darkling_life_link` | `Wounded`, `Rises`, `LifeLink` |
| `finish_combat_if_over` | `Finish`, the end of `Hit` |

Hit points have the levels the code tells apart: dead, below the threshold a kind watches, above it. `mode` is the one
more number a kind needs (sleep left, flight, plates, form). `did`, `shown` and `acted` are auxiliary: the moves a monster performed, the move
each showed when the turn began (which is also `queued_intents`), and what was performed since in this pass. The constant `Encounters` is the rows combats start with and the bounds of each;
`WellComposed` is what the proofs ask of such a row, and what the encounter tables give. `MCMonsterTurn` gives rows that are in those tables.

`warp` says which pass of the queue runs. Time Warp's twelfth card sets a flag that ends the turn; when an END finds it still
standing (a card whose choice was made with the end deferred leaves it so, `core/run/potion.rs:732`),
`apply_end_turn` asks for two passes (`core/combat/transition.rs:159`). Only a living Time Eater counts cards, and it fights alone, so `EndTurn`
may choose two passes for that row and no other, in any of its turns. The code that defers its Haste (`core/combat/turn.rs:109-133`, `530-571`)
is reached only where an end of turn that Nilry's Codex paused is resumed under that flag: it performs the one move shown, without poison,
and rolls, which for this row is `Act` once, in one pass. The roll it leaves for the next end of turn (`572-577`) is not reached, since
the Codex pauses that one too and the resumption has forgotten the mark.
A move performed again on the second pass is not one the tables allowed, so `MoveLimits` counts a Time Eater's moves
from there anew (`Recorded`), and `PerformsAsShown` is said of each pass.

`MCCombatSelect`, `MCFairSessions`, `MCExplorerSessions` and `MCExplorerFiles` give decks, a small game and
decision trees to the model checker, `MCCommandBridge` the symmetry of the bridge.

## 4. Runs

Run times are a few seconds to about three minutes with two workers. Deadlock is checked in the `Select` and
`SessionThreads` runs. It is not in the others, where the system may stop: the bridge when its controllers have used
their command ids and nobody polls, an explorer session when its tree is complete and its
deletions are used, a server that is down with no file, a combat that is over or whose bounds are used up, and a run
that is over (`DecisionUntilComplete` says that nothing else stops a run).

| Run | Question | Properties |
|---|---|---|
| `SelectScreens` | three decks: hand and Headbutt screens with potions under them; search, scry, Liquid Memories and Gambler's Brew; reshuffles | `TypeOK`, `KnowledgeSound`, `SourceParked`, `KnowledgeNeverLeaks`, `ScreenAnswerable`, `DrawWaitsForScreen`, `HandWithinCap`, `ClearedAfterWin`, `CommandFinishes`, `ChoiceKeepsItsCards` |
| `SelectDiscard` | Headbutt, generated cards, card offers, lethal hits | `CardsConserved`, `QueuedWorkNeverDropped`, `NoDrawAfterLethal` |
| `SessionThreads` | threads, batches, refusals, error merging, last revision | `TypeOK`, `RevisionPinsState`, `BatchStepsAlone`, `BatchReportsSerially`, `ImplementsSession`, `BatchReturns` |
| `Bridge` | timeouts, takeovers, preemption, ABANDON, replaced processes | `VerdictsAreTrue`, `QueuedHoldsBridge`, `ReadyMeansStable`, `AnswerFreesBridge`, `ImplementsLifecycle` |
| `Explorer` | two jobs, retries, deletion, checkpoints | `BusyWhileRunning`, `TreeIsWhole`, `JobsPointIntoTree`, `RetryIsExact`, `JobHasSessionToItself`, `JobSettles` |
| `ExplorerFile` | saves, crashes, loads | `LoadsUnlessDeleted` |
| `RunRooms` | every screen and event of a run to the Heart | `EveryBoundaryValidates`, `OncePerRoom` (the key linked to a relic included), `DecisionUntilComplete`, `EventConcluded`, `RelicOffersKept` |
| `MonsterRow` | 46 rows of monsters, some with two sets of bounds, hit, poisoned and answered with thorns; doubled turns | `MoveLimits`, `MinionsServe`, `PerformsAsShown`, `DeathsStand` |

Four runs show that a statement of the repository does not hold of the code:

* `SelectOverwritten` — Liquid Memories under an open Headbutt grid replaces that grid; the
  actions parked behind it, and the Headbutt card it held, are lost
  (`core/run/potion.rs:1518`, `core/combat/transition.rs:5869`).
* `SelectDrawUnderScreen` — with Gambler's Brew and then Swift parked behind Forethought (or Warcry: one path), Swift's
  draw runs under the Brew's open screen, because the confirmation splits the parked
  actions and runs the second part whatever the first has opened
  (`core/combat/transition.rs:4360-4395`, `4824-4840`).
* `ExplorerFileDeleted` — a branch deleted between the two uses of the lock by a save leaves
  jobs in the file that name nodes it does not have, and the file cannot be loaded.
* `RunRoomsHeart` — the Act 4 boss killed by a potion or in the turn a choice resumes
  leads to a reward screen and a boss chest; a card that kills it leads to the victory screen.

The passing runs carry potions that do not meet the first two cases, so that what they
check is the rest of the behaviour; they do not exclude any state of the cards and
potions they carry. A card taken from an Attack Potion joins the hand without a test of the
limit (`core/run/potion.rs:797`), so card offers stay out of the run of `HandWithinCap`.

### Bounds
* Four cards in the deck and a hand of three or four: every screen needs at most a
  source and two candidates, and the draw and discard piles become empty, singletons and
  longer. Ids up to 5 allow a generated card, enough for a collision of ids
  (`GenerationBound` keeps an id for the offer of an Attack Potion that is still held).
* `MaxHandSize` 3 or 4 makes the hand limit bind with these decks.
* `MaxPosition` is 2 in `SelectScreens` and 9 elsewhere: the positions the runs reveal fit, and overflow is left to the proofs, which hold for every width.
* `EitherSpec` of `MCCombatSelect` deals one of three decks, each with the potions its screens need, so that one run covers them all.
* Swift draws 2 instead of 3 and scry looks at 2 instead of 3, in proportion to the piles.
* Sessions: two handles and two threads, `MaxRevision` 1 so that the counter reaches its limit, a game
  with a legal choice the rules refuse to project, one they refuse, and a terminal state that
  cannot be exported. `MinPerWorker` 1 instead of 64 gives two workers to a batch of two.
* Bridge: two controllers and two command ids (a command and the retry, rival or preemption it can
  meet), with and without polling; `MaxLines` 1 bounds what a timer or the game adds to a pipe unasked, not
  what commands and answers put there; `MaxRestarts` 1 gives an old and a new process. Controllers and ids are symmetric (`Symmetry`): they are only compared, and
  no property of the run is a liveness property.
* Explorer: two jobs (one leaving while the other runs), two checkpoints (one being loaded), one
  request id that is used again, `MaxDeletes` 1, a fork of one decision with two choices or a line of
  decisions with one, `MaxDecisions` 1 so that jobs meet their limit; with the file, one job, `MaxCrashes` 1, and a
  save only while there is no file that is not loaded.
* Runs: all 51 events, one relic of each kind that opens a grid of its own beside plain ones. Offers
  on a reward screen have two or three identities.
* Monsters: per row the number of moves performed (3 to 9) and of health losses (none to 4), chosen so that what the row
  can do happens: every table looks back at most three moves; the Slime Boss splits and both halves split again, torch
  heads fall and are respawned, a Reptomancer has four daggers and a leader three gremlins, the Awakened One dies
  twice, a Darkling reincarnates, Writhing Mass is hit into another move twice; the Time Eater has up to six moves, so that ordinary and doubled turns alternate.
* Bounds are in guards and constants; no state constraint is used.

### Fairness
`CombatSelect` assumes weak fairness of `RunQueue` alone: the code runs the work of an accepted command
to its end in a loop before it returns. `CommandFinishes` then says that this loop ends and that
no internal action is stuck on a failed precondition. `FairSessions` assumes weak fairness of each batch:
worker threads are scheduled and `std::thread::scope` joins them. `ExplorerSessions` assumes it of
the steps of a job: the executor runs what it was given and the session lock is free again after
every handler. `CommandBridge` assumes that the bridge reads its input and that the game's frames go on and find a
stable state; nobody has to poll, time out, take over or restart. `RunRooms` and `MonsterTurn` have no
fairness: their properties are about safety. Nothing is assumed of players or callers.

## 5. Proofs

All theorems hold for every value of the constants that meets the named assumptions
(`MaxPositionAssumption`, `DeckAssumption`, `SizesAssumption`, `NamesAssumption`;
`GameAssumption`, `AbsentAssumption`, `BatchAssumption`; `NoIdAssumption`, `BridgeAssumption`;
`ExplorerAssumption`, `NilAssumption`, `CrashAssumption`; of the run, `EffectsAssumption` and a `NilAssumption`
of its own; of the monsters, `EncountersAssumption`), which say no more than the types and tables of the code do. Five theorems have one or two hypotheses more, named with them below.

### The selection core

`CombatSelectProofs` (with the lemmas of `VectorsProofs`): `RecordNeverLeaks`
(`KnowledgeNeverLeaks`), `RecordIsSound` (`KnowledgeSound`), `HistoryIsTrue`.
Neither property is inductive. That the record is right about the *real* pile does not survive
a reveal or a draw unless the real pile is known to be one of the possible ones; that it is right
about the possible ones does not survive an insertion at the bottom unless all of them have the
real length, since the new position is computed from the real pile. The invariant `IInv` therefore says that the real pile
is possible, that every possible pile has its length, and that the record is right about each; to
carry that through sequences it also says that hand, discard pile and the open screen are well shaped.
The argument goes by public event: one lemma says what each update of the record does to a record
that is right (`InsertTopIsRight`, `RemoveTopIsRight`, ...), one what each event does to the set of
possible piles (`TopEvent`, `DrawEvent`, `RevealEvent`, ...), and one per action of the specification
names the event it is.

Its second half: `TypeCorrect` (`TypeOK`) and `ChoicesExist`. The types alone are not inductive:
a hand screen stores hand *indices*, so that confirming it moves cards only if the indices still denote
cards, and a settlement moves the card named by the screen only if the screen names one. The invariant `TInv` therefore adds
that a screen for a played card has a source that is a card, and `ChoiceHolds`: whatever is chosen is in range, and
no frame is left to run while anything is chosen. The second half is what makes the first survive potions — all a potion does
under a screen is to park its action, to add a card at the end of the hand, to replace the screen by one with
nothing chosen, or to end the combat.
One lemma about data carries the rest: what remains of a pile after cards are taken out is again a sequence of
cards (`DroppingType`, from `RankIsTaken`: in a finite set of numbers every rank is taken).

In the same module, about what waits and what is shown: `WinClearsScreen` (`ClearedAfterWin`), `ScreensCanBeAnswered` (`ScreenAnswerable`),
`DeadDrawNothing` (`NoDrawAfterLethal`), `ChoiceDenotesItsCards` (`ChoiceKeepsItsCards`), for every deck and all potions.
What all four need is what the queues can look like, `SInv`. A played card leaves one queue, whose last
action settles the card or opens its screen, and no screen is open while it runs. Every other command leaves a stack of queues of
potion actions and settlements: a settlement is alone in its queue, and after a queue that may open a screen come only settlements and draws. After the
last monster has died only the actions remain that the code does not cancel (`DeadOps`). Of an open screen `SInv` says that what it
chooses from is not empty, and that nothing is left to run behind one that a card or Liquid Memories opened; the shape of the stack is what keeps the
cards on offer in their pile while settlements and draws run under the screens of the other potions.

`CombatCardsProofs`: `ClosingResumesWork` (`QueuedWorkNeverDropped`), `SourceWaitsInLimbo` (`SourceParked`),
`CardsStayInOnePlace` (`CardsConserved`), under the hypothesis that no Liquid Memories are carried: that potion replaces
an open screen without closing it, and `SelectOverwritten` shows that all three are false then.
`KInv` adds to `SInv` what a screen holds: a closed one parks no work, only those of Headbutt and True Grit hold their
card, and no card is chosen twice. With it the answer that closes a screen is seen to resume all that waited.
`LInv` says that limbo holds exactly the source of the open screen and the cards that a waiting settlement is going to take out.
Conservation is proved as a count. "Each card issued is in exactly one place" is equivalent to `EachCardOnce`: the cards located anywhere are
those issued, and the *sum* of the lengths of the places is the number of cards issued. A step moves
cards between two places and keeps both, without comparing any two places with each other;
a generated card gets an id above every located one and adds one to each.

In the same module, about the hand: `DrawsWaitForScreens` (`DrawWaitsForScreen`) and `HandsFit` (`HandWithinCap`).
The first is false when three things come together, as `SelectDrawUnderScreen` shows: a Swift Potion, a potion that opens a screen, and a
card whose hand screen lets both be used under it; the theorem assumes that one of the three is missing. `DInv` says
that then no draw is queued in front of a stack that still has a screen to open (`Ordered`), and `Earned` that nothing is queued that neither
the deck nor the potions carried ask for. The second assumes that no Attack Potion is carried, since a card taken from its offer
joins the hand without a test of the limit, and that the opening hand fits. It is not inductive: while a played card is in use its slot counts as free, so that a draw may fill the
hand *beside* it. `HandShape` bounds the other cards instead, and says that a hand that is one too long has work in progress that takes the card in use away.

### The environment

`FairSessionsProofs`: `TypeCorrect`, `StaleRequestsRefused` (`RevisionPinsState`), `BatchIsolation`
(`BatchStepsAlone`), `ReportsAreSerial` (`BatchReportsSerially`), `Refinement` (`ImplementsSession`). `IInv` adds to the first three that a batch lists each of its
states once (`BatchWellFormed`): without it a second item of the same state would undo the
isolation of the first. A call under the interpreter lock touches only free handles, which no batch
describes (`OutsideBatches`), and a worker touches only its own item, so the two kinds of step do
not meet; the refinement then follows action by action, `WorkerStep` being an `Advance` of the
session or a stutter. For the reports, every answer given is the one that the borrowed state gives, and the workers' chunks
join end to end, cover the batch and are ordered: the first refusal of the first worker that has one is the first of the batch.
The batch size is not bounded in the proofs.

### The bridge

`BridgeProofs`: `VerdictsTold` (`VerdictsAreTrue`), `QueueHolds` (`QueuedHoldsBridge`), `ReadyIsStable` (`ReadyMeansStable`),
`LifecycleImplemented` (`ImplementsLifecycle`), `AnswerArrives` (`AnswerFreesBridge`), for any number of controllers, commands,
timeouts and replaced processes. `BridgeAssumption` has, beside the types, that no published summary is the mark for "nothing read yet". None of the five is inductive, since what a controller is told follows from a line that
the game wrote some steps ago. `IInv` describes what may be on its way: an accepted command is in one place only (queued, in the pipe, or
with the game) until it is answered or withdrawn; every line that names a command names one that the game has answered, or of an earlier process; a line that
is not about the listener closes the pipe, and the last such line is about the command in flight; the counters of published and stable states agree
while the game is quiet. The refinement is then shown step by step: `Submit` is `Accept`, `Preempt` is `Preempt`,
`ReadFrame` is `Execute`, `StableFrame` is `Answer`, `ReceiveLine` is `Complete`, a timeout or takeover is `Withdraw`, `Restart` is `Replace`,
and all other steps change nothing that `CommandLifecycle` has. `AnswerFreesBridge` is stated of the first process, as the run does.

### The explorer

`ExplorerProofs`: `BusyExactly` (`BusyWhileRunning`), `TreeStaysWhole` (`TreeIsWhole`), `JobsStayInTree` (`JobsPointIntoTree`),
`RetriesAreExact` (`RetryIsExact`), `JobAlone` (`JobHasSessionToItself`), `FileLoads` (`LoadsUnlessDeleted`), `SessionSurvivesRestarts`.
The invariant says where a job at work stands: at the leaf it has reached, or one decision above the node that it is about to add,
with the session busy and no other job running, so that no deletion can have taken that place away. For retries it says that what a request made
is what it is answered with. For files, it relates the two halves of a save to each other: the jobs saved first point into the tree saved
later, unless the flag is set that a node was deleted between. A server that loads a file starts from a
session with these properties, which is why they survive restarts.

### The run

`RunRoomsProofs`: `BoundariesValidate` (`EveryBoundaryValidates`), `RoomsGiveOnce` (`OncePerRoom`), `MapAfterEvent`
(`EventConcluded`), `RelicsLeaveOneByOne` (`RelicOffersKept`), for any set of events, any boss and shop relics, with and
without the last act. `EffectsAssumption` says that each act has an event and which effects a relic may have, `NilAssumption`
that the mark for "no payload" is no payload.

What `RunState::validate` checks is not inductive: a step that closes a reward screen goes back to the owner named by its continuation,
and validation alone does not say that this owner is the *only* payload left, that a queue of card rewards covers what is shown, or that a
room's flags are down once its boss chest is behind. `Good` is the strengthening, by parts:

| Part | Says |
|---|---|
| `Screens` | each payload has the phase and the kind of room it belongs to; the last boss of the third act leaves by the victory screen only |
| `Stages` | an event's stage is one that the event has |
| `Owned` | a reward screen is there for exactly one owner, the one its continuation names |
| `RewardFlow` | card rewards shown and queued are among those left; no relic is on offer twice |
| `Overlaid` | a card grid lies over the screen its purpose returns to; one of Neow's over her last stage |
| `Unused` | what is still on offer was not used in this visit |
| `Suspends` | all of this holds of the room under a map, as it would be given back, and an event there is concluded |

`Once` adds that nothing was used twice; that is `OncePerRoom`, and `Unused` is what keeps it: the
campfire's flag, the chest's payload, the merchant's removal and the boss chest each forbid a second use as long as nothing brings them
back, and `Suspends` says that the map, which takes the whole screen away and gives it back, does not. The proof has one lemma per
action and, for events, one per kind of screen change: turning a page (`AtStands`), showing a reward (`ShowingStands`), opening a grid,
starting a fight, dying, leaving; the table of events is then a table of which of these each option is (`TurnsTo`, `HurtsTo`, `LeavesAt`).
For the relics, every step off or within a reward screen is compared with the screen before (`OffersFollow`); `Without` takes
away one relic because no relic is on offer twice.

### The monsters

`MonsterTurnProofs`: `LimitsHold` (`MoveLimits`), `MinionsAlwaysServe` (`MinionsServe`), `MovesAreShown` (`PerformsAsShown`),
`NobodyRisesUnlessDue` (`DeathsStand`), with `TypeCorrect` and `Inductive`, for any number of turns and blows and every row that is `WellComposed`: at
most one of Gremlin Leader, Reptomancer and Collector, the gremlins before their leader, daggers with no other leader than the Reptomancer and at most one of them not in front,
no torch heads beside a Collector. The encounter tables list no other rows, and the properties need it: a gremlin
behind its leader, say, would be passed over when a free place is looked for, and a newcomer would share its place.

None of the four is inductive. A limit on what is *performed* is kept by a table that reads what was *announced*, a history in which
moves that were stunned away, split or replaced remain; and whether a place is free is read off the
dead as well as the living. `IInv` has, beside types:

| Part | Says |
|---|---|
| `Marked` | what a monster performed is within its limits, and a move made once has left the mark the code looks at (history, counter or form) |
| `Ready` | the move it shows may be performed next; a move with a limit is the last one in its history |
| `Served` | at most one master; a minion has one of the places of its kind, lives only while the master does, and of those that had a place only the newest may live |
| `Linked` | Darklings that fell are half dead until all fell, and then none is |
| `TurnInv` | who is still queued in a first pass shows what was captured; whoever else of the captured lives has acted; who is doubled is a Time Eater that was captured |

Inside a step the row passes through states in which this fails of the one who acts. `Stands` says what holds there: all others
are fit, served and linked, and are what they were or `Idle` (fallen, mended, dead for good). Each change of
the row has a lemma that it keeps `Stands`: a monster written back, a leader's death that takes its minions
along, the Darklings' link, healing, and the insertions of `Rally`, `TorchHeads`, `Daggers` and `Split`, for which the places chosen are shown
vacant (`RallySlotsAre`, ...) and the insertion point in order (`RallyPlaceIs`, ...). The tables are one lemma a kind: no move they lead to
breaks a limit of that kind (`TableRespects`). `PerformedActs` puts them together: whoever performs a move it may perform
ends dead, or fit again. On a second pass the one who acts is first put back to what it showed, which it need not be allowed to perform: for that pass
`EaterActs` shows, for the Time Eater alone, that it ends dead or fit with its record begun anew. With that every step keeps `IInv` (`StepKeeps`), from which the action properties follow step by step.

### What stays with TLC

* Liveness: `CommandFinishes`, `BatchReturns`, `JobSettles`.
* `DecisionUntilComplete` of the run, which is about `ENABLED`: it is the one invariant that no theorem states.

## 6. Not modelled, and why

* Combat turn: the player's side of the end of a turn (powers, relics, the pause of Nilry's Codex, the queue of opening
  decisions) is next in the plan; it interacts with the core only through the commands that the core already has.
* Of the monsters: what moves do to the player, to powers and to block; the player's damage other than hits of attacks,
  poison and thorns; the locked opening of a horde of Jaw Worms; the
  rolls of monsters that are dead for good, which nothing reads; what a Byrd's lethal headbutt lets others still do. Two
  branches of the code are unreachable from any row and left out: an Awakened One whose rebirth is deferred past
  its turn, and a Darkling whose stun is performed at its own turn. The branch that spawns torch heads beyond two living ones
  (`spawn_beyond_two_living`) is left out: no caller outside tests asks for it. The forced end of a turn by the card Conclude is
  taken to end it once, as the code settles it within the same card.
* Map generation: the model of a run takes any room next; that paths exist is the generator's business.
* Random streams: bit-level arithmetic of the real game's generators, replaced by a choice among all outcomes.
* Content tables, observation projection, snapshots, trace verification: data and pure functions; of the
  projection, the session model keeps whether a state can be shown at all.
* Of the run: cards and potions bought in a shop and used outside combat (they leave the screens alone), the
  board of Match and Keep, what validation says of decks, payload counts and the origin of pending relics, the
  grid of Empty Cage over a deck with one card, duplicate Circlets. Events may recur and
  a campfire may always be left; the code restricts both by the run's history.
* Of the bridge: the trace file, logging, start-up before the first state, TCP framing, boundary schemas before 7.
* Of the explorer: several sessions and the pool of four workers, the node limit, the score cache, `analyze`, reads.
* Learning code: numerical; it meets the simulator only through the session interface.

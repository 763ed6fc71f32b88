---------------------------- MODULE MonsterMoves ----------------------------
(***************************************************************************)
(* How a monster chooses its next move.                                     *)
(*                                                                          *)
(* A monster is a record; this module reads its kind, its move history      *)
(* hist, the number of moves it has executed and mode, a number whose        *)
(* meaning depends on the kind (see MonsterTurn).  A move is the byte that   *)
(* target_move_byte gives it.                                               *)
(*                                                                          *)
(* The code draws a number from 0 to 99 and walks a table of thresholds.     *)
(* Every interval between two thresholds holds some number, so a rule here   *)
(* is the union of what its intervals choose: the set of the moves some      *)
(* draw leads to.  An interval that draws again leads to other intervals of  *)
(* the same table and adds nothing: it is the empty set.  hard tells         *)
(* ascension 20 from ascension 0; it is all the tables depend on.            *)
(***************************************************************************)
EXTENDS Integers, Sequences, FiniteSets

------------------------------------------------------------------------------
(* The history *)

LastMove(h, b) == h # <<>> /\ h[Len(h)] = b
LastMoveBefore(h, b) == Len(h) > 1 /\ h[Len(h) - 1] = b

\* Mutant: the move before the last is looked up one place too early.
LastTwoMovesOff(h, b) == LastMove(h, b) /\ Len(h) > 2 /\ h[Len(h) - 2] = b
LastTwoMoves(h, b) == LastMove(h, b) /\ LastMoveBefore(h, b)
Times(h, b) == Cardinality({i \in DOMAIN h : h[i] = b})
Used(h, b) == Times(h, b) > 0

\* b unless it was the last move, or the last two moves.
NotTwice(h, b, others) == IF LastMove(h, b) THEN others ELSE {b}
NotThrice(h, b, others) == IF LastTwoMoves(h, b) THEN others ELSE {b}
Limited(h, hard, b, others) ==
  IF hard THEN NotTwice(h, b, others) ELSE NotThrice(h, b, others)

Again == {}

------------------------------------------------------------------------------
(* The first act *)

\* 3 bite, 4 grow or spit
Louse(h) == NotThrice(h, 4, {3}) \cup NotThrice(h, 3, {4})

\* 1 chomp, 2 bellow, 3 thrash
JawWorm(h) ==
  IF h = <<>> THEN {1}
  ELSE NotTwice(h, 1, {2, 3}) \cup NotThrice(h, 3, {1, 2}) \cup NotTwice(h, 2, {1, 3})

\* 1 bite, 2 grow
FungiBeast(h) == NotThrice(h, 1, {2}) \cup NotTwice(h, 2, {1})

\* 1 stab, 4 rake
SlaverBlue(h, hard) ==
  LET rake == Limited(h, hard, 4, {1}) IN NotThrice(h, 1, rake) \cup rake

\* 1 stab, 2 entangle, 3 scrape
SlaverRed(h, hard) ==
  LET scrape == Limited(h, hard, 3, {1}) IN
  IF h = <<>> THEN {1}
  ELSE scrape \cup (IF Used(h, 2) THEN NotThrice(h, 1, scrape) ELSE {2})

\* 1 mug, 4 lunge, 2 smoke bomb, 3 escape; the Mugger follows the same table
Looter(h, moves) ==
  CASE LastMove(h, 1) /\ moves = 1 -> {1}
    [] LastMove(h, 1) /\ moves = 2 -> {2, 4}
    [] LastMove(h, 4) -> {2}
    [] OTHER -> {3}

\* 1 tackle and spit, 2 hard tackle, 4 lick; 3 is the split, never rolled
AcidSlime(h, hard) ==
  NotThrice(h, 1, {2, 4}) \cup Limited(h, ~hard, 2, {1, 4}) \cup Limited(h, hard, 4, {1, 2})

\* 1 tackle and spit, 4 lick
SpikeSlime(h, hard) == NotThrice(h, 1, {4}) \cup Limited(h, hard, 4, {1})

\* 1 tackle and 2 lick, in turn
SmallAcidSlime(h) == IF LastMove(h, 1) THEN {2} ELSE {1}

\* 1 rush, 2 skull bash (3 bellow opens)
GremlinNob(h, hard) ==
  CASE hard /\ ~LastMove(h, 2) /\ ~LastMoveBefore(h, 2) -> {2}
    [] hard -> NotThrice(h, 1, {2})
    [] OTHER -> {2} \cup NotThrice(h, 1, {2})

\* 3 dazed cards, 4 beam; the first by the place in the row
Sentry(h, index) ==
  IF h = <<>> THEN {IF index % 2 = 0 THEN 3 ELSE 4}
  ELSE IF LastMove(h, 4) THEN {3} ELSE {4}

\* 5 sleep, 3 attack, 1 siphon, while asleep turns of sleep are left
Lagavulin(moves, asleep) ==
  CASE asleep > 0 -> {5} [] asleep = 0 /\ moves % 3 = 2 -> {1} [] OTHER -> {3}

\* Offence 6 charge, 2 bash, 7 vent, 5 whirlwind; defence 1 close up, 3 roll, 4 slam
Guardian(moves, defence) ==
  {CASE defence = 3 -> 1
     [] defence = 2 -> 3
     [] defence = 1 -> 4
     [] OTHER -> <<6, 2, 7, 5>>[(moves % 4) + 1]}

\* 5 activate, 1 divider, 4 sear, 2 tackle, 3 inflame, 6 inferno
Hexaghost(moves) ==
  {CASE moves = 0 -> 5
     [] moves = 1 -> 1
     [] OTHER -> <<4, 2, 4, 3, 2, 4, 6>>[((moves - 2) % 7) + 1]}

\* 4 slime cards, 2 prepare, 1 slam
SlimeBoss(moves) == {<<4, 2, 1>>[(moves % 3) + 1]}

------------------------------------------------------------------------------
(* The second act *)

\* 5 poke, 4 hex, 3 debilitate, 2 drain, 1 zap
Chosen(h, hard) ==
  CASE ~hard /\ h = <<>> -> {5}
    [] (hard \/ h # <<>>) /\ ~Used(h, 4) -> {4}
    [] Used(h, 4) /\ ~LastMove(h, 2) /\ ~LastMove(h, 3) -> {3, 2}
    [] OTHER -> {1, 5}

\* 1 peck, 2 fly up, 3 swoop, 4 stunned, 5 headbutt, 6 caw
Byrd(h, flying) ==
  CASE ~flying -> {5}
    [] flying /\ h = <<>> -> {6, 1}
    [] OTHER -> NotThrice(h, 1, {3, 6}) \cup NotTwice(h, 3, {6, 1})
                \cup NotTwice(h, 6, {3, 1})

\* 1 chomp, 2 spores
SnakePlant(h, hard) ==
  NotThrice(h, 1, {2})
    \cup IF LastMove(h, 2) \/ (hard /\ LastMoveBefore(h, 2)) THEN {1} ELSE {2}

\* 1 glare, 2 bite, 3 tail whip
Snecko(h) == IF h = <<>> THEN {1} ELSE {3} \cup NotThrice(h, 2, {3})

\* 1 slash, 2 protect a friend, 3 fury when alone
Centurion(h, living) ==
  LET guard == IF living > 1 THEN {2} ELSE {3}
  IN NotThrice(h, 1, guard)
       \cup IF LastTwoMoves(h, 2) \/ LastTwoMoves(h, 3) THEN {} ELSE guard

\* 1 attack, 2 heal, 3 strengthen.  How much health must be missing before it
\* heals is left open: it may heal once a living monster is wounded.
Healer(h, hard, hurt) ==
  LET boost == NotThrice(h, 3, {1})
  IN Limited(h, hard, 1, boost) \cup boost
       \cup IF hurt THEN NotThrice(h, 2, {}) ELSE {}

\* 1 fell, 2 double strike, 3 suck, 4 stunned
ShelledParasite(h, hard) ==
  IF h = <<>> THEN (IF hard THEN {1} ELSE {2, 3})
  ELSE NotTwice(h, 1, Again) \cup NotThrice(h, 2, {3}) \cup NotThrice(h, 3, {2})

\* 1 stab many times, 2 big stab
BookOfStabbing(h) == (IF LastMove(h, 2) THEN {1} ELSE {2}) \cup NotThrice(h, 1, {2})

\* 2 rally, 3 encourage, 4 stab
GremlinLeader(h, gremlins) ==
  CASE gremlins = 0 -> NotTwice(h, 2, {4}) \cup NotTwice(h, 4, {2})
    [] gremlins = 1 -> NotTwice(h, 2, Again) \cup NotTwice(h, 3, {4}) \cup NotTwice(h, 4, Again)
    [] OTHER -> NotTwice(h, 3, {4}) \cup NotTwice(h, 4, {3})

\* 7 anger once below half, then 3 execute every third turn, 6 taunt,
\* 2 defensive stance, 5 gloat, 4 face slap, 1 heavy slash
Champ(h, low) ==
  LET slash == NotTwice(h, 1, {4})
      slap == NotTwice(h, 4, slash)
      gloat == IF LastMove(h, 5) \/ LastMove(h, 2) THEN slap ELSE {5}
      stance == IF LastMove(h, 2) \/ Times(h, 2) > 1 THEN gloat ELSE {2}
      taunted == \E i \in DOMAIN h : h[i] = 6 /\ Len(h) - i < 3
  IN CASE low /\ ~Used(h, 7) -> {7}
       [] Used(h, 7) /\ ~LastMove(h, 3) /\ ~LastMoveBefore(h, 3) -> {3}
       [] ~(low \/ Used(h, 7)) /\ ~taunted /\ Len(h) > 2 -> {6}
       [] OTHER -> stance \cup gloat \cup slap \cup slash

\* 4 summon, 1 flail, 5 boost, 2 hyper beam, 3 stunned
BronzeAutomaton(h, moves, hard) ==
  {CASE moves = 0 -> 4
     [] moves % 6 = 5 -> 2
     [] moves > 0 /\ moves % 6 # 5 /\ LastMove(h, 2) -> IF hard THEN 5 ELSE 3
     [] moves > 0 /\ moves % 6 # 5 /\ (\E b \in 3 .. 5 : LastMove(h, b)) -> 1
     [] OTHER -> 5}

\* 3 stasis, 1 beam, 2 support
BronzeOrb(h) ==
  LET beam == NotThrice(h, 1, {2}) IN
  beam \cup IF Used(h, 3) THEN NotThrice(h, 2, beam) ELSE {3}

\* 1 spawn, 5 spawn again, 2 fireball, 3 buff, 4 mega debuff
Collector(h, torchless) ==
  LET buff == NotTwice(h, 3, {2})
      ball == NotThrice(h, 2, buff)
  IN CASE h = <<>> -> {1}
       [] Len(h) > 2 /\ ~Used(h, 4) -> {4}
       [] OTHER -> ball \cup buff
                   \cup IF torchless THEN NotTwice(h, 5, Again) ELSE {}

------------------------------------------------------------------------------
(* The third act and the end *)

\* 1 laser, 2 claw
OrbWalker(h) == NotThrice(h, 2, {1}) \cup NotThrice(h, 1, {2})

\* 1 chomp, 2 harden, 3 nip, 4 count, 5 reincarnate
Darkling(h, index) ==
  IF h = <<>> THEN {2, 3}
  ELSE (IF index % 2 = 0 THEN NotTwice(h, 1, Again) ELSE Again)
         \cup NotTwice(h, 2, {3}) \cup NotThrice(h, 3, Again)

\* 1 slam, 2 explode
Exploder(moves) == IF moves < 2 THEN {1} ELSE {2}

\* 1 dazed cards, 2 bash
Repulsor(h) == {1} \cup NotTwice(h, 2, {1})

\* 1 cut, 2 thorns, of which it takes six at most
Spiker(h) == IF Times(h, 2) > 5 THEN {1} ELSE {2} \cup NotTwice(h, 1, {2})

\* 2 roar, 5 nom, 4 drool, 3 slam
Maw(h, moves) ==
  IF moves = 0 THEN {2}
  ELSE NotTwice(h, 5, {4}) \cup IF LastMove(h, 3) \/ LastMove(h, 5) THEN {4} ELSE {3}

\* 1 quick tackle, 2 constrict, 3 smash
SpireGrowth(h, moves, hard) ==
  LET smash == NotThrice(h, 3, {1})
      squeeze == IF Used(h, 2) THEN smash ELSE {2}
  IN IF moves = 0 /\ hard THEN {2} ELSE NotThrice(h, 1, squeeze) \cup squeeze

\* 1 glare, 3 count, 2 it is time
GiantHead(h, moves, hard) ==
  IF (IF hard THEN 4 ELSE 5) - moves <= 1 THEN {2}
  ELSE NotThrice(h, 1, {3}) \cup NotThrice(h, 3, {1})

\* 2 attack, 3 scythe, 4 burns
Nemesis(h, moves) ==
  IF moves = 0 THEN {2, 4}
  ELSE NotTwice(h, 3, NotThrice(h, 2, {4}) \cup NotTwice(h, 4, {2}))
         \cup NotThrice(h, 2, {4} \cup NotTwice(h, 3, {4}))
         \cup NotTwice(h, 4, {2} \cup NotTwice(h, 3, {2}))

\* 0 big hit, 1 multi hit, 2 attack and block, 3 attack and debuff,
\* 4 the parasite curse, once
WrithingMass(h, siphoned) ==
  IF h = <<>> THEN {1, 2, 3}
  ELSE NotTwice(h, 0, Again)
         \cup (IF siphoned THEN {0} ELSE NotTwice(h, 4, {0}))
         \cup NotTwice(h, 3, Again) \cup NotTwice(h, 1, {2}) \cup NotTwice(h, 2, Again)

\* 2 spawn while at most four others live, 1 snake strike, 3 big bite
Reptomancer(h, living) ==
  LET spawn == IF living - 1 <= 3 THEN {2} ELSE {1} IN
  IF h = <<>> THEN {2}
  ELSE NotTwice(h, 1, Again) \cup (IF LastTwoMoves(h, 2) THEN {1} ELSE spawn)
         \cup NotTwice(h, 3, Again)

\* 2 reverberate, 3 ripple, 4 head slam, 5 haste, once below half
TimeEater(h, low) ==
  IF low /\ ~Used(h, 5) THEN {5}
  ELSE NotThrice(h, 2, Again) \cup NotTwice(h, 4, {2, 3}) \cup NotTwice(h, 3, Again)

\* First form 1 slash, 2 soul strike; second form 6 sludge, 8 tackle
AwakenedOne(h, form) ==
  CASE form = 0 /\ h = <<>> -> {1}
    [] form = 0 /\ h # <<>> -> NotThrice(h, 1, {2}) \cup NotTwice(h, 1, {1, 2})
    [] OTHER -> NotThrice(h, 6, {8}) \cup NotThrice(h, 8, {6})

\* 2 buff and 0 beam in turn, one out of step with the other
Donu(moves) == {IF moves % 2 = 0 THEN 2 ELSE 0}
Deca(moves) == {IF moves % 2 = 0 THEN 0 ELSE 2}

\* 1 many blows, 2 one blow, 4 buff (3 debilitate opens)
CorruptHeart(h, moves) ==
  CASE (moves - 1) % 3 = 0 -> {1, 2}
    [] (moves - 1) % 3 = 1 -> IF LastMove(h, 2) THEN {1} ELSE {2}
    [] OTHER -> {4}

\* 1 bash, 2 fortify, 3 smash
SpireShield(h, moves) ==
  CASE moves % 3 = 0 -> {1, 2}
    [] moves % 3 = 1 -> IF LastMove(h, 1) THEN {2} ELSE {1}
    [] OTHER -> {3}

\* 1 burn strike, 2 piercer, 3 skewer
SpireSpear(h, moves) ==
  CASE moves % 3 = 0 -> IF LastMove(h, 1) THEN {2} ELSE {1}
    [] moves % 3 = 1 -> {3}
    [] OTHER -> {1, 2}

------------------------------------------------------------------------------
(* All of them *)

\* The cycles that only count moves.
FixedMove(m, living) ==
  CASE m.kind = "Cultist" -> IF m.moves = 0 THEN 3 ELSE 1
    [] m.kind = "SphericGuardian" ->
         IF m.moves < 2 THEN <<2, 4>>[m.moves + 1] ELSE IF LastMove(m.hist, 1) THEN 3 ELSE 1
    [] m.kind \in {"BanditBear", "BanditLeader"} ->
         IF m.moves = 0 THEN 2 ELSE IF m.moves % 2 = 1 THEN 3 ELSE 1
    [] m.kind = "GremlinTsundere" -> IF living > 1 THEN 1 ELSE 2
    [] m.kind = "GremlinWizard" -> IF m.moves >= 3 THEN 1 ELSE 2
    [] m.kind \in {"GremlinFat", "Taskmaster", "Dagger"} -> 2
    [] OTHER -> 1

\* c: hard; index, the place in the row from 0; living, the living monsters;
\* gremlins, those that are gremlins; torchless, fewer than two living minions;
\* hurt, whether some living monster is wounded.
NextMoves(m, c) ==
  LET h == m.hist IN
  CASE m.kind = "Louse" -> Louse(h)
    [] m.kind = "JawWorm" -> JawWorm(h)
    [] m.kind = "FungiBeast" -> FungiBeast(h)
    [] m.kind = "SlaverBlue" -> SlaverBlue(h, c.hard)
    [] m.kind = "SlaverRed" -> SlaverRed(h, c.hard)
    [] m.kind \in {"Looter", "Mugger"} -> Looter(h, m.moves)
    [] m.kind \in {"MediumAcid", "LargeAcid"} -> AcidSlime(h, c.hard)
    [] m.kind \in {"MediumSpike", "LargeSpike"} -> SpikeSlime(h, c.hard)
    [] m.kind = "SmallAcid" -> SmallAcidSlime(h)
    [] m.kind = "GremlinNob" -> GremlinNob(h, c.hard)
    [] m.kind = "Sentry" -> Sentry(h, c.index)
    [] m.kind = "Lagavulin" -> Lagavulin(m.moves, m.mode)
    [] m.kind = "Guardian" -> Guardian(m.moves, m.mode)
    [] m.kind = "Hexaghost" -> Hexaghost(m.moves)
    [] m.kind = "SlimeBoss" -> SlimeBoss(m.moves)
    [] m.kind = "Chosen" -> Chosen(h, c.hard)
    [] m.kind = "Byrd" -> Byrd(h, m.mode > 0)
    [] m.kind = "SnakePlant" -> SnakePlant(h, c.hard)
    [] m.kind = "Snecko" -> Snecko(h)
    [] m.kind = "Centurion" -> Centurion(h, c.living)
    [] m.kind = "Healer" -> Healer(h, c.hard, c.hurt)
    [] m.kind = "ShelledParasite" -> ShelledParasite(h, c.hard)
    [] m.kind = "BookOfStabbing" -> BookOfStabbing(h)
    [] m.kind = "GremlinLeader" -> GremlinLeader(h, c.gremlins)
    [] m.kind = "Champ" -> Champ(h, m.hp = 1)
    [] m.kind = "BronzeAutomaton" -> BronzeAutomaton(h, m.moves, c.hard)
    [] m.kind = "BronzeOrb" -> BronzeOrb(h)
    [] m.kind = "Collector" -> Collector(h, c.torchless)
    [] m.kind = "OrbWalker" -> OrbWalker(h)
    [] m.kind = "Darkling" -> Darkling(h, c.index)
    [] m.kind = "Exploder" -> Exploder(m.moves)
    [] m.kind = "Repulsor" -> Repulsor(h)
    [] m.kind = "Spiker" -> Spiker(h)
    [] m.kind = "Maw" -> Maw(h, m.moves)
    [] m.kind = "SpireGrowth" -> SpireGrowth(h, m.moves, c.hard)
    [] m.kind = "GiantHead" -> GiantHead(h, m.moves, c.hard)
    [] m.kind = "Nemesis" -> Nemesis(h, m.moves)
    [] m.kind = "WrithingMass" -> WrithingMass(h, m.mode = 1)
    [] m.kind = "Reptomancer" -> Reptomancer(h, c.living)
    [] m.kind = "TimeEater" -> TimeEater(h, m.hp = 1)
    [] m.kind = "AwakenedOne" -> AwakenedOne(h, m.mode)
    [] m.kind = "Donu" -> Donu(m.moves)
    [] m.kind = "Deca" -> Deca(m.moves)
    [] m.kind = "CorruptHeart" -> CorruptHeart(h, m.moves)
    [] m.kind = "SpireShield" -> SpireShield(h, m.moves)
    [] m.kind = "SpireSpear" -> SpireSpear(h, m.moves)
    [] OTHER -> {FixedMove(m, c.living)}

\* The move a monster enters the combat with: the rule over an empty history,
\* except where the entry has a table of its own.
FirstMoves(m, c) ==
  CASE m.kind = "SmallAcid" /\ ~c.hard -> {1, 2}
    [] m.kind = "SmallAcid" /\ c.hard -> {2}
    [] m.kind \in {"GremlinNob", "CorruptHeart"} -> {3}
    [] m.kind \in {"Looter", "Mugger", "Dagger"} -> {1}
    [] OTHER -> NextMoves(m, c)

\* The moves that deal no attack damage, kind by kind.
Calm ==
  {"GremlinTsundere"} \X {1}
  \cup {"Darkling", "SpireGrowth", "Spiker", "Exploder", "SnakePlant", "Reptomancer",
        "FungiBeast", "SlaverRed", "SmallAcid", "SphericGuardian", "JawWorm", "SpireShield",
        "SpireSpear", "GremlinWizard", "BanditBear", "BanditLeader", "Deca", "Donu",
        "Centurion"} \X {2}
  \cup {"Cultist", "GremlinNob", "Sentry"} \X {3}
  \cup {"Louse", "Nemesis", "WrithingMass", "ShelledParasite"} \X {4}
  \cup {"GiantHead", "Repulsor", "Snecko"} \X {1}
  \cup {"Looter", "Mugger", "GremlinLeader", "BronzeOrb", "Healer"} \X {2, 3}
  \cup {"MediumAcid", "LargeAcid", "MediumSpike", "LargeSpike", "CorruptHeart"} \X {3, 4}
  \cup {"Maw", "Chosen"} \X {2, 4}
  \cup {"Byrd"} \X {2, 4, 6}
  \cup {"SlimeBoss"} \X {2, 3, 4}
  \cup {"TimeEater", "Hexaghost"} \X {3, 5}
  \cup {"Champ"} \X {2, 5, 6, 7}
  \cup {"BronzeAutomaton"} \X {3, 4, 5}
  \cup {"Collector"} \X {1, 3, 4, 5}
  \cup {"Lagavulin"} \X {1, 4, 5}
  \cup {"Guardian"} \X {1, 6, 7}

\* Every other move strikes the player, and the player's thorns may answer it.
Strikes(kind, b) == <<kind, b>> \notin Calm
==============================================================================

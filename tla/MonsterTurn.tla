---------------------------- MODULE MonsterTurn ----------------------------
(***************************************************************************)
(* The monsters' side of a combat: the row of monsters, the moves they       *)
(* announce, the turn in which each performs its move and rolls the next,    *)
(* and what hits, poison, thorns, summons and splits do to the row.          *)
(*                                                                          *)
(* A monster is [id, kind, hp, intent, hist, moves, mode, slot, did].  hp    *)
(* is 2, or 1 below the threshold its kind watches (half its health for the  *)
(* slimes, the Champ and the Time Eater, any wound for Centurion and         *)
(* Healer), or 0 when it is not alive.  intent is the byte of the move it    *)
(* shows, hist its move history, moves the number of moves it has executed,  *)
(* did the moves it performed since its last doubled turn (recorded only     *)
(* here).  mode is the one more number its kind needs:                       *)
(*   Lagavulin       turns of sleep left                                      *)
(*   Guardian        defensive turns left, 0 in offence                       *)
(*   Byrd            1 in flight                                              *)
(*   ShelledParasite 1 while plated                                           *)
(*   WrithingMass    1 once it gave its curse                                 *)
(*   large slimes and Slime Boss  1 once the split is triggered               *)
(*   Darkling        -1 half dead                                             *)
(*   AwakenedOne     -1 half dead, 1 in its second form                       *)
(*                                                                          *)
(* The player is the environment: it hits, ends the turn, and answers some   *)
(* strikes with thorns.  A turn may be doubled: when Time Warp's forced end   *)
(* still stands as the player ends the turn, the queue runs twice, the        *)
(* second time with the moves shown at that end.  Only the Time Eater, who    *)
(* fights alone, leaves that end standing.                                    *)
(***************************************************************************)
EXTENDS MonsterMoves, Vectors

\* The rows combats start with, and for each the bounds of its exploration:
\* acts, the moves performed before the player stops ending turns, and blows,
\* how often a hit, poison or thorns may take health.
CONSTANT Encounters

Gremlins == {"GremlinWarrior", "GremlinThief", "GremlinFat", "GremlinTsundere", "GremlinWizard"}
Masters == {"GremlinLeader", "Reptomancer", "Collector"}

\* The kinds of monsters: those of the first act, the second and the third.
Kinds ==
  Gremlins \cup Masters
    \cup {"Louse", "JawWorm", "FungiBeast", "SlaverBlue", "SlaverRed", "Looter", "Cultist",
          "SmallAcid", "MediumAcid", "LargeAcid", "SmallSpike", "MediumSpike", "LargeSpike",
          "GremlinNob", "Sentry", "Lagavulin", "Guardian", "Hexaghost", "SlimeBoss"}
    \cup {"Chosen", "Byrd", "SnakePlant", "Snecko", "Centurion", "Healer", "ShelledParasite",
          "SphericGuardian", "Mugger", "BanditBear", "BanditLeader", "BanditPointy",
          "Taskmaster", "BookOfStabbing", "Champ", "BronzeAutomaton", "BronzeOrb", "TorchHead"}
    \cup {"OrbWalker", "Darkling", "Exploder", "Repulsor", "Spiker", "Maw", "SpireGrowth",
          "Transient", "GiantHead", "Nemesis", "WrithingMass", "Dagger", "TimeEater",
          "AwakenedOne", "Donu", "Deca", "CorruptHeart", "SpireShield", "SpireSpear"}

\* At most one leader; its gremlins stand before the Gremlin Leader, daggers
\* come with no leader but the Reptomancer and one at most stands elsewhere than
\* first, and the Collector starts without its torch heads (the encounters'
\* monster lists).
WellComposed(kinds) ==
  /\ kinds \in Seq(Kinds) /\ kinds # <<>>
  /\ \A i, j \in DOMAIN kinds :
       /\ kinds[i] \in Masters /\ kinds[j] \in Masters => i = j
       /\ kinds[i] \in Gremlins /\ kinds[j] = "GremlinLeader" => i < j /\ i <= 3
       /\ kinds[i] = "Dagger" /\ kinds[j] \in Masters => kinds[j] = "Reptomancer"
       /\ kinds[i] = "Dagger" /\ kinds[j] = "Dagger" => i = j \/ i = 1 \/ j = 1
       /\ ~(kinds[i] = "TorchHead" /\ kinds[j] = "Collector")

ASSUME EncountersAssumption ==
  \A e \in Encounters : e.acts \in Nat /\ e.blows \in Nat /\ WellComposed(e.kinds)

VARIABLES
  hard,           \* ascension 20, or 0
  row,            \* the monsters, left to right, the dead ones too
  phase,          \* "player", "monsters", "Won", "Lost"
  queue,          \* ids still to act, captured when the monsters' turn began
  shown,          \* the move each of them showed at that moment
  warp,           \* "none", or the pass of a doubled queue: "first", "second"
  acted,          \* <<id, move>> performed since the queue was (re)started
  blows, acts     \* what is left of the bounds

vars == <<hard, row, phase, queue, shown, warp, acted, blows, acts>>

Splitting == {"LargeAcid", "LargeSpike", "SlimeBoss"}
Watched == Splitting \cup {"Champ", "TimeEater", "Centurion", "Healer"}

------------------------------------------------------------------------------
(* Reading the row *)

Alive(m) == m.hp > 0
HalfDead(m) == m.mode = -1
Place(r, id) == CHOOSE i \in DOMAIN r : r[i].id = id
Living(r, kinds) == {i \in DOMAIN r : Alive(r[i]) /\ r[i].kind \in kinds}
Put(r, m) == [i \in DOMAIN r |-> IF r[i].id = m.id THEN m ELSE r[i]]
\* The first n elements of s that are free, or all of them.
FirstOf(s, free, n) ==
  LET open == Dropping(s, ToSet(s) \ free) IN SubSeq(open, 1, Min({n, Len(open)}))

\* Nobody is left: a half-dead Awakened One still counts, a Darkling does not.
Over(r) == \A i \in DOMAIN r : ~Alive(r[i]) /\ ~(r[i].kind = "AwakenedOne" /\ HalfDead(r[i]))

Context(r, i) ==
  [hard |-> hard, index |-> i - 1,
   living |-> Cardinality({j \in DOMAIN r : Alive(r[j])}),
   gremlins |-> Cardinality(Living(r, Gremlins)),
   torchless |-> Cardinality(Living(r, {"TorchHead"})) < 2,
   hurt |-> \E j \in DOMAIN r : r[j].hp = 1]

------------------------------------------------------------------------------
(* Announcing a move *)

Announce(m, b) == [m EXCEPT !.intent = b, !.hist = Append(@, b)]

\* The monster's RollMoveAction: a slime that is to split keeps its split.
Roll(r, id) ==
  LET i == Place(r, id) m == r[i] IN
  IF m.kind \in Splitting /\ m.mode = 1 /\ m.intent = 3
  THEN {Put(r, Announce(m, 3))}
  ELSE {Put(r, Announce(m, b)) : b \in NextMoves(m, Context(r, i))}

NewMonster(id, kind, slot) ==
  [id |-> id, kind |-> kind, hp |-> 2, intent |-> 0, hist |-> <<>>, moves |-> 0,
   mode |-> CASE kind = "Lagavulin" -> 3 [] kind \in {"Byrd", "ShelledParasite"} -> 1 [] OTHER -> 0,
   slot |-> slot, did |-> <<>>]

\* Only minions have a place of their own: gremlins from the left, the two
\* daggers on each side of the Reptomancer.
InitialSlot(e, i) ==
  CASE "GremlinLeader" \in {e[j] : j \in DOMAIN e} /\ e[i] \in Gremlins -> i - 1
    [] e[i] = "Dagger" -> IF i = 1 THEN 1 ELSE 0
    [] OTHER -> -1

InitialRow(e) == [i \in DOMAIN e |-> NewMonster(i, e[i], InitialSlot(e, i))]

------------------------------------------------------------------------------
(* Losing health and dying *)

\* What a monster is after it lost health and is left with hp.  Hits of the
\* player's attacks, poison and thorns do not trigger the same reactions.
Wounded(r, m, hp, cause) ==
  LET w == [m EXCEPT !.hp = hp] IN
  CASE hp = 0 /\ m.kind = "Darkling" ->
         {[IF m.intent = 4 THEN w ELSE Announce(w, 4) EXCEPT !.mode = -1]}
    [] hp = 0 /\ m.kind = "AwakenedOne" /\ m.mode = 0 -> {[Announce(w, 3) EXCEPT !.mode = -1]}
    [] hp = 1 /\ m.kind \in Splitting /\ m.mode = 0 /\ (m.kind = "SlimeBoss" => cause # "poison") ->
         {[w EXCEPT !.intent = 3, !.mode = 1]}
    [] hp > 0 /\ m.kind = "Guardian" /\ m.mode = 0 -> {w, [w EXCEPT !.intent = 1, !.mode = 3]}
    [] hp > 0 /\ cause = "hit" /\ m.kind = "Lagavulin" /\ m.mode > 0 ->
         {[w EXCEPT !.intent = 4, !.mode = 0]}
    [] hp > 0 /\ cause = "hit" /\ m.kind \in {"Byrd", "ShelledParasite"} /\ m.mode = 1 ->
         {w, [w EXCEPT !.intent = 4, !.mode = 0]}
    [] hp > 0 /\ cause = "hit" /\ m.kind = "WrithingMass" ->
         {Announce(w, b) : b \in NextMoves(w, Context(r, Place(r, m.id)))}
    [] OTHER -> {w}

\* The levels of health it may be left with.
Levels(m) == {hp \in {0, m.hp} \cup (IF m.kind \in Watched THEN {1} ELSE {}) : hp <= m.hp}

Minions(kind) ==
  CASE kind = "GremlinLeader" -> Gremlins
    [] kind = "Reptomancer" -> {"Dagger"}
    [] kind = "Collector" -> {"TorchHead"}
    [] OTHER -> {}

\* The death hooks: the minions fall with the monster they serve.
MinionsFall(r, m) ==
  [i \in DOMAIN r |-> IF r[i].kind \in Minions(m.kind) THEN [r[i] EXCEPT !.hp = 0] ELSE r[i]]

\* Mutant: a death in the row runs no death hooks.
SettledUnhooked(r, m) == Put(r, m)
Settled(r, m) == IF Alive(m) THEN Put(r, m) ELSE MinionsFall(Put(r, m), m)

\* Mutant: the link is only looked at when a combat is decided.
LifeLinkIgnored(r) == r
\* When every Darkling is half dead, all of them are dead.
LifeLink(r) ==
  IF \A i \in DOMAIN r : r[i].kind = "Darkling" => ~Alive(r[i]) /\ HalfDead(r[i])
  THEN [i \in DOMAIN r |-> IF r[i].kind = "Darkling" THEN [r[i] EXCEPT !.mode = 0] ELSE r[i]]
  ELSE r

------------------------------------------------------------------------------
(* Summons and splits *)

NewId(r) == Max({r[i].id : i \in DOMAIN r}) + 1

\* Newborn kinds with consecutive ids, each with its first move announced.
Born(r, kinds, slots) ==
  {[k \in DOMAIN kinds |-> Announce(NewMonster(NewId(r) + k - 1, kinds[k], slots[k]), first[k])] :
     first \in {f \in [DOMAIN kinds -> 0 .. 8] :
       \A k \in DOMAIN kinds : f[k] \in
         IF kinds[k] = "Dagger" THEN {1}
         ELSE NextMoves(NewMonster(0, kinds[k], slots[k]), [hard |-> hard, living |-> 2])}}

\* The newborn, two at most, go in one after the other, each where the row
\* then wants it.
Join(r, newborn, Where(_, _)) ==
  LET with == InsertAt(r, Where(r, newborn[1]), newborn[1])
  IN CASE Len(newborn) = 0 -> r
       [] Len(newborn) = 1 -> with
       [] Len(newborn) = 2 -> InsertAt(with, Where(with, newborn[2]), newborn[2])

\* Where the gremlins stand from the left, whatever their place in the row.
DrawX(m) == <<-366, -170, -532>>[m.slot + 1] - IF m.kind = "GremlinWizard" THEN 35 ELSE 0

\* The places among the gremlins that nobody holds, or the newest of whose
\* holders fell, as many as the leader may call to.
Ahead(r) == {i \in DOMAIN r : i < CHOOSE l \in DOMAIN r : r[l].kind = "GremlinLeader"}

RallySlots(r) ==
  LET holders(slot) == {i \in Ahead(r) : r[i].slot = slot}
      free == {slot \in 0 .. 2 : \A i \in holders(slot) :
                 (\A j \in holders(slot) : r[j].id <= r[i].id) => ~Alive(r[i])}
  IN FirstOf(<<0, 1, 2>>, free, Min({2, 3 - Cardinality(Living(r, Gremlins))}))

RallyPlace(r, m) ==
  1 + Cardinality({i \in Ahead(r) : r[i].slot >= 0 /\ DrawX(r[i]) < DrawX(m)})

Rally(r) ==
  LET slots == RallySlots(r) IN
  UNION {{Join(r, born, RallyPlace) : born \in Born(r, kinds, slots)} :
           kinds \in [DOMAIN slots -> Gremlins]}

TorchSlots(r) ==
  LET living == Living(r, {"TorchHead"})
      free == {slot \in 1 .. 2 : \A i \in living : r[i].slot # slot}
  IN FirstOf(<<1, 2>>, free, 2 - Cardinality(living))

TorchPlace(r, m) ==
  LET fallen == {i \in DOMAIN r : r[i].kind = "TorchHead" /\ r[i].slot = m.slot /\ ~Alive(r[i])}
  IN Min(IF fallen # {} THEN fallen ELSE {i \in DOMAIN r : r[i].kind = "Collector"})

TorchHeads(r) ==
  LET slots == TorchSlots(r) IN
  {Join(r, born, TorchPlace) : born \in Born(r, [k \in DOMAIN slots |-> "TorchHead"], slots)}

DaggerSlots(r) ==
  LET free == {slot \in 0 .. 3 : \A i \in Living(r, {"Dagger"}) : r[i].slot # slot}
  IN FirstOf(<<0, 1, 2, 3>>, free, IF hard THEN 2 ELSE 1)

DaggerPlace(r, m) ==
  LET rank(n) == IF n.kind = "Dagger" THEN <<4, 1, 3, 0>>[n.slot + 1] ELSE 2
  IN Min({i \in DOMAIN r : rank(r[i]) >= rank(m)} \cup {Len(r) + 1})

Daggers(r) ==
  LET slots == DaggerSlots(r) IN
  {Join(r, born, DaggerPlace) : born \in Born(r, [k \in DOMAIN slots |-> "Dagger"], slots)}

\* Two newborn around the one at place i, the first at place left.
Around(r, i, left, kinds) ==
  {InsertAt(InsertAt(r, left, b[1]), i + 2, b[2]) : b \in Born(r, kinds, <<-1, -1>>)}

\* The parent is gone, without the death hooks.  A large acid slime leaves its
\* left half where the Slime Boss fell.
Split(r, m) ==
  LET i == Place(r, m.id)
      gone == Put(r, [m EXCEPT !.hp = 0])
      bosses == {j \in 1 .. i - 1 : r[j].kind = "SlimeBoss" /\ ~Alive(r[j])}
  IN CASE m.kind = "SlimeBoss" -> Around(gone, i, i, <<"LargeSpike", "LargeAcid">>)
       [] m.kind = "LargeSpike" -> Around(gone, i, i, <<"MediumSpike", "MediumSpike">>)
       [] m.kind = "LargeAcid" ->
            Around(gone, i, IF bosses = {} THEN i ELSE Min(bosses), <<"MediumAcid", "MediumAcid">>)

\* The moves that add monsters to the row.
Summons(m) ==
  <<m.kind, m.intent>> \in
    (Splitting \X {3}) \cup ({"Collector"} \X {1, 5})
      \cup {<<"GremlinLeader", 2>>, <<"Reptomancer", 2>>, <<"BronzeAutomaton", 4>>}

Summoned(r, m) ==
  CASE m.kind = "GremlinLeader" -> Rally(r)
    [] m.kind = "Collector" -> TorchHeads(r)
    [] m.kind = "Reptomancer" -> Daggers(r)
    [] m.kind = "BronzeAutomaton" ->
         LET i == Place(r, m.id) IN Around(r, i, i, <<"BronzeOrb", "BronzeOrb">>)
    [] m.kind \in Splitting -> Split(r, m)

------------------------------------------------------------------------------
(* Performing a move *)

Counted(m) == [m EXCEPT !.moves = @ + 1]

\* What the move does to the monster itself, thorns apart, b being the move.
Spent(m, b, defending) ==
  LET n == Counted(m) IN
  CASE m.kind = "Lagavulin" /\ b = 5 -> [m EXCEPT !.mode = @ - 1]
    [] m.kind = "Lagavulin" /\ b = 4 -> m
    [] m.kind = "Guardian" /\ defending ->
         [n EXCEPT !.mode = @ - 1, !.moves = IF m.mode = 1 THEN 3 ELSE @]
    [] m.kind = "GremlinWizard" /\ b = 1 /\ ~hard -> [m EXCEPT !.moves = 0]
    [] <<m.kind, b>> \in {<<"Looter", 3>>, <<"Mugger", 3>>, <<"Exploder", 2>>, <<"Dagger", 2>>} ->
         [n EXCEPT !.hp = 0]
    [] m.kind = "Transient" /\ n.moves >= 5 -> [n EXCEPT !.hp = 0]
    [] m.kind = "TimeEater" /\ b = 5 -> [n EXCEPT !.hp = 2]
    [] m.kind = "WrithingMass" /\ b = 4 -> [n EXCEPT !.mode = 1]
    [] m.kind = "Byrd" /\ b = 2 -> [n EXCEPT !.mode = 1]
    [] m.kind = "ShelledParasite" /\ b = 4 -> Announce(n, 1)
    [] OTHER -> n

\* The row after the move, the next one announced.  The roll of a monster that
\* is dead for good changes nothing that is read again and is left out; a
\* Darkling or an Awakened One that fell during its move rolls and then shows
\* the move of its half-dead form again.
Announced(r, m, b) ==
  LET othersLive == \E i \in DOMAIN r : Alive(r[i]) /\ r[i].id # m.id
      takesOff == m.kind = "Byrd" /\ b = 5
      awakes == m.kind = "Lagavulin" /\ b = 5 /\ m.mode = 0
  IN
  CASE Alive(m) /\ takesOff -> {Put(r, Announce(Announce(m, 5), 2))}
    [] Alive(m) /\ awakes -> {Put(r, Announce(m, 3))}
    [] Alive(m) /\ ~takesOff /\ ~awakes -> Roll(r, m.id)
    [] m.kind = "Darkling" /\ HalfDead(m) /\ othersLive -> {Put(r, Announce(Announce(m, 5), 4))}
    [] m.kind = "AwakenedOne" /\ HalfDead(m) ->
         {Put(s, Announce(s[Place(s, m.id)], 3)) : s \in Roll(r, m.id)}
    [] OTHER -> {r}

\* A half-dead monster's turn: the Awakened One comes back in its second form;
\* a Darkling counts, and comes back the turn after.
Rises(r, m) ==
  CASE m.kind = "AwakenedOne" -> {Put(r, Announce([m EXCEPT !.hp = 2, !.mode = 1], 5))}
    [] m.kind = "Darkling" /\ m.intent = 4 -> {Put(r, Announce(Counted(m), 5))}
    [] OTHER -> Roll(Put(r, [Counted(m) EXCEPT !.hp = 2, !.mode = 0]), m.id)

\* The Healer mends whom it can, as far as it can.
Mended(r) ==
  {[i \in DOMAIN r |-> IF i \in some THEN [r[i] EXCEPT !.hp = 2] ELSE r[i]] :
     some \in SUBSET {i \in DOMAIN r : r[i].hp = 1}}

\* The rows the move of m may lead to.  w is m after the thorns that answered.
Performed(r, m, w) ==
  LET b == m.intent
      done == Spent(w, b, m.mode > 0)
  IN CASE HalfDead(m) -> Rises(r, m)
       [] Summons(m) ->
            UNION {LET n == Counted(s[Place(s, m.id)])
                   IN IF Alive(n) THEN Roll(Put(s, n), m.id) ELSE {Put(s, n)} : s \in Summoned(r, m)}
       [] m.kind = "Healer" /\ b = 2 -> UNION {Roll(s, m.id) : s \in Mended(Put(r, done))}
       [] OTHER -> Announced(Settled(r, done), done, b)

------------------------------------------------------------------------------
(* The player's turn *)

Init ==
  /\ hard \in BOOLEAN
  /\ \E e \in Encounters :
       LET r == InitialRow(e.kinds) IN
       /\ \E first \in [DOMAIN r -> 0 .. 8] :
            /\ \A i \in DOMAIN r : first[i] \in FirstMoves(r[i], Context(r, i))
            /\ row = [i \in DOMAIN r |-> Announce(r[i], first[i])]
       /\ blows = e.blows /\ acts = e.acts
  /\ phase = "player"
  /\ queue = <<>> /\ shown = <<>> /\ warp = "none" /\ acted = <<>>

\* One hit of an attack, and the settling at the end of the action.
Hit(i) ==
  /\ phase = "player" /\ blows > 0 /\ Alive(row[i])
  /\ \E hp \in Levels(row[i]) : \E w \in Wounded(row, row[i], hp, "hit") :
       /\ w # row[i]
       /\ row' = LifeLink(Settled(row, w))
       /\ phase' = IF Over(row') THEN "Won" ELSE "player"
  /\ blows' = blows - 1
  /\ UNCHANGED <<hard, queue, shown, warp, acted, acts>>

\* Time Warp's forced end may be standing: only a living Time Eater counts cards.
Warping(r) == Len(r) = 1 /\ r[1].kind = "TimeEater" /\ Alive(r[1])
Everyone(r) == [i \in DOMAIN r |-> r[i].id]

EndTurn ==
  /\ phase = "player" /\ acts > 0
  /\ phase' = "monsters"
  /\ warp' \in IF Warping(row) THEN {"none", "first"} ELSE {"none"}
  /\ queue' = Everyone(row)
  /\ shown' = [id \in {row[i].id : i \in DOMAIN row} |-> row[Place(row, id)].intent]
  /\ acted' = <<>>
  /\ UNCHANGED <<hard, row, blows, acts>>

------------------------------------------------------------------------------
(* The monsters' turn *)

\* Mutant: the second pass performs what the first one rolled.
ActorRerolled(r) == r[Place(r, Head(queue))]
\* The actor is found again by its id: the row may have grown to its left.  On
\* the second pass it shows again what it showed at the end of the turn.
Actor(r) ==
  LET m == r[Place(r, Head(queue))] IN
  IF warp = "second" THEN [m EXCEPT !.intent = shown[m.id]] ELSE m

Skip ==
  /\ phase = "monsters" /\ queue # <<>>
  /\ row' = LifeLink(row)
  /\ ~Alive(Actor(row')) /\ ~HalfDead(Actor(row'))
  /\ queue' = Tail(queue)
  /\ UNCHANGED <<hard, phase, shown, warp, acted, blows, acts>>

\* Poison takes health before the move, on the first pass only.
PoisonKills ==
  /\ phase = "monsters" /\ queue # <<>> /\ blows > 0 /\ warp # "second"
  /\ LET r == LifeLink(row) m == Actor(r) IN
       /\ Alive(m)
       /\ \E w \in Wounded(r, m, 0, "poison") : row' = Settled(r, w)
  /\ blows' = blows - 1
  /\ queue' = Tail(queue)
  /\ UNCHANGED <<hard, phase, shown, warp, acted, acts>>

\* What health losses may leave of m, and how many there were.
Losses(r, m, cause, budget) ==
  {[m |-> m, blows |-> 0]} \cup
    IF budget = 0 THEN {}
    ELSE {[m |-> w, blows |-> 1] : w \in UNION {Wounded(r, m, hp, cause) : hp \in Levels(m)}}

\* The limits on its moves start anew with a move it performs out of turn.
Recorded(did, b) == IF warp = "second" THEN <<>> ELSE Append(did, b)

\* One monster's turn: poison, the move, the player's thorns against it, the
\* next roll.  (LifeLink changes nothing after a move that kills nobody.)
Act ==
  /\ phase = "monsters" /\ queue # <<>>
  /\ LET start == LifeLink(row) IN
     \E p \in IF Alive(Actor(start)) /\ warp # "second" THEN Losses(start, Actor(start), "poison", blows)
              ELSE {[m |-> Actor(start), blows |-> 0]} :
     LET r == Put(start, p.m) b == p.m.intent
         left == blows - p.blows
     IN /\ (Alive(p.m) \/ (HalfDead(p.m) /\ p.blows = 0))
        /\ \E t \in Losses(r, p.m, "thorns", IF Alive(p.m) /\ Strikes(p.m.kind, b) THEN left ELSE 0) :
           \E s \in Performed(r, p.m, t.m) :
             /\ row' = LifeLink(Put(s, [s[Place(s, p.m.id)] EXCEPT !.did = Recorded(@, b)]))
             /\ blows' = left - t.blows
        /\ acted' = Append(acted, <<p.m.id, b>>)
  /\ acts' = IF acts = 0 THEN 0 ELSE acts - 1
  /\ queue' = Tail(queue)
  /\ UNCHANGED <<hard, phase, shown, warp>>

\* A strike kills the player: the turn stops there.
PlayerFalls ==
  /\ phase = "monsters" /\ queue # <<>>
  /\ LET m == Actor(LifeLink(row)) IN Alive(m) /\ Strikes(m.kind, m.intent)
  /\ phase' = "Lost"
  /\ UNCHANGED <<hard, row, queue, shown, warp, acted, blows, acts>>

\* A doubled queue runs once more, over the monsters it captured (nobody is born
\* beside the Time Eater).
SecondPass ==
  /\ phase = "monsters" /\ queue = <<>> /\ warp = "first"
  /\ warp' = "second" /\ queue' = Everyone(row) /\ acted' = <<>>
  /\ UNCHANGED <<hard, row, phase, shown, blows, acts>>

Finish ==
  /\ phase = "monsters" /\ queue = <<>> /\ warp # "first"
  /\ phase' = IF Over(row) THEN "Won" ELSE "player"
  /\ shown' = <<>> /\ warp' = "none" /\ acted' = <<>>
  /\ UNCHANGED <<hard, row, queue, blows, acts>>

Next ==
  \/ \E i \in DOMAIN row : Hit(i)
  \/ EndTurn
  \/ Skip
  \/ PoisonKills
  \/ Act
  \/ PlayerFalls
  \/ SecondPass
  \/ Finish

Spec == Init /\ [][Next]_vars

------------------------------------------------------------------------------
(* Properties *)

\* Moves that never follow themselves, moves not performed three times
\* running, and moves performed once in a combat.
NeverTwice ==
  ({"JawWorm"} \X {1, 2}) \cup ({"FungiBeast"} \X {2}) \cup ({"Byrd"} \X {3, 6})
    \cup ({"TimeEater"} \X {3, 4}) \cup ({"Nemesis"} \X {3, 4}) \cup ({"Repulsor"} \X {2})
    \cup ({"GremlinLeader"} \X {3}) \cup ({"Chosen"} \X {2, 3}) \cup ({"Reptomancer"} \X {3})
    \cup ({"Darkling"} \X {1, 2}) \cup ({"ShelledParasite"} \X {1}) \cup ({"Champ"} \X {2, 4, 5})
NeverThrice ==
  ({"Louse"} \X {3, 4}) \cup ({"JawWorm"} \X {3}) \cup ({"FungiBeast"} \X {1})
    \cup ({"SlaverBlue"} \X {1, 4}) \cup ({"MediumSpike", "LargeSpike"} \X {1, 4})
    \cup ({"OrbWalker", "BronzeOrb", "BookOfStabbing"} \X {1, 2}) \cup ({"Darkling"} \X {3})
    \cup ({"SpireGrowth", "GiantHead"} \X {1, 3}) \cup ({"SnakePlant", "Centurion"} \X {1})
    \cup ({"Snecko", "Nemesis", "TimeEater"} \X {2}) \cup ({"AwakenedOne"} \X {6, 8})
Once ==
  {<<"TimeEater", 5>>, <<"Champ", 7>>, <<"Chosen", 4>>, <<"BronzeAutomaton", 4>>,
   <<"BronzeOrb", 3>>, <<"SlaverRed", 2>>, <<"WrithingMass", 4>>, <<"AwakenedOne", 5>>}

\* The limits the move tables draw from the announced moves hold for the moves
\* a monster performs, whatever stuns, splits, rerolls and half deaths came in
\* between; and a Darkling reincarnates right after it counted
\* (prepare_rolled_next_intent and the rules it calls).
WithinLimits(kind, did) ==
  LET Run(b, n) == \E j \in 1 .. Len(did) + 1 - n : \A k \in j .. j + n - 1 : did[k] = b
  IN \A b \in ToSet(did) :
       /\ <<kind, b>> \in NeverTwice => ~Run(b, 2)
       /\ <<kind, b>> \in NeverThrice => ~Run(b, 3)
       /\ <<kind, b>> \in Once => Times(did, b) = 1
       /\ kind = "Darkling" /\ b = 5 =>
            \A j \in DOMAIN did : did[j] = 5 => j > 1 /\ did[j - 1] = 4

\* Every monster stays within the limits on its moves, however long the combat;
\* for the Time Eater, between the turns Time Warp doubles.
MoveLimits == \A i \in DOMAIN row : WithinLimits(row[i].kind, row[i].did)

\* Who acts next was there when the turn began, has not acted in this pass of the
\* queue, and performs what it showed.
ShownMove ==
  acted' # acted /\ acted' # <<>> =>
    LET last == acted'[Len(acted')] IN
    /\ last[1] \in DOMAIN shown
    /\ \A i \in DOMAIN acted : acted[i][1] # last[1]
    /\ \/ last[2] = shown[last[1]]
       \/ <<row[Place(row, last[1])].kind, last[2]>> \in (Splitting \X {3}) \cup {<<"Guardian", 1>>}

NoneLeftOut ==
  (phase = "monsters" /\ phase' = "player") \/ (warp = "first" /\ warp' = "second") =>
    \A i \in DOMAIN row :
      row[i].id \in DOMAIN shown /\ Alive(row[i]) => \E j \in DOMAIN acted : acted[j][1] = row[i].id

\* In each pass of the queue - one, or two when the turn ended under Time Warp's
\* forced end - each monster of the row at the end of the player's turn acts at
\* most once, in that order, whatever is born or falls before its turn comes, and
\* performs the move it showed at that end, on the second pass too, unless poison
\* split it or shifted its mode; those born since wait for the next turn, and the
\* next pass or the player's turn comes only when every other living monster has
\* acted (run_monster_turn).
PerformsAsShown == [][ShownMove /\ NoneLeftOut]_vars

RisesInTurn ==
  \A i \in DOMAIN row :
    ~Alive(row[i]) /\ Alive(row'[Place(row', row[i].id)]) =>
      \/ row[i].kind = "Darkling" /\ Living(row, {"Darkling"}) # {}
      \/ row[i].kind = "AwakenedOne" /\ ~Used(row[i].did, 3)

NobodyToFace == phase' = "player" => ~Over(row')

\* A monster that is down rises only as a Darkling with a living companion or as
\* the Awakened One for the first time, and the player is never left to face a
\* row where nobody lives or will rise (resolve_darkling_life_link,
\* awaken_one_after_first_death, finish_combat_if_over).
DeathsStand == [][RisesInTurn /\ NobodyToFace]_vars

\* Minions do not outlive the one they serve, no two living minions stand in
\* the same place, and their numbers stay within what the rallies and spawns
\* allow (the death escapes, apply_gremlin_leader_rally_target,
\* apply_collector_spawn_torch_heads, apply_reptomancer_dagger_spawn).
MinionsServe ==
  \A i \in DOMAIN row :
    LET minions == Living(row, Minions(row[i].kind)) IN
    /\ minions # {} => Alive(row[i])
    /\ Cardinality(minions) <= CASE row[i].kind = "GremlinLeader" -> 3
                                 [] row[i].kind = "Collector" -> 2
                                 [] OTHER -> 4
    /\ \A j, k \in minions : j # k => row[j].slot # row[k].slot
==============================================================================

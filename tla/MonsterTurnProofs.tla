-------------------------- MODULE MonsterTurnProofs --------------------------
(***************************************************************************)
(* Proofs about the monsters' side of a combat, for every row a combat may  *)
(* start with and every number of turns and blows.                          *)
(***************************************************************************)
EXTENDS MonsterTurn, VectorsProofs

------------------------------------------------------------------------------
(* The inductive invariant *)

\* One monster of the row.
Monster ==
  [id : Nat, kind : Kinds, hp : 0 .. 2, intent : 0 .. 8, hist : Seq(0 .. 8), moves : Nat,
   mode : Int, slot : -1 .. 3, did : Seq(0 .. 8)]

Ids(r) == {r[i].id : i \in DOMAIN r}

\* A row is not empty, and no two of its monsters have one id.
IsRow(r) ==
  /\ r \in Seq(Monster) /\ r # <<>>
  /\ \A i, j \in DOMAIN r : r[i].id = r[j].id => i = j

\* The numbers mode may hold, by kind.
Modes(kind) ==
  CASE kind \in {"Lagavulin", "Guardian"} -> 0 .. 3
    [] kind \in Splitting \cup {"Byrd", "ShelledParasite", "WrithingMass"} -> 0 .. 1
    [] kind = "Darkling" -> {-1, 0}
    [] kind = "AwakenedOne" -> -1 .. 1
    [] OTHER -> {0}

\* The kinds whose history tells that they used the move they use once.
Remembering == {"TimeEater", "Champ", "Chosen", "BronzeOrb", "SlaverRed"}

\* What the code looks at before it announces a move made once.
UsedUp(m, b) ==
  CASE m.kind \in Remembering -> Used(m.hist, b)
    [] m.kind = "BronzeAutomaton" -> m.moves > 0
    [] OTHER -> m.mode = 1

\* m carries the marks of what it performed, and that is within its limits.
Marked(m) ==
  /\ m.mode \in Modes(m.kind)
  /\ HalfDead(m) => ~Alive(m)
  /\ \A b \in ToSet(m.did) :
       <<m.kind, b>> \in Once \cup {<<"AwakenedOne", 3>>} => UsedUp(m, b)
  /\ WithinLimits(m.kind, m.did)

\* The move shown is one the monster may perform next.
Ready(m) ==
  LET b == m.intent IN
  /\ <<m.kind, b>> \in NeverTwice \cup NeverThrice => LastMove(m.hist, b)
  /\ <<m.kind, b>> \in NeverTwice => ~LastMove(m.did, b)
  /\ <<m.kind, b>> \in NeverThrice =>
       ~LastTwoMoves(m.did, b) /\ (LastMove(m.did, b) => LastMoveBefore(m.hist, b))
  /\ <<m.kind, b>> \in Once => b \notin ToSet(m.did)
  /\ <<m.kind, b>> \in Once /\ m.kind \in Remembering => Used(m.hist, b)
  /\ m.kind = "Darkling" /\ b = 5 => LastMove(m.did, 4)
  /\ m.kind = "Lagavulin" /\ b = 5 => m.mode > 0
  /\ m.kind = "AwakenedOne" => (b = 3 <=> m.mode = -1) /\ (b = 5 => m.mode = 1)

\* m is marked, and ready to perform the move it shows if it will act again.
Fit(m) == Marked(m) /\ (Alive(m) \/ HalfDead(m) => Ready(m))

\* The places minions have.
Slots(kind) ==
  CASE kind = "GremlinLeader" -> 0 .. 2 [] kind = "Collector" -> 1 .. 2 [] OTHER -> 0 .. 3

\* A row has at most one master; whoever has a place serves it, and dies no later;
\* of the minions that had one place only the last one may live.
Served(r) ==
  \A l \in DOMAIN r : r[l].kind \in Masters =>
    \A i \in DOMAIN r :
      /\ r[i].kind \in Masters => i = l
      /\ r[i].slot >= 0 => r[i].kind \in Minions(r[l].kind)
      /\ r[i].kind \in Minions(r[l].kind) =>
           /\ r[i].slot \in Slots(r[l].kind)
           /\ Alive(r[i]) => Alive(r[l])
           /\ r[l].kind = "GremlinLeader" => i < l
           /\ \A j \in DOMAIN r :
                /\ r[j].kind \in Minions(r[l].kind)
                /\ r[j].slot = r[i].slot
                /\ r[j].id < r[i].id
                => ~Alive(r[j])

\* A Darkling that fell is half dead until the last of them fell.
Linked(r) ==
  \/ \A i \in DOMAIN r : r[i].kind = "Darkling" => Alive(r[i]) \/ HalfDead(r[i])
  \/ \A i \in DOMAIN r : r[i].kind = "Darkling" => ~Alive(r[i]) /\ r[i].mode = 0

\* What holds of the row between two steps.
RowInv(r) == IsRow(r) /\ (\A i \in DOMAIN r : Fit(r[i])) /\ Served(r) /\ Linked(r)

TypeOK ==
  /\ hard \in BOOLEAN
  /\ phase \in {"player", "monsters", "Won", "Lost"}
  /\ queue \in Seq(Nat)
  /\ warp \in {"none", "first", "second"}
  /\ acted \in Seq(Nat \X (0 .. 8))
  /\ blows \in Nat /\ acts \in Nat

\* The monsters' turn: who is still to act shows what it showed, but on a second
\* pass; of the others that stood there, the living have acted; and Time Warp
\* doubles the turn of the Time Eater alone.
TurnInv ==
  phase = "monsters" =>
    /\ IsInjective(queue)
    /\ DOMAIN shown \subseteq Ids(row) /\ ToSet(queue) \subseteq DOMAIN shown
    /\ \A y \in DOMAIN shown : shown[y] \in 0 .. 8
    /\ \A i \in DOMAIN row :
         row[i].id \in ToSet(queue) => warp = "second" \/ shown[row[i].id] = row[i].intent
    /\ \A k \in DOMAIN acted : acted[k][1] \in DOMAIN shown \ ToSet(queue)
    /\ \A i \in DOMAIN row :
         row[i].id \in DOMAIN shown /\ Alive(row[i]) =>
           row[i].id \in ToSet(queue) \/ \E k \in DOMAIN acted : acted[k][1] = row[i].id
    /\ \A i \in DOMAIN row :
         warp = "none" \/ (row[i].kind = "TimeEater" /\ row[i].id \in DOMAIN shown)

\* The inductive invariant.
IInv == TypeOK /\ RowInv(row) /\ TurnInv

------------------------------------------------------------------------------
(* What a step leaves of a row *)

\* n is what a monster m that does not act becomes: it may fall, a Healer may
\* mend it, and a half-dead Darkling may be dead for good.
Idle(m, n) ==
  /\ n.id = m.id /\ n.kind = m.kind /\ n.slot = m.slot
  /\ n.intent = m.intent /\ n.hist = m.hist /\ n.moves = m.moves /\ n.did = m.did
  /\ Alive(n) => Alive(m)
  /\ n.mode = m.mode \/ (m.kind = "Darkling" /\ ~Alive(n) /\ n.mode = 0)

\* Everyone of q is still in r, and only x may have acted.
Evolves(q, r, x) ==
  \A i \in DOMAIN q : \E j \in DOMAIN r :
    /\ r[j].id = q[i].id /\ r[j].kind = q[i].kind
    /\ q[i].id # x => Idle(q[i], r[j])

\* r is a row on the way from q to the next while x acts.
Stands(r, x, q) ==
  /\ IsRow(r) /\ x \in Ids(r)
  /\ Evolves(q, r, x)
  /\ \A i \in DOMAIN r : r[i].id # x => Fit(r[i])
  /\ Served(r) /\ Linked(r)

------------------------------------------------------------------------------
(* Numbers and sequences *)

\* The greatest and the least of a finite set of numbers.
LEMMA MaxIsGreatest ==
  ASSUME NEW S \in SUBSET Nat, IsFiniteSet(S), S # {}
  PROVE  Max(S) \in S /\ \A y \in S : Max(S) >= y
<1> DEFINE n == Cardinality(S)
           below(i) == {j \in S : j <= i}
<1>1. n \in Nat /\ n # 0
  BY FS_CardinalityType, FS_EmptySet
<1>2. PICK i \in S : Cardinality(below(i)) = n
  <2>1. n \in 1..Cardinality(S)
    BY <1>1
  <2> QED BY <2>1, RankIsTaken
<1>3. below(i) = S
  <2>1. below(i) \subseteq S
    OBVIOUS
  <2> QED BY <2>1, <1>2, FS_Subset
<1>4. \A y \in S : i >= y
  BY <1>3
<1> QED BY <1>4 DEF Max

LEMMA MinIsLeast ==
  ASSUME NEW S \in SUBSET Nat, IsFiniteSet(S), S # {}
  PROVE  Min(S) \in S /\ \A y \in S : Min(S) <= y
<1> DEFINE below(i) == {j \in S : j <= i}
<1>1. Cardinality(S) \in Nat /\ Cardinality(S) # 0
  BY FS_CardinalityType, FS_EmptySet
<1>2. PICK i \in S : Cardinality(below(i)) = 1
  <2>1. 1 \in 1..Cardinality(S)
    BY <1>1
  <2> QED BY <2>1, RankIsTaken
<1>3. \A y \in S : i <= y
  <2> SUFFICES ASSUME NEW y \in S, ~(i <= y)
               PROVE  FALSE
    OBVIOUS
  <2>1. {i, y} \subseteq below(i) /\ IsFiniteSet(below(i))
    <3>1. below(i) \subseteq S
      OBVIOUS
    <3>2. y <= i /\ i <= i
      OBVIOUS
    <3> QED BY <3>1, <3>2, FS_Subset
  <2>2. Cardinality({i, y}) = 2
    <3>1. IsFiniteSet({i}) /\ Cardinality({i}) = 1
      BY FS_Singleton
    <3>2. y \notin {i} /\ {i} \cup {y} = {i, y}
      OBVIOUS
    <3> HIDE DEF below
    <3>3. Cardinality({i} \cup {y}) = Cardinality({i}) + 1
      BY <3>1, <3>2, FS_AddElement
    <3> QED BY <3>1, <3>2, <3>3
  <2> HIDE DEF below
  <2> QED BY <1>2, <2>1, <2>2, FS_Subset
<1> QED BY <1>3 DEF Min

\* Where the element that was at place i is once something went in at place p.
Shift(i, p) == IF i < p THEN i ELSE i + 1

\* What inserting one monster leaves of a row.
LEMMA InsertIs ==
  ASSUME NEW S, NEW s \in Seq(S), NEW m \in S, NEW p \in 1..Len(s) + 1
  PROVE  /\ InsertAt(s, p, m) \in Seq(S)
         /\ DOMAIN InsertAt(s, p, m) = 1..Len(s) + 1
         /\ Len(InsertAt(s, p, m)) = Len(s) + 1
         /\ InsertAt(s, p, m)[p] = m
         /\ \A i \in DOMAIN s :
              /\ Shift(i, p) \in DOMAIN InsertAt(s, p, m)
              /\ InsertAt(s, p, m)[Shift(i, p)] = s[i]
         /\ \A k \in DOMAIN InsertAt(s, p, m) :
              k = p \/ \E i \in DOMAIN s : k = Shift(i, p)
<1> DEFINE a == SubSeq(s, 1, p - 1)
           c == SubSeq(s, p, Len(s))
           t == a \o <<m>>
<1>1. /\ a \in Seq(S) /\ Len(a) = p - 1
      /\ \A i \in 1..p - 1 : a[i] = s[i]
  OBVIOUS
<1>2. /\ c \in Seq(S) /\ Len(c) = Len(s) + 1 - p
      /\ \A i \in 1..Len(s) + 1 - p : c[i] = s[p + i - 1]
  OBVIOUS
<1> HIDE DEF a, c
<1>3. /\ t \in Seq(S) /\ Len(t) = p /\ t[p] = m
      /\ \A i \in 1..p - 1 : t[i] = s[i]
  BY <1>1
<1> HIDE DEF t
<1> DEFINE u == t \o c
<1>4. /\ u \in Seq(S) /\ Len(u) = Len(s) + 1 /\ u[p] = m
      /\ \A i \in 1..p - 1 : u[i] = s[i]
      /\ \A i \in p..Len(s) : u[i + 1] = s[i]
  <2>1. u \in Seq(S) /\ Len(u) = Len(s) + 1
    BY <1>2, <1>3
  <2>2. \A i \in 1..p : u[i] = t[i]
    BY <1>2, <1>3
  <2>3. \A i \in 1..Len(s) + 1 - p : u[p + i] = c[i]
    BY <1>2, <1>3
  <2>4. ASSUME NEW i \in p..Len(s) PROVE u[i + 1] = s[i]
    <3>1. i + 1 - p \in 1..Len(s) + 1 - p
      OBVIOUS
    <3>2. u[p + (i + 1 - p)] = c[i + 1 - p] /\ c[i + 1 - p] = s[p + (i + 1 - p) - 1]
      BY <3>1, <2>3, <1>2
    <3>3. p + (i + 1 - p) = i + 1 /\ p + (i + 1 - p) - 1 = i
      OBVIOUS
    <3> QED BY <3>2, <3>3
  <2> QED BY <1>3, <2>1, <2>2, <2>4
<1>5. InsertAt(s, p, m) = u
  BY DEF InsertAt, u, t, a, c
<1> HIDE DEF u
<1>6. ASSUME NEW i \in DOMAIN s
      PROVE  Shift(i, p) \in 1..Len(s) + 1 /\ u[Shift(i, p)] = s[i]
  BY <1>4 DEF Shift
<1>7. ASSUME NEW k \in 1..Len(s) + 1, k # p
      PROVE  \E i \in DOMAIN s : k = Shift(i, p)
  <2>1. CASE k < p
    <3>1. k \in DOMAIN s /\ Shift(k, p) = k
      BY <2>1 DEF Shift
    <3> QED BY <3>1
  <2>2. CASE k > p
    <3>1. k - 1 \in DOMAIN s /\ Shift(k - 1, p) = k
      BY <2>2 DEF Shift
    <3> QED BY <3>1
  <2> QED BY <2>1, <2>2, <1>7
<1>8. DOMAIN u = 1..Len(s) + 1
  BY <1>4
<1> QED BY <1>4, <1>5, <1>6, <1>7, <1>8

\* Places keep their order, and the newborn stands before those it pushed.
LEMMA ShiftOrder ==
  ASSUME NEW i \in Nat, NEW j \in Nat, NEW p \in Nat
  PROVE  /\ i < j <=> Shift(i, p) < Shift(j, p)
         /\ i = j <=> Shift(i, p) = Shift(j, p)
         /\ Shift(i, p) # p
         /\ p <= j => p < Shift(j, p)
BY DEF Shift

------------------------------------------------------------------------------
(* Rows *)

LEMMA MonsterFields ==
  ASSUME NEW m \in Monster
  PROVE  /\ m.id \in Nat /\ m.kind \in Kinds /\ m.hp \in 0..2 /\ m.intent \in 0..8
         /\ m.hist \in Seq(0..8) /\ m.moves \in Nat /\ m.mode \in Int /\ m.slot \in -1..3
         /\ m.did \in Seq(0..8)
BY DEF Monster

LEMMA RowOf ==
  ASSUME NEW r, IsRow(r)
  PROVE  /\ r \in Seq(Monster) /\ Len(r) \in Nat /\ Len(r) > 0 /\ DOMAIN r = 1..Len(r)
         /\ \A i \in 1..Len(r) : r[i] \in Monster /\ r[i].id \in Nat
<1>1. r \in Seq(Monster) /\ r # <<>>
  BY DEF IsRow
<1>2. Len(r) \in Nat /\ Len(r) > 0 /\ DOMAIN r = 1..Len(r)
  BY <1>1
<1> QED BY <1>1, <1>2, MonsterFields

LEMMA RowInsert ==
  ASSUME NEW r \in Seq(Monster), NEW m \in Monster, NEW p \in 1..Len(r) + 1
  PROVE  /\ InsertAt(r, p, m) \in Seq(Monster)
         /\ DOMAIN InsertAt(r, p, m) = 1..Len(r) + 1
         /\ Len(InsertAt(r, p, m)) = Len(r) + 1
         /\ InsertAt(r, p, m)[p] = m
         /\ \A i \in DOMAIN r :
              /\ Shift(i, p) \in DOMAIN InsertAt(r, p, m)
              /\ InsertAt(r, p, m)[Shift(i, p)] = r[i]
         /\ \A k \in DOMAIN InsertAt(r, p, m) :
              k = p \/ \E i \in DOMAIN r : k = Shift(i, p)
BY InsertIs

\* Ids are distinct, so Place finds the monster with an id.
LEMMA PlaceIs ==
  ASSUME NEW r, IsRow(r), NEW i \in DOMAIN r
  PROVE  Place(r, r[i].id) = i
BY DEF IsRow, Place

LEMMA PlaceOf ==
  ASSUME NEW r, IsRow(r), NEW x \in Ids(r)
  PROVE  Place(r, x) \in DOMAIN r /\ r[Place(r, x)].id = x
<1>1. PICK i \in DOMAIN r : r[i].id = x
  BY DEF Ids
<1> QED BY <1>1, PlaceIs

\* Changing the monsters where they stand.
LEMMA SameRow ==
  ASSUME NEW r, IsRow(r), NEW s, DOMAIN s = DOMAIN r,
         s = [i \in DOMAIN r |-> s[i]],
         \A i \in DOMAIN r : s[i] \in Monster /\ s[i].id = r[i].id
  PROVE  IsRow(s) /\ Ids(s) = Ids(r)
<1>1. s \in Seq(Monster) /\ s # <<>>
  <2>1. r \in Seq(Monster) /\ r # <<>> /\ DOMAIN r = 1..Len(r) /\ Len(r) \in Nat
    BY DEF IsRow
  <2>2. s \in [1..Len(r) -> Monster]
    BY <2>1
  <2>3. Len(r) # 0
    BY <2>1
  <2> QED BY <2>2, <2>1, <2>3
<1>2. \A i, j \in DOMAIN s : s[i].id = s[j].id => i = j
  BY DEF IsRow
<1>3. Ids(s) = Ids(r)
  BY DEF Ids
<1> QED BY <1>1, <1>2, <1>3 DEF IsRow

\* Put changes the monster it writes and no other.
LEMMA PutIs ==
  ASSUME NEW r, IsRow(r), NEW m \in Monster, m.id \in Ids(r)
  PROVE  /\ IsRow(Put(r, m)) /\ Ids(Put(r, m)) = Ids(r)
         /\ DOMAIN Put(r, m) = DOMAIN r
         /\ Put(r, m) = [i \in DOMAIN r |-> Put(r, m)[i]]
         /\ \A i \in DOMAIN r : Put(r, m)[i] \in Monster /\ Put(r, m)[i].id = r[i].id
         /\ \A i \in DOMAIN r : r[i].id # m.id => Put(r, m)[i] = r[i]
         /\ \A i \in DOMAIN r : r[i].id = m.id => Put(r, m)[i] = m
         /\ Put(r, m)[Place(Put(r, m), m.id)] = m
         /\ Place(Put(r, m), m.id) = Place(r, m.id)
<1> DEFINE s == Put(r, m)
<1>1. /\ DOMAIN s = DOMAIN r /\ s = [i \in DOMAIN r |-> s[i]]
      /\ \A i \in DOMAIN r : r[i].id # m.id => s[i] = r[i]
      /\ \A i \in DOMAIN r : r[i].id = m.id => s[i] = m
  BY DEF Put
<1> HIDE DEF s
<1>2. \A i \in DOMAIN r : s[i] \in Monster /\ s[i].id = r[i].id
  BY <1>1 DEF IsRow
<1>3. IsRow(s) /\ Ids(s) = Ids(r)
  BY <1>1, <1>2, SameRow
<1>4. Place(r, m.id) \in DOMAIN r /\ r[Place(r, m.id)].id = m.id
  BY PlaceOf
<1>5. Place(s, m.id) = Place(r, m.id)
  BY <1>1, <1>3, <1>4, PlaceIs
<1> QED BY <1>1, <1>2, <1>3, <1>4, <1>5 DEF s

------------------------------------------------------------------------------
(* What the others become *)

LEMMA IdleSelf ==
  ASSUME NEW m
  PROVE  Idle(m, m)
BY DEF Idle

LEMMA IdleTrans ==
  ASSUME NEW m, NEW n, NEW o, Idle(m, n), Idle(n, o)
  PROVE  Idle(m, o)
BY DEF Idle

\* A monster that does not act stays fit: the move it shows remains one it may perform.
LEMMA IdleFit ==
  ASSUME NEW m \in Monster, NEW n \in Monster, Idle(m, n), Fit(m)
  PROVE  Fit(n)
<1>1. /\ n.kind = m.kind /\ n.intent = m.intent /\ n.hist = m.hist /\ n.did = m.did
      /\ n.moves = m.moves /\ (Alive(n) => Alive(m))
      /\ n.mode = m.mode \/ (m.kind = "Darkling" /\ n.mode = 0)
  BY DEF Idle
<1>2. Marked(n)
  <2>1. n.mode \in Modes(n.kind)
    BY <1>1 DEF Fit, Marked, Modes, Splitting
  <2>2. HalfDead(n) => ~Alive(n)
    BY <1>1 DEF Fit, Marked, HalfDead
  <2>3. ASSUME NEW b \in ToSet(n.did), <<n.kind, b>> \in Once \cup {<<"AwakenedOne", 3>>}
        PROVE  UsedUp(n, b)
    <3>1. UsedUp(m, b)
      BY <1>1, <2>3 DEF Fit, Marked
    <3>2. m.kind # "Darkling"
      BY <1>1, <2>3 DEF Once
    <3> QED BY <1>1, <3>1, <3>2 DEF UsedUp
  <2>4. WithinLimits(n.kind, n.did)
    BY <1>1 DEF Fit, Marked
  <2> QED BY <2>1, <2>2, <2>3, <2>4 DEF Marked
<1>3. ASSUME Alive(n) \/ HalfDead(n)
      PROVE  Ready(n)
  <2>1. Alive(m) \/ HalfDead(m)
    BY <1>1, <1>3 DEF HalfDead
  <2>2. Ready(m)
    BY <2>1 DEF Fit
  <2> QED BY <1>1, <2>2 DEF Ready
<1> QED BY <1>2, <1>3 DEF Fit

LEMMA EvolvesOn ==
  ASSUME NEW q, NEW r, NEW s, NEW x, Evolves(q, r, x), Evolves(r, s, x)
  PROVE  Evolves(q, s, x)
<1> SUFFICES ASSUME NEW i \in DOMAIN q
             PROVE  \E k \in DOMAIN s : /\ s[k].id = q[i].id /\ s[k].kind = q[i].kind
                                        /\ q[i].id # x => Idle(q[i], s[k])
  BY DEF Evolves
<1>1. PICK j \in DOMAIN r : /\ r[j].id = q[i].id /\ r[j].kind = q[i].kind
                            /\ q[i].id # x => Idle(q[i], r[j])
  BY DEF Evolves
<1>2. PICK k \in DOMAIN s : /\ s[k].id = r[j].id /\ s[k].kind = r[j].kind
                            /\ r[j].id # x => Idle(r[j], s[k])
  BY DEF Evolves
<1>3. q[i].id # x => Idle(q[i], s[k])
  BY <1>1, <1>2, IdleTrans
<1> QED BY <1>1, <1>2, <1>3

\* A row between two steps is on the way while any of its monsters acts ...
LEMMA StandsFirst ==
  ASSUME NEW r, RowInv(r), NEW x \in Ids(r)
  PROVE  Stands(r, x, r)
<1>1. Evolves(r, r, x)
  BY IdleSelf DEF Evolves
<1> QED BY <1>1 DEF RowInv, Stands

\* ... and is a row between two steps again once the one that acted is fit.
LEMMA StandsLast ==
  ASSUME NEW r, NEW x, NEW q, Stands(r, x, q), Fit(r[Place(r, x)])
  PROVE  RowInv(r)
<1>1. \A i \in DOMAIN r : r[i].id = x => i = Place(r, x)
  BY PlaceIs DEF Stands
<1> QED BY <1>1 DEF Stands, RowInv

------------------------------------------------------------------------------
(* Changes of the monsters where they stand *)

LEMMA Felled ==
  ASSUME NEW m \in Monster
  PROVE  LET n == [m EXCEPT !.hp = 0] IN
         /\ n \in Monster /\ n.id = m.id /\ n.kind = m.kind /\ n.slot = m.slot
         /\ n.intent = m.intent /\ n.hist = m.hist /\ n.moves = m.moves
         /\ n.did = m.did /\ n.mode = m.mode /\ n.hp = 0
<1> DEFINE n == [m EXCEPT !.hp = 0]
<1>1. n \in Monster
  <2>1. 0 \in 0..2
    OBVIOUS
  <2> QED BY <2>1 DEF Monster
<1>2. /\ n.id = m.id /\ n.kind = m.kind /\ n.slot = m.slot
      /\ n.intent = m.intent /\ n.hist = m.hist /\ n.moves = m.moves
      /\ n.did = m.did /\ n.mode = m.mode /\ n.hp = 0
  BY DEF Monster
<1> QED BY <1>1, <1>2

LEMMA Healed ==
  ASSUME NEW m \in Monster
  PROVE  LET n == [m EXCEPT !.hp = 2] IN
         /\ n \in Monster /\ n.id = m.id /\ n.kind = m.kind /\ n.slot = m.slot
         /\ n.intent = m.intent /\ n.hist = m.hist /\ n.moves = m.moves
         /\ n.did = m.did /\ n.mode = m.mode /\ n.hp = 2
<1> DEFINE n == [m EXCEPT !.hp = 2]
<1>1. n \in Monster
  <2>1. 2 \in 0..2
    OBVIOUS
  <2> QED BY <2>1 DEF Monster
<1>2. /\ n.id = m.id /\ n.kind = m.kind /\ n.slot = m.slot
      /\ n.intent = m.intent /\ n.hist = m.hist /\ n.moves = m.moves
      /\ n.did = m.did /\ n.mode = m.mode /\ n.hp = 2
  BY DEF Monster
<1> QED BY <1>1, <1>2

LEMMA WithMode ==
  ASSUME NEW m \in Monster, NEW v \in Int
  PROVE  LET n == [m EXCEPT !.mode = v] IN
         /\ n \in Monster /\ n.id = m.id /\ n.kind = m.kind /\ n.slot = m.slot
         /\ n.intent = m.intent /\ n.hist = m.hist /\ n.moves = m.moves
         /\ n.did = m.did /\ n.mode = v /\ n.hp = m.hp
<1> DEFINE n == [m EXCEPT !.mode = v]
<1>1. n \in Monster
  <2>1. v \in Int
    OBVIOUS
  <2> QED BY <2>1 DEF Monster
<1>2. /\ n.id = m.id /\ n.kind = m.kind /\ n.slot = m.slot
      /\ n.intent = m.intent /\ n.hist = m.hist /\ n.moves = m.moves
      /\ n.did = m.did /\ n.mode = v /\ n.hp = m.hp
  BY DEF Monster
<1> QED BY <1>1, <1>2

AllMinions == Gremlins \cup {"Dagger", "TorchHead"}

\* The kinds that serve have no minions of their own.
LEMMA MinionsAre ==
  ASSUME NEW kind
  PROVE  /\ Minions(kind) \subseteq AllMinions
         /\ kind \notin Masters => Minions(kind) = {}
         /\ kind \in Masters => kind \notin AllMinions
         /\ kind \notin Minions(kind)
         /\ "Darkling" \notin Minions(kind) \cup Masters
BY DEF Minions, AllMinions, Masters, Gremlins

\* Who serves whom does not change when the monsters keep their places, no minion rises
\* and no master falls alone.
LEMMA SameServed ==
  ASSUME NEW r, Served(r), NEW s, DOMAIN s = DOMAIN r,
         \A i \in DOMAIN r :
           /\ s[i].id = r[i].id /\ s[i].kind = r[i].kind /\ s[i].slot = r[i].slot
           /\ r[i].kind \in AllMinions /\ Alive(s[i]) => Alive(r[i])
           /\ r[i].kind \in Masters /\ ~Alive(s[i]) =>
                \/ ~Alive(r[i])
                \/ \A j \in DOMAIN r : r[j].kind \in Minions(r[i].kind) => ~Alive(s[j])
  PROVE  Served(s)
<1> SUFFICES ASSUME NEW l \in DOMAIN s, s[l].kind \in Masters, NEW i \in DOMAIN s
             PROVE  /\ s[i].kind \in Masters => i = l
                    /\ s[i].slot >= 0 => s[i].kind \in Minions(s[l].kind)
                    /\ s[i].kind \in Minions(s[l].kind) =>
                         /\ s[i].slot \in Slots(s[l].kind)
                         /\ Alive(s[i]) => Alive(s[l])
                         /\ s[l].kind = "GremlinLeader" => i < l
                         /\ \A j \in DOMAIN s : /\ s[j].kind \in Minions(s[l].kind)
                                                /\ s[j].slot = s[i].slot
                                                /\ s[j].id < s[i].id
                                                => ~Alive(s[j])
  BY DEF Served
<1>1. /\ r[i].kind \in Masters => i = l
      /\ r[i].slot >= 0 => r[i].kind \in Minions(r[l].kind)
      /\ r[i].kind \in Minions(r[l].kind) =>
           /\ r[i].slot \in Slots(r[l].kind)
           /\ Alive(r[i]) => Alive(r[l])
           /\ r[l].kind = "GremlinLeader" => i < l
           /\ \A j \in DOMAIN r : /\ r[j].kind \in Minions(r[l].kind)
                                  /\ r[j].slot = r[i].slot
                                  /\ r[j].id < r[i].id
                                  => ~Alive(r[j])
  BY DEF Served
<1> QED BY <1>1, MinionsAre

LEMMA SameStands ==
  ASSUME NEW r, NEW x, NEW q, Stands(r, x, q),
         NEW s, DOMAIN s = DOMAIN r, s = [i \in DOMAIN r |-> s[i]],
         \A i \in DOMAIN r :
           /\ s[i] \in Monster /\ s[i].id = r[i].id /\ s[i].kind = r[i].kind
           /\ r[i].id # x => Idle(r[i], s[i]),
         Served(s), Linked(s)
  PROVE  Stands(s, x, q) /\ Place(s, x) = Place(r, x)
<1>1. IsRow(s) /\ Ids(s) = Ids(r)
  BY SameRow DEF Stands
<1>2. Evolves(r, s, x)
  BY DEF Evolves
<1>3. Evolves(q, s, x)
  BY <1>2, EvolvesOn DEF Stands
<1>4. ASSUME NEW i \in DOMAIN s, s[i].id # x
      PROVE  Fit(s[i])
  <2>1. r[i] \in Monster /\ s[i] \in Monster /\ Fit(r[i]) /\ Idle(r[i], s[i])
    BY <1>4 DEF Stands, IsRow
  <2> QED BY <2>1, IdleFit
<1>5. Place(r, x) \in DOMAIN r /\ r[Place(r, x)].id = x
  BY PlaceOf DEF Stands
<1>6. Place(s, x) = Place(r, x)
  BY <1>1, <1>5, PlaceIs
<1> QED BY <1>1, <1>3, <1>4, <1>6 DEF Stands

\* What the monster that acts may become, o before and m after.
Becomes(o, m) ==
  /\ m \in Monster /\ m.id = o.id /\ m.kind = o.kind /\ m.slot = o.slot
  /\ m.kind \in AllMinions /\ Alive(m) => Alive(o)
  /\ m.kind = "Darkling" => /\ Alive(o) \/ HalfDead(o)
                            /\ Alive(m) \/ HalfDead(m)

\* A Darkling that falls alone is half dead, as long as another one stands.
LEMMA PutLinked ==
  ASSUME NEW r, IsRow(r), Linked(r), NEW p \in DOMAIN r, NEW s, DOMAIN s = DOMAIN r,
         NEW m, Becomes(r[p], m), s[p] = m,
         \A i \in DOMAIN r : s[i].kind = r[i].kind,
         \A i \in DOMAIN r : i # p /\ r[i].kind = "Darkling" => s[i] = r[i]
  PROVE  Linked(s)
<1>1. CASE r[p].kind = "Darkling"
  <2>1. /\ Alive(r[p]) \/ HalfDead(r[p])
        /\ Alive(m) \/ HalfDead(m)
    BY <1>1 DEF Becomes
  <2>2. \A i \in DOMAIN r : r[i].kind = "Darkling" => Alive(r[i]) \/ HalfDead(r[i])
    BY <1>1, <2>1 DEF Linked, HalfDead
  <2> QED BY <2>1, <2>2 DEF Linked
<1>2. CASE r[p].kind # "Darkling"
  <2>1. \A i \in DOMAIN r : s[i].kind = "Darkling" => s[i] = r[i] /\ r[i].kind = "Darkling"
    BY <1>2
  <2> QED BY <2>1 DEF Linked
<1> QED BY <1>1, <1>2

\* Writing one monster back is a step on the way.
LEMMA PutStands ==
  ASSUME NEW r, NEW x, NEW q, Stands(r, x, q), NEW m, Becomes(r[Place(r, x)], m),
         m.kind \in Masters /\ ~Alive(m) => ~Alive(r[Place(r, x)])
  PROVE  /\ Stands(Put(r, m), x, q)
         /\ Put(r, m)[Place(r, x)] = m
         /\ Place(Put(r, m), x) = Place(r, x)
         /\ DOMAIN Put(r, m) = DOMAIN r
         /\ \A i \in DOMAIN r : r[i].id # x => Put(r, m)[i] = r[i]
<1> DEFINE s == Put(r, m)
           p == Place(r, x)
<1>1. p \in DOMAIN r /\ r[p].id = x /\ IsRow(r) /\ Served(r) /\ Linked(r)
  BY PlaceOf DEF Stands
<1>2. \A i \in DOMAIN r : r[i].id = x => i = p
  BY <1>1, PlaceIs
<1>3. m \in Monster /\ m.id = x /\ m.kind = r[p].kind /\ m.slot = r[p].slot
  BY <1>1 DEF Becomes
<1>4. /\ DOMAIN s = DOMAIN r /\ s = [i \in DOMAIN r |-> s[i]]
      /\ \A i \in DOMAIN r : s[i] \in Monster /\ s[i].id = r[i].id
      /\ \A i \in DOMAIN r : r[i].id # x => s[i] = r[i]
      /\ s[p] = m
  BY <1>1, <1>3, PutIs DEF Stands
<1> HIDE DEF s, p
<1>5. \A i \in DOMAIN r : i = p \/ s[i] = r[i]
  BY <1>2, <1>4
<1>6. \A i \in DOMAIN r :
        /\ s[i].id = r[i].id /\ s[i].kind = r[i].kind /\ s[i].slot = r[i].slot
        /\ r[i].kind \in AllMinions /\ Alive(s[i]) => Alive(r[i])
        /\ r[i].kind \in Masters /\ ~Alive(s[i]) => ~Alive(r[i])
  BY <1>1, <1>3, <1>4, <1>5 DEF Becomes, p
<1>7. Served(s)
  BY <1>1, <1>4, <1>6, SameServed
<1>8. Linked(s)
  <2>1. \A i \in DOMAIN r : i # p /\ r[i].kind = "Darkling" => s[i] = r[i]
    BY <1>5
  <2>2. Becomes(r[p], m)
    BY DEF p
  <2> QED BY <1>1, <1>4, <1>6, <2>1, <2>2, PutLinked
<1>9. Stands(s, x, q) /\ Place(s, x) = Place(r, x)
  <2>1. \A i \in DOMAIN r : r[i].id # x => Idle(r[i], s[i])
    BY <1>4, IdleSelf
  <2> QED BY <1>4, <1>6, <1>7, <1>8, <2>1, SameStands
<1> QED BY <1>4, <1>9 DEF s, p

\* A master that falls takes its minions with it (settle_dead_minions).
LEMMA SettledStands ==
  ASSUME NEW r, NEW x, NEW q, Stands(r, x, q), NEW m, Becomes(r[Place(r, x)], m)
  PROVE  /\ Stands(Settled(r, m), x, q)
         /\ Settled(r, m)[Place(r, x)] = m
         /\ Place(Settled(r, m), x) = Place(r, x)
<1> DEFINE p == Place(r, x)
           s == Settled(r, m)
           t == Put(r, m)
<1>1. CASE Alive(m)
  BY <1>1, PutStands DEF Settled
<1>2. CASE ~Alive(m)
  <2>1. p \in DOMAIN r /\ r[p].id = x /\ IsRow(r) /\ Served(r) /\ Linked(r)
    BY PlaceOf DEF Stands
  <2>2. \A i \in DOMAIN r : r[i].id = x => i = p
    BY <2>1, PlaceIs
  <2>3. m \in Monster /\ m.id = x /\ m.kind = r[p].kind /\ m.slot = r[p].slot
    BY <2>1 DEF Becomes
  <2>4. /\ DOMAIN t = DOMAIN r
        /\ \A i \in DOMAIN r : t[i] \in Monster
        /\ \A i \in DOMAIN r : r[i].id # x => t[i] = r[i]
        /\ t[p] = m
    BY <2>1, <2>3, PutIs DEF Stands
  <2>5. s = [i \in DOMAIN t |-> IF t[i].kind \in Minions(m.kind)
                                THEN [t[i] EXCEPT !.hp = 0] ELSE t[i]]
    BY <1>2 DEF Settled, MinionsFall
  <2> HIDE DEF s, p, t
  <2>6. /\ DOMAIN s = DOMAIN r /\ s = [i \in DOMAIN r |-> s[i]] /\ s[p] = m
        /\ \A i \in DOMAIN r : i # p =>
             s[i] = IF r[i].kind \in Minions(m.kind) THEN [r[i] EXCEPT !.hp = 0] ELSE r[i]
    BY <2>1, <2>2, <2>4, <2>5, MinionsAre
  <2>7. ASSUME NEW i \in DOMAIN r, i # p
        PROVE  /\ s[i] \in Monster /\ Idle(r[i], s[i])
               /\ s[i].id = r[i].id /\ s[i].kind = r[i].kind /\ s[i].slot = r[i].slot
               /\ Alive(s[i]) => Alive(r[i])
               /\ r[i].kind \notin AllMinions => s[i] = r[i]
               /\ r[i].kind \in Minions(m.kind) => ~Alive(s[i])
    <3>1. r[i] \in Monster
      BY <2>1 DEF IsRow
    <3>2. CASE r[i].kind \in Minions(m.kind)
      <4>1. s[i] = [r[i] EXCEPT !.hp = 0] /\ r[i].kind \in AllMinions
        BY <2>6, <2>7, <3>2, MinionsAre
      <4>2. /\ s[i] \in Monster
            /\ s[i].id = r[i].id /\ s[i].kind = r[i].kind /\ s[i].slot = r[i].slot
            /\ s[i].intent = r[i].intent /\ s[i].hist = r[i].hist /\ s[i].moves = r[i].moves
            /\ s[i].did = r[i].did /\ s[i].mode = r[i].mode /\ s[i].hp = 0
        BY <3>1, <4>1, Felled
      <4>3. ~Alive(s[i])
        BY <4>2 DEF Alive
      <4> QED BY <4>1, <4>2, <4>3 DEF Idle
    <3>3. CASE r[i].kind \notin Minions(m.kind)
      BY <2>6, <2>7, <3>1, <3>3, IdleSelf
    <3> QED BY <3>2, <3>3
  <2>8. \A i \in DOMAIN r : s[i].id = r[i].id /\ s[i].kind = r[i].kind /\ s[i] \in Monster
    BY <2>1, <2>3, <2>6, <2>7
  <2>9. Served(s)
    <3>1. ASSUME NEW i \in DOMAIN r
          PROVE  /\ s[i].slot = r[i].slot
                 /\ r[i].kind \in AllMinions /\ Alive(s[i]) => Alive(r[i])
                 /\ r[i].kind \in Masters /\ ~Alive(s[i]) =>
                      \/ ~Alive(r[i])
                      \/ \A j \in DOMAIN r : r[j].kind \in Minions(r[i].kind) => ~Alive(s[j])
      <4>1. CASE i = p
        <5>1. \A j \in DOMAIN r : r[j].kind \in Minions(r[p].kind) => j # p
          BY MinionsAre
        <5>2. \A j \in DOMAIN r : r[j].kind \in Minions(r[p].kind) => ~Alive(s[j])
          BY <2>3, <2>7, <5>1
        <5> QED BY <4>1, <2>3, <2>6, <5>2, <1>2
      <4>2. CASE i # p
        <5>1. r[i].kind \in Masters => s[i] = r[i]
          BY <4>2, <2>7, MinionsAre
        <5> QED BY <4>2, <2>7, <5>1
      <4> QED BY <4>1, <4>2
    <3> QED BY <2>1, <2>6, <2>8, <3>1, SameServed
  <2>10. Linked(s)
    <3>1. \A i \in DOMAIN r : i # p /\ r[i].kind = "Darkling" => s[i] = r[i]
      BY <2>7 DEF AllMinions, Gremlins
    <3>2. Becomes(r[p], m)
      BY DEF p
    <3> QED BY <2>1, <2>6, <2>8, <3>1, <3>2, PutLinked
  <2>11. Stands(s, x, q) /\ Place(s, x) = Place(r, x)
    <3>1. \A i \in DOMAIN r : r[i].id # x => Idle(r[i], s[i])
      BY <2>1, <2>7
    <3> QED BY <2>6, <2>8, <2>9, <2>10, <3>1, SameStands
  <2> QED BY <2>6, <2>11 DEF s, p
<1> QED BY <1>1, <1>2

\* The last Darkling to fall takes the half-dead ones with it.
LEMMA LinkStands ==
  ASSUME NEW r, NEW x, NEW q, Stands(r, x, q)
  PROVE  /\ Stands(LifeLink(r), x, q)
         /\ Place(LifeLink(r), x) = Place(r, x)
         /\ Idle(r[Place(r, x)], LifeLink(r)[Place(r, x)])
         /\ DOMAIN LifeLink(r) = DOMAIN r
         /\ \A i \in DOMAIN r : Idle(r[i], LifeLink(r)[i])
<1> DEFINE s == LifeLink(r)
<1>1. IsRow(r) /\ Served(r) /\ Linked(r) /\ Place(r, x) \in DOMAIN r
  BY PlaceOf DEF Stands
<1>2. CASE \A i \in DOMAIN r : r[i].kind = "Darkling" => ~Alive(r[i]) /\ HalfDead(r[i])
  <2>1. s = [i \in DOMAIN r |-> IF r[i].kind = "Darkling" THEN [r[i] EXCEPT !.mode = 0] ELSE r[i]]
    BY <1>2 DEF LifeLink
  <2> HIDE DEF s
  <2>2. ASSUME NEW i \in DOMAIN r
        PROVE  /\ s[i] \in Monster /\ s[i].id = r[i].id /\ s[i].kind = r[i].kind
               /\ s[i].slot = r[i].slot /\ s[i].hp = r[i].hp /\ Idle(r[i], s[i])
               /\ r[i].kind = "Darkling" => s[i].mode = 0 /\ ~Alive(s[i])
    <3>1. r[i] \in Monster
      BY <1>1 DEF IsRow
    <3>2. CASE r[i].kind = "Darkling"
      <4>1. s[i] = [r[i] EXCEPT !.mode = 0] /\ ~Alive(r[i])
        BY <1>2, <2>1, <3>2
      <4>2. /\ s[i] \in Monster
            /\ s[i].id = r[i].id /\ s[i].kind = r[i].kind /\ s[i].slot = r[i].slot
            /\ s[i].intent = r[i].intent /\ s[i].hist = r[i].hist /\ s[i].moves = r[i].moves
            /\ s[i].did = r[i].did /\ s[i].mode = 0 /\ s[i].hp = r[i].hp
        BY <3>1, <4>1, WithMode
      <4> QED BY <3>2, <4>1, <4>2 DEF Idle, Alive
    <3>3. CASE r[i].kind # "Darkling"
      BY <2>1, <3>1, <3>3, IdleSelf
    <3> QED BY <3>2, <3>3
  <2>3. DOMAIN s = DOMAIN r /\ s = [i \in DOMAIN r |-> s[i]]
    BY <2>1
  <2>4. Served(s)
    BY <1>1, <2>2, <2>3, SameServed DEF Alive
  <2>5. Linked(s)
    BY <2>2, <2>3 DEF Linked
  <2>6. Stands(s, x, q) /\ Place(s, x) = Place(r, x)
    BY <2>2, <2>3, <2>4, <2>5, SameStands
  <2> QED BY <1>1, <2>2, <2>3, <2>6 DEF s
<1>3. CASE ~\A i \in DOMAIN r : r[i].kind = "Darkling" => ~Alive(r[i]) /\ HalfDead(r[i])
  <2>1. s = r
    BY <1>3 DEF LifeLink
  <2> QED BY <2>1, <1>1, IdleSelf
<1> QED BY <1>2, <1>3

\* A Healer mends whoever still lives.
LEMMA MendStands ==
  ASSUME NEW r, NEW x, NEW q, Stands(r, x, q), NEW s \in Mended(r)
  PROVE  /\ Stands(s, x, q)
         /\ Place(s, x) = Place(r, x)
         /\ \A i \in DOMAIN r : Idle(r[i], s[i]) /\ (Alive(r[i]) <=> Alive(s[i]))
<1>1. IsRow(r) /\ Served(r) /\ Linked(r) /\ Place(r, x) \in DOMAIN r
  BY PlaceOf DEF Stands
<1>2. PICK some \in SUBSET {i \in DOMAIN r : r[i].hp = 1} :
        s = [i \in DOMAIN r |-> IF i \in some THEN [r[i] EXCEPT !.hp = 2] ELSE r[i]]
  BY DEF Mended
<1>3. ASSUME NEW i \in DOMAIN r
      PROVE  /\ s[i] \in Monster /\ s[i].id = r[i].id /\ s[i].kind = r[i].kind
             /\ s[i].slot = r[i].slot /\ s[i].mode = r[i].mode /\ Idle(r[i], s[i])
             /\ Alive(r[i]) <=> Alive(s[i])
  <2>1. r[i] \in Monster
    BY <1>1 DEF IsRow
  <2>2. CASE i \in some
    <3>1. s[i] = [r[i] EXCEPT !.hp = 2] /\ r[i].hp = 1
      BY <1>2, <2>2
    <3>2. /\ s[i] \in Monster
          /\ s[i].id = r[i].id /\ s[i].kind = r[i].kind /\ s[i].slot = r[i].slot
          /\ s[i].intent = r[i].intent /\ s[i].hist = r[i].hist /\ s[i].moves = r[i].moves
          /\ s[i].did = r[i].did /\ s[i].mode = r[i].mode /\ s[i].hp = 2
      BY <2>1, <3>1, Healed
    <3> QED BY <3>1, <3>2 DEF Idle, Alive
  <2>3. CASE i \notin some
    BY <1>2, <2>1, <2>3, IdleSelf
  <2> QED BY <2>2, <2>3
<1>4. DOMAIN s = DOMAIN r /\ s = [i \in DOMAIN r |-> s[i]]
  BY <1>2
<1>5. Served(s)
  BY <1>1, <1>3, <1>4, SameServed
<1>6. Linked(s)
  BY <1>1, <1>3, <1>4 DEF Linked, HalfDead
<1>7. Stands(s, x, q) /\ Place(s, x) = Place(r, x)
  BY <1>3, <1>4, <1>5, <1>6, SameStands
<1> QED BY <1>3, <1>7

------------------------------------------------------------------------------
(* Announcing a move *)

\* Searching a history is membership in it.
LEMMA UsedIs ==
  ASSUME NEW h \in Seq(0..8), NEW b
  PROVE  /\ Used(h, b) <=> b \in ToSet(h)
         /\ Times(h, b) \in Nat
         /\ Times(h, b) = Cardinality({i \in 1..Len(h) : h[i] = b})
<1> DEFINE at == {i \in DOMAIN h : h[i] = b}
<1>1. DOMAIN h = 1..Len(h) /\ Len(h) \in Nat
  OBVIOUS
<1>2. IsFiniteSet(at)
  <2>1. IsFiniteSet(1..Len(h))
    BY <1>1, FS_Interval
  <2>2. at \in SUBSET 1..Len(h)
    BY <1>1
  <2> QED BY <2>1, <2>2, FS_Subset
<1>3. at = {} <=> b \notin ToSet(h)
  BY DEF ToSet
<1> HIDE DEF at
<1>4. Cardinality(at) \in Nat /\ (Cardinality(at) = 0 <=> at = {})
  BY <1>2, FS_CardinalityType, FS_EmptySet
<1>5. Times(h, b) = Cardinality(at)
  BY DEF Times, at
<1> QED BY <1>1, <1>3, <1>4, <1>5 DEF Used, at

LEMMA AppendIs ==
  ASSUME NEW h \in Seq(0..8), NEW b \in 0..8, NEW c
  PROVE  /\ Append(h, b) \in Seq(0..8) /\ Len(Append(h, b)) = Len(h) + 1 /\ Len(h) \in Nat
         /\ Append(h, b) # <<>>
         /\ Append(h, b)[Len(h) + 1] = b
         /\ \A i \in 1..Len(h) : Append(h, b)[i] = h[i]
         /\ LastMove(Append(h, b), c) <=> b = c
         /\ LastMoveBefore(Append(h, b), c) <=> LastMove(h, c)
         /\ Used(Append(h, b), c) <=> c = b \/ Used(h, c)
         /\ c \in ToSet(Append(h, b)) <=> c = b \/ c \in ToSet(h)
<1> DEFINE t == Append(h, b)
<1>1. /\ t \in Seq(0..8) /\ Len(t) = Len(h) + 1 /\ Len(h) \in Nat /\ t # <<>>
      /\ t[Len(h) + 1] = b /\ \A i \in 1..Len(h) : t[i] = h[i]
  OBVIOUS
<1>2. ToSet(t) = ToSet(h) \cup {b}
  BY SetOfAppend
<1> HIDE DEF t
<1>3. LastMove(t, c) <=> b = c
  BY <1>1 DEF LastMove
<1>4. LastMoveBefore(t, c) <=> LastMove(h, c)
  <2>1. CASE h = <<>>
    BY <1>1, <2>1 DEF LastMoveBefore, LastMove
  <2>2. CASE h # <<>>
    <3>1. Len(h) \in 1..Len(h) /\ Len(t) > 1 /\ Len(t) - 1 = Len(h)
      BY <1>1, <2>2
    <3> QED BY <1>1, <2>2, <3>1 DEF LastMoveBefore, LastMove
  <2> QED BY <2>1, <2>2
<1>5. Used(t, c) <=> c = b \/ Used(h, c)
  BY <1>1, <1>2, UsedIs
<1> QED BY <1>1, <1>2, <1>3, <1>4, <1>5 DEF t

LEMMA AnnounceIs ==
  ASSUME NEW m \in Monster, NEW b \in 0..8, NEW n, n = Announce(m, b)
  PROVE  /\ n \in Monster /\ n.id = m.id /\ n.kind = m.kind /\ n.slot = m.slot
         /\ n.intent = b /\ n.moves = m.moves
         /\ n.did = m.did /\ n.mode = m.mode /\ n.hp = m.hp
<1>1. m.hist \in Seq(0..8)
  BY DEF Monster
<1>2. Append(m.hist, b) \in Seq(0..8)
  BY <1>1
<1> QED BY <1>2 DEF Monster, Announce

LEMMA AnnounceHist ==
  ASSUME NEW m \in Monster, NEW b \in 0..8, NEW n, n = Announce(m, b)
  PROVE  n.hist = Append(m.hist, b)
BY DEF Monster, Announce

------------------------------------------------------------------------------
(* The newborn *)

\* The kinds that may join a row.
BornKinds ==
  Gremlins \cup {"TorchHead", "Dagger", "BronzeOrb", "LargeSpike", "LargeAcid",
                 "MediumSpike", "MediumAcid"}

LEMMA NewMonsterIs ==
  ASSUME NEW id \in Nat, NEW kind \in Kinds, NEW slot \in -1..3,
         NEW m, m = NewMonster(id, kind, slot)
  PROVE  /\ m \in Monster /\ m.id = id /\ m.kind = kind /\ m.slot = slot /\ m.hp = 2
         /\ m.hist = <<>> /\ m.did = <<>> /\ m.moves = 0
         /\ kind = "Lagavulin" => m.mode = 3
         /\ kind \in {"Byrd", "ShelledParasite"} => m.mode = 1
         /\ kind \notin {"Lagavulin", "Byrd", "ShelledParasite"} => m.mode = 0
<1>1. <<>> \in Seq(0..8)
  BY EmptyType
<1> QED BY <1>1 DEF NewMonster, Monster

LEMMA NothingDone ==
  ASSUME NEW kind
  PROVE  WithinLimits(kind, <<>>) /\ ToSet(<<>>) = {}
BY SetOfEmpty DEF WithinLimits

\* The id given to a newborn is greater than every id of the row.
LEMMA NewIdIs ==
  ASSUME NEW r, IsRow(r)
  PROVE  NewId(r) \in Nat /\ \A y \in Ids(r) : y < NewId(r)
<1> DEFINE ids == [i \in 1..Len(r) |-> r[i].id]
<1>1. /\ Len(r) \in Nat /\ Len(r) > 0 /\ DOMAIN r = 1..Len(r)
      /\ \A i \in 1..Len(r) : r[i].id \in Nat
  BY RowOf
<1>2. ids \in Seq(Nat) /\ DOMAIN ids = 1..Len(r)
  BY <1>1
<1>3. ToSet(ids) = Ids(r)
  BY <1>1 DEF ToSet, Ids
<1>4. IsFiniteSet(Ids(r))
  BY <1>2, <1>3, CountOnce
<1>5. Ids(r) \in SUBSET Nat
  BY <1>1 DEF Ids
<1>6. Ids(r) # {}
  <2>1. 1 \in DOMAIN r
    BY <1>1
  <2> QED BY <2>1 DEF Ids
<1>7. Max(Ids(r)) \in Ids(r) /\ \A y \in Ids(r) : Max(Ids(r)) >= y
  BY <1>4, <1>5, <1>6, MaxIsGreatest
<1>8. NewId(r) = Max(Ids(r)) + 1
  BY DEF NewId, Ids
<1> QED BY <1>5, <1>7, <1>8

\* d has just joined a row and shows its first move.
Newborn(d, id, kind, slot) ==
  /\ d \in Monster /\ Alive(d) /\ Fit(d)
  /\ d.id = id /\ d.kind = kind /\ d.slot = slot

\* A monster that has just joined shows its first move and has performed none.
LEMMA NewbornIs ==
  ASSUME NEW id \in Nat, NEW kind \in BornKinds, NEW slot \in -1..3, NEW c \in 0..8
  PROVE  Newborn(Announce(NewMonster(id, kind, slot), c), id, kind, slot)
<1>00. PICK d : d = Announce(NewMonster(id, kind, slot), c)
  OBVIOUS
<1>0. PICK m : m = NewMonster(id, kind, slot)
  OBVIOUS
<1>01. d = Announce(m, c)
  BY <1>0, <1>00
<1>1. kind \in Kinds /\ kind \notin {"Lagavulin", "Byrd", "ShelledParasite"}
  BY DEF BornKinds, Kinds, Gremlins
<1>2. /\ m \in Monster /\ m.id = id /\ m.kind = kind /\ m.slot = slot
      /\ m.hp = 2 /\ m.hist = <<>> /\ m.did = <<>> /\ m.mode = 0
  BY <1>0, <1>1, NewMonsterIs
<1>3. /\ d \in Monster /\ d.id = m.id /\ d.kind = m.kind /\ d.slot = m.slot
      /\ d.intent = c /\ d.did = m.did /\ d.mode = m.mode /\ d.hp = m.hp
  BY <1>01, <1>2, AnnounceIs
<1>31. d.hist = Append(m.hist, c)
  BY <1>01, <1>2, AnnounceHist
<1>4. Alive(d) /\ ~HalfDead(d)
  BY <1>2, <1>3 DEF Alive, HalfDead
<1>5. d.kind \notin {"Darkling", "Lagavulin", "AwakenedOne"}
  BY <1>2, <1>3 DEF BornKinds, Gremlins
<1>6. Marked(d)
  <2>1. d.mode \in Modes(d.kind)
    BY <1>2, <1>3, <1>1, <1>5 DEF Modes, Splitting
  <2> QED BY <1>2, <1>3, <1>4, <2>1, NothingDone DEF Marked
<1>7. Ready(d)
  <2>1. m.hist \in Seq(0..8)
    BY <1>2, MonsterFields
  <2>2. LastMove(Append(m.hist, c), c) /\ Used(Append(m.hist, c), c)
    BY <2>1, AppendIs
  <2>3. ~LastMove(d.did, c) /\ ~LastTwoMoves(d.did, c) /\ c \notin ToSet(d.did)
    BY <1>2, <1>3, NothingDone DEF LastMove, LastTwoMoves
  <2> QED BY <1>3, <1>31, <1>5, <2>2, <2>3 DEF Ready
<1> QED BY <1>00, <1>2, <1>3, <1>4, <1>6, <1>7 DEF Fit, Newborn

\* Monsters born together have ids in order.
LEMMA BornIs ==
  ASSUME NEW r, IsRow(r), NEW n \in Nat, NEW kinds \in [1..n -> BornKinds],
         NEW slots \in [1..n -> -1..3], NEW b \in Born(r, kinds, slots)
  PROVE  /\ DOMAIN b = 1..n /\ Len(b) = n
         /\ \A k \in 1..n : Newborn(b[k], NewId(r) + k - 1, kinds[k], slots[k])
<1>1. PICK first \in [1..n -> 0..8] :
        b = [k \in 1..n |-> Announce(NewMonster(NewId(r) + k - 1, kinds[k], slots[k]), first[k])]
  BY DEF Born
<1>2. DOMAIN b = 1..n /\ Len(b) = n
  BY <1>1
<1>3. ASSUME NEW k \in 1..n
      PROVE  Newborn(b[k], NewId(r) + k - 1, kinds[k], slots[k])
  <2>1. NewId(r) + k - 1 \in Nat
    <3>1. NewId(r) \in Nat
      BY NewIdIs
    <3> QED BY <3>1
  <2>2. kinds[k] \in BornKinds /\ slots[k] \in -1..3 /\ first[k] \in 0..8
    OBVIOUS
  <2> QED BY <1>1, <2>1, <2>2, NewbornIs
<1> QED BY <1>2, <1>3

\* m may go in at place p.
Welcome(r, p, m) ==
  /\ p \in 1..Len(r) + 1
  /\ m \in Monster /\ Fit(m) /\ m.kind \in BornKinds
  /\ \A y \in Ids(r) : y < m.id
  /\ \A l \in DOMAIN r : r[l].kind \in Masters /\ m.slot >= 0 => m.kind \in Minions(r[l].kind)
  /\ \A l \in DOMAIN r : r[l].kind \in Masters /\ m.kind \in Minions(r[l].kind) =>
       /\ m.slot \in Slots(r[l].kind)
       /\ Alive(r[l])
       /\ r[l].kind = "GremlinLeader" => p <= l
       /\ \A j \in DOMAIN r : r[j].kind \in Minions(r[l].kind) /\ Alive(r[j]) =>
            r[j].slot # m.slot

LEMMA BornKindsAre ==
  ASSUME NEW kind \in BornKinds
  PROVE  kind \notin Masters /\ kind # "Darkling"
BY DEF BornKinds, Masters, Gremlins

\* A minion that takes a vacant place leaves one living minion in each place.
LEMMA JoinServed ==
  ASSUME NEW r, IsRow(r), Served(r), NEW p, NEW m, Welcome(r, p, m)
  PROVE  Served(InsertAt(r, p, m))
<1> DEFINE t == InsertAt(r, p, m)
<1>0. r \in Seq(Monster) /\ p \in 1..Len(r) + 1 /\ p \in Nat /\ m \in Monster
      /\ DOMAIN r = 1..Len(r) /\ Len(r) \in Nat
  BY DEF IsRow, Welcome
<1>1. /\ DOMAIN t = 1..Len(r) + 1 /\ t[p] = m
      /\ \A i \in DOMAIN r : Shift(i, p) \in DOMAIN t /\ t[Shift(i, p)] = r[i]
      /\ \A k \in DOMAIN t : k = p \/ \E i \in DOMAIN r : k = Shift(i, p)
  BY <1>0, RowInsert
<1> HIDE DEF t
<1>2. SUFFICES ASSUME NEW l \in DOMAIN t, t[l].kind \in Masters, NEW i \in DOMAIN t
               PROVE  /\ t[i].kind \in Masters => i = l
                      /\ t[i].slot >= 0 => t[i].kind \in Minions(t[l].kind)
                      /\ t[i].kind \in Minions(t[l].kind) =>
                           /\ t[i].slot \in Slots(t[l].kind)
                           /\ Alive(t[i]) => Alive(t[l])
                           /\ t[l].kind = "GremlinLeader" => i < l
                           /\ \A j \in DOMAIN t : /\ t[j].kind \in Minions(t[l].kind)
                                                  /\ t[j].slot = t[i].slot
                                                  /\ t[j].id < t[i].id
                                                  => ~Alive(t[j])
  BY DEF Served, t
<1>3. m.kind \notin Masters
  BY BornKindsAre DEF Welcome
<1>4. PICK l0 \in DOMAIN r : l = Shift(l0, p) /\ t[l] = r[l0]
  BY <1>1, <1>2, <1>3
<1>5. l0 \in Nat
  BY <1>0
<1>6. ASSUME NEW i0 \in DOMAIN r, i = Shift(i0, p)
      PROVE  /\ t[i].kind \in Masters => i = l
             /\ t[i].slot >= 0 => t[i].kind \in Minions(t[l].kind)
             /\ t[i].kind \in Minions(t[l].kind) =>
                  /\ t[i].slot \in Slots(t[l].kind)
                  /\ Alive(t[i]) => Alive(t[l])
                  /\ t[l].kind = "GremlinLeader" => i < l
                  /\ \A j \in DOMAIN t : /\ t[j].kind \in Minions(t[l].kind)
                                         /\ t[j].slot = t[i].slot
                                         /\ t[j].id < t[i].id
                                         => ~Alive(t[j])
  <2>1. t[i] = r[i0] /\ i0 \in Nat
    BY <1>0, <1>1, <1>6
  <2>2. /\ r[i0].kind \in Masters => i0 = l0
        /\ r[i0].slot >= 0 => r[i0].kind \in Minions(r[l0].kind)
        /\ r[i0].kind \in Minions(r[l0].kind) =>
             /\ r[i0].slot \in Slots(r[l0].kind)
             /\ Alive(r[i0]) => Alive(r[l0])
             /\ r[l0].kind = "GremlinLeader" => i0 < l0
             /\ \A j \in DOMAIN r : /\ r[j].kind \in Minions(r[l0].kind)
                                    /\ r[j].slot = r[i0].slot
                                    /\ r[j].id < r[i0].id
                                    => ~Alive(r[j])
    BY <1>2, <1>4 DEF Served
  <2>3. i0 < l0 => i < l
    BY <1>0, <1>4, <1>5, <1>6, <2>1, ShiftOrder
  <2>4. ASSUME NEW j \in DOMAIN t, t[i].kind \in Minions(t[l].kind),
               t[j].kind \in Minions(t[l].kind), t[j].slot = t[i].slot, t[j].id < t[i].id
        PROVE  ~Alive(t[j])
    <3>1. CASE j = p
      <4>1. r[i0].id \in Ids(r) /\ r[i0].id \in Nat /\ m.id \in Nat
        BY <1>0, RowOf, MonsterFields DEF Ids
      <4> QED BY <1>1, <2>1, <2>4, <3>1, <4>1 DEF Welcome
    <3>2. CASE j # p
      BY <1>1, <1>4, <2>1, <2>2, <2>4, <3>2
    <3> QED BY <3>1, <3>2
  <2> QED BY <1>4, <1>6, <2>1, <2>2, <2>3, <2>4
<1>7. ASSUME i = p
      PROVE  /\ t[i].kind \in Masters => i = l
             /\ t[i].slot >= 0 => t[i].kind \in Minions(t[l].kind)
             /\ t[i].kind \in Minions(t[l].kind) =>
                  /\ t[i].slot \in Slots(t[l].kind)
                  /\ Alive(t[i]) => Alive(t[l])
                  /\ t[l].kind = "GremlinLeader" => i < l
                  /\ \A j \in DOMAIN t : /\ t[j].kind \in Minions(t[l].kind)
                                         /\ t[j].slot = t[i].slot
                                         /\ t[j].id < t[i].id
                                         => ~Alive(t[j])
  <2>1. t[i] = m
    BY <1>1, <1>7
  <2>20. r[l0].kind \in Masters /\ m.slot >= 0 => m.kind \in Minions(r[l0].kind)
    BY DEF Welcome
  <2>2. r[l0].kind \in Masters /\ m.kind \in Minions(r[l0].kind) =>
          /\ m.slot \in Slots(r[l0].kind)
          /\ Alive(r[l0])
          /\ r[l0].kind = "GremlinLeader" => p <= l0
          /\ \A j \in DOMAIN r : r[j].kind \in Minions(r[l0].kind) /\ Alive(r[j]) =>
               r[j].slot # m.slot
    BY DEF Welcome
  <2>3. p <= l0 => i < l
    BY <1>0, <1>4, <1>5, <1>7, ShiftOrder
  <2>4. ASSUME NEW j \in DOMAIN t, t[i].kind \in Minions(t[l].kind),
               t[j].kind \in Minions(t[l].kind), t[j].slot = t[i].slot, t[j].id < t[i].id
        PROVE  ~Alive(t[j])
    <3>1. j # p
      BY <1>0, <1>1, <1>7, <2>4, MonsterFields
    <3>2. PICK j0 \in DOMAIN r : t[j] = r[j0]
      BY <1>1, <3>1
    <3> QED BY <1>2, <1>4, <2>1, <2>2, <2>4, <3>2
  <2> QED BY <1>2, <1>3, <1>4, <2>1, <2>20, <2>2, <2>3, <2>4
<1> QED BY <1>1, <1>6, <1>7

\* t is r with m at place p.
Joined(r, t, p, m) ==
  /\ Ids(t) = Ids(r) \cup {m.id}
  /\ Len(t) = Len(r) + 1 /\ DOMAIN t = 1..Len(r) + 1
  /\ t[p] = m
  /\ \A i \in DOMAIN r : Shift(i, p) \in DOMAIN t /\ t[Shift(i, p)] = r[i]
  /\ \A k \in DOMAIN t : k = p \/ \E i \in DOMAIN r : k = Shift(i, p)

\* The one who acts is in t what it was in r.
Keeps(r, t, x, q) == Stands(t, x, q) /\ t[Place(t, x)] = r[Place(r, x)]

\* A welcome newborn is a step on the way.
LEMMA JoinStands ==
  ASSUME NEW r, NEW x, NEW q, Stands(r, x, q), NEW p, NEW m, Welcome(r, p, m)
  PROVE  Keeps(r, InsertAt(r, p, m), x, q) /\ Joined(r, InsertAt(r, p, m), p, m)
<1> DEFINE t == InsertAt(r, p, m)
<1>0. r \in Seq(Monster) /\ p \in 1..Len(r) + 1 /\ p \in Nat /\ m \in Monster
      /\ DOMAIN r = 1..Len(r) /\ Len(r) \in Nat /\ IsRow(r) /\ Served(r) /\ Linked(r)
  BY DEF Stands, IsRow, Welcome
<1>1. /\ DOMAIN t = 1..Len(r) + 1 /\ t[p] = m /\ t \in Seq(Monster) /\ Len(t) = Len(r) + 1
      /\ \A i \in DOMAIN r : Shift(i, p) \in DOMAIN t /\ t[Shift(i, p)] = r[i]
      /\ \A k \in DOMAIN t : k = p \/ \E i \in DOMAIN r : k = Shift(i, p)
  BY <1>0, RowInsert
<1>2. Served(t)
  BY <1>0, JoinServed
<1> HIDE DEF t
<1>3. Ids(t) = Ids(r) \cup {m.id}
  <2>1. p \in DOMAIN t
    BY <1>0, <1>1
  <2>2. Ids(t) \subseteq Ids(r) \cup {m.id}
    BY <1>1 DEF Ids
  <2>3. Ids(r) \subseteq Ids(t)
    BY <1>1 DEF Ids
  <2>4. m.id \in Ids(t)
    BY <1>1, <2>1 DEF Ids
  <2> QED BY <2>2, <2>3, <2>4
<1>4. m.id \notin Ids(r)
  <2>1. m.id \in Nat
    BY <1>0, MonsterFields
  <2> QED BY <2>1 DEF Welcome
<1>5. IsRow(t)
  <2>1. \A i \in DOMAIN r : t[Shift(i, p)].id # m.id
    BY <1>1, <1>4 DEF Ids
  <2>2. \A i, j \in DOMAIN t : t[i].id = t[j].id => i = j
    <3> SUFFICES ASSUME NEW i \in DOMAIN t, NEW j \in DOMAIN t, t[i].id = t[j].id
                 PROVE  i = j
      OBVIOUS
    <3>1. CASE i = p \/ j = p
      BY <1>1, <2>1, <3>1
    <3>2. CASE i # p /\ j # p
      <4>1. PICK i0 \in DOMAIN r : i = Shift(i0, p)
        BY <1>1, <3>2
      <4>2. PICK j0 \in DOMAIN r : j = Shift(j0, p)
        BY <1>1, <3>2
      <4>3. r[i0].id = r[j0].id
        BY <1>1, <4>1, <4>2
      <4> QED BY <1>0, <4>1, <4>2, <4>3 DEF IsRow
    <3> QED BY <3>1, <3>2
  <2> QED BY <1>0, <1>1, <2>2 DEF IsRow
<1>6. Evolves(r, t, x)
  BY <1>1, IdleSelf DEF Evolves
<1>7. Evolves(q, t, x)
  BY <1>6, EvolvesOn DEF Stands
<1>8. \A k \in DOMAIN t : t[k].id # x => Fit(t[k])
  <2>1. Fit(m)
    BY DEF Welcome
  <2> QED BY <1>1, <2>1 DEF Stands
<1>9. Linked(t)
  <2>1. m.kind # "Darkling"
    BY BornKindsAre DEF Welcome
  <2>2. \A k \in DOMAIN t : t[k].kind = "Darkling" => \E i \in DOMAIN r : t[k] = r[i]
    BY <1>1, <2>1
  <2>3. CASE \A i \in DOMAIN r : r[i].kind = "Darkling" => Alive(r[i]) \/ HalfDead(r[i])
    BY <2>2, <2>3 DEF Linked
  <2>4. CASE \A i \in DOMAIN r : r[i].kind = "Darkling" => ~Alive(r[i]) /\ r[i].mode = 0
    BY <2>2, <2>4 DEF Linked
  <2> QED BY <1>0, <2>3, <2>4 DEF Linked
<1>10. x \in Ids(t) /\ Place(r, x) \in DOMAIN r /\ r[Place(r, x)].id = x
  BY <1>0, <1>3, PlaceOf DEF Stands
<1>11. t[Place(t, x)] = r[Place(r, x)]
  <2>1. /\ Shift(Place(r, x), p) \in DOMAIN t
        /\ t[Shift(Place(r, x), p)] = r[Place(r, x)]
    BY <1>1, <1>10
  <2>2. Place(t, t[Shift(Place(r, x), p)].id) = Shift(Place(r, x), p)
    BY <1>5, <2>1, PlaceIs
  <2> QED BY <1>10, <2>1, <2>2
<1>12. Stands(t, x, q)
  BY <1>2, <1>5, <1>7, <1>8, <1>9, <1>10 DEF Stands
<1> QED BY <1>1, <1>3, <1>11, <1>12 DEF Keeps, Joined, t

------------------------------------------------------------------------------
(* The places left for minions *)

LEMMA PairMin ==
  ASSUME NEW a \in Int, NEW b \in Int
  PROVE  Min({a, b}) \in Int /\ Min({a, b}) <= a /\ Min({a, b}) <= b
<1>1. CASE a <= b
  <2>1. a \in {a, b} /\ \A y \in {a, b} : a <= y
    BY <1>1
  <2> QED BY <2>1 DEF Min
<1>2. CASE b < a
  <2>1. b \in {a, b} /\ \A y \in {a, b} : b <= y
    BY <1>2
  <2> QED BY <2>1 DEF Min
<1> QED BY <1>1, <1>2

\* Two places of S at most, all different.
Vacant(slots, S) ==
  /\ Len(slots) \in 0..2
  /\ slots \in [1..Len(slots) -> S]
  /\ \A j, k \in 1..Len(slots) : slots[j] = slots[k] => j = k

\* The first places that are free are distinct, and free.
LEMMA FirstOfIs ==
  ASSUME NEW s \in Seq(Nat), IsInjective(s), NEW free, NEW n \in Int, n <= 2
  PROVE  Vacant(FirstOf(s, free, n), ToSet(s) \cap free)
<1> DEFINE open == Dropping(s, ToSet(s) \ free)
           n0 == Min({n, Len(open)})
           t == SubSeq(open, 1, n0)
<1>1. open \in Seq(Nat) /\ ToSet(open) = ToSet(s) \cap free
  BY SetOfDropping
<1>2. IsInjective(open)
  BY DroppedOnce
<1> HIDE DEF open
<1>3. Len(open) \in Nat
  BY <1>1
<1>4. n0 \in Int /\ n0 <= n /\ n0 <= Len(open)
  <2>1. PICK len \in Int : len = Len(open)
    BY <1>3
  <2>2. Min({n, len}) \in Int /\ Min({n, len}) <= n /\ Min({n, len}) <= len
    BY PairMin
  <2> QED BY <2>1, <2>2
<1> HIDE DEF n0
<1>5. /\ Len(t) \in 0..2 /\ DOMAIN t = 1..Len(t) /\ Len(t) <= Len(open)
      /\ t \in Seq(Nat)
      /\ \A k \in 1..Len(t) : t[k] = open[k]
  <2>1. CASE n0 >= 1
    <3>1. Len(t) = n0 /\ t \in Seq(Nat) /\ \A k \in 1..n0 : t[k] = open[k]
      BY <1>1, <1>3, <1>4, <2>1
    <3>2. DOMAIN t = 1..Len(t)
      BY <3>1
    <3> HIDE DEF t
    <3> QED BY <1>3, <1>4, <2>1, <3>1, <3>2
  <2>2. CASE n0 < 1
    <3>1. t = <<>>
      BY <1>1, <1>4, <2>2
    <3> HIDE DEF t
    <3>2. t \in Seq(Nat)
      BY <3>1, EmptyType
    <3>3. Len(t) = 0
      BY <3>1
    <3> QED BY <1>3, <3>2, <3>3
  <2> QED BY <1>4, <2>1, <2>2
<1>6. FirstOf(s, free, n) = t
  BY DEF FirstOf, open, n0
<1> HIDE DEF t
<1>7. \A k \in 1..Len(open) : open[k] \in ToSet(s) \cap free
  BY <1>1 DEF ToSet
<1>8. \A j, k \in 1..Len(open) : open[j] = open[k] => j = k
  BY <1>1, <1>2 DEF IsInjective
<1>9. \A k \in 1..Len(t) : k \in 1..Len(open)
  BY <1>3, <1>5
<1>10. t \in [1..Len(t) -> ToSet(s) \cap free]
  <2>1. t = [k \in 1..Len(t) |-> t[k]]
    BY <1>5
  <2> QED BY <1>5, <1>7, <1>9, <2>1
<1> QED BY <1>5, <1>6, <1>8, <1>9, <1>10 DEF Vacant

\* The places of the minions of the one who acts that no living minion takes.
Places(r, x) ==
  LET kind == r[Place(r, x)].kind IN
  {v \in Slots(kind) :
     \A j \in DOMAIN r : r[j].kind \in Minions(kind) /\ Alive(r[j]) => r[j].slot # v}

LEMMA Fewer ==
  ASSUME NEW slots, NEW S, NEW T, Vacant(slots, S), S \subseteq T
  PROVE  Vacant(slots, T)
<1>1. slots \in [1..Len(slots) -> T]
  BY DEF Vacant
<1> QED BY <1>1 DEF Vacant

LEMMA LivingIs ==
  ASSUME NEW r, IsRow(r), NEW kinds
  PROVE  Cardinality(Living(r, kinds)) \in Nat /\ IsFiniteSet(Living(r, kinds))
<1>1. IsFiniteSet(1..Len(r))
  BY RowOf, FS_Interval
<1>2. Living(r, kinds) \in SUBSET 1..Len(r)
  BY RowOf DEF Living
<1> QED BY <1>1, <1>2, FS_Subset, FS_CardinalityType

LEMMA LeaderIs ==
  ASSUME NEW r, NEW x, NEW q, Stands(r, x, q), r[Place(r, x)].kind = "GremlinLeader"
  PROVE  Ahead(r) = 1..Place(r, x) - 1
<1>1. IsRow(r) /\ Served(r) /\ Place(r, x) \in DOMAIN r
  BY PlaceOf DEF Stands
<1>2. \A i \in DOMAIN r : r[i].kind = "GremlinLeader" => i = Place(r, x)
  BY <1>1 DEF Served, Masters
<1>3. PICK p \in DOMAIN r : p = Place(r, x)
  BY <1>1
<1>4. (CHOOSE l \in DOMAIN r : r[l].kind = "GremlinLeader") = p
  BY <1>2, <1>3
<1>5. p \in 1..Len(r) /\ DOMAIN r = 1..Len(r) /\ Len(r) \in Nat
  BY <1>1, RowOf
<1>6. Ahead(r) = {i \in DOMAIN r : i < p}
  BY <1>4 DEF Ahead
<1>7. {i \in 1..Len(r) : i < p} = 1..p - 1
  BY <1>5
<1> QED BY <1>3, <1>5, <1>6, <1>7

\* The places each summoner fills are vacant (Gremlin Leader, Collector, Reptomancer).
LEMMA RallySlotsAre ==
  ASSUME NEW r, NEW x, NEW q, Stands(r, x, q), r[Place(r, x)].kind = "GremlinLeader"
  PROVE  Vacant(RallySlots(r), Places(r, x))
<1> DEFINE holders(v) == {i \in Ahead(r) : r[i].slot = v}
           free == {v \in 0 .. 2 : \A i \in holders(v) :
                      (\A j \in holders(v) : r[j].id <= r[i].id) => ~Alive(r[i])}
           n == Min({2, 3 - Cardinality(Living(r, Gremlins))})
           l == Place(r, x)
<1>1. IsRow(r) /\ Served(r) /\ l \in DOMAIN r
  BY PlaceOf DEF Stands
<1>2. n \in Int /\ n <= 2
  <2>1. 3 - Cardinality(Living(r, Gremlins)) \in Int
    BY <1>1, LivingIs
  <2> QED BY <2>1, PairMin
<1>3. <<0, 1, 2>> \in Seq(Nat) /\ IsInjective(<<0, 1, 2>>) /\ ToSet(<<0, 1, 2>>) = 0..2
  BY DEF IsInjective, ToSet
<1>4. RallySlots(r) = FirstOf(<<0, 1, 2>>, free, n)
  BY DEF RallySlots
<1>5. ASSUME NEW v \in 0..2, v \in free
      PROVE  v \in Places(r, x)
  <2> SUFFICES ASSUME NEW j \in DOMAIN r, r[j].kind \in Gremlins, Alive(r[j]), r[j].slot = v
               PROVE  FALSE
    BY DEF Places, Slots, Minions
  <2>1. j < l
    BY <1>1 DEF Served, Masters, Minions
  <2>2. j \in holders(v)
    BY <1>1, <2>1, LeaderIs, RowOf
  <2>3. ASSUME NEW k \in holders(v)
        PROVE  r[k].id <= r[j].id
    <3>1. k \in DOMAIN r /\ r[k].slot = v
      BY <1>1, LeaderIs, RowOf
    <3>2. r[k].kind \in Gremlins
      <4>1. r[k].slot >= 0
        BY <3>1
      <4> QED BY <1>1, <3>1, <4>1 DEF Served, Masters, Minions
    <3>3. r[j].id < r[k].id => ~Alive(r[j])
      BY <1>1, <3>1, <3>2 DEF Served, Masters, Minions
    <3> QED BY <1>1, <3>1, <3>3, RowOf
  <2> QED BY <2>2, <2>3, <1>5
<1> HIDE DEF n, free, l, holders
<1>6. Vacant(RallySlots(r), ToSet(<<0, 1, 2>>) \cap free)
  BY <1>2, <1>3, <1>4, FirstOfIs
<1>7. ToSet(<<0, 1, 2>>) \cap free \subseteq Places(r, x)
  BY <1>3, <1>5
<1> QED BY <1>6, <1>7, Fewer

LEMMA TorchSlotsAre ==
  ASSUME NEW r, NEW x, NEW q, Stands(r, x, q), r[Place(r, x)].kind = "Collector"
  PROVE  Vacant(TorchSlots(r), Places(r, x))
<1> DEFINE free == {v \in 1 .. 2 : \A i \in Living(r, {"TorchHead"}) : r[i].slot # v}
           n == 2 - Cardinality(Living(r, {"TorchHead"}))
<1>1. n \in Int /\ n <= 2
  BY LivingIs DEF Stands
<1>2. <<1, 2>> \in Seq(Nat) /\ IsInjective(<<1, 2>>) /\ ToSet(<<1, 2>>) = 1..2
  BY DEF IsInjective, ToSet
<1>3. TorchSlots(r) = FirstOf(<<1, 2>>, free, n)
  BY DEF TorchSlots
<1>4. free \subseteq Places(r, x)
  BY DEF Places, Slots, Minions, Living
<1> HIDE DEF n, free
<1>5. Vacant(TorchSlots(r), ToSet(<<1, 2>>) \cap free)
  BY <1>1, <1>2, <1>3, FirstOfIs
<1> QED BY <1>4, <1>5, Fewer

LEMMA DaggerSlotsAre ==
  ASSUME NEW r, NEW x, NEW q, Stands(r, x, q), r[Place(r, x)].kind = "Reptomancer"
  PROVE  Vacant(DaggerSlots(r), Places(r, x))
<1> DEFINE free == {v \in 0 .. 3 : \A i \in Living(r, {"Dagger"}) : r[i].slot # v}
           n == IF hard THEN 2 ELSE 1
<1>1. n \in Int /\ n <= 2
  OBVIOUS
<1>2. /\ <<0, 1, 2, 3>> \in Seq(Nat) /\ IsInjective(<<0, 1, 2, 3>>)
      /\ ToSet(<<0, 1, 2, 3>>) = 0..3
  BY DEF IsInjective, ToSet
<1>3. DaggerSlots(r) = FirstOf(<<0, 1, 2, 3>>, free, n)
  BY DEF DaggerSlots
<1>4. free \subseteq Places(r, x)
  BY DEF Places, Slots, Minions, Living
<1> HIDE DEF n, free
<1>5. Vacant(DaggerSlots(r), ToSet(<<0, 1, 2, 3>>) \cap free)
  BY <1>1, <1>2, <1>3, FirstOfIs
<1> QED BY <1>4, <1>5, Fewer

------------------------------------------------------------------------------
(* Minions joining the row *)

\* d, a minion of the living master x, may join r.
Due(r, x, d) ==
  /\ r[Place(r, x)].kind \in Masters /\ Alive(r[Place(r, x)])
  /\ d \in Monster /\ Fit(d) /\ Alive(d)
  /\ d.kind \in Minions(r[Place(r, x)].kind)
  /\ d.slot \in Places(r, x)
  /\ \A y \in Ids(r) : y < d.id

\* An insertion point that keeps a Gremlin Leader behind its gremlins.
GoodPlace(r, x, p) ==
  /\ p \in 1..Len(r) + 1
  /\ r[Place(r, x)].kind = "GremlinLeader" => p <= Place(r, x)

\* A minion due in a vacant place is welcome there ...
LEMMA DueWelcome ==
  ASSUME NEW r, NEW x, NEW q, Stands(r, x, q), NEW d, Due(r, x, d),
         NEW p, GoodPlace(r, x, p)
  PROVE  Welcome(r, p, d)
<1> DEFINE l == Place(r, x)
<1>1. l \in DOMAIN r /\ Served(r) /\ r[l].kind \in Masters
  BY PlaceOf DEF Stands, Due
<1>2. \A i \in DOMAIN r : r[i].kind \in Masters => i = l
  BY <1>1 DEF Served
<1>3. d.kind \in BornKinds
  BY MinionsAre DEF Due, AllMinions, BornKinds
<1>4. d.kind \in Minions(r[l].kind) /\ d.slot \in Slots(r[l].kind) /\ Alive(r[l])
  BY DEF Due, Places
<1>5. \A j \in DOMAIN r : r[j].kind \in Minions(r[l].kind) /\ Alive(r[j]) => r[j].slot # d.slot
  BY DEF Due, Places
<1>6. p \in 1..Len(r) + 1 /\ (r[l].kind = "GremlinLeader" => p <= l)
  BY DEF GoodPlace
<1>7. d \in Monster /\ Fit(d) /\ \A y \in Ids(r) : y < d.id
  BY DEF Due
<1> HIDE DEF l
<1> QED BY <1>2, <1>3, <1>4, <1>5, <1>6, <1>7 DEF Welcome

\* ... and stays due while one for another place joins.
LEMMA DueStays ==
  ASSUME NEW r, NEW x, NEW q, NEW t, NEW p, NEW d, NEW e,
         Due(r, x, d), Due(r, x, e), d.slot # e.slot, d.id < e.id,
         Keeps(r, t, x, q), Joined(r, t, p, d)
  PROVE  Due(t, x, e)
<1>1. t[Place(t, x)] = r[Place(r, x)]
  BY DEF Keeps
<1>2. \A y \in Ids(t) : y < e.id
  BY DEF Joined, Due
<1>3. e.slot \in Places(t, x)
  <2>1. \A j \in DOMAIN t : j = p \/ \E i \in DOMAIN r : t[j] = r[i]
    BY DEF Joined
  <2>2. t[p] = d
    BY DEF Joined
  <2>3. e.slot \in Places(r, x)
    BY DEF Due
  <2> QED BY <1>1, <2>1, <2>2, <2>3 DEF Places
<1> QED BY <1>1, <1>2, <1>3 DEF Due

\* Those who join at one summons.
Litter(r, x, b) ==
  /\ Len(b) \in 0..2
  /\ \A k \in 1..Len(b) : Due(r, x, b[k])
  /\ Len(b) = 2 => b[1].slot # b[2].slot /\ b[1].id < b[2].id

\* Those a summoner brings are due, in places of their own.
LEMMA LitterIs ==
  ASSUME NEW r, NEW x, NEW q, Stands(r, x, q),
         r[Place(r, x)].kind \in Masters, Alive(r[Place(r, x)]),
         NEW slots, Vacant(slots, Places(r, x)),
         NEW kinds \in [DOMAIN slots -> Minions(r[Place(r, x)].kind)],
         NEW b \in Born(r, kinds, slots)
  PROVE  Litter(r, x, b)
<1> DEFINE n == Len(slots)
<1>1. n \in 0..2 /\ DOMAIN slots = 1..n /\ IsRow(r)
  BY DEF Vacant, Stands
<1>2. kinds \in [1..n -> BornKinds]
  BY <1>1, MinionsAre DEF AllMinions, BornKinds
<1>3. slots \in [1..n -> -1..3]
  BY <1>1 DEF Vacant, Places, Slots
<1>4. n \in Nat
  BY <1>1
<1> HIDE DEF n
<1>5. /\ DOMAIN b = 1..n /\ Len(b) = n
      /\ \A k \in 1..n : Newborn(b[k], NewId(r) + k - 1, kinds[k], slots[k])
  BY <1>1, <1>2, <1>3, <1>4, BornIs
<1>6. NewId(r) \in Nat /\ \A y \in Ids(r) : y \in Nat /\ y < NewId(r)
  BY <1>1, NewIdIs, RowOf DEF Ids
<1>7. ASSUME NEW k \in 1..n
      PROVE  Due(r, x, b[k])
  <2>1. Newborn(b[k], NewId(r) + k - 1, kinds[k], slots[k])
    BY <1>5
  <2>2. slots[k] \in Places(r, x) /\ kinds[k] \in Minions(r[Place(r, x)].kind)
    BY <1>1 DEF Vacant
  <2>3. \A y \in Ids(r) : y < NewId(r) + k - 1
    BY <1>1, <1>6
  <2> QED BY <2>1, <2>2, <2>3 DEF Due, Newborn
<1>8. ASSUME n = 2
      PROVE  b[1].slot # b[2].slot /\ b[1].id < b[2].id
  <2>1. /\ Newborn(b[1], NewId(r) + 1 - 1, kinds[1], slots[1])
        /\ Newborn(b[2], NewId(r) + 2 - 1, kinds[2], slots[2])
    BY <1>5, <1>8
  <2>2. slots[1] # slots[2]
    <3>1. 1 \in 1..n /\ 2 \in 1..n
      BY <1>8
    <3>2. \A j, k \in 1..n : slots[j] = slots[k] => j = k
      BY DEF Vacant, n
    <3> QED BY <3>1, <3>2
  <2> QED BY <1>6, <2>1, <2>2 DEF Newborn
<1> QED BY <1>1, <1>5, <1>7, <1>8 DEF Litter

LEMMA KeepsSelf ==
  ASSUME NEW r, NEW x, NEW q, Stands(r, x, q)
  PROVE  Keeps(r, r, x, q)
BY DEF Keeps

LEMMA JoinFirst ==
  ASSUME NEW r, NEW x, NEW q, Stands(r, x, q), NEW b, Litter(r, x, b), Len(b) > 0,
         NEW p, GoodPlace(r, x, p)
  PROVE  Keeps(r, InsertAt(r, p, b[1]), x, q)
<1>1. Due(r, x, b[1])
  BY DEF Litter
<1>2. Welcome(r, p, b[1])
  BY <1>1, DueWelcome
<1> QED BY <1>2, JoinStands

LEMMA JoinSecond ==
  ASSUME NEW r, NEW x, NEW q, Stands(r, x, q), NEW b, Litter(r, x, b), Len(b) = 2,
         NEW p, GoodPlace(r, x, p), NEW t, t = InsertAt(r, p, b[1]),
         NEW o, GoodPlace(t, x, o)
  PROVE  Keeps(r, InsertAt(t, o, b[2]), x, q)
<1>1. Due(r, x, b[1]) /\ Due(r, x, b[2]) /\ b[1].slot # b[2].slot /\ b[1].id < b[2].id
  BY DEF Litter
<1>2. Welcome(r, p, b[1])
  BY <1>1, DueWelcome
<1>3. Keeps(r, t, x, q) /\ Joined(r, t, p, b[1])
  BY <1>2, JoinStands
<1>4. Due(t, x, b[2])
  BY <1>1, <1>3, DueStays
<1>5. Stands(t, x, q)
  BY <1>3 DEF Keeps
<1>6. Welcome(t, o, b[2])
  BY <1>4, <1>5, DueWelcome
<1>7. Keeps(t, InsertAt(t, o, b[2]), x, q)
  BY <1>5, <1>6, JoinStands
<1> QED BY <1>3, <1>7 DEF Keeps

\* Each summoner inserts its minions where the order of the row holds.
LEMMA RallyPlaceIs ==
  ASSUME NEW r, NEW x, NEW q, Stands(r, x, q), r[Place(r, x)].kind = "GremlinLeader", NEW m
  PROVE  GoodPlace(r, x, RallyPlace(r, m))
<1> DEFINE left == {i \in Ahead(r) : r[i].slot >= 0 /\ DrawX(r[i]) < DrawX(m)}
<1>1. PICK l \in 1..Len(r) : l = Place(r, x) /\ Len(r) \in Nat
  BY PlaceOf, RowOf DEF Stands
<1>2. left \in SUBSET 1..l - 1
  BY <1>1, LeaderIs
<1>3. IsFiniteSet(1..l - 1) /\ Cardinality(1..l - 1) = l - 1
  <2>1. PICK n \in Nat : n = l - 1
    BY <1>1
  <2>2. IsFiniteSet(1..n) /\ Cardinality(1..n) = n
    BY FS_Interval
  <2> QED BY <2>1, <2>2
<1> HIDE DEF left
<1>4. Cardinality(left) \in Nat /\ Cardinality(left) <= l - 1
  BY <1>2, <1>3, FS_Subset, FS_CardinalityType
<1>5. RallyPlace(r, m) = 1 + Cardinality(left)
  BY DEF RallyPlace, left
<1> QED BY <1>1, <1>4, <1>5 DEF GoodPlace

LEMMA LeastPlace ==
  ASSUME NEW n \in Nat, NEW S \in SUBSET 1..n, S # {}
  PROVE  Min(S) \in 1..n
<1>1. IsFiniteSet(1..n)
  BY FS_Interval
<1>2. IsFiniteSet(S)
  BY <1>1, FS_Subset
<1>3. S \in SUBSET Nat
  OBVIOUS
<1> QED BY <1>2, <1>3, MinIsLeast

LEMMA TorchPlaceIs ==
  ASSUME NEW r, NEW x, NEW q, Stands(r, x, q), r[Place(r, x)].kind = "Collector", NEW m
  PROVE  GoodPlace(r, x, TorchPlace(r, m))
<1> DEFINE fallen == {i \in DOMAIN r : r[i].kind = "TorchHead" /\ r[i].slot = m.slot /\ ~Alive(r[i])}
           collectors == {i \in DOMAIN r : r[i].kind = "Collector"}
           S == IF fallen # {} THEN fallen ELSE collectors
<1>1. Len(r) \in Nat /\ DOMAIN r = 1..Len(r) /\ Place(r, x) \in collectors
  BY PlaceOf, RowOf DEF Stands
<1>2. S \in SUBSET 1..Len(r) /\ S # {}
  BY <1>1
<1>3. TorchPlace(r, m) = Min(S)
  BY DEF TorchPlace
<1> HIDE DEF S
<1>4. Min(S) \in 1..Len(r)
  BY <1>1, <1>2, LeastPlace
<1> QED BY <1>1, <1>3, <1>4 DEF GoodPlace

LEMMA DaggerPlaceIs ==
  ASSUME NEW r, NEW x, NEW q, Stands(r, x, q), r[Place(r, x)].kind = "Reptomancer", NEW m
  PROVE  GoodPlace(r, x, DaggerPlace(r, m))
<1> DEFINE rank(n) == IF n.kind = "Dagger" THEN <<4, 1, 3, 0>>[n.slot + 1] ELSE 2
           S == {i \in DOMAIN r : rank(r[i]) >= rank(m)} \cup {Len(r) + 1}
<1>1. Len(r) \in Nat /\ DOMAIN r = 1..Len(r)
  BY RowOf DEF Stands
<1>2. S \in SUBSET 1..Len(r) + 1 /\ S # {} /\ Len(r) + 1 \in Nat
  BY <1>1
<1>3. DaggerPlace(r, m) = Min(S)
  BY DEF DaggerPlace
<1> HIDE DEF S
<1>4. Min(S) \in 1..Len(r) + 1
  BY <1>2, LeastPlace
<1> QED BY <1>3, <1>4 DEF GoodPlace

------------------------------------------------------------------------------
(* The summons and the splits *)

\* The three summons are steps on the way: no minion takes a place where one lives.
LEMMA RallyKeeps ==
  ASSUME NEW r, NEW x, NEW q, Stands(r, x, q), r[Place(r, x)].kind = "GremlinLeader",
         Alive(r[Place(r, x)]), NEW s \in Rally(r)
  PROVE  Keeps(r, s, x, q)
<1>1. PICK slots : slots = RallySlots(r)
  OBVIOUS
<1>2. Vacant(slots, Places(r, x))
  BY <1>1, RallySlotsAre
<1>30. PICK kinds \in [DOMAIN slots -> Gremlins] :
         \E b \in Born(r, kinds, slots) : s = Join(r, b, RallyPlace)
  BY <1>1 DEF Rally
<1>3. PICK b \in Born(r, kinds, slots) : s = Join(r, b, RallyPlace)
  BY <1>30
<1>4. Litter(r, x, b)
  BY <1>2, <1>3, LitterIs DEF Masters, Minions
<1>5. CASE Len(b) = 0
  <2>1. s = r
    BY <1>3, <1>5 DEF Join
  <2> QED BY <2>1, KeepsSelf
<1>6. CASE Len(b) > 0
  <2>1. PICK p : p = RallyPlace(r, b[1])
    OBVIOUS
  <2>2. GoodPlace(r, x, p)
    BY <2>1, RallyPlaceIs
  <2>3. PICK t : t = InsertAt(r, p, b[1])
    OBVIOUS
  <2>4. Keeps(r, t, x, q)
    BY <1>4, <1>6, <2>2, <2>3, JoinFirst
  <2>5. CASE Len(b) = 1
    <3>1. s = t
      BY <1>3, <2>1, <2>3, <2>5 DEF Join
    <3> QED BY <2>4, <3>1
  <2>6. CASE Len(b) = 2
    <3>1. PICK o : o = RallyPlace(t, b[2])
      OBVIOUS
    <3>2. s = InsertAt(t, o, b[2])
      BY <1>3, <2>1, <2>3, <2>6, <3>1 DEF Join
    <3>3. GoodPlace(t, x, o)
      BY <2>4, <3>1, RallyPlaceIs DEF Keeps
    <3> QED BY <1>4, <2>2, <2>3, <2>6, <3>2, <3>3, JoinSecond
  <2> QED BY <1>4, <1>6, <2>5, <2>6 DEF Litter
<1> QED BY <1>4, <1>5, <1>6 DEF Litter

LEMMA TorchHeadsKeeps ==
  ASSUME NEW r, NEW x, NEW q, Stands(r, x, q), r[Place(r, x)].kind = "Collector",
         Alive(r[Place(r, x)]), NEW s \in TorchHeads(r)
  PROVE  Keeps(r, s, x, q)
<1>1. PICK slots : slots = TorchSlots(r)
  OBVIOUS
<1>2. Vacant(slots, Places(r, x))
  BY <1>1, TorchSlotsAre
<1>30. PICK kinds \in [DOMAIN slots -> {"TorchHead"}] : kinds = [k \in DOMAIN slots |-> "TorchHead"]
  OBVIOUS
<1>3. PICK b \in Born(r, kinds, slots) : s = Join(r, b, TorchPlace)
  BY <1>1, <1>30 DEF TorchHeads
<1>4. Litter(r, x, b)
  BY <1>2, <1>3, LitterIs DEF Masters, Minions
<1>5. CASE Len(b) = 0
  <2>1. s = r
    BY <1>3, <1>5 DEF Join
  <2> QED BY <2>1, KeepsSelf
<1>6. CASE Len(b) > 0
  <2>1. PICK p : p = TorchPlace(r, b[1])
    OBVIOUS
  <2>2. GoodPlace(r, x, p)
    BY <2>1, TorchPlaceIs
  <2>3. PICK t : t = InsertAt(r, p, b[1])
    OBVIOUS
  <2>4. Keeps(r, t, x, q)
    BY <1>4, <1>6, <2>2, <2>3, JoinFirst
  <2>5. CASE Len(b) = 1
    <3>1. s = t
      BY <1>3, <2>1, <2>3, <2>5 DEF Join
    <3> QED BY <2>4, <3>1
  <2>6. CASE Len(b) = 2
    <3>1. PICK o : o = TorchPlace(t, b[2])
      OBVIOUS
    <3>2. s = InsertAt(t, o, b[2])
      BY <1>3, <2>1, <2>3, <2>6, <3>1 DEF Join
    <3>3. GoodPlace(t, x, o)
      BY <2>4, <3>1, TorchPlaceIs DEF Keeps
    <3> QED BY <1>4, <2>2, <2>3, <2>6, <3>2, <3>3, JoinSecond
  <2> QED BY <1>4, <1>6, <2>5, <2>6 DEF Litter
<1> QED BY <1>4, <1>5, <1>6 DEF Litter

LEMMA DaggersKeeps ==
  ASSUME NEW r, NEW x, NEW q, Stands(r, x, q), r[Place(r, x)].kind = "Reptomancer",
         Alive(r[Place(r, x)]), NEW s \in Daggers(r)
  PROVE  Keeps(r, s, x, q)
<1>1. PICK slots : slots = DaggerSlots(r)
  OBVIOUS
<1>2. Vacant(slots, Places(r, x))
  BY <1>1, DaggerSlotsAre
<1>30. PICK kinds \in [DOMAIN slots -> {"Dagger"}] : kinds = [k \in DOMAIN slots |-> "Dagger"]
  OBVIOUS
<1>3. PICK b \in Born(r, kinds, slots) : s = Join(r, b, DaggerPlace)
  BY <1>1, <1>30 DEF Daggers
<1>4. Litter(r, x, b)
  BY <1>2, <1>3, LitterIs DEF Masters, Minions
<1>5. CASE Len(b) = 0
  <2>1. s = r
    BY <1>3, <1>5 DEF Join
  <2> QED BY <2>1, KeepsSelf
<1>6. CASE Len(b) > 0
  <2>1. PICK p : p = DaggerPlace(r, b[1])
    OBVIOUS
  <2>2. GoodPlace(r, x, p)
    BY <2>1, DaggerPlaceIs
  <2>3. PICK t : t = InsertAt(r, p, b[1])
    OBVIOUS
  <2>4. Keeps(r, t, x, q)
    BY <1>4, <1>6, <2>2, <2>3, JoinFirst
  <2>5. CASE Len(b) = 1
    <3>1. s = t
      BY <1>3, <2>1, <2>3, <2>5 DEF Join
    <3> QED BY <2>4, <3>1
  <2>6. CASE Len(b) = 2
    <3>1. PICK o : o = DaggerPlace(t, b[2])
      OBVIOUS
    <3>2. s = InsertAt(t, o, b[2])
      BY <1>3, <2>1, <2>3, <2>6, <3>1 DEF Join
    <3>3. GoodPlace(t, x, o)
      BY <2>4, <3>1, DaggerPlaceIs DEF Keeps
    <3> QED BY <1>4, <2>2, <2>3, <2>6, <3>2, <3>3, JoinSecond
  <2> QED BY <1>4, <1>6, <2>5, <2>6 DEF Litter
<1> QED BY <1>4, <1>5, <1>6 DEF Litter

\* Neither a minion nor a leader of minions: it may stand anywhere.
LEMMA FreeWelcome ==
  ASSUME NEW r, IsRow(r), NEW d \in Monster, Fit(d), d.kind \in BornKinds \ AllMinions,
         d.slot = -1, \A y \in Ids(r) : y < d.id, NEW p \in 1..Len(r) + 1
  PROVE  Welcome(r, p, d)
BY MinionsAre DEF Welcome

\* Two monsters that serve nobody may join on either side of anyone.
LEMMA AroundKeeps ==
  ASSUME NEW r, NEW x, NEW q, Stands(r, x, q), NEW i \in DOMAIN r, NEW left \in 1..i,
         NEW kinds \in [1..2 -> BornKinds \ AllMinions], NEW s \in Around(r, i, left, kinds)
  PROVE  Keeps(r, s, x, q)
<1>1. PICK slots \in [1..2 -> -1..3] : slots = <<-1, -1>>
  <2>1. <<-1, -1>> \in [1..2 -> -1..3]
    OBVIOUS
  <2> QED BY <2>1
<1>2. PICK b \in Born(r, kinds, slots) : s = InsertAt(InsertAt(r, left, b[1]), i + 2, b[2])
  BY <1>1 DEF Around
<1>3. IsRow(r)
  BY DEF Stands
<1>4. kinds \in [1..2 -> BornKinds] /\ 2 \in Nat
  OBVIOUS
<1>5. \A k \in 1..2 : Newborn(b[k], NewId(r) + k - 1, kinds[k], slots[k])
  BY <1>3, <1>4, BornIs
<1>6. /\ Newborn(b[1], NewId(r) + 1 - 1, kinds[1], -1)
      /\ Newborn(b[2], NewId(r) + 2 - 1, kinds[2], -1)
  BY <1>1, <1>5
<1>7. NewId(r) \in Nat /\ \A y \in Ids(r) : y < NewId(r) /\ y \in Nat
  BY <1>3, NewIdIs, RowOf DEF Ids
<1>8. i \in 1..Len(r) /\ Len(r) \in Nat
  BY <1>3, RowOf
<1>9. PICK t : t = InsertAt(r, left, b[1])
  OBVIOUS
<1>10. Keeps(r, t, x, q) /\ Joined(r, t, left, b[1])
  <2>1. Welcome(r, left, b[1])
    <3>1. b[1] \in Monster /\ Fit(b[1]) /\ b[1].kind \in BornKinds \ AllMinions /\ b[1].slot = -1
      BY <1>6 DEF Newborn
    <3>2. \A y \in Ids(r) : y < b[1].id
      BY <1>6, <1>7 DEF Newborn
    <3>3. left \in 1..Len(r) + 1
      BY <1>8
    <3> QED BY <1>3, <3>1, <3>2, <3>3, FreeWelcome
  <2> QED BY <1>9, <2>1, JoinStands
<1>11. Keeps(t, InsertAt(t, i + 2, b[2]), x, q)
  <2>1. Stands(t, x, q) /\ IsRow(t)
    BY <1>10 DEF Keeps, Stands
  <2>2. Welcome(t, i + 2, b[2])
    <3>1. b[2] \in Monster /\ Fit(b[2]) /\ b[2].kind \in BornKinds \ AllMinions /\ b[2].slot = -1
      BY <1>6 DEF Newborn
    <3>2. \A y \in Ids(t) : y < b[2].id
      BY <1>6, <1>7, <1>10 DEF Newborn, Joined
    <3>3. i + 2 \in 1..Len(t) + 1
      BY <1>8, <1>10 DEF Joined
    <3> QED BY <2>1, <3>1, <3>2, <3>3, FreeWelcome
  <2> QED BY <2>1, <2>2, JoinStands
<1> QED BY <1>2, <1>9, <1>10, <1>11 DEF Keeps

\* A slime that splits is gone.
SplitFrom(m) == IF m.kind \in Splitting THEN [m EXCEPT !.hp = 0] ELSE m

\* A slime that splits dies, and its halves join the row.
LEMMA SplitStands ==
  ASSUME NEW r, NEW x, NEW q, Stands(r, x, q), NEW m, m = r[Place(r, x)],
         m.kind \in Splitting, NEW s \in Split(r, m)
  PROVE  Stands(s, x, q) /\ s[Place(s, x)] = [m EXCEPT !.hp = 0]
<1>1. PICK i \in DOMAIN r : i = Place(r, x)
  BY PlaceOf DEF Stands
<1>2. PICK n : n = [m EXCEPT !.hp = 0]
  OBVIOUS
<1>3. m \in Monster /\ m.id = x /\ IsRow(r) /\ i \in 1..Len(r) /\ Len(r) \in Nat
  BY <1>1, RowOf, PlaceOf DEF Stands
<1>4. Becomes(m, n)
  <2>1. n \in Monster /\ n.id = m.id /\ n.kind = m.kind /\ n.slot = m.slot /\ n.hp = 0
    BY <1>2, <1>3, Felled
  <2>2. m.kind # "Darkling" /\ ~Alive(n)
    BY <2>1 DEF Splitting, Alive
  <2> QED BY <2>1, <2>2 DEF Becomes
<1>5. PICK gone : gone = Put(r, n)
  OBVIOUS
<1>6. n.kind \notin Masters
  BY <1>4 DEF Becomes, Splitting, Masters
<1>7. /\ Stands(gone, x, q) /\ gone[i] = n /\ Place(gone, x) = i
      /\ DOMAIN gone = DOMAIN r
  BY <1>1, <1>4, <1>5, <1>6, PutStands
<1>8. \E left \in 1..i, kinds \in [1..2 -> BornKinds \ AllMinions] : s \in Around(gone, i, left, kinds)
  <2> DEFINE bosses == {j \in 1 .. i - 1 : r[j].kind = "SlimeBoss" /\ ~Alive(r[j])}
             left == IF bosses = {} THEN i ELSE Min(bosses)
  <2>1. i \in 1..i /\ i \in Nat
    BY <1>3
  <2>2. left \in 1..i
    <3>1. CASE bosses = {}
      BY <2>1, <3>1
    <3>2. CASE bosses # {}
      <4>1. bosses \in SUBSET 1..i
        BY <2>1
      <4> HIDE DEF bosses
      <4>2. Min(bosses) \in 1..i
        BY <2>1, <3>2, <4>1, LeastPlace
      <4> QED BY <3>2, <4>2
    <3> QED BY <3>1, <3>2
  <2> HIDE DEF left
  <2>3. /\ <<"LargeSpike", "LargeAcid">> \in [1..2 -> BornKinds \ AllMinions]
        /\ <<"MediumSpike", "MediumSpike">> \in [1..2 -> BornKinds \ AllMinions]
        /\ <<"MediumAcid", "MediumAcid">> \in [1..2 -> BornKinds \ AllMinions]
    BY DEF BornKinds, AllMinions, Gremlins
  <2>4. Place(r, m.id) = i
    BY <1>1, <1>3
  <2>5. CASE m.kind = "SlimeBoss"
    <3>1. s \in Around(gone, i, i, <<"LargeSpike", "LargeAcid">>)
      BY <1>2, <1>5, <2>4, <2>5 DEF Split
    <3> QED BY <2>1, <2>3, <3>1
  <2>6. CASE m.kind = "LargeSpike"
    <3>1. s \in Around(gone, i, i, <<"MediumSpike", "MediumSpike">>)
      BY <1>2, <1>5, <2>4, <2>6 DEF Split
    <3> QED BY <2>1, <2>3, <3>1
  <2>7. CASE m.kind = "LargeAcid"
    <3>1. s \in Around(gone, i, left, <<"MediumAcid", "MediumAcid">>)
      BY <1>2, <1>5, <2>4, <2>7 DEF Split, left
    <3> QED BY <2>2, <2>3, <3>1
  <2> QED BY <2>5, <2>6, <2>7 DEF Splitting
<1>9. PICK left \in 1..i, kinds \in [1..2 -> BornKinds \ AllMinions] : s \in Around(gone, i, left, kinds)
  BY <1>8
<1>10. Keeps(gone, s, x, q)
  BY <1>7, <1>9, AroundKeeps
<1> QED BY <1>2, <1>7, <1>10 DEF Keeps

\* Everything a move brings into the row leaves it on the way.
LEMMA SummonedStands ==
  ASSUME NEW r, NEW x, NEW q, Stands(r, x, q), NEW m, m = r[Place(r, x)],
         Alive(m), Summons(m), NEW s \in Summoned(r, m)
  PROVE  Stands(s, x, q) /\ s[Place(s, x)] = SplitFrom(m)
<1>1. Place(r, x) \in DOMAIN r /\ m.id = x
  BY PlaceOf DEF Stands
<1>2. m.kind \in Splitting \cup {"Collector", "GremlinLeader", "Reptomancer", "BronzeAutomaton"}
  BY DEF Summons
<1>3. CASE m.kind \in Splitting
  <2>1. s \in Split(r, m)
    BY <1>3 DEF Summoned, Splitting
  <2> QED BY <1>3, <2>1, SplitStands DEF SplitFrom
<1>4. CASE m.kind \notin Splitting
  <2>1. SplitFrom(m) = m
    BY <1>4 DEF SplitFrom
  <2>2. Keeps(r, s, x, q)
    <3>1. CASE m.kind = "GremlinLeader"
      <4>1. s \in Rally(r)
        BY <1>4, <3>1 DEF Summoned
      <4> QED BY <3>1, <4>1, RallyKeeps
    <3>2. CASE m.kind = "Collector"
      <4>1. s \in TorchHeads(r)
        BY <1>4, <3>2 DEF Summoned
      <4> QED BY <3>2, <4>1, TorchHeadsKeeps
    <3>3. CASE m.kind = "Reptomancer"
      <4>1. s \in Daggers(r)
        BY <1>4, <3>3 DEF Summoned
      <4> QED BY <3>3, <4>1, DaggersKeeps
    <3>4. CASE m.kind = "BronzeAutomaton"
      <4>1. PICK i \in DOMAIN r : i = Place(r, x)
        BY <1>1
      <4>2. s \in Around(r, i, i, <<"BronzeOrb", "BronzeOrb">>)
        BY <1>1, <1>4, <3>4, <4>1 DEF Summoned
      <4>3. <<"BronzeOrb", "BronzeOrb">> \in [1..2 -> BornKinds \ AllMinions]
        BY DEF BornKinds, AllMinions, Gremlins
      <4>4. i \in 1..i
        BY RowOf DEF Stands
      <4> QED BY <4>2, <4>3, <4>4, AroundKeeps
    <3> QED BY <1>2, <1>4, <3>1, <3>2, <3>3, <3>4
  <2> QED BY <2>1, <2>2 DEF Keeps
<1> QED BY <1>3, <1>4

------------------------------------------------------------------------------
(* The limits on the moves performed *)

\* One more move keeps the limits when it respects each of them.
LEMMA LimitsAppend ==
  ASSUME NEW kind, NEW h \in Seq(0..8), NEW b \in 0..8, WithinLimits(kind, h),
         <<kind, b>> \in NeverTwice => ~LastMove(h, b),
         <<kind, b>> \in NeverThrice => ~LastTwoMoves(h, b),
         <<kind, b>> \in Once => b \notin ToSet(h),
         kind = "Darkling" /\ b = 5 => LastMove(h, 4)
  PROVE  WithinLimits(kind, Append(h, b))
<1> DEFINE t == Append(h, b)
           n == Len(h)
<1>1. /\ t \in Seq(0..8) /\ Len(t) = n + 1 /\ n \in Nat /\ DOMAIN t = 1..n + 1
      /\ t[n + 1] = b /\ \A i \in 1..n : t[i] = h[i]
  BY AppendIs
<1>2. DOMAIN h = 1..n
  OBVIOUS
<1>3. \A c : c \in ToSet(t) <=> c = b \/ c \in ToSet(h)
  BY AppendIs
<1>4. \A i \in 1..n : h[i] \in ToSet(h)
  BY <1>2 DEF ToSet
<1> HIDE DEF t, n
<1> SUFFICES ASSUME NEW c \in ToSet(t)
             PROVE  /\ <<kind, c>> \in NeverTwice =>
                         ~\E j \in 1 .. Len(t) + 1 - 2 : \A k \in j .. j + 2 - 1 : t[k] = c
                    /\ <<kind, c>> \in NeverThrice =>
                         ~\E j \in 1 .. Len(t) + 1 - 3 : \A k \in j .. j + 3 - 1 : t[k] = c
                    /\ <<kind, c>> \in Once => Times(t, c) = 1
                    /\ kind = "Darkling" /\ c = 5 =>
                         \A j \in DOMAIN t : t[j] = 5 => j > 1 /\ t[j - 1] = 4
  BY DEF WithinLimits, t
<1>5. c \in ToSet(h) =>
        /\ <<kind, c>> \in NeverTwice =>
             ~\E j \in 1 .. n + 1 - 2 : \A k \in j .. j + 2 - 1 : h[k] = c
        /\ <<kind, c>> \in NeverThrice =>
             ~\E j \in 1 .. n + 1 - 3 : \A k \in j .. j + 3 - 1 : h[k] = c
        /\ <<kind, c>> \in Once => Times(h, c) = 1
        /\ kind = "Darkling" /\ c = 5 =>
             \A j \in DOMAIN h : h[j] = 5 => j > 1 /\ h[j - 1] = 4
  BY DEF WithinLimits, n
<1>6. ASSUME <<kind, c>> \in NeverTwice, NEW j \in 1 .. Len(t) + 1 - 2,
             \A k \in j .. j + 2 - 1 : t[k] = c
      PROVE  FALSE
  <2>1. j \in 1..n /\ t[j] = c /\ t[j + 1] = c
    BY <1>1, <1>6
  <2>2. h[j] = c /\ c \in ToSet(h)
    BY <1>1, <1>4, <2>1
  <2>3. CASE j < n
    <3>1. j \in 1..n + 1 - 2 /\ \A k \in j .. j + 2 - 1 : h[k] = c
      BY <1>1, <1>6, <2>1, <2>3
    <3> QED BY <1>5, <1>6, <2>2, <3>1
  <2>4. CASE j = n
    <3>1. c = b /\ h # <<>> /\ h[Len(h)] = b
      BY <1>1, <2>1, <2>2, <2>4 DEF n
    <3> QED BY <1>6, <3>1 DEF LastMove
  <2> QED BY <1>1, <2>1, <2>3, <2>4
<1>7. ASSUME <<kind, c>> \in NeverThrice, NEW j \in 1 .. Len(t) + 1 - 3,
             \A k \in j .. j + 3 - 1 : t[k] = c
      PROVE  FALSE
  <2>1. j \in 1..n - 1 /\ t[j] = c /\ t[j + 1] = c /\ t[j + 2] = c
    BY <1>1, <1>7
  <2>2. h[j] = c /\ h[j + 1] = c /\ c \in ToSet(h)
    BY <1>1, <1>4, <2>1
  <2>3. CASE j < n - 1
    <3>1. j \in 1..n + 1 - 3 /\ \A k \in j .. j + 3 - 1 : h[k] = c
      BY <1>1, <1>7, <2>1, <2>3
    <3> QED BY <1>5, <1>7, <2>2, <3>1
  <2>4. CASE j = n - 1
    <3>1. c = b /\ h # <<>> /\ h[Len(h)] = b /\ Len(h) > 1 /\ h[Len(h) - 1] = b
      BY <1>1, <2>1, <2>2, <2>4 DEF n
    <3> QED BY <1>7, <3>1 DEF LastTwoMoves, LastMove, LastMoveBefore
  <2> QED BY <1>1, <2>1, <2>3, <2>4
<1>8. ASSUME <<kind, c>> \in Once
      PROVE  Times(t, c) = 1
  <2>1. CASE c = b
    <3>1. {i \in DOMAIN t : t[i] = c} = {n + 1}
      BY <1>1, <1>4, <1>8, <2>1
    <3> QED BY <3>1, FS_Singleton DEF Times
  <2>2. CASE c # b
    <3>1. {i \in DOMAIN t : t[i] = c} = {i \in DOMAIN h : h[i] = c}
      BY <1>1, <1>2, <2>2
    <3>2. c \in ToSet(h)
      BY <1>3, <2>2
    <3> QED BY <1>5, <1>8, <3>1, <3>2 DEF Times
  <2> QED BY <2>1, <2>2
<1>9. ASSUME kind = "Darkling", c = 5, NEW j \in DOMAIN t, t[j] = 5
      PROVE  j > 1 /\ t[j - 1] = 4
  <2>1. CASE j \in 1..n
    <3>1. h[j] = 5 /\ c \in ToSet(h)
      BY <1>1, <1>4, <1>9, <2>1
    <3>2. j > 1 /\ h[j - 1] = 4
      BY <1>2, <1>5, <1>9, <2>1, <3>1
    <3> QED BY <1>1, <2>1, <3>2
  <2>2. CASE j = n + 1
    <3>1. h # <<>> /\ h[Len(h)] = 4
      BY <1>1, <1>9, <2>2 DEF LastMove
    <3>2. n > 0 /\ h[n] = 4
      BY <1>1, <3>1 DEF n
    <3> QED BY <1>1, <2>2, <3>2
  <2> QED BY <1>1, <1>9, <2>1, <2>2
<1> QED BY <1>6, <1>7, <1>8, <1>9

\* What a monster is like once it has also performed b.
Having(m, b) == [m EXCEPT !.did = Append(@, b)]
\* m is fit once it has performed b.
FitAfter(m, b) == Fit(Having(m, b))

LEMMA HavingIs ==
  ASSUME NEW m \in Monster, NEW b \in 0..8, NEW n, n = Having(m, b)
  PROVE  /\ n \in Monster /\ n.id = m.id /\ n.kind = m.kind /\ n.slot = m.slot
         /\ n.intent = m.intent /\ n.moves = m.moves /\ n.hist = m.hist
         /\ n.mode = m.mode /\ n.hp = m.hp
<1>1. Append(m.did, b) \in Seq(0..8)
  BY AppendIs, MonsterFields
<1> QED BY <1>1 DEF Monster, Having

LEMMA HavingDid ==
  ASSUME NEW m \in Monster, NEW b \in 0..8, NEW n, n = Having(m, b)
  PROVE  n.did = Append(m.did, b)
BY DEF Monster, Having

\* n is what o is once it performed its move, the next one still to be shown.
Done(o, n) ==
  /\ n \in Monster /\ n.kind = o.kind /\ n.did = o.did
  /\ n.mode \in Modes(n.kind)
  /\ HalfDead(n) => ~Alive(n)
  /\ \A c \in ToSet(o.did) \cup {o.intent} :
       <<o.kind, c>> \in Once \cup {<<"AwakenedOne", 3>>} => UsedUp(n, c)

LEMMA UsedUpOn ==
  ASSUME NEW n, NEW f, NEW c, UsedUp(n, c), f.kind = n.kind, f.moves >= n.moves,
         n.moves \in Nat, f.moves \in Nat,
         f.mode = n.mode, Used(n.hist, c) => Used(f.hist, c)
  PROVE  UsedUp(f, c)
BY DEF UsedUp

\* Performing a move that may be performed leaves the marks that tell it was.
LEMMA MarkedAfter ==
  ASSUME NEW o \in Monster, Marked(o), Ready(o), NEW n, Done(o, n), NEW f \in Monster,
         f.kind = n.kind, f.did = n.did, f.mode = n.mode, f.moves = n.moves,
         \A c : Used(n.hist, c) => Used(f.hist, c), HalfDead(f) => ~Alive(f)
  PROVE  Marked(Having(f, o.intent))
<1> DEFINE b == o.intent
           g == Having(f, b)
<1>1. b \in 0..8 /\ o.did \in Seq(0..8) /\ n \in Monster
  BY MonsterFields DEF Done
<1>2. /\ g \in Monster /\ g.kind = o.kind /\ g.intent = f.intent /\ g.moves = n.moves
      /\ g.hist = f.hist /\ g.mode = n.mode /\ g.hp = f.hp
  BY <1>1, HavingIs DEF Done
<1>3. g.did = Append(o.did, b)
  <2>1. g.did = Append(f.did, b)
    BY <1>1, HavingDid
  <2>2. f.did = o.did
    BY DEF Done
  <2> QED BY <2>1, <2>2
<1> HIDE DEF g
<1>4. g.mode \in Modes(g.kind)
  BY <1>2 DEF Done
<1>5. HalfDead(g) => ~Alive(g)
  BY <1>2 DEF HalfDead, Alive
<1>6. ASSUME NEW c \in ToSet(g.did), <<g.kind, c>> \in Once \cup {<<"AwakenedOne", 3>>}
      PROVE  UsedUp(g, c)
  <2>1. c \in ToSet(o.did) \cup {o.intent}
    BY <1>1, <1>3, <1>6, AppendIs
  <2>2. UsedUp(n, c)
    BY <1>2, <1>6, <2>1 DEF Done
  <2>3. g.kind = n.kind /\ g.moves >= n.moves /\ n.moves \in Nat /\ g.moves \in Nat
    BY <1>1, <1>2, MonsterFields DEF Done
  <2> QED BY <1>2, <2>2, <2>3, UsedUpOn
<1>7. WithinLimits(g.kind, g.did)
  <2>1. WithinLimits(o.kind, o.did)
    BY DEF Marked
  <2>2. WithinLimits(o.kind, Append(o.did, b))
    BY <1>1, <2>1, LimitsAppend DEF Ready
  <2> QED BY <1>2, <1>3, <2>2
<1> QED BY <1>4, <1>5, <1>6, <1>7 DEF Marked, g

\* b is a move the code may announce for n.
Respects(n, b) ==
  /\ b \in 0..8
  /\ <<n.kind, b>> \in NeverTwice => ~LastMove(n.hist, b)
  /\ <<n.kind, b>> \in NeverThrice => ~LastTwoMoves(n.hist, b)
  /\ <<n.kind, b>> \in Once => ~UsedUp(n, b)
  /\ n.kind = "AwakenedOne" => b \notin {3, 5}
  /\ n.kind = "Darkling" => b \notin {4, 5}
  /\ n.kind = "Lagavulin" /\ b = 5 => n.mode > 0

\* Announcing what the table allows makes the monster fit for its next turn.
LEMMA RollFits ==
  ASSUME NEW o \in Monster, Marked(o), Ready(o), NEW n, Done(o, n), Alive(n),
         <<o.kind, o.intent>> \in NeverTwice \cup NeverThrice => n.hist = o.hist,
         NEW c, Respects(n, c)
  PROVE  FitAfter(Announce(n, c), o.intent)
<1> DEFINE b == o.intent
<1>1. PICK f : f = Announce(n, c)
  OBVIOUS
<1>2. b \in 0..8 /\ o.did \in Seq(0..8) /\ n \in Monster /\ n.hist \in Seq(0..8) /\ c \in 0..8
  BY MonsterFields DEF Done, Respects
<1>3. /\ f \in Monster /\ f.kind = n.kind /\ f.intent = c /\ f.moves = n.moves
      /\ f.did = n.did /\ f.mode = n.mode /\ f.hp = n.hp
  BY <1>1, <1>2, AnnounceIs
<1>4. f.hist = Append(n.hist, c)
  BY <1>1, <1>2, AnnounceHist
<1>5. PICK g : g = Having(f, b)
  OBVIOUS
<1>6. /\ g \in Monster /\ g.kind = o.kind /\ g.intent = c /\ g.mode = n.mode /\ g.hp = n.hp
  BY <1>2, <1>3, <1>5, HavingIs DEF Done
<1>7. g.hist = Append(n.hist, c)
  BY <1>2, <1>3, <1>4, <1>5, HavingIs
<1>8. g.did = Append(o.did, b)
  <2>1. g.did = Append(f.did, b)
    BY <1>2, <1>3, <1>5, HavingDid
  <2> QED BY <1>3, <2>1 DEF Done
<1>9. Marked(g)
  <2>1. \A d : Used(n.hist, d) => Used(f.hist, d)
    BY <1>2, <1>4, AppendIs
  <2>2. HalfDead(f) => ~Alive(f)
    BY <1>3 DEF Done, HalfDead, Alive
  <2> QED BY <1>3, <1>5, <2>1, <2>2, MarkedAfter
<1>10. /\ LastMove(g.hist, c) /\ Used(g.hist, c)
       /\ LastMoveBefore(g.hist, c) <=> LastMove(n.hist, c)
  BY <1>2, <1>7, AppendIs
<1>11. /\ LastMove(g.did, c) <=> c = b
       /\ LastMoveBefore(g.did, c) <=> LastMove(o.did, c)
       /\ c \in ToSet(g.did) <=> c = b \/ c \in ToSet(o.did)
  <2>1. PICK h : h = o.did
    OBVIOUS
  <2>2. /\ LastMove(Append(h, b), c) <=> b = c
        /\ LastMoveBefore(Append(h, b), c) <=> LastMove(h, c)
        /\ c \in ToSet(Append(h, b)) <=> c = b \/ c \in ToSet(h)
    <3>1. h \in Seq(0..8) /\ b \in 0..8
      BY <1>2, <2>1
    <3> HIDE DEF b
    <3> QED BY <3>1, AppendIs
  <2> QED BY <1>8, <2>1, <2>2
<1>12. <<o.kind, c>> \in NeverTwice => c # b
  <2> SUFFICES ASSUME <<o.kind, c>> \in NeverTwice, c = b PROVE FALSE
    OBVIOUS
  <2>1. LastMove(o.hist, c) /\ n.hist = o.hist /\ n.kind = o.kind
    BY DEF Ready, Done
  <2> QED BY <2>1 DEF Respects
<1>13. ASSUME <<o.kind, c>> \in NeverThrice, c = b
       PROVE  LastMove(n.hist, c) /\ ~LastMove(o.did, c)
  <2>1. /\ LastMove(o.hist, c) /\ n.hist = o.hist /\ n.kind = o.kind
        /\ LastMove(o.did, c) => LastMoveBefore(o.hist, c)
    BY <1>13 DEF Ready, Done
  <2>2. ~LastTwoMoves(n.hist, c)
    BY <1>13, <2>1 DEF Respects
  <2> QED BY <2>1, <2>2 DEF LastTwoMoves
<1>14. <<o.kind, c>> \in Once => c \notin ToSet(g.did)
  <2>1. n.kind = o.kind
    BY DEF Done
  <2>2. <<o.kind, c>> \in Once => ~UsedUp(n, c)
    BY <2>1 DEF Respects
  <2> QED BY <1>11, <2>2 DEF Done
<1>15. /\ o.kind = "AwakenedOne" => c \notin {3, 5} /\ n.mode # -1
       /\ o.kind = "Darkling" => c # 5
       /\ o.kind = "Lagavulin" /\ c = 5 => n.mode > 0
  BY DEF Respects, Done, HalfDead
<1>16. Ready(g)
  <2>1. <<o.kind, c>> \in NeverTwice => ~LastMove(g.did, c)
    BY <1>11, <1>12
  <2>2. <<o.kind, c>> \in NeverThrice =>
          ~LastTwoMoves(g.did, c) /\ (LastMove(g.did, c) => LastMoveBefore(g.hist, c))
    BY <1>10, <1>11, <1>13 DEF LastTwoMoves
  <2> QED BY <1>6, <1>10, <1>14, <1>15, <2>1, <2>2 DEF Ready
<1> QED BY <1>1, <1>5, <1>9, <1>16 DEF Fit, FitAfter

\* A move no limit is about may be shown at any time.
Plain(kind, b) ==
  /\ <<kind, b>> \notin NeverTwice \cup NeverThrice \cup Once
  /\ kind # "AwakenedOne"
  /\ ~(kind \in {"Darkling", "Lagavulin"} /\ b = 5)

LEMMA PlainReady ==
  ASSUME NEW m, Plain(m.kind, m.intent)
  PROVE  Ready(m)
BY DEF Plain, Ready

\* So does showing a move that no limit is about.
LEMMA PlainFits ==
  ASSUME NEW o \in Monster, Marked(o), Ready(o), NEW n, Done(o, n), NEW f \in Monster,
         f.kind = n.kind, f.did = n.did, f.mode = n.mode, f.moves = n.moves,
         \A c : Used(n.hist, c) => Used(f.hist, c), HalfDead(f) => ~Alive(f),
         Alive(f) \/ HalfDead(f) => Plain(f.kind, f.intent)
  PROVE  FitAfter(f, o.intent)
<1> DEFINE g == Having(f, o.intent)
<1>1. o.intent \in 0..8
  BY MonsterFields
<1>2. /\ g.kind = f.kind /\ g.intent = f.intent /\ g.mode = f.mode /\ g.hp = f.hp
  BY <1>1, HavingIs
<1>3. Marked(g)
  BY MarkedAfter
<1> HIDE DEF g
<1>4. Alive(g) \/ HalfDead(g) => Ready(g)
  BY <1>2, PlainReady DEF Alive, HalfDead
<1> QED BY <1>3, <1>4 DEF Fit, FitAfter, g

------------------------------------------------------------------------------
(* Losing health *)

\* What health losses leave of a living monster.
Hurt(m, w) ==
  /\ w \in Monster /\ w.id = m.id /\ w.kind = m.kind /\ w.slot = m.slot
  /\ w.did = m.did /\ w.moves = m.moves
  /\ m.kind = "Darkling" => Alive(w) \/ HalfDead(w)

\* Neither a hit nor anything that made the monster roll or fall and rise.
Same(m, w) ==
  /\ w.hist = m.hist
  /\ \/ w.mode = m.mode
     \/ m.kind \in Splitting /\ w.mode = 1
     \/ m.kind = "Guardian" /\ m.mode = 0 /\ w.mode = 3
  /\ \/ w.intent = m.intent
     \/ m.kind \in Splitting /\ w.intent = 3
     \/ m.kind = "Guardian" /\ w.intent = 1

\* A loss of health changes a monster as far as Becomes allows.
LEMMA HurtBecomes ==
  ASSUME NEW m, NEW w, Hurt(m, w), Alive(m)
  PROVE  Becomes(m, w)
BY DEF Hurt, Becomes

LEMMA WithHp ==
  ASSUME NEW m \in Monster, NEW hp \in 0..2, NEW w, w = [m EXCEPT !.hp = hp]
  PROVE  /\ w \in Monster /\ w.id = m.id /\ w.kind = m.kind /\ w.slot = m.slot
         /\ w.intent = m.intent /\ w.moves = m.moves /\ w.hist = m.hist
         /\ w.did = m.did /\ w.mode = m.mode /\ w.hp = hp
BY DEF Monster

\* n is m announcing b ...
Announces(m, n, b) ==
  /\ n \in Monster /\ n.id = m.id /\ n.kind = m.kind /\ n.slot = m.slot
  /\ n.intent = b /\ n.moves = m.moves /\ n.hist = Append(m.hist, b)
  /\ n.did = m.did /\ n.mode = m.mode /\ n.hp = m.hp

LEMMA AnnounceDoes ==
  ASSUME NEW m \in Monster, NEW b \in 0..8
  PROVE  Announces(m, Announce(m, b), b)
<1>1. Append(m.hist, b) \in Seq(0..8)
  BY MonsterFields
<1> QED BY <1>1 DEF Announces, Announce, Monster

\* ... or m with another mode ...
Moded(m, n, v) ==
  /\ n \in Monster /\ n.id = m.id /\ n.kind = m.kind /\ n.slot = m.slot
  /\ n.intent = m.intent /\ n.moves = m.moves /\ n.hist = m.hist
  /\ n.did = m.did /\ n.mode = v /\ n.hp = m.hp

LEMMA ModeIs ==
  ASSUME NEW m \in Monster, NEW v \in Int
  PROVE  Moded(m, [m EXCEPT !.mode = v], v)
BY DEF Moded, Monster

\* ... or m showing b without a new entry in its history.
Shows(m, n, b, v) ==
  /\ n \in Monster /\ n.id = m.id /\ n.kind = m.kind /\ n.slot = m.slot
  /\ n.intent = b /\ n.moves = m.moves /\ n.hist = m.hist
  /\ n.did = m.did /\ n.mode = v /\ n.hp = m.hp

LEMMA ShowsIs ==
  ASSUME NEW m \in Monster, NEW b \in 0..8, NEW v \in Int
  PROVE  Shows(m, [m EXCEPT !.intent = b, !.mode = v], b, v)
BY DEF Shows, Monster

\* The kinds with a move made once.
OnceKinds == Remembering \cup {"BronzeAutomaton", "WrithingMass", "AwakenedOne"}

LEMMA OnceIs ==
  ASSUME NEW kind, NEW b, <<kind, b>> \in Once \cup {<<"AwakenedOne", 3>>}
  PROVE  kind \in OnceKinds
BY DEF Once, OnceKinds, Remembering

LEMMA PlainWound ==
  ASSUME NEW m, Marked(m), NEW w, w.kind = m.kind, w.did = m.did,
         w.kind \notin OnceKinds, w.mode \in Modes(w.kind), HalfDead(w) => ~Alive(w),
         Plain(w.kind, w.intent)
  PROVE  Fit(w)
<1>1. Ready(w)
  BY PlainReady
<1>2. \A b \in ToSet(w.did) : <<w.kind, b>> \in Once \cup {<<"AwakenedOne", 3>>} => UsedUp(w, b)
  BY OnceIs
<1> QED BY <1>1, <1>2 DEF Fit, Marked

LEMMA MoreUsed ==
  ASSUME NEW h \in Seq(0..8), NEW b \in 0..8, NEW c, Used(h, c)
  PROVE  Used(Append(h, b), c)
BY AppendIs

LEMMA LevelsAre ==
  ASSUME NEW m \in Monster, Alive(m), NEW hp \in Levels(m)
  PROVE  hp \in 0..2 /\ hp <= m.hp
BY MonsterFields DEF Levels

\* w is what a loss of health may leave of a living monster m.
Wound(m, w, cause) ==
  /\ Hurt(m, w) /\ Fit(w)
  /\ ~HalfDead(w) /\ cause # "hit" => Same(m, w)
  /\ \A c : Used(m.hist, c) => Used(w.hist, c)
  /\ HalfDead(w) => w.kind = "AwakenedOne" \/ w.intent = 4
  /\ w.mode = m.mode \/ m.mode = 0 \/ w.kind \notin OnceKinds

\* A Darkling that falls shows that it comes back ...
LEMMA DarklingFalls ==
  ASSUME NEW m \in Monster, Fit(m), Alive(m), m.kind = "Darkling", NEW cause,
         NEW v, v = [m EXCEPT !.hp = 0],
         NEW w, w = [IF m.intent = 4 THEN v ELSE Announce(v, 4) EXCEPT !.mode = -1]
  PROVE  Wound(m, w, cause)
<1>1. /\ v \in Monster /\ v.id = m.id /\ v.kind = m.kind /\ v.slot = m.slot
      /\ v.intent = m.intent /\ v.moves = m.moves /\ v.hist = m.hist
      /\ v.did = m.did /\ v.mode = m.mode /\ v.hp = 0
  BY WithHp
<1>2. PICK a : a = IF m.intent = 4 THEN v ELSE Announce(v, 4)
  OBVIOUS
<1>3. /\ a \in Monster /\ a.id = m.id /\ a.kind = m.kind /\ a.slot = m.slot
      /\ a.intent = 4 /\ a.moves = m.moves
      /\ a.did = m.did /\ a.hp = 0
      /\ \A c : Used(m.hist, c) => Used(a.hist, c)
  <2>1. CASE m.intent = 4
    BY <1>1, <1>2, <2>1
  <2>2. CASE m.intent # 4
    <3>1. a = Announce(v, 4) /\ 4 \in 0..8
      BY <1>2, <2>2
    <3>2. Announces(v, a, 4)
      BY <1>1, <3>1, AnnounceDoes
    <3>3. \A c : Used(m.hist, c) => Used(a.hist, c)
      BY <1>1, <3>1, <3>2, MoreUsed, MonsterFields DEF Announces
    <3> QED BY <1>1, <3>2, <3>3 DEF Announces
  <2> QED BY <2>1, <2>2
<1>4. w = [a EXCEPT !.mode = -1]
  BY <1>2
<1>5. /\ w \in Monster /\ w.id = m.id /\ w.kind = m.kind /\ w.slot = m.slot
      /\ w.intent = 4 /\ w.moves = m.moves /\ w.hist = a.hist
      /\ w.did = m.did /\ w.mode = -1 /\ w.hp = 0
  <2>1. -1 \in Int
    OBVIOUS
  <2>2. Moded(a, w, -1)
    BY <1>3, <1>4, <2>1, ModeIs
  <2> QED BY <1>3, <2>2 DEF Moded
<1>6. HalfDead(w) /\ ~Alive(w)
  BY <1>5 DEF HalfDead, Alive
<1>7. w.kind \notin OnceKinds /\ w.mode \in Modes(w.kind) /\ Plain(w.kind, w.intent)
  BY <1>5 DEF OnceKinds, Remembering, Modes, Splitting, Plain, NeverTwice, NeverThrice,
    Once
<1>8. Fit(w)
  BY <1>5, <1>6, <1>7, PlainWound DEF Fit
<1> QED BY <1>3, <1>5, <1>6, <1>7, <1>8 DEF Wound, Hurt

\* ... and so does the Awakened One, the first time.
LEMMA AwakenedFalls ==
  ASSUME NEW m \in Monster, Fit(m), Alive(m), m.kind = "AwakenedOne", m.mode = 0, NEW cause,
         NEW v, v = [m EXCEPT !.hp = 0],
         NEW w, w = [Announce(v, 3) EXCEPT !.mode = -1]
  PROVE  Wound(m, w, cause)
<1>1. /\ v \in Monster /\ v.id = m.id /\ v.kind = m.kind /\ v.slot = m.slot
      /\ v.moves = m.moves /\ v.hist = m.hist /\ v.did = m.did /\ v.hp = 0
  BY WithHp
<1>2. PICK a : a = Announce(v, 3)
  OBVIOUS
<1>3. Announces(v, a, 3)
  <2>1. 3 \in 0..8
    OBVIOUS
  <2> QED BY <1>1, <1>2, <2>1, AnnounceDoes
<1>4. a \in Monster /\ a.hist = Append(v.hist, 3) /\ 3 \in 0..8
  BY <1>3 DEF Announces
<1>5. \A c : Used(m.hist, c) => Used(a.hist, c)
  BY <1>1, <1>4, MoreUsed, MonsterFields
<1>6. /\ w \in Monster /\ w.id = m.id /\ w.kind = m.kind /\ w.slot = m.slot
      /\ w.intent = 3 /\ w.moves = m.moves /\ w.hist = a.hist
      /\ w.did = m.did /\ w.mode = -1 /\ w.hp = 0
  <2>1. -1 \in Int
    OBVIOUS
  <2>2. Moded(a, w, -1)
    BY <1>2, <1>4, <2>1, ModeIs
  <2> QED BY <1>1, <1>3, <2>2 DEF Moded, Announces
<1>7. HalfDead(w) /\ ~Alive(w)
  BY <1>6 DEF HalfDead, Alive
<1>8. Marked(w)
  <2>1. \A b \in ToSet(m.did) : b \notin {3, 5}
    BY DEF Fit, Marked, UsedUp, Once, Remembering
  <2>2. w.mode \in Modes(w.kind)
    BY <1>6 DEF Modes, Splitting
  <2>3. \A b \in ToSet(w.did) : <<w.kind, b>> \notin Once \cup {<<"AwakenedOne", 3>>}
    BY <1>6, <2>1 DEF Once
  <2> QED BY <1>6, <1>7, <2>2, <2>3 DEF Fit, Marked
<1>9. Ready(w)
  BY <1>6 DEF Ready, NeverTwice, NeverThrice, Once, Remembering
<1> QED BY <1>5, <1>6, <1>7, <1>8, <1>9 DEF Wound, Hurt, Fit

\* A threshold that changes the move shown: Guardian, slimes, Byrd, Lagavulin.
LEMMA PlainChange ==
  ASSUME NEW m \in Monster, Fit(m), Alive(m), NEW cause, NEW hp \in 1..2,
         NEW b \in 0..8, NEW mode \in 0..3, NEW v, v = [m EXCEPT !.hp = hp],
         NEW w, w = [v EXCEPT !.intent = b, !.mode = mode],
         \/ m.kind \in Splitting /\ b = 3 /\ mode = 1 /\ m.mode = 0
         \/ m.kind = "Guardian" /\ b = 1 /\ mode = 3 /\ m.mode = 0
         \/ m.kind \in {"Lagavulin", "Byrd", "ShelledParasite"} /\ b = 4 /\ mode = 0 /\ cause = "hit"
  PROVE  Wound(m, w, cause)
<1>1. /\ v \in Monster /\ v.id = m.id /\ v.kind = m.kind /\ v.slot = m.slot
      /\ v.moves = m.moves /\ v.hist = m.hist /\ v.did = m.did /\ v.hp = hp
  BY WithHp
<1>2. /\ w \in Monster /\ w.id = v.id /\ w.kind = v.kind /\ w.slot = v.slot
      /\ w.intent = b /\ w.moves = v.moves /\ w.hist = v.hist
      /\ w.did = v.did /\ w.mode = mode /\ w.hp = v.hp
  <2>1. mode \in Int
    OBVIOUS
  <2>2. Shows(v, w, b, mode)
    BY <1>1, <2>1, ShowsIs
  <2> QED BY <2>2 DEF Shows
<1>3. Alive(w) /\ ~HalfDead(w)
  BY <1>1, <1>2 DEF Alive, HalfDead
<1>4. w.kind \notin OnceKinds /\ w.mode \in Modes(w.kind) /\ Plain(w.kind, w.intent)
  <2>1. CASE m.kind \in Splitting
    BY <1>1, <1>2, <2>1
      DEF OnceKinds, Remembering, Modes, Splitting, Plain, NeverTwice, NeverThrice, Once
  <2>2. CASE m.kind = "Guardian"
    BY <1>1, <1>2, <2>2
      DEF OnceKinds, Remembering, Modes, Splitting, Plain, NeverTwice, NeverThrice, Once
  <2>3. CASE m.kind \in {"Lagavulin", "Byrd", "ShelledParasite"}
    BY <1>1, <1>2, <2>3
      DEF OnceKinds, Remembering, Modes, Splitting, Plain, NeverTwice, NeverThrice, Once
  <2> QED BY <2>1, <2>2, <2>3
<1>5. Fit(w)
  BY <1>1, <1>2, <1>3, <1>4, PlainWound DEF Fit
<1>6. cause # "hit" => Same(m, w)
  BY <1>1, <1>2 DEF Same, Splitting
<1> QED BY <1>1, <1>2, <1>3, <1>4, <1>5, <1>6 DEF Wound, Hurt

LEMMA HpChange ==
  ASSUME NEW m \in Monster, Fit(m), Alive(m), NEW cause, NEW hp \in 0..2,
         hp = 0 => m.kind # "Darkling", NEW w, w = [m EXCEPT !.hp = hp]
  PROVE  Wound(m, w, cause)
<1>1. /\ w \in Monster /\ w.id = m.id /\ w.kind = m.kind /\ w.slot = m.slot
      /\ w.intent = m.intent /\ w.moves = m.moves /\ w.hist = m.hist
      /\ w.did = m.did /\ w.mode = m.mode /\ w.hp = hp
  BY WithHp
<1>2. ~HalfDead(m) /\ ~HalfDead(w)
  BY <1>1 DEF Fit, Marked, HalfDead
<1>3. Ready(w)
  BY <1>1 DEF Fit, Ready
<1>4. Marked(w)
  BY <1>1, <1>2 DEF Fit, Marked, UsedUp
<1>5. m.kind = "Darkling" => Alive(w)
  BY <1>1 DEF Alive
<1> QED BY <1>1, <1>2, <1>3, <1>4, <1>5 DEF Wound, Hurt, Fit, Same

\* A Writhing Mass that is hit rolls again.
LEMMA MassChanges ==
  ASSUME NEW m \in Monster, Fit(m), Alive(m), m.kind = "WrithingMass", NEW hp \in 1..2,
         NEW v, v = [m EXCEPT !.hp = hp], NEW b, Respects(v, b), NEW w, w = Announce(v, b)
  PROVE  Wound(m, w, "hit")
<1>1. /\ v \in Monster /\ v.id = m.id /\ v.kind = m.kind /\ v.slot = m.slot
      /\ v.mode = m.mode /\ v.moves = m.moves /\ v.hist = m.hist /\ v.did = m.did /\ v.hp = hp
  BY WithHp
<1>20. b \in 0..8
  BY DEF Respects
<1>21. Announces(v, w, b)
  BY <1>1, <1>20, AnnounceDoes
<1>2. /\ w \in Monster /\ w.id = v.id /\ w.kind = v.kind /\ w.slot = v.slot
      /\ w.intent = b /\ w.moves = v.moves /\ w.mode = v.mode /\ w.did = v.did /\ w.hp = v.hp
  BY <1>21 DEF Announces
<1>3. w.hist = Append(v.hist, b)
  BY <1>21 DEF Announces
<1>4. \A c : Used(m.hist, c) => Used(w.hist, c)
  BY <1>1, <1>3, MoreUsed, MonsterFields DEF Respects
<1>5. Alive(w) /\ ~HalfDead(w)
  BY <1>1, <1>2 DEF Alive, HalfDead, Fit, Marked, Modes, Splitting
<1>6. Marked(w)
  BY <1>1, <1>2, <1>5 DEF Fit, Marked, UsedUp, Remembering
<1>7. b = 4 => b \notin ToSet(m.did)
  BY <1>1 DEF Respects, Once, Fit, Marked, UsedUp, Remembering
<1>8. Ready(w)
  BY <1>1, <1>2, <1>7 DEF Ready, NeverTwice, NeverThrice, Once, Remembering
<1> QED BY <1>1, <1>2, <1>4, <1>5, <1>6, <1>8 DEF Wound, Hurt, Fit

------------------------------------------------------------------------------
(* The tables of moves *)

\* The kinds some limit is about.
LimitedKinds ==
    {"AwakenedOne", "BookOfStabbing", "BronzeAutomaton", "BronzeOrb", "Byrd",
   "Centurion", "Champ", "Chosen", "Darkling", "FungiBeast", "GiantHead",
   "GremlinLeader", "JawWorm", "Lagavulin", "LargeSpike", "Louse", "MediumSpike",
   "Nemesis", "OrbWalker", "Reptomancer", "Repulsor", "ShelledParasite", "SlaverBlue",
   "SlaverRed", "SnakePlant", "Snecko", "SpireGrowth", "TimeEater", "WrithingMass"}

\* Each table announces only moves that respect the limits of its kind.
LEMMA Unlimited ==
  ASSUME NEW m, m.kind \notin LimitedKinds, NEW b \in 0..8
  PROVE  Respects(m, b)
<1>1. /\ <<m.kind, b>> \notin NeverTwice
      /\ <<m.kind, b>> \notin NeverThrice
      /\ <<m.kind, b>> \notin Once
  BY DEF NeverTwice, NeverThrice, Once, LimitedKinds
<1>2. m.kind \notin {"AwakenedOne", "Darkling", "Lagavulin"}
  BY DEF LimitedKinds
<1> QED BY <1>1, <1>2 DEF Respects

LEMMA LouseMoves ==
  ASSUME NEW m \in Monster, m.kind = "Louse", NEW c, NEW b \in NextMoves(m, c)
  PROVE  Respects(m, b)
<1>1. b \in Louse(m.hist)
  BY DEF NextMoves
<1>2. /\ <<"Louse", b>> \in NeverTwice <=> b \in {}
      /\ <<"Louse", b>> \in NeverThrice <=> b \in {3, 4}
      /\ <<"Louse", b>> \in Once <=> b \in {}
  BY DEF NeverTwice, NeverThrice, Once
<1>3. b \in 0..8
  BY <1>1, MonsterFields DEF Louse, NotThrice
<1>4. ASSUME b \in {3, 4}, LastTwoMoves(m.hist, b)
      PROVE  FALSE
  <2>1. m.hist # <<>> /\ LastMove(m.hist, b) /\ LastMoveBefore(m.hist, b)
    BY <1>4 DEF LastMove, LastTwoMoves
  <2>2. \A y : LastMove(m.hist, y) => y = b
    BY <2>1 DEF LastMove
  <2>3. \A y : LastMoveBefore(m.hist, y) => y = b
    BY <2>1 DEF LastMoveBefore
  <2> QED BY <1>1, <1>4, <2>1, <2>2, <2>3, MonsterFields DEF Louse, NotThrice,
    LastTwoMoves
<1> QED BY <1>2, <1>3, <1>4 DEF Respects

LEMMA JawWormMoves ==
  ASSUME NEW m \in Monster, m.kind = "JawWorm", NEW c, NEW b \in NextMoves(m, c)
  PROVE  Respects(m, b)
<1>1. b \in JawWorm(m.hist)
  BY DEF NextMoves
<1>2. /\ <<"JawWorm", b>> \in NeverTwice <=> b \in {1, 2}
      /\ <<"JawWorm", b>> \in NeverThrice <=> b \in {3}
      /\ <<"JawWorm", b>> \in Once <=> b \in {}
  BY DEF NeverTwice, NeverThrice, Once
<1>3. b \in 0..8
  BY <1>1, MonsterFields DEF JawWorm, NotTwice, NotThrice
<1>4. ASSUME b \in {1, 2}, LastMove(m.hist, b)
      PROVE  FALSE
  <2>1. m.hist # <<>> /\ LastMove(m.hist, b)
    BY <1>4 DEF LastMove
  <2>2. \A y : LastMove(m.hist, y) => y = b
    BY <2>1 DEF LastMove
  <2> QED BY <1>1, <1>4, <2>1, <2>2, MonsterFields DEF JawWorm, NotTwice, NotThrice,
    LastTwoMoves
<1>5. ASSUME b \in {3}, LastTwoMoves(m.hist, b)
      PROVE  FALSE
  <2>1. m.hist # <<>> /\ LastMove(m.hist, b) /\ LastMoveBefore(m.hist, b)
    BY <1>5 DEF LastMove, LastTwoMoves
  <2>2. \A y : LastMove(m.hist, y) => y = b
    BY <2>1 DEF LastMove
  <2>3. \A y : LastMoveBefore(m.hist, y) => y = b
    BY <2>1 DEF LastMoveBefore
  <2> QED BY <1>1, <1>5, <2>1, <2>2, <2>3, MonsterFields DEF JawWorm, NotTwice,
    NotThrice, LastTwoMoves
<1> QED BY <1>2, <1>3, <1>4, <1>5 DEF Respects

LEMMA FungiBeastMoves ==
  ASSUME NEW m \in Monster, m.kind = "FungiBeast", NEW c, NEW b \in NextMoves(m, c)
  PROVE  Respects(m, b)
<1>1. b \in FungiBeast(m.hist)
  BY DEF NextMoves
<1>2. /\ <<"FungiBeast", b>> \in NeverTwice <=> b \in {2}
      /\ <<"FungiBeast", b>> \in NeverThrice <=> b \in {1}
      /\ <<"FungiBeast", b>> \in Once <=> b \in {}
  BY DEF NeverTwice, NeverThrice, Once
<1>3. b \in 0..8
  BY <1>1, MonsterFields DEF FungiBeast, NotTwice, NotThrice
<1>4. ASSUME b \in {2}, LastMove(m.hist, b)
      PROVE  FALSE
  <2>1. m.hist # <<>> /\ LastMove(m.hist, b)
    BY <1>4 DEF LastMove
  <2>2. \A y : LastMove(m.hist, y) => y = b
    BY <2>1 DEF LastMove
  <2> QED BY <1>1, <1>4, <2>1, <2>2, MonsterFields DEF FungiBeast, NotTwice, NotThrice,
    LastTwoMoves
<1>5. ASSUME b \in {1}, LastTwoMoves(m.hist, b)
      PROVE  FALSE
  <2>1. m.hist # <<>> /\ LastMove(m.hist, b) /\ LastMoveBefore(m.hist, b)
    BY <1>5 DEF LastMove, LastTwoMoves
  <2>2. \A y : LastMove(m.hist, y) => y = b
    BY <2>1 DEF LastMove
  <2>3. \A y : LastMoveBefore(m.hist, y) => y = b
    BY <2>1 DEF LastMoveBefore
  <2> QED BY <1>1, <1>5, <2>1, <2>2, <2>3, MonsterFields DEF FungiBeast, NotTwice,
    NotThrice, LastTwoMoves
<1> QED BY <1>2, <1>3, <1>4, <1>5 DEF Respects

LEMMA SlaverBlueMoves ==
  ASSUME NEW m \in Monster, m.kind = "SlaverBlue", NEW c, NEW b \in NextMoves(m, c)
  PROVE  Respects(m, b)
<1>1. b \in SlaverBlue(m.hist, c.hard)
  BY DEF NextMoves
<1>2. /\ <<"SlaverBlue", b>> \in NeverTwice <=> b \in {}
      /\ <<"SlaverBlue", b>> \in NeverThrice <=> b \in {1, 4}
      /\ <<"SlaverBlue", b>> \in Once <=> b \in {}
  BY DEF NeverTwice, NeverThrice, Once
<1>3. b \in 0..8
  BY <1>1, MonsterFields DEF SlaverBlue, NotThrice, Limited, NotTwice
<1>4. ASSUME b \in {1, 4}, LastTwoMoves(m.hist, b)
      PROVE  FALSE
  <2>1. m.hist # <<>> /\ LastMove(m.hist, b) /\ LastMoveBefore(m.hist, b)
    BY <1>4 DEF LastMove, LastTwoMoves
  <2>2. \A y : LastMove(m.hist, y) => y = b
    BY <2>1 DEF LastMove
  <2>3. \A y : LastMoveBefore(m.hist, y) => y = b
    BY <2>1 DEF LastMoveBefore
  <2> QED BY <1>1, <1>4, <2>1, <2>2, <2>3, MonsterFields DEF SlaverBlue, NotThrice,
    Limited, NotTwice, LastTwoMoves
<1> QED BY <1>2, <1>3, <1>4 DEF Respects

LEMMA SlaverRedMoves ==
  ASSUME NEW m \in Monster, m.kind = "SlaverRed", NEW c, NEW b \in NextMoves(m, c)
  PROVE  Respects(m, b)
<1>1. b \in SlaverRed(m.hist, c.hard)
  BY DEF NextMoves
<1>2. /\ <<"SlaverRed", b>> \in NeverTwice <=> b \in {}
      /\ <<"SlaverRed", b>> \in NeverThrice <=> b \in {}
      /\ <<"SlaverRed", b>> \in Once <=> b \in {2}
  BY DEF NeverTwice, NeverThrice, Once
<1>3. b \in 0..8
  BY <1>1, MonsterFields DEF SlaverRed, NotThrice, Limited, NotTwice
<1>4. b = 2 => ~Used(m.hist, 2)
  BY <1>1, MonsterFields DEF SlaverRed, NotThrice, Limited, NotTwice, LastTwoMoves
<1> QED BY <1>2, <1>3, <1>4 DEF Respects, UsedUp, Remembering

LEMMA MediumSpikeMoves ==
  ASSUME NEW m \in Monster, m.kind = "MediumSpike", NEW c, NEW b \in NextMoves(m, c)
  PROVE  Respects(m, b)
<1>1. b \in SpikeSlime(m.hist, c.hard)
  BY DEF NextMoves
<1>2. /\ <<"MediumSpike", b>> \in NeverTwice <=> b \in {}
      /\ <<"MediumSpike", b>> \in NeverThrice <=> b \in {1, 4}
      /\ <<"MediumSpike", b>> \in Once <=> b \in {}
  BY DEF NeverTwice, NeverThrice, Once
<1>3. b \in 0..8
  BY <1>1, MonsterFields DEF SpikeSlime, NotThrice, Limited, NotTwice
<1>4. ASSUME b \in {1, 4}, LastTwoMoves(m.hist, b)
      PROVE  FALSE
  <2>1. m.hist # <<>> /\ LastMove(m.hist, b) /\ LastMoveBefore(m.hist, b)
    BY <1>4 DEF LastMove, LastTwoMoves
  <2>2. \A y : LastMove(m.hist, y) => y = b
    BY <2>1 DEF LastMove
  <2>3. \A y : LastMoveBefore(m.hist, y) => y = b
    BY <2>1 DEF LastMoveBefore
  <2> QED BY <1>1, <1>4, <2>1, <2>2, <2>3, MonsterFields DEF SpikeSlime, NotThrice,
    Limited, NotTwice, LastTwoMoves
<1> QED BY <1>2, <1>3, <1>4 DEF Respects

LEMMA LargeSpikeMoves ==
  ASSUME NEW m \in Monster, m.kind = "LargeSpike", NEW c, NEW b \in NextMoves(m, c)
  PROVE  Respects(m, b)
<1>1. b \in SpikeSlime(m.hist, c.hard)
  BY DEF NextMoves
<1>2. /\ <<"LargeSpike", b>> \in NeverTwice <=> b \in {}
      /\ <<"LargeSpike", b>> \in NeverThrice <=> b \in {1, 4}
      /\ <<"LargeSpike", b>> \in Once <=> b \in {}
  BY DEF NeverTwice, NeverThrice, Once
<1>3. b \in 0..8
  BY <1>1, MonsterFields DEF SpikeSlime, NotThrice, Limited, NotTwice
<1>4. ASSUME b \in {1, 4}, LastTwoMoves(m.hist, b)
      PROVE  FALSE
  <2>1. m.hist # <<>> /\ LastMove(m.hist, b) /\ LastMoveBefore(m.hist, b)
    BY <1>4 DEF LastMove, LastTwoMoves
  <2>2. \A y : LastMove(m.hist, y) => y = b
    BY <2>1 DEF LastMove
  <2>3. \A y : LastMoveBefore(m.hist, y) => y = b
    BY <2>1 DEF LastMoveBefore
  <2> QED BY <1>1, <1>4, <2>1, <2>2, <2>3, MonsterFields DEF SpikeSlime, NotThrice,
    Limited, NotTwice, LastTwoMoves
<1> QED BY <1>2, <1>3, <1>4 DEF Respects

LEMMA LagavulinMoves ==
  ASSUME NEW m \in Monster, m.kind = "Lagavulin", NEW c, NEW b \in NextMoves(m, c)
  PROVE  Respects(m, b)
<1>1. b \in Lagavulin(m.moves, m.mode)
  BY DEF NextMoves
<1>2. /\ <<"Lagavulin", b>> \in NeverTwice <=> b \in {}
      /\ <<"Lagavulin", b>> \in NeverThrice <=> b \in {}
      /\ <<"Lagavulin", b>> \in Once <=> b \in {}
  BY DEF NeverTwice, NeverThrice, Once
<1>3. b \in 0..8
  BY <1>1, MonsterFields DEF Lagavulin
<1>4. b = 5 => m.mode > 0
  BY <1>1, MonsterFields DEF Lagavulin
<1> QED BY <1>2, <1>3, <1>4 DEF Respects

LEMMA ChosenMoves ==
  ASSUME NEW m \in Monster, m.kind = "Chosen", NEW c, NEW b \in NextMoves(m, c)
  PROVE  Respects(m, b)
<1>1. b \in Chosen(m.hist, c.hard)
  BY DEF NextMoves
<1>2. /\ <<"Chosen", b>> \in NeverTwice <=> b \in {2, 3}
      /\ <<"Chosen", b>> \in NeverThrice <=> b \in {}
      /\ <<"Chosen", b>> \in Once <=> b \in {4}
  BY DEF NeverTwice, NeverThrice, Once
<1>3. b \in 0..8
  BY <1>1, MonsterFields DEF Chosen
<1>4. ASSUME b \in {2, 3}, LastMove(m.hist, b)
      PROVE  FALSE
  <2>1. m.hist # <<>> /\ LastMove(m.hist, b)
    BY <1>4 DEF LastMove
  <2>2. \A y : LastMove(m.hist, y) => y = b
    BY <2>1 DEF LastMove
  <2> QED BY <1>1, <1>4, <2>1, <2>2, MonsterFields DEF Chosen
<1>5. b = 4 => ~Used(m.hist, 4)
  BY <1>1, MonsterFields DEF Chosen
<1> QED BY <1>2, <1>3, <1>4, <1>5 DEF Respects, UsedUp, Remembering

LEMMA ByrdMoves ==
  ASSUME NEW m \in Monster, m.kind = "Byrd", NEW c, NEW b \in NextMoves(m, c)
  PROVE  Respects(m, b)
<1>1. b \in Byrd(m.hist, m.mode > 0)
  BY DEF NextMoves
<1>2. /\ <<"Byrd", b>> \in NeverTwice <=> b \in {3, 6}
      /\ <<"Byrd", b>> \in NeverThrice <=> b \in {}
      /\ <<"Byrd", b>> \in Once <=> b \in {}
  BY DEF NeverTwice, NeverThrice, Once
<1>3. b \in 0..8
  BY <1>1, MonsterFields DEF Byrd, NotTwice, NotThrice
<1>4. ASSUME b \in {3, 6}, LastMove(m.hist, b)
      PROVE  FALSE
  <2>1. m.hist # <<>> /\ LastMove(m.hist, b)
    BY <1>4 DEF LastMove
  <2>2. \A y : LastMove(m.hist, y) => y = b
    BY <2>1 DEF LastMove
  <2> QED BY <1>1, <1>4, <2>1, <2>2, MonsterFields DEF Byrd, NotTwice, NotThrice,
    LastTwoMoves
<1> QED BY <1>2, <1>3, <1>4 DEF Respects

LEMMA SnakePlantMoves ==
  ASSUME NEW m \in Monster, m.kind = "SnakePlant", NEW c, NEW b \in NextMoves(m, c)
  PROVE  Respects(m, b)
<1>1. b \in SnakePlant(m.hist, c.hard)
  BY DEF NextMoves
<1>2. /\ <<"SnakePlant", b>> \in NeverTwice <=> b \in {}
      /\ <<"SnakePlant", b>> \in NeverThrice <=> b \in {1}
      /\ <<"SnakePlant", b>> \in Once <=> b \in {}
  BY DEF NeverTwice, NeverThrice, Once
<1>3. b \in 0..8
  BY <1>1, MonsterFields DEF SnakePlant, NotThrice
<1>4. ASSUME b \in {1}, LastTwoMoves(m.hist, b)
      PROVE  FALSE
  <2>1. m.hist # <<>> /\ LastMove(m.hist, b) /\ LastMoveBefore(m.hist, b)
    BY <1>4 DEF LastMove, LastTwoMoves
  <2>2. \A y : LastMove(m.hist, y) => y = b
    BY <2>1 DEF LastMove
  <2>3. \A y : LastMoveBefore(m.hist, y) => y = b
    BY <2>1 DEF LastMoveBefore
  <2> QED BY <1>1, <1>4, <2>1, <2>2, <2>3, MonsterFields DEF SnakePlant, NotThrice,
    LastTwoMoves
<1> QED BY <1>2, <1>3, <1>4 DEF Respects

LEMMA SneckoMoves ==
  ASSUME NEW m \in Monster, m.kind = "Snecko", NEW c, NEW b \in NextMoves(m, c)
  PROVE  Respects(m, b)
<1>1. b \in Snecko(m.hist)
  BY DEF NextMoves
<1>2. /\ <<"Snecko", b>> \in NeverTwice <=> b \in {}
      /\ <<"Snecko", b>> \in NeverThrice <=> b \in {2}
      /\ <<"Snecko", b>> \in Once <=> b \in {}
  BY DEF NeverTwice, NeverThrice, Once
<1>3. b \in 0..8
  BY <1>1, MonsterFields DEF Snecko, NotThrice
<1>4. ASSUME b \in {2}, LastTwoMoves(m.hist, b)
      PROVE  FALSE
  <2>1. m.hist # <<>> /\ LastMove(m.hist, b) /\ LastMoveBefore(m.hist, b)
    BY <1>4 DEF LastMove, LastTwoMoves
  <2>2. \A y : LastMove(m.hist, y) => y = b
    BY <2>1 DEF LastMove
  <2>3. \A y : LastMoveBefore(m.hist, y) => y = b
    BY <2>1 DEF LastMoveBefore
  <2> QED BY <1>1, <1>4, <2>1, <2>2, <2>3, MonsterFields DEF Snecko, NotThrice,
    LastTwoMoves
<1> QED BY <1>2, <1>3, <1>4 DEF Respects

LEMMA CenturionMoves ==
  ASSUME NEW m \in Monster, m.kind = "Centurion", NEW c, NEW b \in NextMoves(m, c)
  PROVE  Respects(m, b)
<1>1. b \in Centurion(m.hist, c.living)
  BY DEF NextMoves
<1>2. /\ <<"Centurion", b>> \in NeverTwice <=> b \in {}
      /\ <<"Centurion", b>> \in NeverThrice <=> b \in {1}
      /\ <<"Centurion", b>> \in Once <=> b \in {}
  BY DEF NeverTwice, NeverThrice, Once
<1>3. b \in 0..8
  BY <1>1, MonsterFields DEF Centurion, NotThrice
<1>4. ASSUME b \in {1}, LastTwoMoves(m.hist, b)
      PROVE  FALSE
  <2>1. m.hist # <<>> /\ LastMove(m.hist, b) /\ LastMoveBefore(m.hist, b)
    BY <1>4 DEF LastMove, LastTwoMoves
  <2>2. \A y : LastMove(m.hist, y) => y = b
    BY <2>1 DEF LastMove
  <2>3. \A y : LastMoveBefore(m.hist, y) => y = b
    BY <2>1 DEF LastMoveBefore
  <2> QED BY <1>1, <1>4, <2>1, <2>2, <2>3, MonsterFields DEF Centurion, NotThrice,
    LastTwoMoves
<1> QED BY <1>2, <1>3, <1>4 DEF Respects

LEMMA ShelledParasiteMoves ==
  ASSUME NEW m \in Monster, m.kind = "ShelledParasite", NEW c, NEW b \in NextMoves(m, c)
  PROVE  Respects(m, b)
<1>1. b \in ShelledParasite(m.hist, c.hard)
  BY DEF NextMoves
<1>2. /\ <<"ShelledParasite", b>> \in NeverTwice <=> b \in {1}
      /\ <<"ShelledParasite", b>> \in NeverThrice <=> b \in {}
      /\ <<"ShelledParasite", b>> \in Once <=> b \in {}
  BY DEF NeverTwice, NeverThrice, Once
<1>3. b \in 0..8
  BY <1>1, MonsterFields DEF ShelledParasite, NotTwice, NotThrice, Again
<1>4. ASSUME b \in {1}, LastMove(m.hist, b)
      PROVE  FALSE
  <2>1. m.hist # <<>> /\ LastMove(m.hist, b)
    BY <1>4 DEF LastMove
  <2>2. \A y : LastMove(m.hist, y) => y = b
    BY <2>1 DEF LastMove
  <2> QED BY <1>1, <1>4, <2>1, <2>2, MonsterFields DEF ShelledParasite, NotTwice,
    NotThrice, Again, LastTwoMoves
<1> QED BY <1>2, <1>3, <1>4 DEF Respects

LEMMA BookOfStabbingMoves ==
  ASSUME NEW m \in Monster, m.kind = "BookOfStabbing", NEW c, NEW b \in NextMoves(m, c)
  PROVE  Respects(m, b)
<1>1. b \in BookOfStabbing(m.hist)
  BY DEF NextMoves
<1>2. /\ <<"BookOfStabbing", b>> \in NeverTwice <=> b \in {}
      /\ <<"BookOfStabbing", b>> \in NeverThrice <=> b \in {1, 2}
      /\ <<"BookOfStabbing", b>> \in Once <=> b \in {}
  BY DEF NeverTwice, NeverThrice, Once
<1>3. b \in 0..8
  BY <1>1, MonsterFields DEF BookOfStabbing, NotThrice
<1>4. ASSUME b \in {1, 2}, LastTwoMoves(m.hist, b)
      PROVE  FALSE
  <2>1. m.hist # <<>> /\ LastMove(m.hist, b) /\ LastMoveBefore(m.hist, b)
    BY <1>4 DEF LastMove, LastTwoMoves
  <2>2. \A y : LastMove(m.hist, y) => y = b
    BY <2>1 DEF LastMove
  <2>3. \A y : LastMoveBefore(m.hist, y) => y = b
    BY <2>1 DEF LastMoveBefore
  <2> QED BY <1>1, <1>4, <2>1, <2>2, <2>3, MonsterFields DEF BookOfStabbing, NotThrice,
    LastTwoMoves
<1> QED BY <1>2, <1>3, <1>4 DEF Respects

LEMMA GremlinLeaderMoves ==
  ASSUME NEW m \in Monster, m.kind = "GremlinLeader", NEW c, NEW b \in NextMoves(m, c)
  PROVE  Respects(m, b)
<1>1. b \in GremlinLeader(m.hist, c.gremlins)
  BY DEF NextMoves
<1>2. /\ <<"GremlinLeader", b>> \in NeverTwice <=> b \in {3}
      /\ <<"GremlinLeader", b>> \in NeverThrice <=> b \in {}
      /\ <<"GremlinLeader", b>> \in Once <=> b \in {}
  BY DEF NeverTwice, NeverThrice, Once
<1>3. b \in 0..8
  BY <1>1, MonsterFields DEF GremlinLeader, NotTwice, Again
<1>4. ASSUME b \in {3}, LastMove(m.hist, b)
      PROVE  FALSE
  <2>1. m.hist # <<>> /\ LastMove(m.hist, b)
    BY <1>4 DEF LastMove
  <2>2. \A y : LastMove(m.hist, y) => y = b
    BY <2>1 DEF LastMove
  <2> QED BY <1>1, <1>4, <2>1, <2>2, MonsterFields DEF GremlinLeader, NotTwice, Again
<1> QED BY <1>2, <1>3, <1>4 DEF Respects

LEMMA ChampMoves ==
  ASSUME NEW m \in Monster, m.kind = "Champ", NEW c, NEW b \in NextMoves(m, c)
  PROVE  Respects(m, b)
<1>1. b \in Champ(m.hist, m.hp = 1)
  BY DEF NextMoves
<1>2. /\ <<"Champ", b>> \in NeverTwice <=> b \in {2, 4, 5}
      /\ <<"Champ", b>> \in NeverThrice <=> b \in {}
      /\ <<"Champ", b>> \in Once <=> b \in {7}
  BY DEF NeverTwice, NeverThrice, Once
<1>3. b \in 0..8
  BY <1>1, MonsterFields DEF Champ, NotTwice
<1>4. ASSUME b \in {2, 4, 5}, LastMove(m.hist, b)
      PROVE  FALSE
  <2>1. m.hist # <<>> /\ LastMove(m.hist, b)
    BY <1>4 DEF LastMove
  <2>2. \A y : LastMove(m.hist, y) => y = b
    BY <2>1 DEF LastMove
  <2> QED BY <1>1, <1>4, <2>1, <2>2, MonsterFields DEF Champ, NotTwice
<1>5. b = 7 => ~Used(m.hist, 7)
  BY <1>1, MonsterFields DEF Champ, NotTwice
<1> QED BY <1>2, <1>3, <1>4, <1>5 DEF Respects, UsedUp, Remembering

LEMMA BronzeAutomatonMoves ==
  ASSUME NEW m \in Monster, m.kind = "BronzeAutomaton", NEW c, NEW b \in NextMoves(m, c)
  PROVE  Respects(m, b)
<1>1. b \in BronzeAutomaton(m.hist, m.moves, c.hard)
  BY DEF NextMoves
<1>2. /\ <<"BronzeAutomaton", b>> \in NeverTwice <=> b \in {}
      /\ <<"BronzeAutomaton", b>> \in NeverThrice <=> b \in {}
      /\ <<"BronzeAutomaton", b>> \in Once <=> b \in {4}
  BY DEF NeverTwice, NeverThrice, Once
<1>3. b \in 0..8
  BY <1>1, MonsterFields DEF BronzeAutomaton
<1>4. b = 4 => m.moves = 0
  BY <1>1, MonsterFields DEF BronzeAutomaton
<1> QED BY <1>2, <1>3, <1>4 DEF Respects, UsedUp, Remembering

LEMMA BronzeOrbMoves ==
  ASSUME NEW m \in Monster, m.kind = "BronzeOrb", NEW c, NEW b \in NextMoves(m, c)
  PROVE  Respects(m, b)
<1>1. b \in BronzeOrb(m.hist)
  BY DEF NextMoves
<1>2. /\ <<"BronzeOrb", b>> \in NeverTwice <=> b \in {}
      /\ <<"BronzeOrb", b>> \in NeverThrice <=> b \in {1, 2}
      /\ <<"BronzeOrb", b>> \in Once <=> b \in {3}
  BY DEF NeverTwice, NeverThrice, Once
<1>3. b \in 0..8
  BY <1>1, MonsterFields DEF BronzeOrb, NotThrice
<1>4. ASSUME b \in {1, 2}, LastTwoMoves(m.hist, b)
      PROVE  FALSE
  <2>1. m.hist # <<>> /\ LastMove(m.hist, b) /\ LastMoveBefore(m.hist, b)
    BY <1>4 DEF LastMove, LastTwoMoves
  <2>2. \A y : LastMove(m.hist, y) => y = b
    BY <2>1 DEF LastMove
  <2>3. \A y : LastMoveBefore(m.hist, y) => y = b
    BY <2>1 DEF LastMoveBefore
  <2> QED BY <1>1, <1>4, <2>1, <2>2, <2>3, MonsterFields DEF BronzeOrb, NotThrice,
    LastTwoMoves
<1>5. b = 3 => ~Used(m.hist, 3)
  BY <1>1, MonsterFields DEF BronzeOrb, NotThrice, LastTwoMoves
<1> QED BY <1>2, <1>3, <1>4, <1>5 DEF Respects, UsedUp, Remembering

LEMMA OrbWalkerMoves ==
  ASSUME NEW m \in Monster, m.kind = "OrbWalker", NEW c, NEW b \in NextMoves(m, c)
  PROVE  Respects(m, b)
<1>1. b \in OrbWalker(m.hist)
  BY DEF NextMoves
<1>2. /\ <<"OrbWalker", b>> \in NeverTwice <=> b \in {}
      /\ <<"OrbWalker", b>> \in NeverThrice <=> b \in {1, 2}
      /\ <<"OrbWalker", b>> \in Once <=> b \in {}
  BY DEF NeverTwice, NeverThrice, Once
<1>3. b \in 0..8
  BY <1>1, MonsterFields DEF OrbWalker, NotThrice
<1>4. ASSUME b \in {1, 2}, LastTwoMoves(m.hist, b)
      PROVE  FALSE
  <2>1. m.hist # <<>> /\ LastMove(m.hist, b) /\ LastMoveBefore(m.hist, b)
    BY <1>4 DEF LastMove, LastTwoMoves
  <2>2. \A y : LastMove(m.hist, y) => y = b
    BY <2>1 DEF LastMove
  <2>3. \A y : LastMoveBefore(m.hist, y) => y = b
    BY <2>1 DEF LastMoveBefore
  <2> QED BY <1>1, <1>4, <2>1, <2>2, <2>3, MonsterFields DEF OrbWalker, NotThrice,
    LastTwoMoves
<1> QED BY <1>2, <1>3, <1>4 DEF Respects

LEMMA DarklingMoves ==
  ASSUME NEW m \in Monster, m.kind = "Darkling", NEW c, NEW b \in NextMoves(m, c)
  PROVE  Respects(m, b)
<1>1. b \in Darkling(m.hist, c.index)
  BY DEF NextMoves
<1>2. /\ <<"Darkling", b>> \in NeverTwice <=> b \in {1, 2}
      /\ <<"Darkling", b>> \in NeverThrice <=> b \in {3}
      /\ <<"Darkling", b>> \in Once <=> b \in {}
  BY DEF NeverTwice, NeverThrice, Once
<1>3. b \in 0..8
  BY <1>1, MonsterFields DEF Darkling, NotTwice, NotThrice, Again
<1>4. ASSUME b \in {1, 2}, LastMove(m.hist, b)
      PROVE  FALSE
  <2>1. m.hist # <<>> /\ LastMove(m.hist, b)
    BY <1>4 DEF LastMove
  <2>2. \A y : LastMove(m.hist, y) => y = b
    BY <2>1 DEF LastMove
  <2> QED BY <1>1, <1>4, <2>1, <2>2, MonsterFields DEF Darkling, NotTwice, NotThrice,
    Again, LastTwoMoves
<1>5. ASSUME b \in {3}, LastTwoMoves(m.hist, b)
      PROVE  FALSE
  <2>1. m.hist # <<>> /\ LastMove(m.hist, b) /\ LastMoveBefore(m.hist, b)
    BY <1>5 DEF LastMove, LastTwoMoves
  <2>2. \A y : LastMove(m.hist, y) => y = b
    BY <2>1 DEF LastMove
  <2>3. \A y : LastMoveBefore(m.hist, y) => y = b
    BY <2>1 DEF LastMoveBefore
  <2> QED BY <1>1, <1>5, <2>1, <2>2, <2>3, MonsterFields DEF Darkling, NotTwice,
    NotThrice, Again, LastTwoMoves
<1>6. b \notin {4, 5}
  BY <1>1, MonsterFields DEF Darkling, NotTwice, NotThrice, Again, LastTwoMoves
<1> QED BY <1>2, <1>3, <1>4, <1>5, <1>6 DEF Respects

LEMMA RepulsorMoves ==
  ASSUME NEW m \in Monster, m.kind = "Repulsor", NEW c, NEW b \in NextMoves(m, c)
  PROVE  Respects(m, b)
<1>1. b \in Repulsor(m.hist)
  BY DEF NextMoves
<1>2. /\ <<"Repulsor", b>> \in NeverTwice <=> b \in {2}
      /\ <<"Repulsor", b>> \in NeverThrice <=> b \in {}
      /\ <<"Repulsor", b>> \in Once <=> b \in {}
  BY DEF NeverTwice, NeverThrice, Once
<1>3. b \in 0..8
  BY <1>1, MonsterFields DEF Repulsor, NotTwice
<1>4. ASSUME b \in {2}, LastMove(m.hist, b)
      PROVE  FALSE
  <2>1. m.hist # <<>> /\ LastMove(m.hist, b)
    BY <1>4 DEF LastMove
  <2>2. \A y : LastMove(m.hist, y) => y = b
    BY <2>1 DEF LastMove
  <2> QED BY <1>1, <1>4, <2>1, <2>2, MonsterFields DEF Repulsor, NotTwice
<1> QED BY <1>2, <1>3, <1>4 DEF Respects

LEMMA SpireGrowthMoves ==
  ASSUME NEW m \in Monster, m.kind = "SpireGrowth", NEW c, NEW b \in NextMoves(m, c)
  PROVE  Respects(m, b)
<1>1. b \in SpireGrowth(m.hist, m.moves, c.hard)
  BY DEF NextMoves
<1>2. /\ <<"SpireGrowth", b>> \in NeverTwice <=> b \in {}
      /\ <<"SpireGrowth", b>> \in NeverThrice <=> b \in {1, 3}
      /\ <<"SpireGrowth", b>> \in Once <=> b \in {}
  BY DEF NeverTwice, NeverThrice, Once
<1>3. b \in 0..8
  BY <1>1, MonsterFields DEF SpireGrowth, NotThrice
<1>4. ASSUME b \in {1, 3}, LastTwoMoves(m.hist, b)
      PROVE  FALSE
  <2>1. m.hist # <<>> /\ LastMove(m.hist, b) /\ LastMoveBefore(m.hist, b)
    BY <1>4 DEF LastMove, LastTwoMoves
  <2>2. \A y : LastMove(m.hist, y) => y = b
    BY <2>1 DEF LastMove
  <2>3. \A y : LastMoveBefore(m.hist, y) => y = b
    BY <2>1 DEF LastMoveBefore
  <2> QED BY <1>1, <1>4, <2>1, <2>2, <2>3, MonsterFields DEF SpireGrowth, NotThrice,
    LastTwoMoves
<1> QED BY <1>2, <1>3, <1>4 DEF Respects

LEMMA GiantHeadMoves ==
  ASSUME NEW m \in Monster, m.kind = "GiantHead", NEW c, NEW b \in NextMoves(m, c)
  PROVE  Respects(m, b)
<1>1. b \in GiantHead(m.hist, m.moves, c.hard)
  BY DEF NextMoves
<1>2. /\ <<"GiantHead", b>> \in NeverTwice <=> b \in {}
      /\ <<"GiantHead", b>> \in NeverThrice <=> b \in {1, 3}
      /\ <<"GiantHead", b>> \in Once <=> b \in {}
  BY DEF NeverTwice, NeverThrice, Once
<1>3. b \in 0..8
  BY <1>1, MonsterFields DEF GiantHead, NotThrice
<1>4. ASSUME b \in {1, 3}, LastTwoMoves(m.hist, b)
      PROVE  FALSE
  <2>1. m.hist # <<>> /\ LastMove(m.hist, b) /\ LastMoveBefore(m.hist, b)
    BY <1>4 DEF LastMove, LastTwoMoves
  <2>2. \A y : LastMove(m.hist, y) => y = b
    BY <2>1 DEF LastMove
  <2>3. \A y : LastMoveBefore(m.hist, y) => y = b
    BY <2>1 DEF LastMoveBefore
  <2> QED BY <1>1, <1>4, <2>1, <2>2, <2>3, MonsterFields DEF GiantHead, NotThrice,
    LastTwoMoves
<1> QED BY <1>2, <1>3, <1>4 DEF Respects

LEMMA NemesisMoves ==
  ASSUME NEW m \in Monster, m.kind = "Nemesis", NEW c, NEW b \in NextMoves(m, c),
         m.moves > 0 \/ m.hist = <<>>
  PROVE  Respects(m, b)
<1>1. b \in Nemesis(m.hist, m.moves)
  BY DEF NextMoves
<1>2. /\ <<"Nemesis", b>> \in NeverTwice <=> b \in {3, 4}
      /\ <<"Nemesis", b>> \in NeverThrice <=> b \in {2}
      /\ <<"Nemesis", b>> \in Once <=> b \in {}
  BY DEF NeverTwice, NeverThrice, Once
<1>3. b \in 0..8
  BY <1>1, MonsterFields DEF Nemesis, NotTwice, NotThrice
<1>4. ASSUME b \in {3, 4}, LastMove(m.hist, b)
      PROVE  FALSE
  <2>1. m.hist # <<>> /\ LastMove(m.hist, b)
    BY <1>4 DEF LastMove
  <2>2. \A y : LastMove(m.hist, y) => y = b
    BY <2>1 DEF LastMove
  <2> QED BY <1>1, <1>4, <2>1, <2>2, MonsterFields DEF Nemesis, NotTwice, NotThrice,
    LastTwoMoves
<1>5. ASSUME b \in {2}, LastTwoMoves(m.hist, b)
      PROVE  FALSE
  <2>1. m.hist # <<>> /\ LastMove(m.hist, b) /\ LastMoveBefore(m.hist, b)
    BY <1>5 DEF LastMove, LastTwoMoves
  <2>2. \A y : LastMove(m.hist, y) => y = b
    BY <2>1 DEF LastMove
  <2>3. \A y : LastMoveBefore(m.hist, y) => y = b
    BY <2>1 DEF LastMoveBefore
  <2> QED BY <1>1, <1>5, <2>1, <2>2, <2>3, MonsterFields DEF Nemesis, NotTwice,
    NotThrice, LastTwoMoves
<1> QED BY <1>2, <1>3, <1>4, <1>5 DEF Respects

LEMMA WrithingMassMoves ==
  ASSUME NEW m \in Monster, m.kind = "WrithingMass", NEW c, NEW b \in NextMoves(m, c)
  PROVE  Respects(m, b)
<1>1. b \in WrithingMass(m.hist, m.mode = 1)
  BY DEF NextMoves
<1>2. /\ <<"WrithingMass", b>> \in NeverTwice <=> b \in {}
      /\ <<"WrithingMass", b>> \in NeverThrice <=> b \in {}
      /\ <<"WrithingMass", b>> \in Once <=> b \in {4}
  BY DEF NeverTwice, NeverThrice, Once
<1>3. b \in 0..8
  BY <1>1, MonsterFields DEF WrithingMass, NotTwice, Again
<1>4. b = 4 => m.mode # 1
  BY <1>1, MonsterFields DEF WrithingMass, NotTwice, Again
<1> QED BY <1>2, <1>3, <1>4 DEF Respects, UsedUp, Remembering

LEMMA ReptomancerMoves ==
  ASSUME NEW m \in Monster, m.kind = "Reptomancer", NEW c, NEW b \in NextMoves(m, c)
  PROVE  Respects(m, b)
<1>1. b \in Reptomancer(m.hist, c.living)
  BY DEF NextMoves
<1>2. /\ <<"Reptomancer", b>> \in NeverTwice <=> b \in {3}
      /\ <<"Reptomancer", b>> \in NeverThrice <=> b \in {}
      /\ <<"Reptomancer", b>> \in Once <=> b \in {}
  BY DEF NeverTwice, NeverThrice, Once
<1>3. b \in 0..8
  BY <1>1, MonsterFields DEF Reptomancer, NotTwice, Again
<1>4. ASSUME b \in {3}, LastMove(m.hist, b)
      PROVE  FALSE
  <2>1. m.hist # <<>> /\ LastMove(m.hist, b)
    BY <1>4 DEF LastMove
  <2>2. \A y : LastMove(m.hist, y) => y = b
    BY <2>1 DEF LastMove
  <2> QED BY <1>1, <1>4, <2>1, <2>2, MonsterFields DEF Reptomancer, NotTwice, Again
<1> QED BY <1>2, <1>3, <1>4 DEF Respects

LEMMA TimeEaterMoves ==
  ASSUME NEW m \in Monster, m.kind = "TimeEater", NEW c, NEW b \in NextMoves(m, c)
  PROVE  Respects(m, b)
<1>1. b \in TimeEater(m.hist, m.hp = 1)
  BY DEF NextMoves
<1>2. /\ <<"TimeEater", b>> \in NeverTwice <=> b \in {3, 4}
      /\ <<"TimeEater", b>> \in NeverThrice <=> b \in {2}
      /\ <<"TimeEater", b>> \in Once <=> b \in {5}
  BY DEF NeverTwice, NeverThrice, Once
<1>3. b \in 0..8
  BY <1>1, MonsterFields DEF TimeEater, NotTwice, NotThrice, Again
<1>4. ASSUME b \in {3, 4}, LastMove(m.hist, b)
      PROVE  FALSE
  <2>1. m.hist # <<>> /\ LastMove(m.hist, b)
    BY <1>4 DEF LastMove
  <2>2. \A y : LastMove(m.hist, y) => y = b
    BY <2>1 DEF LastMove
  <2> QED BY <1>1, <1>4, <2>1, <2>2, MonsterFields DEF TimeEater, NotTwice, NotThrice,
    Again, LastTwoMoves
<1>5. ASSUME b \in {2}, LastTwoMoves(m.hist, b)
      PROVE  FALSE
  <2>1. m.hist # <<>> /\ LastMove(m.hist, b) /\ LastMoveBefore(m.hist, b)
    BY <1>5 DEF LastMove, LastTwoMoves
  <2>2. \A y : LastMove(m.hist, y) => y = b
    BY <2>1 DEF LastMove
  <2>3. \A y : LastMoveBefore(m.hist, y) => y = b
    BY <2>1 DEF LastMoveBefore
  <2> QED BY <1>1, <1>5, <2>1, <2>2, <2>3, MonsterFields DEF TimeEater, NotTwice,
    NotThrice, Again, LastTwoMoves
<1>6. b = 5 => ~Used(m.hist, 5)
  BY <1>1, MonsterFields DEF TimeEater, NotTwice, NotThrice, Again, LastTwoMoves
<1> QED BY <1>2, <1>3, <1>4, <1>5, <1>6 DEF Respects, UsedUp, Remembering

LEMMA AwakenedOneMoves ==
  ASSUME NEW m \in Monster, m.kind = "AwakenedOne", NEW c, NEW b \in NextMoves(m, c)
  PROVE  Respects(m, b)
<1>1. b \in AwakenedOne(m.hist, m.mode)
  BY DEF NextMoves
<1>2. /\ <<"AwakenedOne", b>> \in NeverTwice <=> b \in {}
      /\ <<"AwakenedOne", b>> \in NeverThrice <=> b \in {6, 8}
      /\ <<"AwakenedOne", b>> \in Once <=> b \in {5}
  BY DEF NeverTwice, NeverThrice, Once
<1>3. b \in 0..8
  BY <1>1, MonsterFields DEF AwakenedOne, NotTwice, NotThrice
<1>4. ASSUME b \in {6, 8}, LastTwoMoves(m.hist, b)
      PROVE  FALSE
  <2>1. m.hist # <<>> /\ LastMove(m.hist, b) /\ LastMoveBefore(m.hist, b)
    BY <1>4 DEF LastMove, LastTwoMoves
  <2>2. \A y : LastMove(m.hist, y) => y = b
    BY <2>1 DEF LastMove
  <2>3. \A y : LastMoveBefore(m.hist, y) => y = b
    BY <2>1 DEF LastMoveBefore
  <2> QED BY <1>1, <1>4, <2>1, <2>2, <2>3, MonsterFields DEF AwakenedOne, NotTwice,
    NotThrice, LastTwoMoves
<1>5. b \notin {3, 5}
  BY <1>1, MonsterFields DEF AwakenedOne, NotTwice, NotThrice, LastTwoMoves
<1> QED BY <1>2, <1>3, <1>4, <1>5 DEF Respects, UsedUp, Remembering

\* No table announces a move beyond its limits.
LEMMA TableRespects ==
  ASSUME NEW m \in Monster, NEW c, NEW b \in NextMoves(m, c),
         m.kind = "Nemesis" => m.moves > 0 \/ m.hist = <<>>
  PROVE  Respects(m, b)
<1>1. m.moves \in Nat /\ m.mode \in Int /\ m.kind \in Kinds
  BY MonsterFields
<1>2. CASE m.kind \in LimitedKinds
  BY <1>2, LouseMoves, JawWormMoves, FungiBeastMoves, SlaverBlueMoves, SlaverRedMoves,
    MediumSpikeMoves, LargeSpikeMoves, LagavulinMoves, ChosenMoves, ByrdMoves,
    SnakePlantMoves, SneckoMoves, CenturionMoves, ShelledParasiteMoves,
    BookOfStabbingMoves, GremlinLeaderMoves, ChampMoves, BronzeAutomatonMoves,
    BronzeOrbMoves, OrbWalkerMoves, DarklingMoves, RepulsorMoves, SpireGrowthMoves,
    GiantHeadMoves, NemesisMoves, WrithingMassMoves, ReptomancerMoves, TimeEaterMoves,
    AwakenedOneMoves DEF LimitedKinds
<1>3. CASE m.kind \notin LimitedKinds
  <2>1. b \in 0..8
    <3>1. CASE m.kind \in {"Looter", "Mugger"}
      <4>1. b \in Looter(m.hist, m.moves)
        BY <3>1 DEF NextMoves
      <4> QED BY <1>1, <4>1 DEF Looter
    <3>2. CASE m.kind \in {"MediumAcid", "LargeAcid"}
      <4>1. b \in AcidSlime(m.hist, c.hard)
        BY <3>2 DEF NextMoves
      <4> QED BY <1>1, <4>1 DEF AcidSlime, NotThrice, Limited, NotTwice
    <3>3. CASE m.kind = "SmallAcid"
      <4>1. b \in SmallAcidSlime(m.hist)
        BY <3>3 DEF NextMoves
      <4> QED BY <1>1, <4>1 DEF SmallAcidSlime
    <3>4. CASE m.kind = "GremlinNob"
      <4>1. b \in GremlinNob(m.hist, c.hard)
        BY <3>4 DEF NextMoves
      <4> QED BY <1>1, <4>1 DEF GremlinNob, NotThrice
    <3>5. CASE m.kind = "Sentry"
      <4>1. b \in Sentry(m.hist, c.index)
        BY <3>5 DEF NextMoves
      <4> QED BY <1>1, <4>1 DEF Sentry
    <3>6. CASE m.kind = "Guardian"
      <4>1. b \in Guardian(m.moves, m.mode)
        BY <3>6 DEF NextMoves
      <4> QED BY <1>1, <4>1 DEF Guardian
    <3>7. CASE m.kind = "Hexaghost"
      <4>1. b \in Hexaghost(m.moves)
        BY <3>7 DEF NextMoves
      <4> QED BY <1>1, <4>1 DEF Hexaghost
    <3>8. CASE m.kind = "SlimeBoss"
      <4>1. b \in SlimeBoss(m.moves)
        BY <3>8 DEF NextMoves
      <4> QED BY <1>1, <4>1 DEF SlimeBoss
    <3>9. CASE m.kind = "Healer"
      <4>1. b \in Healer(m.hist, c.hard, c.hurt)
        BY <3>9 DEF NextMoves
      <4> QED BY <1>1, <4>1 DEF Healer, NotThrice, Limited, NotTwice
    <3>10. CASE m.kind = "Collector"
      <4>1. b \in Collector(m.hist, c.torchless)
        BY <3>10 DEF NextMoves
      <4> QED BY <1>1, <4>1 DEF Collector, NotTwice, NotThrice, Again
    <3>11. CASE m.kind = "Exploder"
      <4>1. b \in Exploder(m.moves)
        BY <3>11 DEF NextMoves
      <4> QED BY <1>1, <4>1 DEF Exploder
    <3>12. CASE m.kind = "Spiker"
      <4>1. b \in Spiker(m.hist)
        BY <3>12 DEF NextMoves
      <4> QED BY <1>1, <4>1 DEF Spiker, NotTwice
    <3>13. CASE m.kind = "Maw"
      <4>1. b \in Maw(m.hist, m.moves)
        BY <3>13 DEF NextMoves
      <4> QED BY <1>1, <4>1 DEF Maw, NotTwice
    <3>14. CASE m.kind = "Donu"
      <4>1. b \in Donu(m.moves)
        BY <3>14 DEF NextMoves
      <4> QED BY <1>1, <4>1 DEF Donu
    <3>15. CASE m.kind = "Deca"
      <4>1. b \in Deca(m.moves)
        BY <3>15 DEF NextMoves
      <4> QED BY <1>1, <4>1 DEF Deca
    <3>16. CASE m.kind = "CorruptHeart"
      <4>1. b \in CorruptHeart(m.hist, m.moves)
        BY <3>16 DEF NextMoves
      <4> QED BY <1>1, <4>1 DEF CorruptHeart
    <3>17. CASE m.kind = "SpireShield"
      <4>1. b \in SpireShield(m.hist, m.moves)
        BY <3>17 DEF NextMoves
      <4> QED BY <1>1, <4>1 DEF SpireShield
    <3>18. CASE m.kind = "SpireSpear"
      <4>1. b \in SpireSpear(m.hist, m.moves)
        BY <3>18 DEF NextMoves
      <4> QED BY <1>1, <4>1 DEF SpireSpear
    <3>19. CASE m.kind \notin LimitedKinds \cup
                {"Looter", "Mugger", "MediumAcid", "LargeAcid", "SmallAcid", "GremlinNob",
                 "Sentry", "Guardian", "Hexaghost", "SlimeBoss", "Healer", "Collector",
                 "Exploder", "Spiker", "Maw", "Donu", "Deca", "CorruptHeart", "SpireShield",
                 "SpireSpear"}
      <4>1. b \in {FixedMove(m, c.living)}
        BY <3>19 DEF NextMoves, LimitedKinds
      <4> QED BY <1>1, <4>1 DEF FixedMove
    <3> QED BY <1>3, <3>1, <3>2, <3>3, <3>4, <3>5, <3>6, <3>7, <3>8, <3>9, <3>10, <3>11,
      <3>12, <3>13, <3>14, <3>15, <3>16, <3>17, <3>18, <3>19
  <2> QED BY <1>3, <2>1, Unlimited
<1> QED BY <1>2, <1>3

------------------------------------------------------------------------------
(* What a move and the losses it meets leave of the one who acts *)

\* Whatever the loss of health, the monster shows a move it may perform.
LEMMA WoundedIs ==
  ASSUME NEW r, NEW m \in Monster, Fit(m), Alive(m), NEW hp \in Levels(m), NEW cause,
         NEW w \in Wounded(r, m, hp, cause)
  PROVE  Wound(m, w, cause)
<1>1. hp \in 0..2
  BY LevelsAre
<1>2. PICK v : v = [m EXCEPT !.hp = hp]
  OBVIOUS
<1>3. w = v /\ ~(hp = 0 /\ m.kind = "Darkling") => Wound(m, w, cause)
  BY <1>1, <1>2, HpChange
<1>4. CASE hp = 0 /\ m.kind = "Darkling"
  <2>1. w = [IF m.intent = 4 THEN v ELSE Announce(v, 4) EXCEPT !.mode = -1]
    BY <1>2, <1>4 DEF Wounded, Splitting
  <2>2. v = [m EXCEPT !.hp = 0]
    BY <1>2, <1>4
  <2> QED BY <1>4, <2>1, <2>2, DarklingFalls
<1>5. CASE hp = 0 /\ m.kind = "AwakenedOne" /\ m.mode = 0
  <2>1. w = [Announce(v, 3) EXCEPT !.mode = -1]
    BY <1>2, <1>5 DEF Wounded, Splitting
  <2>2. v = [m EXCEPT !.hp = 0]
    BY <1>2, <1>5
  <2> QED BY <1>5, <2>1, <2>2, AwakenedFalls
<1>6. CASE hp = 1 /\ m.kind \in Splitting /\ m.mode = 0 /\ (m.kind = "SlimeBoss" => cause # "poison")
  <2>1. w = [v EXCEPT !.intent = 3, !.mode = 1]
    BY <1>2, <1>6 DEF Wounded, Splitting
  <2>2. hp \in 1..2 /\ 3 \in 0..8 /\ 1 \in 0..3
    BY <1>6
  <2> QED BY <1>2, <1>6, <2>1, <2>2, PlainChange
<1>7. CASE hp > 0 /\ m.kind = "Guardian" /\ m.mode = 0
  <2>1. w \in {v, [v EXCEPT !.intent = 1, !.mode = 3]}
    BY <1>2, <1>7 DEF Wounded, Splitting
  <2>2. hp \in 1..2 /\ 1 \in 0..8 /\ 3 \in 0..3
    BY <1>1, <1>7
  <2>3. CASE w = [v EXCEPT !.intent = 1, !.mode = 3]
    BY <1>2, <1>7, <2>2, <2>3, PlainChange
  <2>4. CASE w = v
    BY <1>3, <1>7, <2>4
  <2> QED BY <2>1, <2>3, <2>4
<1>8. CASE hp > 0 /\ cause = "hit" /\ m.kind = "Lagavulin" /\ m.mode > 0
  <2>1. w = [v EXCEPT !.intent = 4, !.mode = 0]
    BY <1>2, <1>8 DEF Wounded, Splitting
  <2>2. hp \in 1..2 /\ 4 \in 0..8 /\ 0 \in 0..3
    BY <1>1, <1>8
  <2> QED BY <1>2, <1>8, <2>1, <2>2, PlainChange
<1>9. CASE hp > 0 /\ cause = "hit" /\ m.kind \in {"Byrd", "ShelledParasite"} /\ m.mode = 1
  <2>1. w \in {v, [v EXCEPT !.intent = 4, !.mode = 0]}
    BY <1>2, <1>9 DEF Wounded, Splitting
  <2>2. hp \in 1..2 /\ 4 \in 0..8 /\ 0 \in 0..3
    BY <1>1, <1>9
  <2>3. CASE w = [v EXCEPT !.intent = 4, !.mode = 0]
    BY <1>2, <1>9, <2>2, <2>3, PlainChange
  <2>4. CASE w = v
    BY <1>3, <1>9, <2>4
  <2> QED BY <2>1, <2>3, <2>4
<1>10. CASE hp > 0 /\ cause = "hit" /\ m.kind = "WrithingMass"
  <2>1. PICK b \in NextMoves(v, Context(r, Place(r, m.id))) : w = Announce(v, b)
    BY <1>2, <1>10 DEF Wounded, Splitting
  <2>2. hp \in 1..2
    BY <1>1, <1>10
  <2>3. v \in Monster /\ v.kind = "WrithingMass"
    BY <1>2, <1>10, <2>2, WithHp
  <2>4. Respects(v, b)
    BY <2>3, TableRespects
  <2> QED BY <1>2, <1>10, <2>1, <2>2, <2>4, MassChanges
<1>11. CASE /\ ~(hp = 0 /\ m.kind = "Darkling")
            /\ ~(hp = 0 /\ m.kind = "AwakenedOne" /\ m.mode = 0)
            /\ ~(hp = 1 /\ m.kind \in Splitting /\ m.mode = 0 /\ (m.kind = "SlimeBoss" => cause # "poison"))
            /\ ~(hp > 0 /\ m.kind = "Guardian" /\ m.mode = 0)
            /\ ~(hp > 0 /\ cause = "hit" /\ m.kind = "Lagavulin" /\ m.mode > 0)
            /\ ~(hp > 0 /\ cause = "hit" /\ m.kind \in {"Byrd", "ShelledParasite"} /\ m.mode = 1)
            /\ ~(hp > 0 /\ cause = "hit" /\ m.kind = "WrithingMass")
  <2>1. w = v
    BY <1>2, <1>11 DEF Wounded
  <2> QED BY <1>3, <1>11, <2>1
<1> QED BY <1>4, <1>5, <1>6, <1>7, <1>8, <1>9, <1>10, <1>11

\* What the losses before a move, or the thorns that answer it, leave of m.
LEMMA LossesAre ==
  ASSUME NEW r, NEW m \in Monster, Fit(m), Alive(m), NEW cause, NEW budget \in Nat,
         NEW t \in Losses(r, m, cause, budget)
  PROVE  /\ Wound(m, t.m, cause)
         /\ t.blows \in 0..1 /\ t.blows <= budget
         /\ t.blows = 0 => t.m = m
<1>1. Wound(m, m, cause)
  <2>1. m.hp \in Levels(m) /\ m.hp \in 0..2 /\ m.hp > 0
    BY MonsterFields DEF Levels, Alive
  <2>2. m = [m EXCEPT !.hp = m.hp]
    BY DEF Monster
  <2> QED BY <2>1, <2>2, HpChange
<1>2. CASE t = [m |-> m, blows |-> 0]
  BY <1>1, <1>2
<1>3. CASE t # [m |-> m, blows |-> 0]
  <2>1. PICK hp \in Levels(m), w \in UNION {Wounded(r, m, l, cause) : l \in Levels(m)} :
           budget # 0 /\ t = [m |-> w, blows |-> 1]
    BY <1>3 DEF Losses
  <2>2. PICK l \in Levels(m) : w \in Wounded(r, m, l, cause)
    BY <2>1
  <2>3. Wound(m, w, cause)
    BY <2>2, WoundedIs
  <2>4. t.m = w /\ t.blows = 1
    BY <2>1
  <2> QED BY <2>1, <2>3, <2>4
<1> QED BY <1>2, <1>3

\* d is w once the effects of its move b on itself are written.
Paying(w, d, b) ==
  /\ d \in Monster /\ d.id = w.id /\ d.kind = w.kind /\ d.slot = w.slot /\ d.did = w.did
  /\ \/ d.mode = w.mode
     \/ w.kind \in {"Lagavulin", "Guardian"} /\ w.mode > 0 /\ d.mode = w.mode - 1
     \/ w.kind \in {"WrithingMass", "Byrd"} /\ d.mode = 1
  /\ w.kind = "WrithingMass" /\ b = 4 => d.mode = 1
  /\ d.moves = w.moves + 1 \/ w.kind \in {"Lagavulin", "Guardian", "GremlinWizard"}
  /\ \/ d.hist = w.hist /\ d.intent = w.intent
     \/ w.kind = "ShelledParasite" /\ b = 4 /\ d.hist = Append(w.hist, 1) /\ d.intent = 1
  /\ Alive(d) => Alive(w) \/ w.kind = "TimeEater"
  /\ Alive(w) /\ ~Alive(d) => w.kind \in {"Looter", "Mugger", "Exploder", "Dagger", "Transient"}

\* What performing a move writes into the monster itself.
LEMMA CountedIs ==
  ASSUME NEW w \in Monster, NEW n, n = Counted(w)
  PROVE  /\ n \in Monster /\ n.id = w.id /\ n.kind = w.kind /\ n.slot = w.slot
         /\ n.intent = w.intent /\ n.moves = w.moves + 1 /\ n.hist = w.hist
         /\ n.did = w.did /\ n.mode = w.mode /\ n.hp = w.hp
<1>1. n = [w EXCEPT !.moves = w.moves + 1] /\ w.moves + 1 \in Nat
  <2>1. w.moves \in Nat
    BY MonsterFields
  <2> QED BY <2>1 DEF Counted
<1>2. n \in Monster
  BY <1>1 DEF Monster
<1> QED BY <1>1, <1>2 DEF Monster

\* The marks a move leaves pay for the limits on it.
LEMMA SpentIs ==
  ASSUME NEW w \in Monster, NEW b \in 0..8, NEW defending \in BOOLEAN,
         w.kind = "Lagavulin" /\ b = 5 => w.mode > 0,
         w.kind = "Guardian" /\ defending => w.mode > 0,
         NEW d, d = Spent(w, b, defending)
  PROVE  Paying(w, d, b)
<1>0. PICK n : n = Counted(w)
  OBVIOUS
<1>1. /\ n \in Monster /\ n.id = w.id /\ n.kind = w.kind /\ n.slot = w.slot
      /\ n.intent = w.intent /\ n.moves = w.moves + 1 /\ n.hist = w.hist
      /\ n.did = w.did /\ n.mode = w.mode /\ n.hp = w.hp
  BY <1>0, CountedIs
<1>2. w.moves \in Nat /\ w.mode \in Int /\ w.hp \in 0..2 /\ w.hist \in Seq(0..8)
  BY MonsterFields
<1> DEFINE gone == {<<"Looter", 3>>, <<"Mugger", 3>>, <<"Exploder", 2>>, <<"Dagger", 2>>}
<1>3. CASE w.kind = "Lagavulin" /\ b = 5
  <2>1. d = [w EXCEPT !.mode = @ - 1]
    BY <1>3 DEF Spent
  <2>2. PICK v \in Int : v = w.mode - 1
    BY <1>2
  <2>3. Moded(w, d, v)
    <3>1. d = [w EXCEPT !.mode = v]
      BY <2>1, <2>2
    <3> QED BY <3>1, ModeIs
  <2> QED BY <1>3, <2>2, <2>3 DEF Moded, Paying, Alive
<1>4. CASE w.kind = "Lagavulin" /\ b = 4
  <2>1. d = w
    BY <1>4 DEF Spent
  <2> QED BY <1>4, <2>1 DEF Paying
<1>5. CASE w.kind = "Guardian" /\ defending
  <2>1. d = [n EXCEPT !.mode = @ - 1, !.moves = IF w.mode = 1 THEN 3 ELSE @]
    BY <1>0, <1>5 DEF Spent
  <2>2. PICK v \in Int : v = w.mode - 1
    BY <1>2
  <2>3. PICK k \in Nat : k = IF w.mode = 1 THEN 3 ELSE n.moves
    BY <1>1, <1>2
  <2>4. d = [n EXCEPT !.mode = v, !.moves = k]
    BY <1>1, <2>1, <2>2, <2>3
  <2>5. /\ d \in Monster /\ d.id = n.id /\ d.kind = n.kind /\ d.slot = n.slot
        /\ d.intent = n.intent /\ d.hist = n.hist
        /\ d.did = n.did /\ d.mode = v /\ d.hp = n.hp
    BY <1>1, <2>4 DEF Monster
  <2> QED BY <1>1, <1>5, <2>2, <2>5 DEF Paying, Alive
<1>6. CASE w.kind = "GremlinWizard" /\ b = 1 /\ ~hard
  <2>1. d = [w EXCEPT !.moves = 0]
    BY <1>6 DEF Spent
  <2>2. /\ d \in Monster /\ d.id = w.id /\ d.kind = w.kind /\ d.slot = w.slot
        /\ d.intent = w.intent /\ d.hist = w.hist
        /\ d.did = w.did /\ d.mode = w.mode /\ d.hp = w.hp
    <3>1. d \in Monster
      <4>1. 0 \in Nat
        OBVIOUS
      <4> QED BY <2>1, <4>1 DEF Monster
    <3> QED BY <2>1, <3>1 DEF Monster
  <2> QED BY <1>6, <2>2 DEF Paying, Alive
<1>7. CASE <<w.kind, b>> \in gone
  <2>1. d = [n EXCEPT !.hp = 0]
    BY <1>0, <1>7 DEF Spent
  <2>2. /\ d \in Monster /\ d.id = n.id /\ d.kind = n.kind /\ d.slot = n.slot
        /\ d.intent = n.intent /\ d.moves = n.moves /\ d.hist = n.hist
        /\ d.did = n.did /\ d.mode = n.mode /\ d.hp = 0
    BY <1>1, <2>1, Felled
  <2> QED BY <1>1, <1>7, <2>2 DEF Paying, Alive
<1>8. CASE w.kind = "TimeEater" /\ b = 5
  <2>1. d = [n EXCEPT !.hp = 2]
    BY <1>0, <1>8 DEF Spent
  <2>2. /\ d \in Monster /\ d.id = n.id /\ d.kind = n.kind /\ d.slot = n.slot
        /\ d.intent = n.intent /\ d.moves = n.moves /\ d.hist = n.hist
        /\ d.did = n.did /\ d.mode = n.mode /\ d.hp = 2
    BY <1>1, <2>1, Healed
  <2> QED BY <1>1, <1>8, <2>2 DEF Paying, Alive
<1>9. CASE (w.kind = "WrithingMass" /\ b = 4) \/ (w.kind = "Byrd" /\ b = 2)
  <2>1. d = [n EXCEPT !.mode = 1]
    BY <1>0, <1>9 DEF Spent
  <2>2. Moded(n, d, 1)
    <3>1. 1 \in Int
      OBVIOUS
    <3> QED BY <1>1, <2>1, <3>1, ModeIs
  <2> QED BY <1>1, <1>9, <2>2 DEF Moded, Paying, Alive
<1>10. CASE w.kind = "ShelledParasite" /\ b = 4
  <2>1. d = Announce(n, 1)
    BY <1>0, <1>10 DEF Spent
  <2>2. Announces(n, d, 1)
    <3>1. 1 \in 0..8
      OBVIOUS
    <3> QED BY <1>1, <2>1, <3>1, AnnounceDoes
  <2> QED BY <1>1, <1>10, <2>2 DEF Announces, Paying, Alive
<1>11. CASE w.kind = "Transient" /\ n.moves >= 5
  <2>1. d = [n EXCEPT !.hp = 0]
    BY <1>0, <1>11 DEF Spent
  <2>2. /\ d \in Monster /\ d.id = n.id /\ d.kind = n.kind /\ d.slot = n.slot
        /\ d.intent = n.intent /\ d.moves = n.moves /\ d.hist = n.hist
        /\ d.did = n.did /\ d.mode = n.mode /\ d.hp = 0
    BY <1>1, <2>1, Felled
  <2> QED BY <1>1, <1>11, <2>2 DEF Paying, Alive
<1>12. CASE /\ ~(w.kind = "Lagavulin" /\ b \in {4, 5}) /\ ~(w.kind = "Guardian" /\ defending)
            /\ ~(w.kind = "GremlinWizard" /\ b = 1 /\ ~hard) /\ <<w.kind, b>> \notin gone
            /\ ~(w.kind = "Transient" /\ n.moves >= 5)
            /\ ~(w.kind = "TimeEater" /\ b = 5) /\ ~(w.kind = "WrithingMass" /\ b = 4)
            /\ ~(w.kind = "Byrd" /\ b = 2) /\ ~(w.kind = "ShelledParasite" /\ b = 4)
  <2>1. d = n
    BY <1>0, <1>12 DEF Spent
  <2> QED BY <1>1, <1>12, <2>1 DEF Paying, Alive
<1> QED BY <1>3, <1>4, <1>5, <1>6, <1>7, <1>8, <1>9, <1>10, <1>11, <1>12

\* What the one who acts is after its move, thorns included.
LEMMA DoneIs ==
  ASSUME NEW o \in Monster, Fit(o), Alive(o), NEW w, Wound(o, w, "thorns"),
         NEW d, Paying(w, d, o.intent)
  PROVE  Done(o, d)
<1>1. /\ w \in Monster /\ w.kind = o.kind /\ w.did = o.did /\ w.moves = o.moves
      /\ d \in Monster /\ d.kind = o.kind /\ d.did = o.did
  BY DEF Wound, Hurt, Paying
<1>2. o.moves \in Nat /\ o.mode \in Int /\ w.mode \in Int /\ w.hist \in Seq(0..8)
  BY <1>1, MonsterFields
<1>3. ~HalfDead(o) /\ Marked(o) /\ Ready(o)
  BY DEF Fit, Marked, HalfDead
<1>4. w.mode \in Modes(w.kind) /\ (HalfDead(w) => ~Alive(w)) /\ Marked(w)
  BY DEF Wound, Fit, Marked
<1>5. d.mode \in Modes(d.kind)
  BY <1>1, <1>2, <1>4 DEF Paying, Modes, Splitting
<1>6. HalfDead(d) => ~Alive(d)
  <2>1. HalfDead(d) => HalfDead(w)
    BY <1>2 DEF Paying, HalfDead
  <2>2. w.kind = "TimeEater" => ~HalfDead(w)
    BY <1>4 DEF Modes, HalfDead, Splitting
  <2> QED BY <1>4, <2>1, <2>2 DEF Paying
<1>7. ASSUME NEW c \in ToSet(o.did) \cup {o.intent},
             <<o.kind, c>> \in Once \cup {<<"AwakenedOne", 3>>}
      PROVE  UsedUp(d, c)
  <2>1. o.kind \in OnceKinds
    BY <1>7, OnceIs
  <2>2. CASE o.kind \in Remembering
    <3>1. Used(o.hist, c)
      <4>0. <<o.kind, c>> \in Once
        BY <1>7, <2>2 DEF Remembering
      <4>1. CASE c \in ToSet(o.did)
        <5>1. UsedUp(o, c)
          BY <1>3, <1>7, <4>1 DEF Marked
        <5> QED BY <2>2, <5>1 DEF UsedUp, Remembering
      <4>2. CASE c = o.intent
        <5>1. <<o.kind, o.intent>> \in Once
          BY <4>0, <4>2
        <5>2. Used(o.hist, o.intent)
          BY <1>3, <2>2, <5>1 DEF Ready
        <5> QED BY <4>2, <5>2
      <4>3. c \in ToSet(o.did) \/ c = o.intent
        BY <1>7
      <4> QED BY <4>1, <4>2, <4>3
    <3>2. Used(w.hist, c)
      BY <3>1 DEF Wound
    <3>3. d.hist = w.hist
      BY <1>1, <2>2 DEF Paying, Remembering
    <3>4. d.kind \in Remembering
      BY <1>1, <2>2
    <3>5. UsedUp(d, c) <=> Used(d.hist, c)
      BY <3>4 DEF UsedUp, Remembering
    <3> QED BY <3>2, <3>3, <3>5
  <2>3. CASE o.kind = "BronzeAutomaton"
    <3>1. d.moves = o.moves + 1
      BY <1>1, <2>3 DEF Paying
    <3> QED BY <1>1, <1>2, <2>3, <3>1 DEF UsedUp, Remembering
  <2>4. CASE o.kind \in {"WrithingMass", "AwakenedOne"}
    <3>1. o.mode = 1 => d.mode = 1
      BY <1>1, <2>1, <2>4 DEF Wound, Paying
    <3>2. CASE c \in ToSet(o.did)
      BY <1>1, <1>3, <1>7, <2>4, <3>1, <3>2 DEF Marked, UsedUp, Remembering
    <3>3. CASE c = o.intent
      <4>1. o.kind = "WrithingMass" => d.mode = 1
        BY <1>1, <1>7, <3>3 DEF Once, Paying
      <4>2. o.kind = "AwakenedOne" => o.mode = 1
        BY <1>3, <1>7, <3>3 DEF Once, Ready, HalfDead
      <4> QED BY <1>1, <2>4, <3>1, <4>1, <4>2 DEF UsedUp, Remembering
    <3> QED BY <1>7, <3>2, <3>3
  <2> QED BY <2>1, <2>2, <2>3, <2>4 DEF OnceKinds
<1> QED BY <1>1, <1>5, <1>6, <1>7 DEF Done

------------------------------------------------------------------------------
(* The row once the one who acts performed its move *)

\* x performed the move o showed, and shows the next.
Acted(s, x, q, o) ==
  /\ Stands(s, x, q)
  /\ s[Place(s, x)].kind = "Darkling" => Alive(s[Place(s, x)]) \/ HalfDead(s[Place(s, x)])
  /\ FitAfter(s[Place(s, x)], o.intent)

\* The ways in which the one who acted may be left: fallen, or announcing again.
LEMMA PutActs ==
  ASSUME NEW r, NEW x, NEW q, Stands(r, x, q), NEW m, Becomes(r[Place(r, x)], m),
         m.kind \in Masters /\ ~Alive(m) => ~Alive(r[Place(r, x)]),
         NEW o, FitAfter(m, o.intent)
  PROVE  Acted(Put(r, m), x, q, o)
<1>1. /\ Stands(Put(r, m), x, q)
      /\ Put(r, m)[Place(r, x)] = m
      /\ Place(Put(r, m), x) = Place(r, x)
  BY PutStands
<1>2. m.kind = "Darkling" => Alive(m) \/ HalfDead(m)
  BY DEF Becomes
<1> QED BY <1>1, <1>2 DEF Acted

LEMMA StayActs ==
  ASSUME NEW r, NEW x, NEW q, Stands(r, x, q),
         NEW o \in Monster, Marked(o), Ready(o), NEW d, d = r[Place(r, x)], Done(o, d),
         d.kind = "Darkling" => Alive(d) \/ HalfDead(d),
         Alive(d) \/ HalfDead(d) => Plain(d.kind, d.intent)
  PROVE  Acted(r, x, q, o)
<1>1. d \in Monster /\ (HalfDead(d) => ~Alive(d))
  BY DEF Done
<1>2. FitAfter(d, o.intent)
  BY <1>1, PlainFits
<1> QED BY <1>2 DEF Acted

\* A monster with its next move announced.
LEMMA NextBecomes ==
  ASSUME NEW n \in Monster, n.kind = "Darkling" => Alive(n) \/ HalfDead(n), NEW f,
         f \in Monster, f.id = n.id, f.kind = n.kind, f.slot = n.slot, f.hp = n.hp,
         f.mode = n.mode
  PROVE  Becomes(n, f) /\ (Alive(f) <=> Alive(n)) /\ (HalfDead(f) <=> HalfDead(n))
BY DEF Becomes, Alive, HalfDead

\* The one who acts is in the row, once.
LEMMA TheActor ==
  ASSUME NEW r, NEW x, NEW q, Stands(r, x, q)
  PROVE  /\ IsRow(r) /\ x \in Ids(r) /\ Place(r, x) \in DOMAIN r
         /\ r[Place(r, x)].id = x /\ r[Place(r, x)] \in Monster
<1>1. IsRow(r) /\ x \in Ids(r)
  BY DEF Stands
<1>2. Place(r, x) \in DOMAIN r /\ r[Place(r, x)].id = x
  BY <1>1, PlaceOf
<1> QED BY <1>1, <1>2, RowOf

\* Rolling the next move.
LEMMA RollActs ==
  ASSUME NEW r, NEW x, NEW q, Stands(r, x, q),
         NEW o \in Monster, Marked(o), Ready(o),
         NEW n, n = r[Place(r, x)], Done(o, n), Alive(n),
         <<o.kind, o.intent>> \in NeverTwice \cup NeverThrice => n.hist = o.hist,
         n.kind = "Nemesis" => n.moves > 0,
         NEW s \in Roll(r, x)
  PROVE  Acted(s, x, q, o)
<1>1. n \in Monster
  BY TheActor
<1>2. PICK c : s = Put(r, Announce(n, c)) /\ Respects(n, c)
  <2>1. CASE n.kind \in Splitting /\ n.mode = 1 /\ n.intent = 3
    <3>1. s = Put(r, Announce(n, 3))
      BY <2>1 DEF Roll
    <3>2. Respects(n, 3)
      BY <2>1 DEF Splitting, Respects, NeverTwice, NeverThrice, Once
    <3> QED BY <3>1, <3>2
  <2>2. CASE ~(n.kind \in Splitting /\ n.mode = 1 /\ n.intent = 3)
    <3>1. PICK c \in NextMoves(n, Context(r, Place(r, x))) : s = Put(r, Announce(n, c))
      BY <2>2 DEF Roll
    <3>2. Respects(n, c)
      BY <1>1, TableRespects
    <3> QED BY <3>1, <3>2
  <2> QED BY <2>1, <2>2
<1>3. FitAfter(Announce(n, c), o.intent)
  BY <1>2, RollFits
<1>4. Announces(n, Announce(n, c), c)
  <2>1. c \in 0..8
    BY <1>2 DEF Respects
  <2> QED BY <1>1, <2>1, AnnounceDoes
<1> HIDE DEF Announce
<1>5. Becomes(n, Announce(n, c)) /\ (Alive(Announce(n, c)) <=> Alive(n))
  BY <1>1, <1>4, NextBecomes DEF Announces
<1> QED BY <1>2, <1>3, <1>5, PutActs

\* A half-dead monster is a Darkling or the Awakened One.
LEMMA WhoIsHalfDead ==
  ASSUME NEW m, m.mode \in Modes(m.kind), HalfDead(m)
  PROVE  m.kind \in {"Darkling", "AwakenedOne"}
BY DEF HalfDead, Modes, Splitting

\* Two moves announced one after the other, the second to be shown.
Twice(n, a, b) == Announce(Announce(n, a), b)

\* f is n announcing b, perhaps after another move.
Later(n, f, b) ==
  /\ f \in Monster /\ f.id = n.id /\ f.kind = n.kind /\ f.slot = n.slot /\ f.intent = b
  /\ f.moves = n.moves /\ f.did = n.did /\ f.mode = n.mode /\ f.hp = n.hp
  /\ \A c : Used(n.hist, c) => Used(f.hist, c)

\* Announcing two moves in a row leaves the second one shown.
LEMMA TwiceDoes ==
  ASSUME NEW n \in Monster, NEW a \in 0..8, NEW b \in 0..8
  PROVE  Later(n, Twice(n, a, b), b)
<1>1. Announces(n, Announce(n, a), a)
  BY AnnounceDoes
<1>2. PICK m : m = Announce(n, a)
  OBVIOUS
<1>3. m \in Monster
  BY <1>1, <1>2 DEF Announces
<1>4. Announces(m, Announce(m, b), b)
  BY <1>3, AnnounceDoes
<1>5. Twice(n, a, b) = Announce(m, b)
  BY <1>2 DEF Twice
<1>6. PICK t : t = Twice(n, a, b)
  OBVIOUS
<1>7. Announces(n, m, a) /\ Announces(m, t, b)
  BY <1>1, <1>2, <1>4, <1>5, <1>6
<1>8. ASSUME NEW c, Used(n.hist, c) PROVE Used(t.hist, c)
  <2>1. n.hist \in Seq(0..8) /\ m.hist \in Seq(0..8)
    BY <1>3, MonsterFields
  <2>2. Used(m.hist, c)
    BY <2>1, <1>7, <1>8, MoreUsed DEF Announces
  <2> QED BY <2>1, <2>2, <1>7, MoreUsed DEF Announces
<1> QED BY <1>6, <1>7, <1>8 DEF Announces, Later

\* A monster that shows a move no limit is about after its own.
LEMMA PlainActs ==
  ASSUME NEW r, NEW x, NEW q, Stands(r, x, q),
         NEW o \in Monster, Marked(o), Ready(o), NEW d, d = r[Place(r, x)], Done(o, d),
         d.kind = "Darkling" => Alive(d) \/ HalfDead(d),
         NEW f \in Monster, f.id = d.id, f.kind = d.kind, f.slot = d.slot, f.did = d.did,
         f.mode = d.mode, f.moves = d.moves, f.hp = d.hp,
         \A c : Used(d.hist, c) => Used(f.hist, c), Plain(f.kind, f.intent)
  PROVE  Acted(Put(r, f), x, q, o)
<1>1. d \in Monster /\ (HalfDead(d) => ~Alive(d))
  BY DEF Done
<1>2. Becomes(d, f) /\ (Alive(f) <=> Alive(d)) /\ (HalfDead(f) <=> HalfDead(d))
  BY <1>1, NextBecomes
<1>3. FitAfter(f, o.intent)
  BY <1>1, <1>2, PlainFits
<1> QED BY <1>2, <1>3, PutActs

\* The Awakened One falls for the first time.
LEMMA FirstDeathActs ==
  ASSUME NEW r, NEW x, NEW q, Stands(r, x, q),
         NEW o \in Monster, Marked(o), Ready(o), NEW d, d = r[Place(r, x)], Done(o, d),
         d.kind = "AwakenedOne", HalfDead(d), NEW t \in Roll(r, x)
  PROVE  Acted(Put(t, Announce(t[Place(t, x)], 3)), x, q, o)
<1>1. d \in Monster /\ ~Alive(d) /\ d.mode = -1
  BY DEF Done, HalfDead
<1>2. PICK c \in NextMoves(d, Context(r, Place(r, x))) : t = Put(r, Announce(d, c))
  BY DEF Roll, Splitting
<1>3. c \in 0..8 /\ 3 \in 0..8
  <2>1. Respects(d, c)
    BY <1>1, TableRespects
  <2> QED BY <2>1 DEF Respects
<1>4. PICK g : g = Announce(d, c)
  OBVIOUS
<1>5. Announces(d, g, c)
  BY <1>1, <1>3, <1>4, AnnounceDoes
<1>6. Becomes(d, g) /\ (Alive(g) <=> Alive(d))
  BY <1>1, <1>5, NextBecomes DEF Announces
<1>7. Stands(t, x, q) /\ t[Place(t, x)] = g
  <2>1. Stands(Put(r, g), x, q) /\ Put(r, g)[Place(r, x)] = g /\ Place(Put(r, g), x) = Place(r, x)
    BY <1>6, PutStands
  <2> QED BY <1>2, <1>4, <2>1
<1>8. PICK f : f = Announce(g, 3)
  OBVIOUS
<1>9. g \in Monster
  BY <1>5 DEF Announces
<1>10. Announces(g, f, 3)
  BY <1>3, <1>8, <1>9, AnnounceDoes
<1>11. Becomes(g, f) /\ (Alive(f) <=> Alive(g))
  BY <1>1, <1>5, <1>9, <1>10, NextBecomes DEF Announces
<1>12. f = Twice(d, c, 3)
  BY <1>4, <1>8 DEF Twice
<1>13. /\ f \in Monster /\ f.kind = d.kind /\ f.did = d.did /\ f.mode = d.mode
       /\ f.moves = d.moves /\ \A b : Used(d.hist, b) => Used(f.hist, b)
  <2>1. Later(d, f, 3)
    BY <1>1, <1>3, <1>12, TwiceDoes
  <2> QED BY <2>1 DEF Later
<1>14. Marked(Having(f, o.intent))
  <2>1. HalfDead(f) => ~Alive(f)
    BY <1>1, <1>6, <1>11
  <2> QED BY <1>13, <2>1, MarkedAfter
<1>15. PICK h : h = Having(f, o.intent)
  OBVIOUS
<1>16. h.kind = "AwakenedOne" /\ h.intent = 3 /\ h.mode = -1
  <2>1. o.intent \in 0..8
    BY MonsterFields
  <2>2. h.kind = f.kind /\ h.intent = f.intent /\ h.mode = f.mode
    BY <1>13, <1>15, <2>1, HavingIs
  <2> QED BY <1>1, <1>10, <1>13, <2>2 DEF Announces
<1>17. Ready(h)
  BY <1>16 DEF Ready, NeverTwice, NeverThrice, Once
<1>18. FitAfter(f, o.intent)
  BY <1>14, <1>15, <1>17 DEF FitAfter, Fit
<1>19. t[Place(t, x)] = g /\ Announce(t[Place(t, x)], 3) = f
  BY <1>7, <1>8
<1>20. f.kind \notin Masters
  BY <1>13 DEF Masters
<1> QED BY <1>7, <1>11, <1>18, <1>19, <1>20, PutActs

\* The row after a move that summons nobody.
LEMMA AnnouncedActs ==
  ASSUME NEW r, NEW x, NEW q, Stands(r, x, q),
         NEW o \in Monster, Fit(o), Alive(o), NEW w, Wound(o, w, "thorns"),
         NEW d, d = r[Place(r, x)], Paying(w, d, o.intent),
         NEW s \in Announced(r, d, o.intent)
  PROVE  Acted(s, x, q, o)
<1>1. Done(o, d)
  BY DoneIs
<1>2. Marked(o) /\ Ready(o) /\ d \in Monster /\ d.id = x
  BY TheActor DEF Fit
<1>3. /\ w \in Monster /\ w.kind = o.kind /\ w.moves = o.moves /\ d.kind = o.kind
      /\ HalfDead(d) => ~Alive(d)
      /\ w.mode \in Modes(w.kind) /\ (HalfDead(w) => ~Alive(w))
  BY <1>1 DEF Wound, Hurt, Fit, Marked, Paying, Done
<1>4. d.kind = "Darkling" => Alive(d) \/ HalfDead(d)
  <2>1. d.kind = "Darkling" => Alive(w) \/ HalfDead(w)
    BY <1>3 DEF Wound, Hurt
  <2> QED BY <1>3, <2>1 DEF Paying, HalfDead
<1> DEFINE b == o.intent
           takesOff == d.kind = "Byrd" /\ b = 5
           awakes == d.kind = "Lagavulin" /\ b = 5 /\ d.mode = 0
           othersLive == \E i \in DOMAIN r : Alive(r[i]) /\ r[i].id # d.id
<1>5. /\ 2 \in 0..8 /\ 3 \in 0..8 /\ 4 \in 0..8 /\ 5 \in 0..8
  OBVIOUS
<1>6. CASE Alive(d) /\ takesOff
  <2>1. s = Put(r, Twice(d, 5, 2))
    BY <1>6 DEF Announced, Twice
  <2>2. PICK f : f = Twice(d, 5, 2)
    OBVIOUS
  <2>3. Later(d, f, 2)
    BY <1>2, <1>5, <2>2, TwiceDoes
  <2>4. Plain(f.kind, f.intent)
    BY <1>6, <2>3 DEF Later, Plain, NeverTwice, NeverThrice, Once
  <2> QED BY <1>1, <1>2, <1>4, <2>1, <2>2, <2>3, <2>4, PlainActs DEF Later
<1>7. CASE Alive(d) /\ awakes
  <2>1. PICK f : f = Announce(d, 3) /\ s = Put(r, f)
    BY <1>7 DEF Announced
  <2>2. Announces(d, f, 3)
    BY <1>2, <1>5, <2>1, AnnounceDoes
  <2>3. \A c : Used(d.hist, c) => Used(f.hist, c)
    <3>1. d.hist \in Seq(0..8)
      BY <1>2, MonsterFields
    <3> QED BY <1>5, <2>2, <3>1, MoreUsed DEF Announces
  <2>4. Plain(f.kind, f.intent)
    BY <1>7, <2>2 DEF Announces, Plain, NeverTwice, NeverThrice, Once
  <2>5. /\ f \in Monster /\ f.id = d.id /\ f.kind = d.kind /\ f.slot = d.slot
        /\ f.moves = d.moves /\ f.did = d.did /\ f.mode = d.mode /\ f.hp = d.hp
    BY <2>2 DEF Announces
  <2> QED BY <1>1, <1>2, <1>4, <2>1, <2>3, <2>4, <2>5, PlainActs
<1>8. CASE Alive(d) /\ ~takesOff /\ ~awakes
  <2>1. s \in Roll(r, x)
    BY <1>2, <1>3, <1>8 DEF Announced
  <2>2. ~HalfDead(w)
    <3>1. HalfDead(w) => w.kind \in {"Darkling", "AwakenedOne"}
      BY <1>3, WhoIsHalfDead
    <3>2. Alive(w) \/ w.kind = "TimeEater"
      BY <1>8 DEF Paying
    <3> QED BY <1>3, <3>1, <3>2
  <2>3. w.hist = o.hist
    BY <2>2 DEF Wound, Same
  <2>4. <<o.kind, o.intent>> \in NeverTwice \cup NeverThrice => d.hist = o.hist
    <3>1. <<"ShelledParasite", 4>> \notin NeverTwice \cup NeverThrice
      BY DEF NeverTwice, NeverThrice
    <3>2. d.hist = w.hist \/ (o.kind = "ShelledParasite" /\ o.intent = 4)
      BY <1>3 DEF Paying
    <3> QED BY <2>3, <3>1, <3>2
  <2>5. d.kind = "Nemesis" => d.moves > 0
    <3>1. o.moves \in Nat
      BY MonsterFields
    <3> QED BY <1>3, <3>1 DEF Paying
  <2> QED BY <1>1, <1>2, <1>8, <2>1, <2>4, <2>5, RollActs
<1>9. CASE ~Alive(d) /\ d.kind = "Darkling" /\ HalfDead(d) /\ othersLive
  <2>1. s = Put(r, Twice(d, 5, 4))
    BY <1>9 DEF Announced, Twice
  <2>2. PICK f : f = Twice(d, 5, 4)
    OBVIOUS
  <2>3. Later(d, f, 4)
    BY <1>2, <1>5, <2>2, TwiceDoes
  <2>4. Plain(f.kind, f.intent)
    BY <1>9, <2>3 DEF Later, Plain, NeverTwice, NeverThrice, Once
  <2> QED BY <1>1, <1>2, <1>4, <2>1, <2>2, <2>3, <2>4, PlainActs DEF Later
<1>10. CASE ~Alive(d) /\ d.kind = "AwakenedOne" /\ HalfDead(d)
  <2>1. PICK t \in Roll(r, x) : s = Put(t, Announce(t[Place(t, x)], 3))
    BY <1>2, <1>10 DEF Announced
  <2> QED BY <1>1, <1>2, <1>10, <2>1, FirstDeathActs
<1>11. CASE /\ ~Alive(d)
            /\ ~(d.kind = "Darkling" /\ HalfDead(d) /\ othersLive)
            /\ ~(d.kind = "AwakenedOne" /\ HalfDead(d))
  <2>1. s = r
    BY <1>11 DEF Announced
  <2>2. HalfDead(d) => Plain(d.kind, d.intent)
    <3> SUFFICES ASSUME HalfDead(d)
                 PROVE  Plain(d.kind, d.intent)
      OBVIOUS
    <3>1. d.kind = "Darkling"
      <4>1. d.mode \in Modes(d.kind)
        BY <1>1 DEF Done
      <4> QED BY <4>1, <1>11, WhoIsHalfDead
    <3>2. HalfDead(w) /\ d.intent = w.intent
      BY <1>3, <3>1 DEF Paying, HalfDead
    <3>3. d.intent = 4
      BY <1>3, <3>1, <3>2 DEF Wound
    <3> QED BY <3>1, <3>3 DEF Plain, NeverTwice, NeverThrice, Once
  <2> QED BY <1>1, <1>2, <1>4, <1>11, <2>1, <2>2, StayActs
<1> QED BY <1>6, <1>7, <1>8, <1>9, <1>10, <1>11

\* f is what a half-dead monster o may be after its turn.
Follows(o, f) ==
  /\ FitAfter(f, o.intent)
  /\ Becomes(o, f)
  /\ f.kind \notin Masters

\* The Awakened One comes back, in its second form.
LEMMA ReturnFits ==
  ASSUME NEW o \in Monster, Fit(o), HalfDead(o), o.kind = "AwakenedOne",
         NEW n, n = [o EXCEPT !.hp = 2, !.mode = 1], NEW f, f = Announce(n, 5)
  PROVE  Follows(o, f)
<1>1. Marked(o) /\ Ready(o) /\ o.mode = -1
  BY DEF Fit, HalfDead
<1>2. /\ n \in Monster /\ n.id = o.id /\ n.kind = o.kind /\ n.slot = o.slot
      /\ n.intent = o.intent /\ n.hist = o.hist /\ n.moves = o.moves
      /\ n.did = o.did /\ n.mode = 1 /\ n.hp = 2
  <2>1. 1 \in Int /\ 2 \in 0..2
    OBVIOUS
  <2> QED BY <2>1 DEF Monster
<1>3. Announces(n, f, 5)
  <2>1. 5 \in 0..8
    OBVIOUS
  <2> QED BY <1>2, <2>1, AnnounceDoes
<1>4. Done(o, n)
  <2>1. n.mode \in Modes(n.kind) /\ ~HalfDead(n)
    BY <1>2 DEF Modes, HalfDead, Splitting
  <2>2. \A c : UsedUp(n, c)
    BY <1>2 DEF UsedUp, Remembering
  <2> QED BY <1>2, <2>1, <2>2 DEF Done
<1>5. o.hist \in Seq(0..8) /\ o.did \in Seq(0..8) /\ o.intent \in 0..8
  BY MonsterFields
<1>6. \A c : Used(n.hist, c) => Used(f.hist, c)
  <2>1. 5 \in 0..8
    OBVIOUS
  <2> QED BY <1>2, <1>3, <1>5, <2>1, MoreUsed DEF Announces
<1>7. f \in Monster /\ ~HalfDead(f)
  BY <1>2, <1>3 DEF Announces, HalfDead
<1>8. PICK h : h = Having(f, o.intent)
  OBVIOUS
<1>9. Marked(h)
  BY <1>1, <1>2, <1>3, <1>4, <1>6, <1>7, <1>8, MarkedAfter DEF Announces
<1>10. h.kind = "AwakenedOne" /\ h.intent = 5 /\ h.mode = 1
  <2>1. h.kind = f.kind /\ h.intent = f.intent /\ h.mode = f.mode
    BY <1>5, <1>7, <1>8, HavingIs
  <2> QED BY <1>2, <1>3, <2>1 DEF Announces
<1>11. 5 \notin ToSet(h.did)
  <2>1. o.intent = 3
    BY <1>1 DEF Ready
  <2>2. h.did = Append(o.did, 3)
    BY <1>2, <1>3, <1>5, <1>7, <1>8, <2>1, HavingDid DEF Announces
  <2>3. 5 \notin ToSet(o.did)
    <3>1. <<o.kind, 5>> \in Once
      BY DEF Once
    <3>2. ~UsedUp(o, 5)
      BY <1>1 DEF UsedUp, Remembering
    <3> QED BY <1>1, <3>1, <3>2 DEF Marked
  <2>4. 3 \in 0..8
    OBVIOUS
  <2> QED BY <1>5, <2>2, <2>3, <2>4, AppendIs
<1>12. Ready(h)
  BY <1>10, <1>11 DEF Ready, NeverTwice, NeverThrice, Remembering
<1>13. FitAfter(f, o.intent)
  BY <1>8, <1>9, <1>12 DEF FitAfter, Fit
<1>14. f.id = o.id /\ f.kind = o.kind /\ f.slot = o.slot
  BY <1>2, <1>3 DEF Announces
<1>15. f.kind \notin Masters /\ f.kind \notin AllMinions
  BY <1>14 DEF Masters, AllMinions, Gremlins
<1>16. Becomes(o, f)
  BY <1>7, <1>14, <1>15 DEF Becomes
<1> QED BY <1>13, <1>15, <1>16 DEF Follows

\* A Darkling that counted shows that it will come back.
LEMMA CountFits ==
  ASSUME NEW o \in Monster, Fit(o), HalfDead(o), o.kind = "Darkling", o.intent = 4,
         NEW n, n = Counted(o), NEW f, f = Announce(n, 5)
  PROVE  Follows(o, f)
<1>1. Marked(o) /\ Ready(o) /\ o.mode = -1 /\ ~Alive(o)
  BY DEF Fit, HalfDead, Marked
<1>2. /\ n \in Monster /\ n.id = o.id /\ n.kind = o.kind /\ n.slot = o.slot
      /\ n.hist = o.hist /\ n.did = o.did /\ n.mode = o.mode /\ n.hp = o.hp
  BY CountedIs
<1>3. Announces(n, f, 5)
  <2>1. 5 \in 0..8
    OBVIOUS
  <2> QED BY <1>2, <2>1, AnnounceDoes
<1>4. Done(o, n)
  <2>1. n.mode \in Modes(n.kind) /\ ~Alive(n)
    BY <1>1, <1>2 DEF Marked, Alive
  <2>2. \A c : <<o.kind, c>> \notin Once \cup {<<"AwakenedOne", 3>>}
    BY DEF Once
  <2> QED BY <1>2, <2>1, <2>2 DEF Done
<1>5. o.hist \in Seq(0..8) /\ o.did \in Seq(0..8) /\ o.intent \in 0..8
  BY MonsterFields
<1>6. \A c : Used(n.hist, c) => Used(f.hist, c)
  <2>1. 5 \in 0..8
    OBVIOUS
  <2> QED BY <1>2, <1>3, <1>5, <2>1, MoreUsed DEF Announces
<1>7. f \in Monster /\ HalfDead(f) /\ ~Alive(f)
  BY <1>1, <1>2, <1>3 DEF Announces, HalfDead, Alive
<1>8. PICK h : h = Having(f, o.intent)
  OBVIOUS
<1>9. Marked(h)
  BY <1>1, <1>2, <1>3, <1>4, <1>6, <1>7, <1>8, MarkedAfter DEF Announces
<1>10. h.kind = "Darkling" /\ h.intent = 5
  <2>1. h.kind = f.kind /\ h.intent = f.intent
    BY <1>5, <1>7, <1>8, HavingIs
  <2> QED BY <1>2, <1>3, <2>1 DEF Announces
<1>11. LastMove(h.did, 4)
  <2>0. f.did = o.did
    BY <1>2, <1>3 DEF Announces
  <2>1. h.did = Append(o.did, 4)
    <3>1. h.did = Append(f.did, o.intent)
      BY <1>5, <1>7, <1>8, HavingDid
    <3> QED BY <2>0, <3>1
  <2>2. 4 \in 0..8
    OBVIOUS
  <2> QED BY <1>5, <2>1, <2>2, AppendIs
<1>12. Ready(h)
  BY <1>10, <1>11 DEF Ready, NeverTwice, NeverThrice, Once
<1>13. FitAfter(f, o.intent)
  BY <1>8, <1>9, <1>12 DEF FitAfter, Fit
<1>14. f.id = o.id /\ f.kind = o.kind /\ f.slot = o.slot
  BY <1>2, <1>3 DEF Announces
<1>15. f.kind \notin Masters
  BY <1>14 DEF Masters
<1>16. Becomes(o, f)
  BY <1>7, <1>14 DEF Becomes
<1> QED BY <1>13, <1>15, <1>16 DEF Follows

\* The turn of a half-dead monster.
LEMMA RisesActs ==
  ASSUME NEW r, NEW x, NEW q, Stands(r, x, q), NEW o, o = r[Place(r, x)],
         Fit(o), HalfDead(o), NEW s \in Rises(r, o)
  PROVE  Acted(s, x, q, o)
<1>1. o \in Monster /\ o.id = x
  BY TheActor
<1>2. Marked(o) /\ Ready(o) /\ o.mode = -1 /\ ~Alive(o)
  BY DEF Fit, HalfDead, Marked
<1>3. o.kind \in {"Darkling", "AwakenedOne"}
  BY <1>2, WhoIsHalfDead DEF Marked
<1>4. CASE o.kind = "AwakenedOne"
  <2>1. PICK n : n = [o EXCEPT !.hp = 2, !.mode = 1]
    OBVIOUS
  <2>2. PICK f : f = Announce(n, 5)
    OBVIOUS
  <2>3. s = Put(r, f)
    BY <1>4, <2>1, <2>2 DEF Rises
  <2>4. Follows(o, f)
    BY <1>1, <1>4, <2>1, <2>2, ReturnFits
  <2> QED BY <2>3, <2>4, PutActs DEF Follows
<1>5. CASE o.kind = "Darkling" /\ o.intent = 4
  <2>1. PICK n : n = Counted(o)
    OBVIOUS
  <2>2. PICK f : f = Announce(n, 5)
    OBVIOUS
  <2>3. s = Put(r, f)
    BY <1>5, <2>1, <2>2 DEF Rises
  <2>4. Follows(o, f)
    BY <1>1, <1>5, <2>1, <2>2, CountFits
  <2> QED BY <2>3, <2>4, PutActs DEF Follows
<1>6. CASE o.kind = "Darkling" /\ o.intent # 4
  <2>1. PICK m : m = Counted(o)
    OBVIOUS
  <2>2. PICK n : n = [m EXCEPT !.hp = 2, !.mode = 0]
    OBVIOUS
  <2>3. s \in Roll(Put(r, n), x)
    BY <1>1, <1>6, <2>1, <2>2 DEF Rises
  <2>4. /\ m \in Monster /\ m.id = o.id /\ m.kind = o.kind /\ m.slot = o.slot
        /\ m.hist = o.hist /\ m.did = o.did
    BY <1>1, <2>1, CountedIs
  <2>5. /\ n \in Monster /\ n.id = m.id /\ n.kind = m.kind /\ n.slot = m.slot
        /\ n.hist = m.hist /\ n.did = m.did /\ n.mode = 0 /\ n.hp = 2
    <3>1. 0 \in Int /\ 2 \in 0..2
      OBVIOUS
    <3> QED BY <2>2, <2>4, <3>1 DEF Monster
  <2>6. Becomes(o, n) /\ n.kind \notin Masters
    BY <1>6, <2>4, <2>5 DEF Becomes, Masters, AllMinions, Gremlins, Alive
  <2>7. /\ Stands(Put(r, n), x, q)
        /\ n = Put(r, n)[Place(Put(r, n), x)]
    BY <2>6, PutStands
  <2>8. Done(o, n)
    <3>1. n.mode \in Modes(n.kind) /\ ~HalfDead(n)
      BY <1>6, <2>4, <2>5 DEF Modes, HalfDead, Splitting
    <3>2. \A c : <<o.kind, c>> \notin Once \cup {<<"AwakenedOne", 3>>}
      BY <1>6 DEF Once
    <3> QED BY <2>4, <2>5, <3>1, <3>2 DEF Done
  <2>9. Alive(n) /\ n.kind # "Nemesis" /\ n.hist = o.hist
    BY <1>6, <2>4, <2>5 DEF Alive
  <2> QED BY <1>1, <1>2, <2>3, <2>7, <2>8, <2>9, RollActs
<1> QED BY <1>3, <1>4, <1>5, <1>6

\* What is left of a slime that splits, and of the others as they were.
LEMMA SplitWound ==
  ASSUME NEW o \in Monster, Fit(o), Alive(o), Summons(o), NEW w, w = SplitFrom(o)
  PROVE  Wound(o, w, "thorns")
<1>1. CASE o.kind \in Splitting
  <2>1. w = [o EXCEPT !.hp = 0] /\ o.kind # "Darkling" /\ 0 \in 0..2
    BY <1>1 DEF SplitFrom, Splitting
  <2> QED BY <2>1, HpChange
<1>2. CASE o.kind \notin Splitting
  <2>1. w = o
    BY <1>2 DEF SplitFrom
  <2>2. Hurt(o, o) /\ Same(o, o)
    BY DEF Hurt, Same
  <2>3. HalfDead(o) => o.kind = "AwakenedOne" \/ o.intent = 4
    BY DEF Fit, Marked
  <2> QED BY <2>1, <2>2, <2>3 DEF Wound
<1> QED BY <1>1, <1>2

\* Counting the move is all that most moves need.
LEMMA CountedPays ==
  ASSUME NEW w \in Monster, NEW b \in 0..8, ~(w.kind = "WrithingMass" /\ b = 4),
         NEW d, d = Counted(w)
  PROVE  Paying(w, d, b)
BY CountedIs DEF Paying, Alive

\* A move that adds monsters to the row.
LEMMA SummonActs ==
  ASSUME NEW r, NEW x, NEW q, Stands(r, x, q), NEW o, o = r[Place(r, x)],
         Fit(o), Alive(o), Summons(o), NEW t \in Summoned(r, o), NEW n,
         n = Counted(t[Place(t, x)]),
         NEW s \in IF Alive(n) THEN Roll(Put(t, n), x) ELSE {Put(t, n)}
  PROVE  Acted(s, x, q, o)
<1>1. o \in Monster /\ o.id = x /\ o.intent \in 0..8
  BY TheActor, MonsterFields
<1>2. Marked(o) /\ Ready(o)
  BY DEF Fit
<1>3. PICK w : w = SplitFrom(o)
  OBVIOUS
<1>4. Stands(t, x, q) /\ t[Place(t, x)] = w
  BY <1>3, SummonedStands
<1>5. Wound(o, w, "thorns")
  BY <1>1, <1>3, SplitWound
<1>6. w \in Monster /\ w.kind = o.kind /\ w.moves = o.moves
  BY <1>5 DEF Wound, Hurt
<1>7. n = Counted(w)
  BY <1>4
<1>8. /\ n \in Monster /\ n.id = w.id /\ n.kind = w.kind /\ n.slot = w.slot
      /\ n.intent = w.intent /\ n.moves = w.moves + 1 /\ n.hist = w.hist
      /\ n.did = w.did /\ n.mode = w.mode /\ n.hp = w.hp
  BY <1>6, <1>7, CountedIs
<1>9. Paying(w, n, o.intent)
  <2>1. ~(w.kind = "WrithingMass" /\ o.intent = 4)
    BY <1>6 DEF Summons, Splitting
  <2> QED BY <1>1, <1>6, <1>7, <2>1, CountedPays
<1>10. Done(o, n)
  BY <1>1, <1>5, <1>9, DoneIs
<1>11. n.kind # "Darkling" /\ n.kind # "Nemesis"
  BY <1>6, <1>8 DEF Summons, Splitting
<1>12. Becomes(w, n) /\ (Alive(n) <=> Alive(w))
  BY <1>6, <1>8, <1>11, NextBecomes
<1>13. Stands(Put(t, n), x, q) /\ n = Put(t, n)[Place(Put(t, n), x)]
  BY <1>4, <1>12, PutStands
<1>14. n.mode \in Modes(n.kind)
  BY <1>10 DEF Done
<1>15. ~HalfDead(n)
  <2>1. HalfDead(n) => n.kind = "AwakenedOne"
    BY <1>11, <1>14, WhoIsHalfDead
  <2>2. o.kind # "AwakenedOne"
    BY DEF Summons, Splitting
  <2> QED BY <1>6, <1>8, <2>1, <2>2
<1>16. CASE Alive(n)
  <2>1. s \in Roll(Put(t, n), x)
    BY <1>16
  <2>2. w.hist = o.hist
    <3>1. ~HalfDead(w)
      BY <1>8, <1>15 DEF HalfDead
    <3> QED BY <1>5, <3>1 DEF Wound, Same
  <2> QED BY <1>1, <1>2, <1>8, <1>10, <1>11, <1>13, <1>16, <2>1, <2>2, RollActs
<1>17. CASE ~Alive(n)
  <2>1. s = Put(t, n)
    BY <1>17
  <2> QED BY <1>1, <1>2, <1>10, <1>11, <1>13, <1>15, <1>17, <2>1, StayActs
<1> QED BY <1>16, <1>17

\* The Healer's mending.
LEMMA MendActs ==
  ASSUME NEW r, NEW x, NEW q, Stands(r, x, q), NEW o, o = r[Place(r, x)],
         Fit(o), Alive(o), o.kind = "Healer", o.intent = 2,
         NEW d, d = Counted(o), NEW t \in Mended(Put(r, d)), NEW s \in Roll(t, x)
  PROVE  Acted(s, x, q, o)
<1>1. o \in Monster /\ o.id = x /\ o.intent \in 0..8
  BY TheActor, MonsterFields
<1>2. Marked(o) /\ Ready(o)
  BY DEF Fit
<1>3. /\ d \in Monster /\ d.id = o.id /\ d.kind = o.kind /\ d.slot = o.slot
      /\ d.intent = o.intent /\ d.moves = o.moves + 1 /\ d.hist = o.hist
      /\ d.did = o.did /\ d.mode = o.mode /\ d.hp = o.hp
  BY <1>1, CountedIs
<1>4. Becomes(o, d) /\ (Alive(d) <=> Alive(o))
  BY <1>1, <1>3, NextBecomes
<1>5. /\ Stands(Put(r, d), x, q)
      /\ Put(r, d)[Place(r, x)] = d
      /\ Place(Put(r, d), x) = Place(r, x)
  BY <1>4, PutStands
<1>6. PICK u : u = Put(r, d)
  OBVIOUS
<1>7. Stands(u, x, q) /\ u[Place(u, x)] = d /\ t \in Mended(u)
  BY <1>5, <1>6
<1>8. /\ Stands(t, x, q)
      /\ Place(t, x) = Place(u, x)
      /\ \A i \in DOMAIN u : Idle(u[i], t[i]) /\ (Alive(u[i]) <=> Alive(t[i]))
  BY <1>7, MendStands
<1>9. PICK n : n = t[Place(t, x)]
  OBVIOUS
<1>10. Idle(d, n) /\ Alive(n)
  <2>1. Place(u, x) \in DOMAIN u
    BY <1>7, TheActor
  <2> QED BY <1>4, <1>7, <1>8, <1>9, <2>1
<1>11. n \in Monster
  BY <1>8, <1>9, TheActor
<1>12. Done(o, n)
  <2>1. n.kind = o.kind /\ n.did = o.did /\ n.mode = o.mode
    BY <1>3, <1>10 DEF Idle
  <2>2. n.mode \in Modes(n.kind) /\ ~HalfDead(n)
    BY <1>2, <2>1 DEF Marked, HalfDead
  <2>3. \A c : <<o.kind, c>> \notin Once \cup {<<"AwakenedOne", 3>>}
    BY DEF Once
  <2> QED BY <1>11, <2>1, <2>2, <2>3 DEF Done
<1>13. n.hist = o.hist /\ n.kind # "Nemesis"
  BY <1>3, <1>10 DEF Idle
<1> QED BY <1>1, <1>2, <1>8, <1>9, <1>10, <1>12, <1>13, RollActs

\* A move of the one who acts, the thorns that answer it, and its next move.
LEMMA PerformedActs ==
  ASSUME NEW r, NEW x, NEW q, Stands(r, x, q), NEW o, o = r[Place(r, x)],
         Fit(o), Alive(o) \/ HalfDead(o),
         NEW w, Alive(o) => Wound(o, w, "thorns"),
         ~Strikes(o.kind, o.intent) => w = o,
         NEW s \in Performed(r, o, w)
  PROVE  Acted(s, x, q, o)
<1>1. o \in Monster /\ o.id = x /\ o.intent \in 0..8 /\ o.mode \in Int
  BY TheActor, MonsterFields
<1>2. Marked(o) /\ Ready(o)
  BY DEF Fit
<1>3. CASE HalfDead(o)
  <2>1. ~Summons(o) /\ o.kind # "Healer"
    <3>1. o.kind \in {"Darkling", "AwakenedOne"}
      BY <1>2, <1>3, WhoIsHalfDead DEF Marked
    <3> QED BY <3>1 DEF Summons, Splitting
  <2>2. s \in Rises(r, o)
    BY <1>3, <2>1 DEF Performed
  <2> QED BY <1>3, <2>2, RisesActs
<1>4. CASE ~HalfDead(o) /\ Summons(o)
  <2>1. PICK t \in Summoned(r, o) :
          s \in IF Alive(Counted(t[Place(t, x)])) THEN Roll(Put(t, Counted(t[Place(t, x)])), x)
                ELSE {Put(t, Counted(t[Place(t, x)]))}
    <3>1. o.kind # "Healer"
      BY <1>4 DEF Summons, Splitting
    <3>2. s \in UNION {LET n == Counted(t[Place(t, x)])
                       IN IF Alive(n) THEN Roll(Put(t, n), x) ELSE {Put(t, n)} : t \in Summoned(r, o)}
      BY <1>1, <1>4, <3>1 DEF Performed
    <3> QED BY <3>2
  <2> QED BY <1>4, <2>1, SummonActs
<1>5. PICK d : d = Spent(w, o.intent, o.mode > 0)
  OBVIOUS
<1>6. CASE ~HalfDead(o) /\ ~Summons(o)
  <2>1. Wound(o, w, "thorns") /\ Alive(o)
    BY <1>6
  <2>2. w \in Monster /\ w.kind = o.kind
    BY <2>1 DEF Wound, Hurt
  <2>3. Paying(w, d, o.intent)
    <3>1. w.kind = "Lagavulin" /\ o.intent = 5 => w.mode > 0
      <4> SUFFICES ASSUME o.kind = "Lagavulin", o.intent = 5
                   PROVE  w.mode > 0
        BY <2>2
      <4>1. w = o
        BY DEF Strikes, Calm
      <4> QED BY <1>2, <4>1 DEF Ready
    <3>2. w.kind = "Guardian" /\ o.mode > 0 => w.mode > 0
      <4> SUFFICES ASSUME o.kind = "Guardian", o.mode > 0
                   PROVE  w.mode > 0
        BY <2>2
      <4>1. w.mode \in Modes(w.kind)
        BY <2>1 DEF Wound, Fit, Marked
      <4>2. ~HalfDead(w)
        BY <2>2, <4>1, WhoIsHalfDead
      <4> QED BY <2>1, <4>2 DEF Wound, Same, Splitting
    <3>3. (o.mode > 0) \in BOOLEAN
      OBVIOUS
    <3> QED BY <1>1, <1>5, <2>2, <3>1, <3>2, <3>3, SpentIs
  <2>4. CASE o.kind = "Healer" /\ o.intent = 2
    <3>1. w = o
      BY <2>4 DEF Strikes, Calm
    <3>2. d = Counted(o)
      BY <1>5, <2>4, <3>1 DEF Spent
    <3>3. PICK t \in Mended(Put(r, d)) : s \in Roll(t, x)
      BY <1>1, <1>5, <1>6, <2>4 DEF Performed
    <3> QED BY <2>1, <2>4, <3>2, <3>3, MendActs
  <2>5. CASE ~(o.kind = "Healer" /\ o.intent = 2)
    <3>1. s \in Announced(Settled(r, d), d, o.intent)
      BY <1>5, <1>6, <2>5 DEF Performed
    <3>2. Becomes(o, d)
      <4>1. o.kind = "Darkling" => Alive(d) \/ HalfDead(d)
        <5>1. o.kind = "Darkling" => Alive(w) \/ HalfDead(w)
          BY <2>1 DEF Wound, Hurt
        <5> QED BY <2>2, <2>3, <5>1 DEF Paying, HalfDead
      <4>2. w.id = o.id /\ w.slot = o.slot
        BY <2>1 DEF Wound, Hurt
      <4> QED BY <2>1, <2>2, <2>3, <4>1, <4>2 DEF Paying, Becomes
    <3>3. /\ Stands(Settled(r, d), x, q)
          /\ Settled(r, d)[Place(r, x)] = d
          /\ Place(Settled(r, d), x) = Place(r, x)
      BY <3>2, SettledStands
    <3> QED BY <1>1, <2>1, <2>3, <3>1, <3>3, AnnouncedActs
  <2> QED BY <2>4, <2>5
<1> QED BY <1>3, <1>4, <1>6

------------------------------------------------------------------------------
(* The row a combat starts with *)

\* The first move of every kind is one it may perform.
LEMMA FirstFits ==
  ASSUME NEW id \in Nat, NEW kind \in Kinds, NEW slot \in -1..3,
         NEW m, m = NewMonster(id, kind, slot), NEW ctx, NEW c \in FirstMoves(m, ctx)
  PROVE  Newborn(Announce(m, c), id, kind, slot)
<1>1. /\ m \in Monster /\ m.id = id /\ m.kind = kind /\ m.slot = slot /\ m.hp = 2
      /\ m.hist = <<>> /\ m.did = <<>> /\ m.moves = 0
      /\ kind = "Lagavulin" => m.mode = 3
      /\ kind \in {"Byrd", "ShelledParasite"} => m.mode = 1
      /\ kind \notin {"Lagavulin", "Byrd", "ShelledParasite"} => m.mode = 0
  BY NewMonsterIs
<1>2. /\ c \in 0..8
      /\ kind = "AwakenedOne" => c \notin {3, 5}
      /\ kind = "Darkling" => c # 5
  <2>1. CASE kind \in {"SmallAcid", "GremlinNob", "CorruptHeart", "Looter", "Mugger", "Dagger"}
    BY <1>1, <2>1 DEF FirstMoves
  <2>2. CASE kind \notin {"SmallAcid", "GremlinNob", "CorruptHeart", "Looter", "Mugger", "Dagger"}
    <3>1. c \in NextMoves(m, ctx)
      BY <1>1, <2>2 DEF FirstMoves
    <3>2. Respects(m, c)
      BY <1>1, <3>1, TableRespects
    <3> QED BY <1>1, <3>2 DEF Respects
  <2> QED BY <2>1, <2>2
<1>3. PICK n : n = Announce(m, c)
  OBVIOUS
<1>4. Announces(m, n, c)
  BY <1>1, <1>2, <1>3, AnnounceDoes
<1>5. m.mode \in Modes(kind) /\ m.mode # -1
  BY <1>1 DEF Modes, Splitting
<1>6. Marked(n)
  <2>1. n.did = <<>> /\ n.kind = kind /\ n.mode = m.mode
    BY <1>1, <1>4 DEF Announces
  <2>2. WithinLimits(n.kind, <<>>) /\ ToSet(<<>>) = {}
    BY NothingDone
  <2> QED BY <1>5, <2>1, <2>2 DEF Marked, HalfDead
<1>7. LastMove(n.hist, c) /\ Used(n.hist, c)
  <2>1. m.hist \in Seq(0..8)
    BY <1>1
  <2> QED BY <1>2, <1>4, <2>1, AppendIs DEF Announces
<1>8. ~LastMove(n.did, c) /\ c \notin ToSet(n.did)
  <2>1. n.did = <<>> /\ ToSet(<<>>) = {}
    BY <1>1, <1>4, NothingDone DEF Announces
  <2> QED BY <2>1 DEF LastMove
<1>9. Ready(n)
  <2>1. n.intent = c /\ n.kind = kind /\ n.mode = m.mode
    BY <1>1, <1>4 DEF Announces
  <2> QED BY <1>1, <1>2, <1>5, <1>7, <1>8, <2>1 DEF Ready, LastTwoMoves
<1> QED BY <1>1, <1>3, <1>4, <1>6, <1>9 DEF Newborn, Announces, Fit, Alive

\* The encounters give each minion a place of its own.
LEMMA InitialSlotIs ==
  ASSUME NEW e, WellComposed(e), NEW i \in DOMAIN e
  PROVE  /\ InitialSlot(e, i) \in -1..3
         /\ \A l \in DOMAIN e : e[l] \in Masters =>
              /\ InitialSlot(e, i) >= 0 => e[i] \in Minions(e[l])
              /\ e[i] \in Minions(e[l]) =>
                   /\ InitialSlot(e, i) \in Slots(e[l])
                   /\ e[l] = "GremlinLeader" => i < l /\ InitialSlot(e, i) = i - 1
                   /\ e[l] = "Reptomancer" => InitialSlot(e, i) = IF i = 1 THEN 1 ELSE 0
                   /\ e[l] # "Collector"
<1>1. e \in Seq(Kinds) /\ i \in Nat /\ i > 0
  BY DEF WellComposed
<1>2. ASSUME NEW l \in DOMAIN e, e[l] = "GremlinLeader", e[i] \in Gremlins
      PROVE  i < l /\ i <= 3
  BY <1>2 DEF WellComposed
<1>3. CASE "GremlinLeader" \in {e[j] : j \in DOMAIN e} /\ e[i] \in Gremlins
  <2>1. PICK g \in DOMAIN e : e[g] = "GremlinLeader"
    BY <1>3
  <2>2. InitialSlot(e, i) = i - 1
    <3>1. e[i] # "Dagger"
      BY <1>3 DEF Gremlins
    <3> QED BY <1>3, <3>1 DEF InitialSlot
  <2>3. i < g /\ i <= 3
    BY <1>2, <1>3, <2>1
  <2>4. ASSUME NEW l \in DOMAIN e, e[l] \in Masters PROVE l = g
    BY <2>1, <2>4 DEF WellComposed, Masters
  <2>5. i - 1 \in 0..2
    BY <1>1, <2>3
  <2>6. Minions("GremlinLeader") = Gremlins /\ Slots("GremlinLeader") = 0..2
    BY DEF Minions, Slots
  <2> QED BY <1>3, <2>1, <2>2, <2>3, <2>4, <2>5, <2>6
<1>4. CASE e[i] = "Dagger"
  <2>1. InitialSlot(e, i) = IF i = 1 THEN 1 ELSE 0
    BY <1>4 DEF InitialSlot, Gremlins
  <2>2. ASSUME NEW l \in DOMAIN e, e[l] \in Masters PROVE e[l] = "Reptomancer"
    BY <1>4, <2>2 DEF WellComposed
  <2>3. Minions("Reptomancer") = {"Dagger"} /\ Slots("Reptomancer") = 0..3
    BY DEF Minions, Slots
  <2> QED BY <1>4, <2>1, <2>2, <2>3
<1>5. CASE ~("GremlinLeader" \in {e[j] : j \in DOMAIN e} /\ e[i] \in Gremlins) /\ e[i] # "Dagger"
  <2>1. InitialSlot(e, i) = -1
    BY <1>5 DEF InitialSlot
  <2>2. ASSUME NEW l \in DOMAIN e, e[l] \in Masters PROVE e[i] \notin Minions(e[l])
    <3>1. CASE e[l] = "GremlinLeader"
      BY <1>5, <3>1 DEF Minions
    <3>2. CASE e[l] = "Reptomancer"
      BY <1>5, <3>2 DEF Minions
    <3>3. CASE e[l] = "Collector"
      BY <3>3 DEF Minions, WellComposed
    <3> QED BY <2>2, <3>1, <3>2, <3>3 DEF Masters
  <2> QED BY <2>1, <2>2
<1> QED BY <1>3, <1>4, <1>5

\* The row a combat starts with satisfies the invariant: this is what is asked of the
\* encounters (WellComposed).
LEMMA FirstRow ==
  ASSUME NEW e, WellComposed(e), NEW first \in [DOMAIN InitialRow(e) -> 0..8],
         \A i \in DOMAIN InitialRow(e) :
           first[i] \in FirstMoves(InitialRow(e)[i], Context(InitialRow(e), i)),
         NEW r, r = [i \in DOMAIN InitialRow(e) |-> Announce(InitialRow(e)[i], first[i])]
  PROVE  RowInv(r)
<1>1. /\ e \in Seq(Kinds) /\ e # <<>> /\ Len(e) \in Nat /\ Len(e) > 0 /\ DOMAIN e = 1..Len(e)
      /\ \A i \in DOMAIN e : e[i] \in Kinds
  <2>1. e \in Seq(Kinds) /\ e # <<>>
    BY DEF WellComposed
  <2> QED BY <2>1
<1>2. DOMAIN r = DOMAIN e /\ r = [i \in 1..Len(e) |-> r[i]]
  BY <1>1 DEF InitialRow
<1>3. ASSUME NEW i \in DOMAIN e
      PROVE  Newborn(r[i], i, e[i], InitialSlot(e, i))
  <2>1. PICK m : m = NewMonster(i, e[i], InitialSlot(e, i))
    OBVIOUS
  <2>2. InitialRow(e)[i] = m /\ i \in DOMAIN InitialRow(e)
    BY <2>1 DEF InitialRow
  <2>3. r[i] = Announce(m, first[i]) /\ first[i] \in FirstMoves(m, Context(InitialRow(e), i))
    BY <2>2
  <2>4. i \in Nat /\ InitialSlot(e, i) \in -1..3 /\ e[i] \in Kinds
    BY <1>1, InitialSlotIs
  <2> QED BY <2>1, <2>3, <2>4, FirstFits
<1>4. \A i \in DOMAIN e :
        /\ r[i] \in Monster /\ Alive(r[i]) /\ Fit(r[i])
        /\ r[i].id = i /\ r[i].kind = e[i] /\ r[i].slot = InitialSlot(e, i)
  BY <1>3 DEF Newborn
<1>5. IsRow(r)
  <2>1. r \in [1..Len(e) -> Monster]
    BY <1>1, <1>2, <1>4
  <2>2. r \in Seq(Monster) /\ r # <<>>
    BY <1>1, <2>1
  <2> QED BY <1>2, <1>4, <2>2 DEF IsRow
<1>6. Served(r)
  <2> SUFFICES ASSUME NEW l \in DOMAIN e, e[l] \in Masters, NEW i \in DOMAIN e
               PROVE  /\ e[i] \in Masters => i = l
                      /\ InitialSlot(e, i) >= 0 => e[i] \in Minions(e[l])
                      /\ e[i] \in Minions(e[l]) =>
                           /\ InitialSlot(e, i) \in Slots(e[l])
                           /\ e[l] = "GremlinLeader" => i < l
                           /\ \A j \in DOMAIN e :
                                e[j] \in Minions(e[l]) /\ InitialSlot(e, j) = InitialSlot(e, i) => ~(j < i)
    BY <1>2, <1>4 DEF Served
  <2>1. e[i] \in Masters => i = l
    BY DEF WellComposed
  <2>2. ASSUME NEW j \in DOMAIN e, e[i] \in Minions(e[l]), e[j] \in Minions(e[l]),
               InitialSlot(e, j) = InitialSlot(e, i)
        PROVE  i = j
    <3>1. CASE e[l] = "GremlinLeader"
      <4>1. InitialSlot(e, i) = i - 1 /\ InitialSlot(e, j) = j - 1
        BY <2>2, <3>1, InitialSlotIs
      <4>2. i \in Nat /\ j \in Nat
        BY <1>1
      <4> QED BY <2>2, <4>1, <4>2
    <3>2. CASE e[l] = "Reptomancer"
      <4>1. e[i] = "Dagger" /\ e[j] = "Dagger"
        BY <2>2, <3>2 DEF Minions
      <4>2. i = j \/ i = 1 \/ j = 1
        BY <4>1 DEF WellComposed
      <4>3. /\ InitialSlot(e, i) = IF i = 1 THEN 1 ELSE 0
            /\ InitialSlot(e, j) = IF j = 1 THEN 1 ELSE 0
        BY <2>2, <3>2, InitialSlotIs
      <4> QED BY <2>2, <4>2, <4>3
    <3>3. e[l] # "Collector"
      BY <2>2, InitialSlotIs
    <3> QED BY <3>1, <3>2, <3>3 DEF Masters
  <2>3. i \in Nat
    BY <1>1
  <2> QED BY <2>1, <2>2, <2>3, InitialSlotIs
<1>7. Linked(r)
  BY <1>2, <1>4 DEF Linked
<1> QED BY <1>2, <1>4, <1>5, <1>6, <1>7 DEF RowInv

\* The invariant holds when a combat begins.
LEMMA Begins == Init => IInv
<1> SUFFICES ASSUME Init
             PROVE  IInv
  OBVIOUS
<1>1. PICK e \in Encounters :
        LET r == InitialRow(e.kinds) IN
        /\ \E first \in [DOMAIN r -> 0 .. 8] :
             /\ \A i \in DOMAIN r : first[i] \in FirstMoves(r[i], Context(r, i))
             /\ row = [i \in DOMAIN r |-> Announce(r[i], first[i])]
        /\ blows = e.blows /\ acts = e.acts
  BY DEF Init
<1>2. WellComposed(e.kinds) /\ blows \in Nat /\ acts \in Nat
  BY <1>1, EncountersAssumption
<1>3. RowInv(row)
  BY <1>1, <1>2, FirstRow
<1>4. TypeOK
  BY <1>2 DEF Init, TypeOK
<1>5. TurnInv
  BY DEF Init, TurnInv
<1> QED BY <1>3, <1>4, <1>5 DEF IInv

------------------------------------------------------------------------------
(* The steps *)

\* LifeLink, which ends every loss of health, leaves a row between two steps.
LEMMA LinkLast ==
  ASSUME NEW r, NEW x, NEW q, Stands(r, x, q), Fit(r[Place(r, x)])
  PROVE  RowInv(LifeLink(r)) /\ Evolves(q, LifeLink(r), x)
<1>1. /\ Stands(LifeLink(r), x, q)
      /\ Place(LifeLink(r), x) = Place(r, x)
      /\ Idle(r[Place(r, x)], LifeLink(r)[Place(r, x)])
  BY LinkStands
<1>2. r[Place(r, x)] \in Monster /\ LifeLink(r)[Place(r, x)] \in Monster
  BY <1>1, TheActor
<1>3. Fit(LifeLink(r)[Place(LifeLink(r), x)])
  BY <1>1, <1>2, IdleFit
<1> QED BY <1>1, <1>3, StandsLast DEF Stands

\* A monster hit, or killed by poison, and the death hooks.
LEMMA SettledLast ==
  ASSUME NEW r, NEW x, NEW q, Stands(r, x, q), NEW m, m = r[Place(r, x)], Alive(m), Fit(m),
         NEW w, NEW cause, Wound(m, w, cause)
  PROVE  /\ Stands(Settled(r, w), x, q)
         /\ Settled(r, w)[Place(Settled(r, w), x)] = w
         /\ RowInv(Settled(r, w))
<1>1. Hurt(m, w) /\ Fit(w)
  BY DEF Wound
<1>2. Becomes(m, w)
  BY <1>1, HurtBecomes
<1>3. /\ Stands(Settled(r, w), x, q)
      /\ Settled(r, w)[Place(Settled(r, w), x)] = w
  BY <1>2, SettledStands
<1> QED BY <1>1, <1>3, StandsLast

\* A blow of the player.
LEMMA HitIs ==
  ASSUME IInv, NEW i \in DOMAIN row, Hit(i)
  PROVE  RowInv(row') /\ Evolves(row, row', row[i].id)
<1>1. PICK hp \in Levels(row[i]) : \E w \in Wounded(row, row[i], hp, "hit") :
        row' = LifeLink(Settled(row, w))
  BY DEF Hit
<1>2. PICK w \in Wounded(row, row[i], hp, "hit") : row' = LifeLink(Settled(row, w))
  BY <1>1
<1>3. RowInv(row) /\ IsRow(row) /\ Fit(row[i]) /\ Alive(row[i])
  BY DEF IInv, RowInv, Hit
<1>4. PICK x : x = row[i].id
  OBVIOUS
<1>5. x \in Ids(row) /\ Place(row, x) = i
  BY <1>3, <1>4, PlaceIs DEF Ids
<1>6. Stands(row, x, row)
  BY <1>3, <1>5, StandsFirst
<1>7. row[i] \in Monster
  BY <1>5, <1>6, TheActor
<1>8. Wound(row[i], w, "hit")
  BY <1>2, <1>3, <1>7, WoundedIs
<1>9. /\ Stands(Settled(row, w), x, row)
      /\ Settled(row, w)[Place(Settled(row, w), x)] = w
  BY <1>3, <1>5, <1>6, <1>8, SettledLast
<1>10. Fit(Settled(row, w)[Place(Settled(row, w), x)])
  BY <1>8, <1>9 DEF Wound
<1> QED BY <1>2, <1>4, <1>9, <1>10, LinkLast

\* The monster whose turn it is, as it stands in the row.
Standing(r) == r[Place(r, Head(queue))]

\* On a second pass, it shows again what it showed when the turn began.
LEMMA ActorIs ==
  ASSUME NEW r, NEW m \in Monster, m = Standing(r), warp = "second" => shown[m.id] \in 0..8
  PROVE  /\ Actor(r) \in Monster /\ Actor(r).id = m.id /\ Actor(r).kind = m.kind
         /\ Actor(r).slot = m.slot /\ Actor(r).hp = m.hp /\ Actor(r).mode = m.mode
         /\ warp # "second" => Actor(r) = m
         /\ warp = "second" => Actor(r).intent = shown[m.id]
<1>1. CASE warp = "second"
  <2>1. Actor(r) = [m EXCEPT !.intent = shown[m.id]]
    BY <1>1 DEF Actor, Standing
  <2> QED BY <1>1, <2>1 DEF Monster
<1>2. CASE warp # "second"
  BY <1>2 DEF Actor, Standing
<1> QED BY <1>1, <1>2

\* The one whose turn it is.
LEMMA HeadIs ==
  ASSUME IInv, phase = "monsters", queue # <<>>
  PROVE  /\ Head(queue) \in Ids(row) /\ Head(queue) \in DOMAIN shown
         /\ Tail(queue) \in Seq(Nat) /\ IsInjective(Tail(queue))
         /\ ToSet(Tail(queue)) = ToSet(queue) \ {Head(queue)}
         /\ Head(queue) \in ToSet(queue)
<1>1. queue \in Seq(Nat) /\ IsInjective(queue)
  BY DEF IInv, TypeOK, TurnInv
<1>2. Len(queue) \in Nat /\ Len(queue) > 0 /\ DOMAIN queue = 1..Len(queue)
  BY <1>1
<1>3. /\ Tail(queue) \in Seq(Nat) /\ DOMAIN Tail(queue) = 1..Len(queue) - 1
      /\ \A k \in 1..Len(queue) - 1 : Tail(queue)[k] = queue[k + 1]
      /\ Head(queue) = queue[1]
  BY <1>1, <1>2
<1>4. \A k \in 1..Len(queue) - 1 : k + 1 \in DOMAIN queue /\ k + 1 # 1
  BY <1>2
<1>5. IsInjective(Tail(queue))
  <2> SUFFICES ASSUME NEW k \in DOMAIN Tail(queue), NEW j \in DOMAIN Tail(queue),
                      Tail(queue)[k] = Tail(queue)[j]
               PROVE  k = j
    BY DEF IsInjective
  <2>1. queue[k + 1] = queue[j + 1]
    BY <1>3
  <2>2. k + 1 = j + 1
    BY <1>1, <1>3, <1>4, <2>1 DEF IsInjective
  <2> QED BY <1>3, <2>2
<1>6. ToSet(Tail(queue)) = ToSet(queue) \ {Head(queue)}
  <2>1. ASSUME NEW y \in ToSet(Tail(queue)) PROVE y \in ToSet(queue) \ {Head(queue)}
    <3>1. PICK k \in 1..Len(queue) - 1 : y = Tail(queue)[k]
      BY <1>3 DEF ToSet
    <3>2. y = queue[k + 1] /\ k + 1 \in DOMAIN queue /\ k + 1 # 1
      BY <1>3, <1>4, <3>1
    <3>3. y # queue[1]
      <4>1. 1 \in DOMAIN queue
        BY <1>2
      <4> QED BY <1>1, <3>2, <4>1 DEF IsInjective
    <3> QED BY <1>3, <3>2, <3>3 DEF ToSet
  <2>2. ASSUME NEW y \in ToSet(queue), y # Head(queue) PROVE y \in ToSet(Tail(queue))
    <3>1. PICK k \in 1..Len(queue) : y = queue[k]
      BY <1>2 DEF ToSet
    <3>2. k # 1
      BY <1>3, <2>2, <3>1
    <3>3. k - 1 \in 1..Len(queue) - 1 /\ (k - 1) + 1 = k
      BY <1>2, <3>2
    <3>4. y = Tail(queue)[k - 1]
      BY <1>3, <3>1, <3>3
    <3> QED BY <1>3, <3>3, <3>4 DEF ToSet
  <2> QED BY <2>1, <2>2
<1>7. Head(queue) \in ToSet(queue)
  BY <1>2, <1>3 DEF ToSet
<1>8. Head(queue) \in DOMAIN shown /\ Head(queue) \in Ids(row)
  BY <1>7 DEF IInv, TurnInv
<1> QED BY <1>3, <1>5, <1>6, <1>7, <1>8

\* The row once it is the turn of a monster.
LEMMA StartIs ==
  ASSUME IInv, phase = "monsters", queue # <<>>
  PROVE  /\ Stands(LifeLink(row), Head(queue), row)
         /\ RowInv(LifeLink(row)) /\ Evolves(row, LifeLink(row), Head(queue))
         /\ Standing(LifeLink(row)) \in Monster /\ Fit(Standing(LifeLink(row)))
         /\ Standing(LifeLink(row)).id = Head(queue)
         /\ Idle(row[Place(row, Head(queue))], Standing(LifeLink(row)))
         /\ \A i \in DOMAIN row : Idle(row[i], LifeLink(row)[i])
         /\ DOMAIN LifeLink(row) = DOMAIN row
         /\ warp = "second" => shown[Head(queue)] \in 0..8
<1>1. RowInv(row) /\ Head(queue) \in Ids(row)
  BY HeadIs DEF IInv
<1>2. Stands(row, Head(queue), row)
  BY <1>1, StandsFirst
<1>3. /\ Stands(LifeLink(row), Head(queue), row)
      /\ Place(LifeLink(row), Head(queue)) = Place(row, Head(queue))
      /\ \A i \in DOMAIN row : Idle(row[i], LifeLink(row)[i])
      /\ DOMAIN LifeLink(row) = DOMAIN row
  BY <1>2, LinkStands
<1>4. Place(row, Head(queue)) \in DOMAIN row
  BY <1>2, TheActor
<1>5. RowInv(LifeLink(row)) /\ Evolves(row, LifeLink(row), Head(queue))
  <2>1. Fit(row[Place(row, Head(queue))])
    BY <1>1, <1>4 DEF RowInv
  <2> QED BY <1>2, <2>1, LinkLast
<1>6. Standing(LifeLink(row)) \in Monster /\ Standing(LifeLink(row)).id = Head(queue)
  BY <1>3, TheActor DEF Standing
<1>7. Fit(Standing(LifeLink(row)))
  BY <1>3, <1>4, <1>5 DEF Standing, RowInv
<1>8. shown[Head(queue)] \in 0..8
  BY HeadIs DEF IInv, TurnInv
<1> QED BY <1>3, <1>4, <1>5, <1>6, <1>7, <1>8 DEF Standing

\* Nobody comes or goes with Darklings that die.
LEMMA LinkIds ==
  ASSUME NEW r, NEW x, NEW q, Stands(r, x, q)
  PROVE  Ids(LifeLink(r)) = Ids(r)
<1>1. /\ DOMAIN LifeLink(r) = DOMAIN r
      /\ \A i \in DOMAIN r : Idle(r[i], LifeLink(r)[i])
  BY LinkStands
<1>2. \A i \in DOMAIN r : LifeLink(r)[i].id = r[i].id
  BY <1>1 DEF Idle
<1> QED BY <1>1, <1>2 DEF Ids

LEMMA StartIds ==
  ASSUME IInv, phase = "monsters", queue # <<>>
  PROVE  Ids(LifeLink(row)) = Ids(row)
<1>1. RowInv(row) /\ Head(queue) \in Ids(row)
  BY HeadIs DEF IInv
<1>2. Stands(row, Head(queue), row)
  BY <1>1, StandsFirst
<1> QED BY <1>2, LinkIds

\* Nor with the death hooks.
LEMMA SettledIds ==
  ASSUME NEW r, IsRow(r), NEW m \in Monster, m.id \in Ids(r)
  PROVE  Ids(Settled(r, m)) = Ids(r)
<1>1. PICK u : u = Put(r, m)
  OBVIOUS
<1>2. IsRow(u) /\ Ids(u) = Ids(r)
  BY <1>1, PutIs
<1>3. CASE Alive(m)
  BY <1>1, <1>2, <1>3 DEF Settled
<1>4. CASE ~Alive(m)
  <2>1. PICK v : v = MinionsFall(u, m)
    OBVIOUS
  <2>2. /\ DOMAIN v = DOMAIN u
        /\ \A i \in DOMAIN u : v[i] \in {u[i], [u[i] EXCEPT !.hp = 0]}
    BY <2>1 DEF MinionsFall
  <2>3. ASSUME NEW i \in DOMAIN u PROVE v[i].id = u[i].id
    <3>1. u[i] \in Monster
      BY <1>2, RowOf
    <3>2. [u[i] EXCEPT !.hp = 0].id = u[i].id
      BY <3>1, Felled
    <3> QED BY <2>2, <3>2
  <2>4. Ids(v) = Ids(u)
    BY <2>2, <2>3 DEF Ids
  <2> QED BY <1>1, <1>2, <1>4, <2>1, <2>4 DEF Settled
<1> QED BY <1>3, <1>4

\* What is left of a monster without health is not alive.
LEMMA KilledIs ==
  ASSUME NEW r, NEW m \in Monster, NEW cause, NEW w \in Wounded(r, m, 0, cause)
  PROVE  ~Alive(w)
<1>1. PICK v : v = [m EXCEPT !.hp = 0]
  OBVIOUS
<1>2. v \in Monster /\ v.hp = 0
  BY <1>1, Felled
<1>3. CASE m.kind = "Darkling"
  <2>1. PICK u : u = IF m.intent = 4 THEN v ELSE Announce(v, 4)
    OBVIOUS
  <2>2. w = [u EXCEPT !.mode = -1]
    BY <1>1, <1>3, <2>1 DEF Wounded, Splitting
  <2>3. u \in Monster /\ u.hp = 0
    <3>1. 4 \in 0..8
      OBVIOUS
    <3>2. Announces(v, Announce(v, 4), 4)
      BY <1>2, <3>1, AnnounceDoes
    <3> QED BY <1>2, <2>1, <3>2 DEF Announces
  <2>4. Moded(u, w, -1)
    <3>1. -1 \in Int
      OBVIOUS
    <3> QED BY <2>2, <2>3, <3>1, ModeIs
  <2> QED BY <2>3, <2>4 DEF Moded, Alive
<1>4. CASE m.kind = "AwakenedOne" /\ m.mode = 0
  <2>1. PICK u : u = Announce(v, 3)
    OBVIOUS
  <2>2. w = [u EXCEPT !.mode = -1]
    BY <1>1, <1>4, <2>1 DEF Wounded, Splitting
  <2>3. Announces(v, u, 3)
    <3>1. 3 \in 0..8
      OBVIOUS
    <3> QED BY <1>2, <2>1, <3>1, AnnounceDoes
  <2>4. Moded(u, w, -1)
    <3>1. -1 \in Int /\ u \in Monster
      BY <2>3 DEF Announces
    <3> QED BY <2>2, <3>1, ModeIs
  <2> QED BY <1>2, <2>3, <2>4 DEF Moded, Announces, Alive
<1>5. CASE m.kind # "Darkling" /\ ~(m.kind = "AwakenedOne" /\ m.mode = 0)
  <2>1. w = v
    BY <1>1, <1>5 DEF Wounded
  <2> QED BY <1>2, <2>1 DEF Alive
<1> QED BY <1>3, <1>4, <1>5

\* A monster whose poison kills it.
LEMMA PoisonIs ==
  ASSUME IInv, PoisonKills
  PROVE  /\ RowInv(row') /\ Evolves(row, row', Head(queue))
         /\ ~Alive(row'[Place(row', Head(queue))])
         /\ Ids(row') = Ids(row)
<1>1. phase = "monsters" /\ queue # <<>> /\ warp # "second"
  BY DEF PoisonKills
<1>2. PICK r : r = LifeLink(row)
  OBVIOUS
<1>3. PICK x : x = Head(queue)
  OBVIOUS
<1>4. PICK m : m = Actor(r)
  OBVIOUS
<1>5. Alive(m) /\ \E w \in Wounded(r, m, 0, "poison") : row' = Settled(r, w)
  BY <1>2, <1>4 DEF PoisonKills
<1>6. PICK w \in Wounded(r, m, 0, "poison") : row' = Settled(r, w)
  BY <1>5
<1>7. Stands(r, x, row) /\ m \in Monster /\ Fit(m) /\ m = Standing(r)
  BY <1>1, <1>2, <1>3, <1>4, StartIs, ActorIs
<1>8. 0 \in Levels(m)
  <2>1. m.hp \in 0..2
    BY <1>7, MonsterFields
  <2> QED BY <2>1 DEF Levels
<1>9. Wound(m, w, "poison") /\ ~Alive(w)
  BY <1>5, <1>6, <1>7, <1>8, WoundedIs, KilledIs
<1>10. m = r[Place(r, x)]
  BY <1>3, <1>7 DEF Standing
<1>11. /\ Stands(Settled(r, w), x, row)
       /\ Settled(r, w)[Place(Settled(r, w), x)] = w
       /\ RowInv(Settled(r, w))
  BY <1>5, <1>7, <1>9, <1>10, SettledLast
<1>12. w \in Monster /\ w.id = m.id
  BY <1>9 DEF Wound, Hurt
<1>13. Ids(r) = Ids(row)
  BY <1>1, <1>2, StartIds
<1>14. m.id \in Ids(r) /\ IsRow(r)
  BY <1>7, <1>10, TheActor
<1>15. Ids(row') = Ids(row)
  BY <1>6, <1>12, <1>13, <1>14, SettledIds
<1> QED BY <1>3, <1>6, <1>9, <1>11, <1>15 DEF Stands

\* The one whose turn it is performs b.
Performs(b) ==
  LET m == Actor(LifeLink(row)) IN
  /\ RowInv(row') /\ Evolves(row, row', Head(queue))
  /\ m.kind = "TimeEater" => Ids(row') = Ids(row)
  /\ acted' = Append(acted, <<Head(queue), b>>)
  /\ blows' \in Nat
  /\ Alive(m) \/ HalfDead(m)
  /\ b = m.intent \/ <<m.kind, b>> \in (Splitting \X {3}) \cup {<<"Guardian", 1>>}

\* What poison leaves of the one whose turn it is.
LEMMA PoisonedIs ==
  ASSUME NEW r, NEW x, NEW q, Stands(r, x, q), NEW m, m = r[Place(r, x)], Fit(m),
         NEW budget \in Nat,
         NEW p \in IF Alive(m) THEN Losses(r, m, "poison", budget) ELSE {[m |-> m, blows |-> 0]},
         Alive(p.m) \/ (HalfDead(p.m) /\ p.blows = 0)
  PROVE  /\ Alive(m) \/ HalfDead(m)
         /\ p.blows \in 0..1 /\ p.blows <= budget
         /\ Fit(p.m) /\ p.m.id = m.id /\ p.m.kind = m.kind
         /\ p.m.intent \in 0..8
         /\ \/ p.m.intent = m.intent
            \/ <<m.kind, p.m.intent>> \in (Splitting \X {3}) \cup {<<"Guardian", 1>>}
         /\ Stands(Put(r, p.m), x, q)
         /\ p.m = Put(r, p.m)[Place(Put(r, p.m), x)]
<1>1. m \in Monster /\ m.id = x /\ m.mode \in Modes(m.kind)
  BY TheActor DEF Fit, Marked
<1>2. CASE Alive(m) /\ p.blows # 0
  <2>1. Wound(m, p.m, "poison") /\ p.blows \in 0..1 /\ p.blows <= budget
    BY <1>1, <1>2, LossesAre
  <2>2. Hurt(m, p.m) /\ Fit(p.m) /\ Alive(p.m)
    BY <1>2, <2>1 DEF Wound
  <2>3. p.m \in Monster /\ p.m.id = m.id /\ p.m.kind = m.kind
    BY <2>2 DEF Hurt
  <2>4. Becomes(m, p.m)
    BY <1>2, <2>2, HurtBecomes
  <2>5. Same(m, p.m)
    <3>1. ~HalfDead(p.m)
      BY <2>2 DEF Fit, Marked
    <3> QED BY <2>1, <3>1 DEF Wound
  <2>6. p.m.intent \in 0..8
    BY <2>3, MonsterFields
  <2>7. \/ p.m.intent = m.intent
        \/ <<m.kind, p.m.intent>> \in (Splitting \X {3}) \cup {<<"Guardian", 1>>}
    BY <2>5 DEF Same
  <2>8. /\ Stands(Put(r, p.m), x, q)
        /\ Put(r, p.m)[Place(r, x)] = p.m
        /\ Place(Put(r, p.m), x) = Place(r, x)
    BY <2>2, <2>4, PutStands
  <2> QED BY <1>2, <2>1, <2>2, <2>3, <2>6, <2>7, <2>8
<1>3. CASE p.m = m /\ p.blows = 0
  <2>1. Alive(m) \/ HalfDead(m)
    BY <1>3
  <2>2. Becomes(m, m)
    BY <1>1, <2>1 DEF Becomes
  <2>3. m.kind \in Masters /\ ~Alive(m) => ~Alive(m)
    OBVIOUS
  <2>4. /\ Stands(Put(r, m), x, q)
        /\ Put(r, m)[Place(r, x)] = m
        /\ Place(Put(r, m), x) = Place(r, x)
    BY <2>2, <2>3, PutStands
  <2>5. m.intent \in 0..8
    BY <1>1, MonsterFields
  <2> QED BY <1>3, <2>1, <2>4, <2>5
<1>4. (Alive(m) /\ p.blows # 0) \/ (p.m = m /\ p.blows = 0)
  <2>1. CASE Alive(m)
    <3>1. p.blows = 0 => p.m = m
      BY <1>1, <2>1, LossesAre
    <3> QED BY <2>1, <3>1
  <2>2. CASE ~Alive(m)
    BY <2>2
  <2> QED BY <2>1, <2>2
<1> QED BY <1>2, <1>3, <1>4

\* The move performed is noted, and the Darklings are linked again.
LEMMA NotedIs ==
  ASSUME NEW s, NEW x, NEW q, NEW o, Acted(s, x, q, o), o.intent \in 0..8,
         NEW g, g = Having(s[Place(s, x)], o.intent)
  PROVE  RowInv(LifeLink(Put(s, g))) /\ Evolves(q, LifeLink(Put(s, g)), x)
<1>1. PICK f : f = s[Place(s, x)]
  OBVIOUS
<1>2. /\ Stands(s, x, q) /\ f \in Monster
      /\ f.kind = "Darkling" => Alive(f) \/ HalfDead(f)
  BY <1>1, TheActor DEF Acted
<1>3. /\ g \in Monster /\ g.id = f.id /\ g.kind = f.kind /\ g.slot = f.slot
      /\ g.mode = f.mode /\ g.hp = f.hp
  BY <1>1, <1>2, HavingIs
<1>4. Becomes(f, g) /\ (Alive(g) <=> Alive(f))
  BY <1>2, <1>3, NextBecomes
<1>5. /\ Stands(Put(s, g), x, q)
      /\ Put(s, g)[Place(s, x)] = g
      /\ Place(Put(s, g), x) = Place(s, x)
  BY <1>1, <1>2, <1>4, PutStands
<1>6. Fit(g)
  BY <1>1 DEF Acted, FitAfter
<1>7. Fit(Put(s, g)[Place(Put(s, g), x)])
  BY <1>5, <1>6
<1> QED BY <1>5, <1>7, LinkLast

\* A monster with nothing to its record.
Anew(m) == [m EXCEPT !.did = <<>>]

\* The Time Eater performs a move, whatever it announced before: it shows the next,
\* and nobody comes or goes.
LEMMA EaterActs ==
  ASSUME NEW r, NEW x, NEW q, Stands(r, x, q),
         NEW o, o = r[Place(r, x)], o.kind = "TimeEater", o.mode = 0, Alive(o),
         NEW w \in Monster, w.id = o.id, w.kind = o.kind, w.slot = o.slot, w.mode = 0,
         NEW s \in Performed(r, o, w)
  PROVE  /\ Stands(s, x, q) /\ Ids(s) = Ids(r)
         /\ s[Place(s, x)].kind = "TimeEater"
         /\ Anew(s[Place(s, x)]) \in Monster /\ Fit(Anew(s[Place(s, x)]))
<1>1. IsRow(r) /\ o \in Monster /\ o.id = x /\ o.intent \in 0..8 /\ x \in Ids(r)
  BY TheActor, MonsterFields
<1>2. PICK b \in 0..8 : b = o.intent
  BY <1>1
<1>3. PICK d : d = Spent(w, b, o.mode > 0)
  OBVIOUS
<1>4. /\ d \in Monster /\ d.id = x /\ d.kind = "TimeEater" /\ d.slot = o.slot /\ d.mode = 0
  <2>1. (o.mode > 0) \in BOOLEAN
    OBVIOUS
  <2>2. Paying(w, d, b)
    BY <1>2, <1>3, <2>1, SpentIs
  <2> QED BY <1>1, <2>2 DEF Paying
<1>5. PICK u : u = Settled(r, d)
  OBVIOUS
<1>6. s \in Announced(u, d, b)
  <2>1. ~HalfDead(o) /\ ~Summons(o)
    BY DEF HalfDead, Summons, Splitting
  <2> QED BY <1>2, <1>3, <1>5, <2>1 DEF Performed
<1>7. Stands(u, x, q) /\ u[Place(u, x)] = d
  <2>1. Becomes(o, d)
    BY <1>1, <1>4 DEF Becomes
  <2> QED BY <1>5, <2>1, SettledStands
<1>8. Ids(u) = Ids(r)
  BY <1>1, <1>4, <1>5, SettledIds
<1>9. ASSUME NEW f \in Monster, f.kind = "TimeEater", f.mode = 0,
             Alive(f) => LastMove(f.hist, f.intent) /\ Used(f.hist, f.intent)
      PROVE  Anew(f) \in Monster /\ Fit(Anew(f))
  <2>1. PICK g : g = Anew(f)
    OBVIOUS
  <2>2. /\ g \in Monster /\ g.kind = f.kind /\ g.mode = f.mode /\ g.hp = f.hp
        /\ g.hist = f.hist /\ g.intent = f.intent /\ g.did = <<>>
    <3>1. <<>> \in Seq(0..8)
      OBVIOUS
    <3> QED BY <2>1, <3>1 DEF Anew, Monster
  <2>3. WithinLimits(g.kind, <<>>) /\ ToSet(<<>>) = {}
    BY NothingDone
  <2>4. Marked(g) /\ ~HalfDead(g)
    BY <1>9, <2>2, <2>3 DEF Marked, HalfDead, Modes, Splitting
  <2>5. ASSUME Alive(g) PROVE Ready(g)
    <3>1. ~LastMove(<<>>, g.intent) /\ ~LastTwoMoves(<<>>, g.intent)
      BY DEF LastMove, LastTwoMoves
    <3>2. LastMove(g.hist, g.intent) /\ Used(g.hist, g.intent)
      BY <1>9, <2>2, <2>5 DEF Alive
    <3> QED BY <1>9, <2>2, <2>3, <3>1, <3>2 DEF Ready
  <2> QED BY <2>1, <2>2, <2>4, <2>5 DEF Fit
<1>10. CASE Alive(d)
  <2>1. s \in Roll(u, x)
    BY <1>4, <1>6, <1>10 DEF Announced
  <2>2. PICK c \in NextMoves(d, Context(u, Place(u, x))) : s = Put(u, Announce(d, c))
    BY <1>4, <1>7, <2>1 DEF Roll, Splitting
  <2>3. c \in 0..8
    <3>1. Respects(d, c)
      BY <1>4, TableRespects
    <3> QED BY <3>1 DEF Respects
  <2>4. PICK f : f = Announce(d, c)
    OBVIOUS
  <2>5. Announces(d, f, c)
    BY <1>4, <2>3, <2>4, AnnounceDoes
  <2>6. f \in Monster /\ f.id = x /\ f.kind = "TimeEater" /\ f.mode = 0
    BY <1>4, <2>5 DEF Announces
  <2>7. LastMove(f.hist, f.intent) /\ Used(f.hist, f.intent)
    <3>1. d.hist \in Seq(0..8) /\ f.hist = Append(d.hist, c) /\ f.intent = c
      BY <1>4, <2>5, MonsterFields DEF Announces
    <3> QED BY <2>3, <3>1, AppendIs
  <2>8. Becomes(d, f) /\ (Alive(f) <=> Alive(d))
    BY <1>4, <2>5, NextBecomes DEF Announces
  <2>9. /\ Stands(Put(u, f), x, q)
        /\ Put(u, f)[Place(u, x)] = f
        /\ Place(Put(u, f), x) = Place(u, x)
    BY <1>7, <1>10, <2>8, PutStands
  <2>10. Ids(Put(u, f)) = Ids(u)
    BY <1>7, <2>6, TheActor, PutIs
  <2> QED BY <1>8, <1>9, <2>2, <2>4, <2>6, <2>7, <2>9, <2>10
<1>11. CASE ~Alive(d)
  <2>1. s = u
    BY <1>4, <1>6, <1>11 DEF Announced
  <2> QED BY <1>4, <1>7, <1>8, <1>9, <1>11, <2>1
<1> QED BY <1>10, <1>11

\* The one who acts is written into the row, and nobody comes or goes.
LEMMA WrittenIds ==
  ASSUME NEW s, NEW x, NEW q, Stands(s, x, q), NEW g \in Monster, g.id = x,
         Becomes(s[Place(s, x)], g), Alive(g) <=> Alive(s[Place(s, x)])
  PROVE  Ids(LifeLink(Put(s, g))) = Ids(s)
<1>1. Stands(Put(s, g), x, q)
  BY PutStands
<1>2. Ids(LifeLink(Put(s, g))) = Ids(Put(s, g))
  BY <1>1, LinkIds
<1>3. Ids(Put(s, g)) = Ids(s)
  BY TheActor, PutIs
<1> QED BY <1>2, <1>3

\* A monster that acts performs the move it showed, and the row stands.
LEMMA FirstPassIs ==
  ASSUME IInv, Act, warp # "second"
  PROVE  \E b \in 0..8 : Performs(b)
<1>1. phase = "monsters" /\ queue # <<>> /\ blows \in Nat
  BY DEF Act, IInv, TypeOK
<1>2. PICK start : start = LifeLink(row)
  OBVIOUS
<1>3. PICK x : x = Head(queue)
  OBVIOUS
<1>4. PICK m : m = Actor(start)
  OBVIOUS
<1>5. /\ Stands(start, x, row) /\ m = start[Place(start, x)]
      /\ m \in Monster /\ Fit(m) /\ m.id = x
  BY <1>1, <1>2, <1>3, <1>4, StartIs, ActorIs DEF Standing
<1>6. PICK p \in IF Alive(m) THEN Losses(start, m, "poison", blows) ELSE {[m |-> m, blows |-> 0]} :
        LET r == Put(start, p.m) b == p.m.intent
            left == blows - p.blows
        IN /\ (Alive(p.m) \/ (HalfDead(p.m) /\ p.blows = 0))
           /\ \E t \in Losses(r, p.m, "thorns", IF Alive(p.m) /\ Strikes(p.m.kind, b) THEN left ELSE 0) :
              \E s \in Performed(r, p.m, t.m) :
                /\ row' = LifeLink(Put(s, [s[Place(s, p.m.id)] EXCEPT !.did = Append(@, b)]))
                /\ blows' = left - t.blows
           /\ acted' = Append(acted, <<p.m.id, b>>)
  BY <1>2, <1>4 DEF Act, Recorded
<1>7. PICK o : o = p.m
  OBVIOUS
<1>8. PICK r : r = Put(start, o)
  OBVIOUS
<1>9. PICK b : b = o.intent
  OBVIOUS
<1>10. Alive(o) \/ (HalfDead(o) /\ p.blows = 0)
  BY <1>6, <1>7
<1>11. /\ Alive(m) \/ HalfDead(m)
       /\ p.blows \in 0..1 /\ p.blows <= blows
       /\ Fit(o) /\ o.id = x /\ o.kind = m.kind
       /\ b \in 0..8
       /\ b = m.intent \/ <<m.kind, b>> \in (Splitting \X {3}) \cup {<<"Guardian", 1>>}
       /\ Stands(r, x, row)
       /\ o = r[Place(r, x)]
  BY <1>1, <1>5, <1>6, <1>7, <1>8, <1>9, <1>10, PoisonedIs
<1>12. PICK left \in Nat : left = blows - p.blows
  BY <1>1, <1>11
<1>13. PICK budget \in Nat : budget = IF Alive(o) /\ Strikes(o.kind, b) THEN left ELSE 0
  OBVIOUS
<1>14. PICK t \in Losses(r, o, "thorns", budget) :
         \E s \in Performed(r, o, t.m) :
           /\ row' = LifeLink(Put(s, [s[Place(s, x)] EXCEPT !.did = Append(@, b)]))
           /\ blows' = left - t.blows
  BY <1>6, <1>7, <1>8, <1>9, <1>11, <1>12, <1>13
<1>15. PICK s \in Performed(r, o, t.m) :
         /\ row' = LifeLink(Put(s, [s[Place(s, x)] EXCEPT !.did = Append(@, b)]))
         /\ blows' = left - t.blows
  BY <1>14
<1>16. o \in Monster
  BY <1>11, TheActor
<1>17. /\ Alive(o) => Wound(o, t.m, "thorns")
       /\ ~Strikes(o.kind, o.intent) => t.m = o
       /\ t.blows \in 0..1 /\ t.blows <= left
  <2>1. CASE Alive(o)
    <3>1. /\ Wound(o, t.m, "thorns") /\ t.blows \in 0..1 /\ t.blows <= budget
          /\ t.blows = 0 => t.m = o
      BY <1>11, <1>14, <1>16, <2>1, LossesAre
    <3>2. ~Strikes(o.kind, o.intent) => budget = 0
      BY <1>9, <1>13
    <3>3. budget <= left
      BY <1>13
    <3> QED BY <2>1, <3>1, <3>2, <3>3
  <2>2. CASE ~Alive(o)
    <3>1. budget = 0
      BY <1>13, <2>2
    <3>2. t = [m |-> o, blows |-> 0]
      BY <1>14, <3>1 DEF Losses
    <3> QED BY <2>2, <3>2
  <2> QED BY <2>1, <2>2
<1>18. Acted(s, x, row, o)
  BY <1>10, <1>11, <1>15, <1>17, PerformedActs
<1>19. PICK g : g = Having(s[Place(s, x)], o.intent)
  OBVIOUS
<1>20. row' = LifeLink(Put(s, g))
  BY <1>9, <1>15, <1>19 DEF Having
<1>21. RowInv(row') /\ Evolves(row, row', x)
  BY <1>9, <1>11, <1>18, <1>19, <1>20, NotedIs
<1>22. blows' \in Nat
  BY <1>15, <1>17
<1>23. acted' = Append(acted, <<x, b>>)
  BY <1>6, <1>7, <1>9, <1>11
<1>24. ASSUME m.kind = "TimeEater" PROVE Ids(row') = Ids(row)
  <2>1. ASSUME NEW n, n.kind = "TimeEater", Fit(n) PROVE n.mode = 0 /\ ~HalfDead(n)
    BY <2>1 DEF Fit, Marked, Modes, Splitting, HalfDead
  <2>2. o.kind = "TimeEater" /\ o.mode = 0 /\ Alive(o)
    BY <1>10, <1>11, <1>24, <2>1
  <2>3. Hurt(o, t.m) /\ Fit(t.m)
    BY <1>17, <2>2 DEF Wound
  <2>4. /\ t.m \in Monster /\ t.m.id = o.id /\ t.m.kind = o.kind /\ t.m.slot = o.slot
        /\ t.m.mode = 0
    BY <2>1, <2>2, <2>3 DEF Hurt
  <2>5. Stands(s, x, row) /\ Ids(s) = Ids(r) /\ s[Place(s, x)].kind = "TimeEater"
    BY <1>11, <1>15, <2>2, <2>4, EaterActs
  <2>6. Ids(r) = Ids(start)
    BY <1>5, <1>8, <1>11, <1>16, TheActor, PutIs
  <2>7. Ids(start) = Ids(row)
    BY <1>1, <1>2, StartIds
  <2>8. PICK f : f = s[Place(s, x)]
    OBVIOUS
  <2>9. f \in Monster /\ f.id = x /\ f.kind = "TimeEater"
    BY <2>5, <2>8, TheActor
  <2>10. /\ g \in Monster /\ g.id = f.id /\ g.kind = f.kind /\ g.slot = f.slot
         /\ g.mode = f.mode /\ g.hp = f.hp
    BY <1>9, <1>11, <1>19, <2>8, <2>9, HavingIs
  <2>11. Becomes(f, g) /\ (Alive(g) <=> Alive(f))
    BY <2>9, <2>10, NextBecomes
  <2>12. Ids(row') = Ids(s)
    BY <1>20, <2>5, <2>8, <2>9, <2>10, <2>11, WrittenIds
  <2> QED BY <2>5, <2>6, <2>7, <2>12
<1>25. Performs(b)
  BY <1>2, <1>3, <1>4, <1>11, <1>21, <1>22, <1>23, <1>24 DEF Performs
<1> QED BY <1>11, <1>25

\* On a second pass the Time Eater performs again what it showed when the turn
\* began.
LEMMA SecondPassIs ==
  ASSUME IInv, Act, warp = "second"
  PROVE  \E b \in 0..8 : Performs(b)
<1>1. phase = "monsters" /\ queue # <<>> /\ blows \in Nat
  BY DEF Act, IInv, TypeOK
<1>2. PICK start : start = LifeLink(row)
  OBVIOUS
<1>3. PICK x : x = Head(queue)
  OBVIOUS
<1>4. PICK n : n = Standing(start)
  OBVIOUS
<1>5. /\ Stands(start, x, row) /\ n = start[Place(start, x)]
      /\ n \in Monster /\ Fit(n) /\ n.id = x
      /\ Idle(row[Place(row, x)], n)
      /\ shown[x] \in 0..8
  BY <1>1, <1>2, <1>3, <1>4, StartIs DEF Standing
<1>6. n.kind = "TimeEater" /\ n.mode = 0
  <2>1. IsRow(row) /\ x \in Ids(row)
    BY <1>1, <1>3, HeadIs DEF IInv, RowInv
  <2>2. row[Place(row, x)].kind = "TimeEater"
    <3>1. Place(row, x) \in DOMAIN row
      BY <2>1, PlaceOf
    <3> QED BY <1>1, <3>1 DEF IInv, TurnInv
  <2>3. n.kind = "TimeEater"
    BY <1>5, <2>2 DEF Idle
  <2> QED BY <1>5, <2>3 DEF Fit, Marked, Modes, Splitting
<1>7. PICK o : o = Actor(start)
  OBVIOUS
<1>8. /\ o \in Monster /\ o.id = x /\ o.kind = "TimeEater" /\ o.slot = n.slot
      /\ o.hp = n.hp /\ o.mode = 0 /\ o.intent = shown[x]
  BY <1>4, <1>5, <1>6, <1>7, ActorIs
<1>9. PICK b \in 0..8 : b = o.intent
  BY <1>5, <1>8
<1>10. PICK r : r = Put(start, o)
  OBVIOUS
<1>11. /\ Alive(o)
       /\ \E t \in Losses(r, o, "thorns", IF Alive(o) /\ Strikes(o.kind, b) THEN blows ELSE 0) :
          \E s \in Performed(r, o, t.m) :
            /\ row' = LifeLink(Put(s, Anew(s[Place(s, x)])))
            /\ blows' = blows - t.blows
       /\ acted' = Append(acted, <<x, b>>)
  <2>1. PICK p : p = [m |-> o, blows |-> 0]
    OBVIOUS
  <2>2. p.m = o /\ p.blows = 0 /\ blows - 0 = blows
    BY <1>1, <2>1
  <2>3. ~HalfDead(o)
    BY <1>8 DEF HalfDead
  <2>4. LET rr == Put(start, p.m) bb == p.m.intent
            left == blows - p.blows
        IN /\ (Alive(p.m) \/ (HalfDead(p.m) /\ p.blows = 0))
           /\ \E t \in Losses(rr, p.m, "thorns", IF Alive(p.m) /\ Strikes(p.m.kind, bb) THEN left ELSE 0) :
              \E s \in Performed(rr, p.m, t.m) :
                /\ row' = LifeLink(Put(s, [s[Place(s, p.m.id)] EXCEPT !.did = <<>>]))
                /\ blows' = left - t.blows
           /\ acted' = Append(acted, <<p.m.id, bb>>)
    BY <1>2, <1>7, <2>1 DEF Act, Recorded
  <2> QED BY <1>8, <1>9, <1>10, <2>2, <2>3, <2>4 DEF Anew
<1>12. PICK budget \in Nat : budget = IF Alive(o) /\ Strikes(o.kind, b) THEN blows ELSE 0
  BY <1>1
<1>13. PICK t \in Losses(r, o, "thorns", budget) :
         \E s \in Performed(r, o, t.m) :
           /\ row' = LifeLink(Put(s, Anew(s[Place(s, x)])))
           /\ blows' = blows - t.blows
  BY <1>11, <1>12
<1>14. PICK s \in Performed(r, o, t.m) :
         /\ row' = LifeLink(Put(s, Anew(s[Place(s, x)])))
         /\ blows' = blows - t.blows
  BY <1>13
<1>15. /\ t.m \in Monster /\ t.m.id = o.id /\ t.m.kind = o.kind /\ t.m.slot = o.slot
       /\ t.m.mode = 0 /\ t.blows \in 0..1 /\ t.blows <= budget
  <2>1. CASE t = [m |-> o, blows |-> 0]
    BY <1>8, <1>12, <2>1
  <2>2. CASE t # [m |-> o, blows |-> 0]
    <3>1. PICK hp \in Levels(o) : \E w \in Wounded(r, o, hp, "thorns") :
            budget # 0 /\ t = [m |-> w, blows |-> 1]
      BY <1>13, <2>2 DEF Losses
    <3>2. PICK w \in Wounded(r, o, hp, "thorns") : budget # 0 /\ t = [m |-> w, blows |-> 1]
      BY <3>1
    <3>3. w = [o EXCEPT !.hp = hp]
      BY <1>8, <3>2 DEF Wounded, Splitting
    <3>4. hp \in 0..2
      BY <1>8, <1>11, LevelsAre
    <3>5. /\ w \in Monster /\ w.id = o.id /\ w.kind = o.kind /\ w.slot = o.slot
          /\ w.mode = o.mode
      BY <1>8, <3>3, <3>4, WithHp
    <3> QED BY <1>8, <1>12, <3>2, <3>5
  <2> QED BY <2>1, <2>2
<1>16. Becomes(n, o) /\ (Alive(o) <=> Alive(n))
  BY <1>5, <1>6, <1>8 DEF Becomes, Alive
<1>17. /\ Stands(r, x, row) /\ o = r[Place(r, x)]
       /\ Ids(r) = Ids(row)
  <2>1. /\ Stands(Put(start, o), x, row)
        /\ Put(start, o)[Place(start, x)] = o
        /\ Place(Put(start, o), x) = Place(start, x)
    BY <1>5, <1>16, PutStands
  <2>2. Ids(Put(start, o)) = Ids(start)
    BY <1>5, <1>8, TheActor, PutIs
  <2>3. Ids(start) = Ids(row)
    BY <1>1, <1>2, StartIds
  <2> QED BY <1>10, <2>1, <2>2, <2>3
<1>18. PICK f : f = s[Place(s, x)]
  OBVIOUS
<1>19. PICK g : g = Anew(f)
  OBVIOUS
<1>20. /\ Stands(s, x, row) /\ Ids(s) = Ids(r)
       /\ f.kind = "TimeEater" /\ g \in Monster /\ Fit(g)
  BY <1>8, <1>11, <1>14, <1>15, <1>17, <1>18, <1>19, EaterActs
<1>21. f \in Monster /\ f.id = x
  BY <1>18, <1>20, TheActor
<1>22. g.id = f.id /\ g.kind = f.kind /\ g.slot = f.slot /\ g.hp = f.hp /\ g.mode = f.mode
  BY <1>19, <1>21 DEF Anew, Monster
<1>23. Becomes(f, g) /\ (Alive(g) <=> Alive(f))
  BY <1>20, <1>21, <1>22, NextBecomes
<1>24. /\ Stands(Put(s, g), x, row)
       /\ Put(s, g)[Place(s, x)] = g
       /\ Place(Put(s, g), x) = Place(s, x)
  BY <1>18, <1>20, <1>23, PutStands
<1>25. row' = LifeLink(Put(s, g))
  BY <1>14, <1>18, <1>19
<1>26. RowInv(row') /\ Evolves(row, row', x)
  BY <1>20, <1>24, <1>25, LinkLast
<1>27. Ids(row') = Ids(row)
  BY <1>17, <1>18, <1>20, <1>21, <1>22, <1>23, <1>25, WrittenIds
<1>28. blows' \in Nat
  BY <1>1, <1>12, <1>14, <1>15
<1>29. Performs(b)
  BY <1>2, <1>3, <1>7, <1>9, <1>11, <1>26, <1>27, <1>28 DEF Performs
<1> QED BY <1>29

LEMMA ActIs ==
  ASSUME IInv, Act
  PROVE  \E b \in 0..8 : Performs(b)
BY FirstPassIs, SecondPassIs

\* The turn of the others, once the first of the queue had its own.
LEMMA TurnGoesOn ==
  ASSUME IInv, phase = "monsters", queue # <<>>,
         RowInv(row'), Evolves(row, row', Head(queue)),
         queue' = Tail(queue), UNCHANGED <<shown, warp>>,
         warp # "none" => Ids(row') = Ids(row),
         acted' \in Seq(Nat \X (0..8)),
         \A k \in DOMAIN acted' : acted'[k][1] = Head(queue) \/
           \E j \in DOMAIN acted : acted[j][1] = acted'[k][1],
         \A j \in DOMAIN acted : \E k \in DOMAIN acted' : acted'[k][1] = acted[j][1],
         \/ ~Alive(row'[Place(row', Head(queue))])
         \/ \E k \in DOMAIN acted' : acted'[k][1] = Head(queue)
  PROVE  TurnInv'
<1>1. PICK x : x = Head(queue)
  OBVIOUS
<1>2. /\ x \in Ids(row) /\ x \in DOMAIN shown
      /\ Tail(queue) \in Seq(Nat) /\ IsInjective(Tail(queue))
      /\ ToSet(Tail(queue)) = ToSet(queue) \ {x}
      /\ x \in ToSet(queue)
  BY <1>1, HeadIs
<1>3. TurnInv /\ RowInv(row) /\ IsRow(row) /\ IsRow(row')
  BY DEF IInv, RowInv
<1>4. /\ DOMAIN shown \subseteq Ids(row) /\ ToSet(queue) \subseteq DOMAIN shown
      /\ \A y \in DOMAIN shown : shown[y] \in 0..8
      /\ \A i \in DOMAIN row :
           row[i].id \in ToSet(queue) => warp = "second" \/ shown[row[i].id] = row[i].intent
      /\ \A k \in DOMAIN acted : acted[k][1] \in DOMAIN shown \ ToSet(queue)
      /\ \A i \in DOMAIN row :
           row[i].id \in DOMAIN shown /\ Alive(row[i]) =>
             row[i].id \in ToSet(queue) \/ \E k \in DOMAIN acted : acted[k][1] = row[i].id
      /\ \A i \in DOMAIN row :
           warp = "none" \/ (row[i].kind = "TimeEater" /\ row[i].id \in DOMAIN shown)
  BY <1>3 DEF TurnInv
\* Whoever stood in the row at the start of the turn is still the same.
<1>5. ASSUME NEW j \in DOMAIN row', row'[j].id \in DOMAIN shown
      PROVE  \E i \in DOMAIN row : row[i].id = row'[j].id /\ (row[i].id # x => Idle(row[i], row'[j]))
  <2>1. PICK i \in DOMAIN row : row[i].id = row'[j].id
    BY <1>4, <1>5 DEF Ids
  <2>2. PICK k \in DOMAIN row' : /\ row'[k].id = row[i].id
                                 /\ row[i].id # x => Idle(row[i], row'[k])
    BY <1>1 DEF Evolves
  <2>3. k = j
    BY <1>3, <2>1, <2>2 DEF IsRow
  <2> QED BY <2>1, <2>2, <2>3
<1>6. DOMAIN shown \subseteq Ids(row')
  <2> SUFFICES ASSUME NEW y \in DOMAIN shown
               PROVE  y \in Ids(row')
    OBVIOUS
  <2>1. PICK i \in DOMAIN row : row[i].id = y
    BY <1>4 DEF Ids
  <2>2. PICK k \in DOMAIN row' : row'[k].id = row[i].id
    BY DEF Evolves
  <2> QED BY <2>1, <2>2 DEF Ids
<1>7. ASSUME NEW j \in DOMAIN row', row'[j].id \in ToSet(Tail(queue)), warp # "second"
      PROVE  shown[row'[j].id] = row'[j].intent
  <2>1. row'[j].id \in ToSet(queue) /\ row'[j].id # x
    BY <1>2, <1>7
  <2>2. PICK i \in DOMAIN row : row[i].id = row'[j].id /\ (row[i].id # x => Idle(row[i], row'[j]))
    BY <1>4, <1>5, <2>1
  <2>3. shown[row[i].id] = row[i].intent
    BY <1>4, <1>7, <2>1, <2>2
  <2> QED BY <2>1, <2>2, <2>3 DEF Idle
<1>8. ASSUME NEW k \in DOMAIN acted'
      PROVE  acted'[k][1] \in DOMAIN shown \ ToSet(Tail(queue))
  <2>1. CASE acted'[k][1] = x
    BY <1>2, <2>1
  <2>2. CASE acted'[k][1] # x
    <3>1. PICK j \in DOMAIN acted : acted[j][1] = acted'[k][1]
      BY <1>1, <2>2
    <3> QED BY <1>2, <1>4, <3>1
  <2> QED BY <2>1, <2>2
<1>9. ASSUME NEW j \in DOMAIN row', row'[j].id \in DOMAIN shown, Alive(row'[j])
      PROVE  row'[j].id \in ToSet(Tail(queue)) \/ \E k \in DOMAIN acted' : acted'[k][1] = row'[j].id
  <2>1. CASE row'[j].id = x
    <3>1. Place(row', x) = j
      BY <1>3, <2>1, PlaceIs
    <3> QED BY <1>1, <1>9, <2>1, <3>1
  <2>2. CASE row'[j].id # x
    <3>1. PICK i \in DOMAIN row : row[i].id = row'[j].id /\ Idle(row[i], row'[j])
      BY <1>5, <1>9, <2>2
    <3>2. Alive(row[i])
      BY <1>9, <3>1 DEF Idle
    <3>3. CASE row[i].id \in ToSet(queue)
      BY <1>2, <2>2, <3>1, <3>3
    <3>4. CASE \E k \in DOMAIN acted : acted[k][1] = row[i].id
      BY <3>1, <3>4
    <3> QED BY <1>4, <1>9, <3>1, <3>2, <3>3, <3>4
  <2> QED BY <2>1, <2>2
<1>10. ToSet(Tail(queue)) \subseteq DOMAIN shown
  BY <1>2, <1>4
<1>11. ASSUME NEW j \in DOMAIN row', warp # "none"
       PROVE  row'[j].kind = "TimeEater" /\ row'[j].id \in DOMAIN shown
  <2>0. row'[j].id \in Ids(row') /\ Ids(row') = Ids(row)
    BY <1>11 DEF Ids
  <2>1. PICK i \in DOMAIN row : row[i].id = row'[j].id
    BY <2>0 DEF Ids
  <2>2. row[i].kind = "TimeEater" /\ row[i].id \in DOMAIN shown
    BY <1>4, <1>11
  <2>3. PICK k \in DOMAIN row' : row'[k].id = row[i].id /\ row'[k].kind = row[i].kind
    BY DEF Evolves
  <2>4. k = j
    BY <1>3, <2>1, <2>3 DEF IsRow
  <2> QED BY <2>1, <2>2, <2>3, <2>4
<1>12. queue' = Tail(queue) /\ shown' = shown /\ warp' = warp
  OBVIOUS
<1> QED BY <1>2, <1>4, <1>6, <1>7, <1>8, <1>9, <1>10, <1>11, <1>12 DEF TurnInv

\* The dead are passed over.
LEMMA SkipIs ==
  ASSUME IInv, Skip
  PROVE  /\ RowInv(row') /\ Evolves(row, row', Head(queue))
         /\ ~Alive(row'[Place(row', Head(queue))])
         /\ Ids(row') = Ids(row)
<1>1. phase = "monsters" /\ queue # <<>> /\ row' = LifeLink(row)
  BY DEF Skip
<1>2. Head(queue) \in Nat /\ queue' = Tail(queue)
  <2>1. queue \in Seq(Nat)
    BY DEF IInv, TypeOK
  <2> QED BY <1>1, <2>1 DEF Skip
<1>3. ~Alive(row'[Place(row', Head(queue))])
  <2>1. PICK m : m = Standing(row')
    OBVIOUS
  <2>2. m \in Monster /\ m.id = Head(queue) /\ (warp = "second" => shown[m.id] \in 0..8)
    BY <1>1, <2>1, StartIs
  <2>3. Actor(row').hp = m.hp
    BY <2>1, <2>2, ActorIs
  <2> QED BY <2>1, <2>3 DEF Skip, Standing, Alive
<1> QED BY <1>1, <1>3, StartIs, StartIds

\* The turn of one monster that does not act.
LEMMA Passed ==
  ASSUME IInv, phase = "monsters", queue # <<>>,
         RowInv(row'), Evolves(row, row', Head(queue)),
         ~Alive(row'[Place(row', Head(queue))]), Ids(row') = Ids(row),
         queue' = Tail(queue), UNCHANGED <<hard, phase, shown, warp, acted, acts>>, blows' \in Nat
  PROVE  IInv'
<1>1. acted' \in Seq(Nat \X (0..8)) /\ acted' = acted
  BY DEF IInv, TypeOK
<1>2. TurnInv'
  BY <1>1, TurnGoesOn
<1>3. queue' \in Seq(Nat)
  BY HeadIs
<1>4. TypeOK'
  BY <1>1, <1>3 DEF IInv, TypeOK
<1> QED BY <1>2, <1>4 DEF IInv

\* The steps keep the invariant, one lemma for each.
LEMMA ActKeeps ==
  ASSUME IInv, Act
  PROVE  IInv'
<1>1. /\ phase = "monsters" /\ queue # <<>> /\ queue' = Tail(queue)
      /\ UNCHANGED <<hard, phase, shown, warp>>
      /\ acts' = IF acts = 0 THEN 0 ELSE acts - 1
  BY DEF Act
<1>2. PICK b \in 0..8 : Performs(b)
  BY ActIs
<1>3. /\ RowInv(row') /\ Evolves(row, row', Head(queue)) /\ blows' \in Nat
      /\ acted' = Append(acted, <<Head(queue), b>>)
  BY <1>2 DEF Performs
<1>4. acted \in Seq(Nat \X (0..8)) /\ acts \in Nat /\ queue \in Seq(Nat)
  BY DEF IInv, TypeOK
<1>5. Head(queue) \in Nat
  BY <1>1, <1>4
<1>6. <<Head(queue), b>> \in Nat \X (0..8)
  BY <1>5
<1>7. /\ acted' \in Seq(Nat \X (0..8)) /\ Len(acted) \in Nat
      /\ DOMAIN acted = 1..Len(acted) /\ DOMAIN acted' = 1..Len(acted) + 1
      /\ \A k \in 1..Len(acted) : acted'[k] = acted[k]
      /\ acted'[Len(acted) + 1] = <<Head(queue), b>>
  BY <1>3, <1>4, <1>6
<1>8. \A k \in DOMAIN acted' : acted'[k][1] = Head(queue) \/
         \E j \in DOMAIN acted : acted[j][1] = acted'[k][1]
  <2> SUFFICES ASSUME NEW k \in DOMAIN acted', k \notin DOMAIN acted
               PROVE  acted'[k][1] = Head(queue)
    BY <1>7
  <2>1. k = Len(acted) + 1
    BY <1>7
  <2> QED BY <1>7, <2>1
<1>9. \A j \in DOMAIN acted : \E k \in DOMAIN acted' : acted'[k][1] = acted[j][1]
  BY <1>7
<1>10. \E k \in DOMAIN acted' : acted'[k][1] = Head(queue)
  <2>1. Len(acted) + 1 \in DOMAIN acted'
    BY <1>7
  <2>2. acted'[Len(acted) + 1][1] = Head(queue)
    BY <1>7
  <2> QED BY <2>1, <2>2
<1>11. ASSUME warp # "none" PROVE Ids(row') = Ids(row)
  <2>1. Actor(LifeLink(row)).kind = "TimeEater"
    <3>1. PICK m : m = Standing(LifeLink(row))
      OBVIOUS
    <3>2. /\ m \in Monster /\ m.id = Head(queue) /\ (warp = "second" => shown[m.id] \in 0..8)
          /\ Idle(row[Place(row, Head(queue))], m)
      BY <1>1, <3>1, StartIs
    <3>3. Actor(LifeLink(row)).kind = m.kind
      BY <3>1, <3>2, ActorIs
    <3>4. Place(row, Head(queue)) \in DOMAIN row
      BY <1>1, HeadIs, PlaceOf DEF IInv, RowInv
    <3>5. row[Place(row, Head(queue))].kind = "TimeEater"
      BY <1>1, <1>11, <3>4 DEF IInv, TurnInv
    <3> QED BY <3>2, <3>3, <3>5 DEF Idle
  <2> QED BY <1>2, <2>1 DEF Performs
<1>12. TurnInv'
  BY <1>1, <1>3, <1>7, <1>8, <1>9, <1>10, <1>11, TurnGoesOn
<1>13. queue' \in Seq(Nat) /\ acts' \in Nat
  BY <1>1, <1>4, HeadIs
<1>14. TypeOK'
  BY <1>1, <1>3, <1>7, <1>13 DEF IInv, TypeOK
<1> QED BY <1>3, <1>12, <1>14 DEF IInv

\* The queue holds the id of everyone in the row, once.
LEMMA EveryoneIs ==
  ASSUME IsRow(row)
  PROVE  /\ Everyone(row) \in Seq(Nat) /\ IsInjective(Everyone(row))
         /\ ToSet(Everyone(row)) = Ids(row)
<1>1. /\ row \in Seq(Monster) /\ Len(row) \in Nat /\ DOMAIN row = 1..Len(row)
      /\ \A i \in 1..Len(row) : row[i] \in Monster /\ row[i].id \in Nat
  BY RowOf
<1>2. /\ DOMAIN Everyone(row) = DOMAIN row
      /\ \A i \in DOMAIN row : Everyone(row)[i] = row[i].id
      /\ Everyone(row) \in [1..Len(row) -> Nat]
  BY <1>1 DEF Everyone
<1>3. Everyone(row) \in Seq(Nat)
  BY <1>1, <1>2
<1>4. IsInjective(Everyone(row))
  BY <1>2 DEF IsInjective, IsRow
<1>5. ToSet(Everyone(row)) = Ids(row)
  BY <1>2 DEF ToSet, Ids
<1> QED BY <1>3, <1>4, <1>5

LEMMA EndTurnKeeps ==
  ASSUME IInv, EndTurn
  PROVE  IInv'
<1>1. /\ row' = row /\ phase' = "monsters" /\ acted' = <<>>
      /\ queue' = Everyone(row)
      /\ shown' = [id \in {row[i].id : i \in DOMAIN row} |-> row[Place(row, id)].intent]
      /\ warp' \in {"none", "first"} /\ (warp' # "none" => Warping(row))
      /\ UNCHANGED <<hard, blows, acts>>
  BY DEF EndTurn
<1>2. RowInv(row) /\ IsRow(row)
  BY DEF IInv, RowInv
<1>3. queue' \in Seq(Nat) /\ IsInjective(queue') /\ ToSet(queue') = Ids(row)
  BY <1>1, <1>2, EveryoneIs
<1>4. DOMAIN shown' = Ids(row)
  BY <1>1 DEF Ids
<1>5. \A i \in DOMAIN row : shown'[row[i].id] = row[i].intent
  <2> SUFFICES ASSUME NEW i \in DOMAIN row
               PROVE  shown'[row[i].id] = row[i].intent
    OBVIOUS
  <2>1. Place(row, row[i].id) = i
    BY <1>2, PlaceIs
  <2> QED BY <1>1, <2>1
<1>6. \A y \in DOMAIN shown' : shown'[y] \in 0..8
  <2> SUFFICES ASSUME NEW y \in Ids(row)
               PROVE  shown'[y] \in 0..8
    BY <1>4
  <2>1. PICK i \in DOMAIN row : row[i].id = y
    BY DEF Ids
  <2>2. row[i].intent \in 0..8
    BY <1>2, RowOf, MonsterFields
  <2> QED BY <1>5, <2>1, <2>2
<1>7. \A i \in DOMAIN row : row[i].id \in Ids(row)
  BY DEF Ids
<1>8. warp' # "none" => \A i \in DOMAIN row : row[i].kind = "TimeEater"
  <2>1. Len(row) = 1 => DOMAIN row = {1}
    BY <1>2, RowOf
  <2> QED BY <1>1, <2>1 DEF Warping
<1>9. TurnInv'
  <2>1. /\ IsInjective(queue') /\ row' = row
        /\ DOMAIN shown' \subseteq Ids(row') /\ ToSet(queue') \subseteq DOMAIN shown'
    BY <1>1, <1>3, <1>4
  <2>2. \A i \in DOMAIN row' :
          row'[i].id \in ToSet(queue') => warp' = "second" \/ shown'[row'[i].id] = row'[i].intent
    BY <1>1, <1>5
  <2>3. DOMAIN acted' = {}
    BY <1>1
  <2>4. \A i \in DOMAIN row' :
          row'[i].id \in DOMAIN shown' /\ Alive(row'[i]) =>
            row'[i].id \in ToSet(queue') \/ \E k \in DOMAIN acted' : acted'[k][1] = row'[i].id
    BY <1>1, <1>3, <1>7
  <2>5. \A i \in DOMAIN row' :
          warp' = "none" \/ (row'[i].kind = "TimeEater" /\ row'[i].id \in DOMAIN shown')
    BY <1>1, <1>4, <1>7, <1>8
  <2> QED BY <1>6, <2>1, <2>2, <2>3, <2>4, <2>5 DEF TurnInv
<1>10. <<>> \in Seq(Nat \X (0..8))
  OBVIOUS
<1>11. TypeOK'
  BY <1>1, <1>3, <1>10 DEF IInv, TypeOK
<1> QED BY <1>1, <1>2, <1>9, <1>11 DEF IInv

LEMMA SecondPassKeeps ==
  ASSUME IInv, SecondPass
  PROVE  IInv'
<1>1. /\ row' = row /\ phase' = "monsters" /\ phase = "monsters" /\ acted' = <<>>
      /\ queue' = Everyone(row) /\ warp = "first" /\ warp' = "second"
      /\ UNCHANGED <<hard, shown, blows, acts>>
  BY DEF SecondPass
<1>2. RowInv(row) /\ IsRow(row) /\ TurnInv
  BY DEF IInv, RowInv
<1>3. queue' \in Seq(Nat) /\ IsInjective(queue') /\ ToSet(queue') = Ids(row)
  BY <1>1, <1>2, EveryoneIs
<1>4. /\ DOMAIN shown = Ids(row)
      /\ \A i \in DOMAIN row : row[i].kind = "TimeEater" /\ row[i].id \in DOMAIN shown
  BY <1>1, <1>2 DEF TurnInv, Ids
<1>5. \A i \in DOMAIN row : row[i].id \in Ids(row)
  BY DEF Ids
<1>6. TurnInv'
  BY <1>1, <1>2, <1>3, <1>4, <1>5 DEF TurnInv
<1>7. <<>> \in Seq(Nat \X (0..8))
  OBVIOUS
<1>8. TypeOK'
  BY <1>1, <1>3, <1>7 DEF IInv, TypeOK
<1> QED BY <1>1, <1>2, <1>6, <1>8 DEF IInv

\* Every step keeps the invariant.
LEMMA StepKeeps == IInv /\ [Next]_vars => IInv'
<1> SUFFICES ASSUME IInv, [Next]_vars
             PROVE  IInv'
  OBVIOUS
<1>1. ASSUME NEW i \in DOMAIN row, Hit(i)
      PROVE  IInv'
  <2>1. RowInv(row')
    BY <1>1, HitIs
  <2>2. /\ phase' \in {"Won", "player"} /\ blows' = blows - 1 /\ blows > 0
        /\ UNCHANGED <<hard, queue, shown, warp, acted, acts>>
    BY <1>1 DEF Hit
  <2>3. TypeOK' /\ TurnInv'
    BY <2>2 DEF IInv, TypeOK, TurnInv
  <2> QED BY <2>1, <2>3 DEF IInv
<1>2. CASE EndTurn
  BY <1>2, EndTurnKeeps
<1>3. CASE Skip
  <2>1. /\ phase = "monsters" /\ queue # <<>> /\ queue' = Tail(queue)
        /\ UNCHANGED <<hard, phase, shown, warp, acted, acts>> /\ blows' \in Nat
    BY <1>3 DEF Skip, IInv, TypeOK
  <2> QED BY <1>3, <2>1, SkipIs, Passed
<1>4. CASE PoisonKills
  <2>1. /\ phase = "monsters" /\ queue # <<>> /\ queue' = Tail(queue)
        /\ UNCHANGED <<hard, phase, shown, warp, acted, acts>> /\ blows' \in Nat
    BY <1>4 DEF PoisonKills, IInv, TypeOK
  <2> QED BY <1>4, <2>1, PoisonIs, Passed
<1>5. CASE Act
  BY <1>5, ActKeeps
<1>6. CASE PlayerFalls
  <2>1. /\ phase' = "Lost" /\ row' = row
        /\ UNCHANGED <<hard, queue, shown, warp, acted, blows, acts>>
    BY <1>6 DEF PlayerFalls
  <2> QED BY <2>1 DEF IInv, TypeOK, TurnInv
<1>7. CASE Finish
  <2>1. /\ phase' \in {"Won", "player"} /\ row' = row /\ acted' = <<>>
        /\ warp' = "none" /\ UNCHANGED <<hard, queue, blows, acts>>
    BY <1>7 DEF Finish
  <2>2. <<>> \in Seq(Nat \X (0..8))
    OBVIOUS
  <2> QED BY <2>1, <2>2 DEF IInv, TypeOK, TurnInv
<1>8. CASE SecondPass
  BY <1>8, SecondPassKeeps
<1>9. CASE UNCHANGED vars
  BY <1>9 DEF vars, IInv, TypeOK, TurnInv
<1> QED BY <1>1, <1>2, <1>3, <1>4, <1>5, <1>6, <1>7, <1>8, <1>9 DEF Next

\* The invariant holds from the first row on: every monster is fit (its marks
\* agree with what it performed, and it shows a move it may perform), minions are
\* served, Darklings are linked, and the queue of the turn agrees with the row.
THEOREM Inductive == Spec => []IInv
<1> QED BY Begins, StepKeeps, PTL DEF Spec

\* The phase, the queue, the record of the turn and the bounds have their types.
THEOREM TypeCorrect == Spec => []TypeOK
<1>1. IInv => TypeOK
  BY DEF IInv
<1> QED BY <1>1, Inductive, PTL

------------------------------------------------------------------------------
(* The theorems *)

\* Whatever stuns, splits, rerolls and half deaths come in between, no monster
\* performs a move more often running, or more often in all, than its table
\* allows, and a Darkling reincarnates right after it counted.
THEOREM LimitsHold == Spec => []MoveLimits
<1>1. IInv => MoveLimits
  BY DEF IInv, RowInv, Fit, Marked, MoveLimits
<1> QED BY <1>1, Inductive, PTL

\* How many minions there is room for.
LEMMA SlotsAre ==
  ASSUME NEW kind \in Masters
  PROVE  /\ IsFiniteSet(Slots(kind)) /\ Cardinality(Slots(kind)) \in Nat
         /\ Cardinality(Slots(kind)) <= CASE kind = "GremlinLeader" -> 3
                                          [] kind = "Collector" -> 2
                                          [] OTHER -> 4
<1>1. CASE kind = "GremlinLeader"
  <2>1. Slots(kind) = 0..2
    BY <1>1 DEF Slots
  <2>2. IsFiniteSet(0..2) /\ Cardinality(0..2) = 3
    <3>1. 0 \in Int /\ 2 \in Int
      OBVIOUS
    <3>2. IsFiniteSet(0..2) /\ Cardinality(0..2) = IF 0 > 2 THEN 0 ELSE 2 - 0 + 1
      BY <3>1, FS_Interval
    <3> QED BY <3>2
  <2> QED BY <1>1, <2>1, <2>2
<1>2. CASE kind = "Collector"
  <2>1. Slots(kind) = 1..2
    BY <1>2 DEF Slots
  <2>2. IsFiniteSet(1..2) /\ Cardinality(1..2) = 2
    <3>1. 1 \in Int /\ 2 \in Int
      OBVIOUS
    <3>2. IsFiniteSet(1..2) /\ Cardinality(1..2) = IF 1 > 2 THEN 0 ELSE 2 - 1 + 1
      BY <3>1, FS_Interval
    <3> QED BY <3>2
  <2> QED BY <1>2, <2>1, <2>2
<1>3. CASE kind \notin {"GremlinLeader", "Collector"}
  <2>1. Slots(kind) = 0..3
    BY <1>3 DEF Slots
  <2>2. IsFiniteSet(0..3) /\ Cardinality(0..3) = 4
    <3>1. 0 \in Int /\ 3 \in Int
      OBVIOUS
    <3>2. IsFiniteSet(0..3) /\ Cardinality(0..3) = IF 0 > 3 THEN 0 ELSE 3 - 0 + 1
      BY <3>1, FS_Interval
    <3> QED BY <3>2
  <2> QED BY <1>3, <2>1, <2>2
<1> QED BY <1>1, <1>2, <1>3

\* Minions fall with the one they serve, no two that live stand in the same
\* place, and there are never more of them than the rallies and spawns allow.
THEOREM MinionsAlwaysServe == Spec => []MinionsServe
<1>1. ASSUME RowInv(row), NEW i \in DOMAIN row
      PROVE  LET minions == Living(row, Minions(row[i].kind)) IN
             /\ minions # {} => Alive(row[i])
             /\ Cardinality(minions) <= CASE row[i].kind = "GremlinLeader" -> 3
                                          [] row[i].kind = "Collector" -> 2
                                          [] OTHER -> 4
             /\ \A j, k \in minions : j # k => row[j].slot # row[k].slot
  <2> DEFINE minions == Living(row, Minions(row[i].kind))
  <2>1. CASE row[i].kind \notin Masters
    <3>1. minions = {}
      BY <2>1, MinionsAre DEF Living
    <3>2. Cardinality({}) = 0
      BY FS_EmptySet
    <3>3. row[i].kind # "GremlinLeader" /\ row[i].kind # "Collector"
      BY <2>1 DEF Masters
    <3> QED BY <3>1, <3>2, <3>3
  <2>2. CASE row[i].kind \in Masters
    <3>1. \A j \in minions :
            /\ j \in DOMAIN row /\ Alive(row[j])
            /\ row[j].kind \in Minions(row[i].kind)
            /\ row[j].slot \in Slots(row[i].kind)
            /\ Alive(row[i])
      BY <1>1, <2>2 DEF RowInv, Served, Living
    <3>2. ASSUME NEW j \in minions, NEW k \in minions, j # k
          PROVE  row[j].slot # row[k].slot
      <4> SUFFICES ASSUME row[j].slot = row[k].slot
                   PROVE  FALSE
        OBVIOUS
      <4>1. row[j].id \in Nat /\ row[k].id \in Nat /\ row[j].id # row[k].id
        <5>1. IsRow(row)
          BY <1>1 DEF RowInv
        <5>2. row[j].id # row[k].id
          BY <3>1, <3>2, <5>1 DEF IsRow
        <5> QED BY <3>1, <5>1, <5>2, RowOf
      <4>2. CASE row[j].id < row[k].id
        <5>1. ~Alive(row[j])
          BY <1>1, <2>2, <3>1, <4>2 DEF RowInv, Served
        <5> QED BY <3>1, <5>1
      <4>3. CASE row[k].id < row[j].id
        <5>1. ~Alive(row[k])
          BY <1>1, <2>2, <3>1, <4>3 DEF RowInv, Served
        <5> QED BY <3>1, <5>1
      <4> QED BY <4>1, <4>2, <4>3
    <3> HIDE DEF minions
    <3>3. Cardinality(minions) <= Cardinality(Slots(row[i].kind)) /\ Cardinality(minions) \in Nat
      <4> DEFINE f == [j \in minions |-> row[j].slot]
      <4>1. f \in [minions -> Slots(row[i].kind)] /\ IsInjective(f)
        BY <3>1, <3>2 DEF IsInjective
      <4>2. f \in Injection(minions, Slots(row[i].kind))
        BY <4>1 DEF Injection
      <4>3. IsFiniteSet(Slots(row[i].kind))
        BY <2>2, SlotsAre
      <4> HIDE DEF f
      <4>4. IsFiniteSet(minions) /\ Cardinality(minions) <= Cardinality(Slots(row[i].kind))
        BY <4>2, <4>3, FS_Injection
      <4> QED BY <4>4, FS_CardinalityType
    <3>4. PICK most \in Nat : most = CASE row[i].kind = "GremlinLeader" -> 3
                                       [] row[i].kind = "Collector" -> 2
                                       [] OTHER -> 4
      OBVIOUS
    <3>5. Cardinality(Slots(row[i].kind)) \in Nat /\ Cardinality(Slots(row[i].kind)) <= most
      BY <2>2, <3>4, SlotsAre
    <3>6. Cardinality(minions) <= most
      BY <3>3, <3>5
    <3> QED BY <3>1, <3>2, <3>4, <3>6 DEF minions
  <2> QED BY <2>1, <2>2
<1>2. IInv => MinionsServe
  BY <1>1 DEF IInv, MinionsServe
<1> QED BY <1>2, Inductive, PTL

\* Everything a monster's turn adds to the list of those who acted.
LEMMA ActShows ==
  ASSUME IInv, Act
  PROVE  ShownMove
<1>1. PICK b \in 0..8 : Performs(b)
  BY ActIs
<1>2. phase = "monsters" /\ queue # <<>>
  BY DEF Act
<1>3. PICK x : x = Head(queue)
  OBVIOUS
<1>4. PICK m : m = Actor(LifeLink(row))
  OBVIOUS
<1>5. /\ acted' = Append(acted, <<x, b>>)
      /\ b = m.intent \/ <<m.kind, b>> \in (Splitting \X {3}) \cup {<<"Guardian", 1>>}
  BY <1>1, <1>3, <1>4 DEF Performs
<1>6. acted \in Seq(Nat \X (0..8)) /\ x \in Nat
  <2>1. queue \in Seq(Nat)
    BY DEF IInv, TypeOK
  <2> QED BY <1>2, <1>3, <2>1 DEF IInv, TypeOK
<1>7. acted'[Len(acted')] = <<x, b>>
  BY <1>5, <1>6
<1>8. x \in Ids(row) /\ x \in DOMAIN shown /\ x \in ToSet(queue)
  BY <1>2, <1>3, HeadIs
<1>9. \A i \in DOMAIN acted : acted[i][1] # x
  BY <1>2, <1>8 DEF IInv, TurnInv
<1>10. IsRow(row)
  BY DEF IInv, RowInv
<1>11. PICK i \in DOMAIN row : i = Place(row, x) /\ row[i].id = x
  BY <1>8, <1>10, PlaceOf
<1>12. warp = "second" \/ shown[x] = row[i].intent
  BY <1>2, <1>8, <1>11 DEF IInv, TurnInv
<1>13. m.intent = shown[x] /\ m.kind = row[i].kind
  <2>1. PICK n : n = Standing(LifeLink(row))
    OBVIOUS
  <2>2. /\ Idle(row[i], n) /\ n \in Monster /\ n.id = x
        /\ warp = "second" => shown[n.id] \in 0..8
    BY <1>2, <1>3, <1>11, <2>1, StartIs
  <2>3. /\ m.kind = n.kind
        /\ warp # "second" => m = n
        /\ warp = "second" => m.intent = shown[n.id]
    BY <1>4, <2>1, <2>2, ActorIs
  <2> QED BY <1>12, <2>2, <2>3 DEF Idle
<1> QED BY <1>5, <1>7, <1>8, <1>9, <1>11, <1>12, <1>13 DEF ShownMove

\* Every step performs the move shown and leaves no living monster out.
LEMMA StepShows == IInv /\ [Next]_vars => [ShownMove /\ NoneLeftOut]_vars
<1> SUFFICES ASSUME IInv, [Next]_vars, ~UNCHANGED vars
             PROVE  ShownMove /\ NoneLeftOut
  OBVIOUS
<1>1. ASSUME NEW i \in DOMAIN row, Hit(i)
      PROVE  ShownMove /\ NoneLeftOut
  BY <1>1 DEF Hit, ShownMove, NoneLeftOut
<1>2. CASE EndTurn
  BY <1>2 DEF EndTurn, ShownMove, NoneLeftOut
<1>3. CASE Skip
  BY <1>3 DEF Skip, ShownMove, NoneLeftOut
<1>4. CASE PoisonKills
  BY <1>4 DEF PoisonKills, ShownMove, NoneLeftOut
<1>5. CASE Act
  <2>1. NoneLeftOut
    BY <1>5 DEF Act, NoneLeftOut
  <2> QED BY <1>5, <2>1, ActShows
<1>6. CASE PlayerFalls
  BY <1>6 DEF PlayerFalls, ShownMove, NoneLeftOut
<1>7. CASE Finish
  <2>1. ShownMove
    BY <1>7 DEF Finish, ShownMove
  <2>2. phase = "monsters" /\ queue = <<>>
    BY <1>7 DEF Finish
  <2>3. ToSet(queue) = {}
    BY <2>2, SetOfEmpty
  <2>4. NoneLeftOut
    BY <2>2, <2>3 DEF NoneLeftOut, IInv, TurnInv
  <2> QED BY <2>1, <2>4
<1>8. CASE SecondPass
  <2>1. ShownMove
    BY <1>8 DEF SecondPass, ShownMove
  <2>2. phase = "monsters" /\ queue = <<>>
    BY <1>8 DEF SecondPass
  <2>3. ToSet(queue) = {}
    BY <2>2, SetOfEmpty
  <2>4. NoneLeftOut
    BY <2>2, <2>3 DEF NoneLeftOut, IInv, TurnInv
  <2> QED BY <2>1, <2>4
<1> QED BY <1>1, <1>2, <1>3, <1>4, <1>5, <1>6, <1>7, <1>8 DEF Next

\* In each pass of the queue, and there are two when Time Warp's forced end stands,
\* each monster acts at most once and performs what it showed at the end of the
\* player's turn, or what poison's split or shift made of it; and the next pass or
\* the player's turn comes when all that stood there and live have acted.
THEOREM MovesAreShown == Spec => PerformsAsShown
BY StepShows, Inductive, PTL DEF Spec, PerformsAsShown

\* Who rises is the one whose turn it is, half dead until then.
LEMMA HalfDeadRises ==
  ASSUME IInv, phase = "monsters", queue # <<>>, NEW i \in DOMAIN row,
         row[i].id = Head(queue), ~Alive(row[i]), HalfDead(Standing(LifeLink(row)))
  PROVE  \/ row[i].kind = "Darkling" /\ Living(row, {"Darkling"}) # {}
         \/ row[i].kind = "AwakenedOne" /\ ~Used(row[i].did, 3)
<1>1. IsRow(row) /\ RowInv(row) /\ Marked(row[i]) /\ Linked(row)
  BY DEF IInv, RowInv, Fit
<1>2. Place(row, Head(queue)) = i
  BY <1>1, PlaceIs
<1>3. PICK m : m = Standing(LifeLink(row))
  OBVIOUS
<1>4. Idle(row[i], m) /\ m.mode = -1
  BY <1>2, <1>3, StartIs DEF HalfDead
<1>5. row[i].mode = -1 /\ HalfDead(row[i])
  BY <1>4 DEF Idle, HalfDead
<1>6. row[i].kind \in {"Darkling", "AwakenedOne"}
  BY <1>1, <1>5, WhoIsHalfDead DEF Marked
<1>7. CASE row[i].kind = "AwakenedOne"
  <2>1. ~UsedUp(row[i], 3)
    BY <1>5, <1>7 DEF UsedUp, Remembering
  <2>2. 3 \notin ToSet(row[i].did)
    BY <1>1, <1>7, <2>1 DEF Marked
  <2>3. row[i].did \in Seq(0..8)
    BY <1>1, RowOf, MonsterFields
  <2> QED BY <1>7, <2>2, <2>3, UsedIs
<1>8. CASE row[i].kind = "Darkling"
  <2>1. ~\A k \in DOMAIN row : row[k].kind = "Darkling" => ~Alive(row[k]) /\ HalfDead(row[k])
    <3> SUFFICES ASSUME \A k \in DOMAIN row :
                          row[k].kind = "Darkling" => ~Alive(row[k]) /\ HalfDead(row[k])
                 PROVE  FALSE
      OBVIOUS
    <3>1. LifeLink(row) = [k \in DOMAIN row |-> IF row[k].kind = "Darkling"
                                                THEN [row[k] EXCEPT !.mode = 0] ELSE row[k]]
      BY DEF LifeLink
    <3>2. LifeLink(row)[i] = [row[i] EXCEPT !.mode = 0]
      BY <1>8, <3>1
    <3>3. row[i] \in Monster
      BY <1>1, RowOf
    <3>4. LifeLink(row)[i].mode = 0
      <4>1. 0 \in Int
        OBVIOUS
      <4> QED BY <3>2, <3>3, <4>1, WithMode
    <3>5. m = LifeLink(row)[Place(LifeLink(row), Head(queue))]
      BY <1>3 DEF Standing
    <3>6. Place(LifeLink(row), Head(queue)) = i
      <4>1. Stands(row, Head(queue), row)
        BY <1>1, HeadIs, StandsFirst
      <4> QED BY <1>2, <4>1, LinkStands
    <3> QED BY <1>4, <3>4, <3>5, <3>6
  <2>2. PICK k \in DOMAIN row : row[k].kind = "Darkling" /\ ~(~Alive(row[k]) /\ HalfDead(row[k]))
    BY <2>1
  <2>3. Alive(row[k])
    BY <1>1, <1>5, <1>8, <2>2 DEF Linked
  <2>4. k \in Living(row, {"Darkling"})
    BY <2>2, <2>3 DEF Living
  <2> QED BY <1>8, <2>4
<1> QED BY <1>6, <1>7, <1>8

\* Only the one whose turn it is may rise.
LEMMA OthersStayDown ==
  ASSUME IInv, NEW x, RowInv(row'), Evolves(row, row', x),
         NEW i \in DOMAIN row, ~Alive(row[i]), Alive(row'[Place(row', row[i].id)])
  PROVE  row[i].id = x
<1>1. IsRow(row')
  BY DEF RowInv
<1>2. PICK j \in DOMAIN row' : /\ row'[j].id = row[i].id
                               /\ row[i].id # x => Idle(row[i], row'[j])
  BY DEF Evolves
<1>3. Place(row', row[i].id) = j
  BY <1>1, <1>2, PlaceIs
<1> QED BY <1>2, <1>3 DEF Idle

\* In no step does a monster rise but the half dead in their turn.
LEMMA StepStands == IInv /\ [Next]_vars => [RisesInTurn /\ NobodyToFace]_vars
<1> SUFFICES ASSUME IInv, [Next]_vars, ~UNCHANGED vars
             PROVE  RisesInTurn /\ NobodyToFace
  OBVIOUS
<1>0. IsRow(row)
  BY DEF IInv, RowInv
<1>1. ASSUME NEW k \in DOMAIN row, Hit(k)
      PROVE  RisesInTurn /\ NobodyToFace
  <2>1. RowInv(row') /\ Evolves(row, row', row[k].id) /\ Alive(row[k])
    BY <1>1, HitIs DEF Hit
  <2>2. RisesInTurn
    <3> SUFFICES ASSUME NEW i \in DOMAIN row, ~Alive(row[i]), Alive(row'[Place(row', row[i].id)])
                 PROVE  FALSE
      BY DEF RisesInTurn
    <3>1. row[i].id = row[k].id
      BY <2>1, OthersStayDown
    <3> QED BY <1>0, <2>1, <3>1 DEF IsRow
  <2>3. NobodyToFace
    BY <1>1 DEF Hit, NobodyToFace
  <2> QED BY <2>2, <2>3
<1>2. ASSUME row' = row
      PROVE  RisesInTurn
  BY <1>0, <1>2, PlaceIs DEF RisesInTurn
<1>3. CASE EndTurn
  BY <1>2, <1>3 DEF EndTurn, NobodyToFace
<1>4. ASSUME RowInv(row'), Evolves(row, row', Head(queue)), ~Alive(row'[Place(row', Head(queue))])
      PROVE  RisesInTurn
  <2> SUFFICES ASSUME NEW i \in DOMAIN row, ~Alive(row[i]), Alive(row'[Place(row', row[i].id)])
               PROVE  FALSE
    BY DEF RisesInTurn
  <2>1. row[i].id = Head(queue)
    BY <1>4, OthersStayDown
  <2> QED BY <1>4, <2>1
<1>5. CASE Skip
  <2>1. NobodyToFace
    BY <1>5 DEF Skip, NobodyToFace
  <2> QED BY <1>4, <1>5, <2>1, SkipIs
<1>6. CASE PoisonKills
  <2>1. NobodyToFace
    BY <1>6 DEF PoisonKills, NobodyToFace
  <2> QED BY <1>4, <1>6, <2>1, PoisonIs
<1>7. CASE Act
  <2>1. NobodyToFace
    BY <1>7 DEF Act, NobodyToFace
  <2>2. phase = "monsters" /\ queue # <<>>
    BY <1>7 DEF Act
  <2>3. PICK b \in 0..8 : Performs(b)
    BY <1>7, ActIs
  <2>4. /\ RowInv(row') /\ Evolves(row, row', Head(queue))
        /\ Alive(Actor(LifeLink(row))) \/ HalfDead(Actor(LifeLink(row)))
    BY <2>3 DEF Performs
  <2>5. /\ Alive(Actor(LifeLink(row))) <=> Alive(Standing(LifeLink(row)))
        /\ HalfDead(Actor(LifeLink(row))) <=> HalfDead(Standing(LifeLink(row)))
    <3>1. PICK m : m = Standing(LifeLink(row))
      OBVIOUS
    <3>2. m \in Monster /\ m.id = Head(queue) /\ (warp = "second" => shown[m.id] \in 0..8)
      BY <2>2, <3>1, StartIs
    <3> QED BY <3>1, <3>2, ActorIs DEF Alive, HalfDead
  <2>6. ASSUME NEW i \in DOMAIN row, ~Alive(row[i]), Alive(row'[Place(row', row[i].id)])
        PROVE  \/ row[i].kind = "Darkling" /\ Living(row, {"Darkling"}) # {}
               \/ row[i].kind = "AwakenedOne" /\ ~Used(row[i].did, 3)
    <3>1. row[i].id = Head(queue)
      BY <2>4, <2>6, OthersStayDown
    <3>2. Idle(row[i], Standing(LifeLink(row)))
      <4>1. Place(row, Head(queue)) = i
        BY <1>0, <3>1, PlaceIs
      <4> QED BY <2>2, <4>1, StartIs
    <3>3. ~Alive(Standing(LifeLink(row)))
      BY <2>6, <3>2 DEF Idle
    <3> QED BY <2>2, <2>4, <2>5, <2>6, <3>1, <3>3, HalfDeadRises
  <2>7. RisesInTurn
    BY <2>6 DEF RisesInTurn
  <2> QED BY <2>1, <2>7
<1>8. CASE PlayerFalls
  BY <1>2, <1>8 DEF PlayerFalls, NobodyToFace
<1>9. CASE Finish
  <2>1. NobodyToFace
    BY <1>9 DEF Finish, NobodyToFace
  <2> QED BY <1>2, <1>9, <2>1 DEF Finish
<1>10. CASE SecondPass
  BY <1>2, <1>10 DEF SecondPass, NobodyToFace
<1> QED BY <1>1, <1>3, <1>5, <1>6, <1>7, <1>8, <1>9, <1>10 DEF Next

\* Who is down rises only as a Darkling with a living companion or as the
\* Awakened One for the first time, and the player never faces a row that is over.
THEOREM NobodyRisesUnlessDue == Spec => DeathsStand
BY StepStands, Inductive, PTL DEF Spec, DeathsStand
==============================================================================

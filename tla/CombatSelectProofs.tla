------------------------- MODULE CombatSelectProofs -------------------------
(***************************************************************************)
(* Proofs about CombatSelect for any deck, any hand limit, hand size and   *)
(* width of a position: the public record of draw positions is right about *)
(* the real draw pile and about every other one that the public history    *)
(* leaves open, whatever is played, used, chosen or confirmed; piles,      *)
(* screens and queued actions keep their types; and every screen that      *)
(* opens can be answered and has its work parked behind it.                *)
(***************************************************************************)
EXTENDS CombatSelect, VectorsProofs

------------------------------------------------------------------------------
(* Records that agree with a pile *)

\* A sequence, of whatever elements.
IsSeq(s) == \E S : s \in Seq(S)

Positions(record) == \A e \in record : e[1] \in Nat

\* The record is right about pile s.
RightAbout(record, s) == IsSeq(s) /\ Agrees(record, s)

LEMMA SeqLen ==
  ASSUME NEW s, IsSeq(s)
  PROVE  Len(s) \in Nat /\ DOMAIN s = 1..Len(s)
BY DEF IsSeq

LEMMA EmptyIsSeq == IsSeq(<<>>) /\ Len(<<>>) = 0
<1>1. <<>> \in Seq({})
  OBVIOUS
<1> QED BY <1>1 DEF IsSeq

\* A function on 1..n is a sequence.
LEMMA FunctionIsSeq ==
  ASSUME NEW n \in Nat, NEW f, f = [i \in 1..n |-> f[i]]
  PROVE  IsSeq(f) /\ Len(f) = n
<1> DEFINE S == {f[i] : i \in 1..n}
<1>1. f \in [1..n -> S]
  OBVIOUS
<1>2. f \in Seq(S)
  BY <1>1
<1>3. Len(f) = n
  BY <1>1, <1>2
<1> QED BY <1>2, <1>3 DEF IsSeq

LEMMA AppendIsSeq ==
  ASSUME NEW s, IsSeq(s), NEW c
  PROVE  /\ IsSeq(Append(s, c))
         /\ Len(Append(s, c)) = Len(s) + 1
         /\ \A i \in 1..Len(s) : Append(s, c)[i] = s[i]
         /\ Append(s, c)[Len(s) + 1] = c
<1>1. PICK S : s \in Seq(S)
  BY DEF IsSeq
<1>2. s \in Seq(S \union {c})
  BY <1>1
<1>3. Append(s, c) \in Seq(S \union {c})
  BY <1>2
<1> QED BY <1>2, <1>3 DEF IsSeq

LEMMA ConcatIsSeq ==
  ASSUME NEW s, IsSeq(s), NEW t, IsSeq(t)
  PROVE  /\ IsSeq(s \o t)
         /\ Len(s \o t) = Len(s) + Len(t)
         /\ \A i \in 1..Len(s) : (s \o t)[i] = s[i]
         /\ \A i \in 1..Len(t) : (s \o t)[Len(s) + i] = t[i]
<1>1. PICK S : s \in Seq(S)
  BY DEF IsSeq
<1>2. PICK T : t \in Seq(T)
  BY DEF IsSeq
<1>3. s \in Seq(S \union T) /\ t \in Seq(S \union T)
  BY <1>1, <1>2
<1>4. s \o t \in Seq(S \union T)
  BY <1>3
<1> QED BY <1>3, <1>4 DEF IsSeq

LEMMA SingletonIsSeq ==
  ASSUME NEW c
  PROVE  IsSeq(<<c>>) /\ Len(<<c>>) = 1 /\ <<c>>[1] = c
<1>1. <<c>> \in Seq({c})
  OBVIOUS
<1> QED BY <1>1 DEF IsSeq

\* The k next draws, and the pile without them.
LEMMA TopAndRest ==
  ASSUME NEW s, IsSeq(s), NEW k \in 0..Len(s)
  PROVE  /\ IsSeq(TopOf(s, k)) /\ Len(TopOf(s, k)) = k
         /\ \A i \in 1..k : TopOf(s, k)[i] = s[Len(s) + 1 - i]
         /\ IsSeq(DropTop(s, k)) /\ Len(DropTop(s, k)) = Len(s) - k
         /\ \A i \in 1..(Len(s) - k) : DropTop(s, k)[i] = s[i]
<1>1. Len(s) \in Nat /\ k \in Nat
  BY SeqLen
<1>2. IsSeq(TopOf(s, k)) /\ Len(TopOf(s, k)) = k
  <2>1. TopOf(s, k) = [i \in 1..k |-> TopOf(s, k)[i]]
    BY DEF TopOf
  <2> QED BY <1>1, <2>1, FunctionIsSeq
<1>3. \A i \in 1..k : TopOf(s, k)[i] = s[Len(s) + 1 - i]
  BY DEF TopOf
<1>4. PICK S : s \in Seq(S)
  BY DEF IsSeq
<1>5. DropTop(s, k) \in Seq(S)
  BY <1>1, <1>4 DEF DropTop
<1>6. /\ Len(DropTop(s, k)) = Len(s) - k
      /\ \A i \in 1..(Len(s) - k) : DropTop(s, k)[i] = s[i]
  BY <1>1, <1>4 DEF DropTop
<1> QED BY <1>2, <1>3, <1>5, <1>6 DEF IsSeq

LEMMA DroppingIsSeq ==
  ASSUME NEW s, IsSeq(s), NEW S
  PROVE  IsSeq(Dropping(s, S))
<1> DEFINE kept   == {i \in DOMAIN s : s[i] \notin S}
           nth(k) == CHOOSE i \in kept : Cardinality({j \in kept : j <= i}) = k
           n      == Cardinality(kept)
           f      == [k \in 1..n |-> s[nth(k)]]
<1>1. n \in Nat
  <2>1. IsFiniteSet(DOMAIN s)
    BY SeqLen, FS_Interval
  <2>2. IsFiniteSet(kept)
    BY <2>1, FS_Subset
  <2> QED BY <2>2, FS_CardinalityType
<1>2. f = [k \in 1..n |-> f[k]]
  OBVIOUS
<1>3. Dropping(s, S) = f
  BY DEF Dropping
<1> HIDE DEF f, n
<1> QED BY <1>1, <1>2, <1>3, FunctionIsSeq

LEMMA ReverseIsSeq ==
  ASSUME NEW s, IsSeq(s)
  PROVE  IsSeq(Reverse(s))
<1>1. Reverse(s) = [i \in 1..Len(s) |-> Reverse(s)[i]]
  BY DEF Reverse
<1> QED BY <1>1, SeqLen, FunctionIsSeq

LEMMA RemoveAtIsSeq ==
  ASSUME NEW s, IsSeq(s), NEW i \in DOMAIN s
  PROVE  IsSeq(RemoveAt(s, i))
<1>1. PICK S : s \in Seq(S)
  BY DEF IsSeq
<1>2. RemoveAt(s, i) \in Seq(S)
  BY <1>1 DEF RemoveAt
<1> QED BY <1>2 DEF IsSeq

LEMMA InsertAtIsSeq ==
  ASSUME NEW s, IsSeq(s), NEW i \in 1..Len(s), NEW c
  PROVE  IsSeq(InsertAt(s, i, c)) /\ Len(InsertAt(s, i, c)) = Len(s) + 1
<1>1. PICK S : s \in Seq(S)
  BY DEF IsSeq
<1> DEFINE front == SubSeq(s, 1, i - 1)
           back  == SubSeq(s, i, Len(s))
<1>2. /\ Len(s) \in Nat /\ i \in Nat /\ i >= 1 /\ i <= Len(s)
  BY SeqLen
<1>3. /\ front \in Seq(S) /\ Len(front) = i - 1
      /\ back \in Seq(S) /\ Len(back) = Len(s) + 1 - i
  <2>1. front \in Seq(S) /\ back \in Seq(S)
    BY <1>1, <1>2
  <2>2. Len(front) = i - 1
    BY <1>1, <1>2
  <2>3. Len(back) = Len(s) + 1 - i
    BY <1>1, <1>2
  <2> QED BY <2>1, <2>2, <2>3
<1>4. IsSeq(front) /\ IsSeq(back)
  BY <1>3 DEF IsSeq
<1>5. InsertAt(s, i, c) = Append(front, c) \o back
  BY DEF InsertAt
<1> HIDE DEF front, back
<1>6. /\ IsSeq(Append(front, c) \o back)
      /\ Len(Append(front, c) \o back) = (Len(front) + 1) + Len(back)
  BY <1>4, AppendIsSeq, ConcatIsSeq
<1> QED BY <1>2, <1>3, <1>5, <1>6

LEMMA OrdersAreSeqs ==
  ASSUME NEW S, NEW n \in Nat, NEW s \in Orders(S, n)
  PROVE  IsSeq(s) /\ Len(s) = n
<1>1. s = [i \in 1..n |-> s[i]]
  BY DEF Orders
<1> QED BY <1>1, FunctionIsSeq

------------------------------------------------------------------------------
(* What each update does to a record that is right *)

\* shuffle_or_replace_unknown: an empty record is right about every pile.
LEMMA NothingIsRight ==
  ASSUME NEW s, IsSeq(s)
  PROVE  Positions(Nothing) /\ RightAbout(Nothing, s)
BY DEF Positions, RightAbout, Agrees, Nothing

\* insert_top, the width check included.
LEMMA InsertTopIsRight ==
  ASSUME NEW record, Positions(record), NEW s, RightAbout(record, s), NEW c
  PROVE  /\ Positions(InsertTop(record, c))
         /\ RightAbout(InsertTop(record, c), Append(s, c))
<1> DEFINE t == Append(s, c)
<1>1. /\ IsSeq(t) /\ Len(s) \in Nat /\ Len(t) = Len(s) + 1
      /\ \A i \in 1..Len(s) : t[i] = s[i]
      /\ t[Len(t)] = c
  BY AppendIsSeq, SeqLen DEF RightAbout
<1>2. ASSUME NEW e \in InsertTop(record, c)
      PROVE  /\ e[1] \in Nat /\ e[1] < Len(t) /\ t[Len(t) - e[1]] = e[2]
  <2>1. \/ e = <<0, c>>
        \/ \E o \in record : e = <<o[1] + 1, o[2]>>
    BY <1>2 DEF InsertTop, ShiftPositions, Forget
  <2>2. CASE e = <<0, c>>
    BY <1>1, <2>2
  <2>3. ASSUME NEW o \in record, e = <<o[1] + 1, o[2]>>
        PROVE  e[1] \in Nat /\ e[1] < Len(t) /\ t[Len(t) - e[1]] = e[2]
    <3>1. /\ o[1] \in Nat /\ o[1] < Len(s) /\ s[Len(s) - o[1]] = o[2]
          /\ e[1] = o[1] + 1 /\ e[2] = o[2]
      BY <2>3 DEF Positions, RightAbout, Agrees
    <3>2. /\ Len(t) - e[1] = Len(s) - o[1]
          /\ Len(s) - o[1] \in 1..Len(s)
      BY <1>1, <3>1
    <3> HIDE DEF t
    <3> QED BY <1>1, <3>1, <3>2
  <2> QED BY <2>1, <2>2, <2>3
<1> QED BY <1>1, <1>2 DEF Positions, RightAbout, Agrees

\* insert_bottom, the width check included.
LEMMA InsertBottomIsRight ==
  ASSUME NEW record, Positions(record), NEW s, RightAbout(record, s), NEW c
  PROVE  /\ Positions(InsertBottom(record, c, Len(s) + 1))
         /\ RightAbout(InsertBottom(record, c, Len(s) + 1), <<c>> \o s)
<1> DEFINE t == <<c>> \o s
<1>1. /\ IsSeq(t) /\ Len(s) \in Nat /\ Len(t) = Len(s) + 1
      /\ \A i \in 1..Len(s) : t[1 + i] = s[i]
      /\ t[1] = c
  <2>1. IsSeq(s) /\ IsSeq(<<c>>) /\ Len(<<c>>) = 1 /\ <<c>>[1] = c
    BY SingletonIsSeq DEF RightAbout
  <2>2. /\ IsSeq(t) /\ Len(t) = 1 + Len(s)
        /\ \A i \in 1..1 : t[i] = <<c>>[i]
        /\ \A i \in 1..Len(s) : t[1 + i] = s[i]
    BY <2>1, ConcatIsSeq
  <2> HIDE DEF t
  <2> QED BY <2>1, <2>2, SeqLen
<1>2. ASSUME NEW e \in InsertBottom(record, c, Len(s) + 1)
      PROVE  e[1] \in Nat /\ e[1] < Len(t) /\ t[Len(t) - e[1]] = e[2]
  <2>1. e = <<Len(s), c>> \/ e \in record
    BY <1>1, <1>2 DEF InsertBottom, Forget
  <2> HIDE DEF t
  <2>2. CASE e = <<Len(s), c>>
    BY <1>1, <2>2
  <2>3. CASE e \in record
    <3>1. e[1] \in Nat /\ e[1] < Len(s) /\ s[Len(s) - e[1]] = e[2]
      BY <2>3 DEF Positions, RightAbout, Agrees
    <3>2. /\ Len(s) - e[1] \in 1..Len(s)
          /\ 1 + (Len(s) - e[1]) = Len(t) - e[1]
      BY <1>1, <3>1
    <3> QED BY <1>1, <3>1, <3>2
  <2> QED BY <2>1, <2>2, <2>3
<1> QED BY <1>1, <1>2 DEF Positions, RightAbout, Agrees

\* remove_top, once per card drawn.
LEMMA RemoveTopIsRight ==
  ASSUME NEW record, Positions(record), NEW s, RightAbout(record, s),
         NEW k \in 0..Len(s)
  PROVE  /\ Positions(RemoveTop(record, k))
         /\ RightAbout(RemoveTop(record, k), DropTop(s, k))
<1> DEFINE t == DropTop(s, k)
<1>1. /\ IsSeq(t) /\ Len(s) \in Nat /\ Len(t) = Len(s) - k
      /\ \A i \in 1..(Len(s) - k) : t[i] = s[i]
  BY TopAndRest, SeqLen DEF RightAbout
<1>2. ASSUME NEW e \in RemoveTop(record, k)
      PROVE  e[1] \in Nat /\ e[1] < Len(t) /\ t[Len(t) - e[1]] = e[2]
  <2>1. PICK o \in record : o[1] >= k /\ e = <<o[1] - k, o[2]>>
    BY <1>2 DEF RemoveTop
  <2>2. /\ o[1] \in Nat /\ o[1] < Len(s) /\ s[Len(s) - o[1]] = o[2]
        /\ e[1] = o[1] - k /\ e[2] = o[2]
    BY <2>1 DEF Positions, RightAbout, Agrees
  <2>3. /\ e[1] \in Nat /\ e[1] < Len(t)
        /\ Len(t) - e[1] = Len(s) - o[1]
        /\ Len(s) - o[1] \in 1..(Len(s) - k)
    BY <1>1, <2>1, <2>2
  <2> HIDE DEF t
  <2> QED BY <1>1, <2>2, <2>3
<1> QED BY <1>1, <1>2 DEF Positions, RightAbout, Agrees

\* reveal_prefix: the revealed cards are the next draws of the pile.
LEMMA RevealPrefixIsRight ==
  ASSUME NEW record, Positions(record), NEW s, RightAbout(record, s),
         NEW k \in 0..Len(s)
  PROVE  /\ Positions(RevealPrefix(record, TopOf(s, k)))
         /\ RightAbout(RevealPrefix(record, TopOf(s, k)), s)
<1> DEFINE top == TopOf(s, k)
<1>1. /\ Len(s) \in Nat /\ k \in Nat /\ Len(top) = k
      /\ \A i \in 1..k : top[i] = s[Len(s) + 1 - i]
  BY TopAndRest, SeqLen DEF RightAbout
<1> HIDE DEF top
<1>2. ASSUME NEW e \in RevealPrefix(record, top)
      PROVE  e[1] \in Nat /\ e[1] < Len(s) /\ s[Len(s) - e[1]] = e[2]
  <2>1. e \in record \/ \E i \in 1..k : e = <<i - 1, top[i]>>
    BY <1>1, <1>2 DEF RevealPrefix
  <2>2. CASE e \in record
    BY <2>2 DEF Positions, RightAbout, Agrees
  <2>3. ASSUME NEW i \in 1..k, e = <<i - 1, top[i]>>
        PROVE  e[1] \in Nat /\ e[1] < Len(s) /\ s[Len(s) - e[1]] = e[2]
    <3>1. e[1] = i - 1 /\ e[2] = s[Len(s) + 1 - i] /\ k <= Len(s)
      BY <1>1, <2>3
    <3>2. Len(s) - e[1] = Len(s) + 1 - i
      BY <1>1, <3>1
    <3> QED BY <1>1, <3>1, <3>2
  <2> QED BY <2>1, <2>2, <2>3
<1> QED BY <1>2 DEF Positions, RightAbout, Agrees, top

------------------------------------------------------------------------------
(* The invariant *)

\* The real pile is possible, and the record is right about every possible one.
KnowledgeRight ==
  /\ Positions(known)
  /\ drawPile \in possible
  /\ \A s \in possible : RightAbout(known, s) /\ Len(s) = Len(drawPile)

IsScreen(d) ==
  /\ d = [purpose |-> d.purpose, source |-> d.source, held |-> d.held,
          selectable |-> d.selectable, selected |-> d.selected,
          pending |-> d.pending]
  /\ IsSeq(d.selected)

\* The piles that reach the draw pile are sequences.
Shapes == IsSeq(hand) /\ IsSeq(discardPile) /\ IsScreen(decision)

\* The inductive invariant.
IInv == KnowledgeRight /\ Shapes

------------------------------------------------------------------------------
(* The public events *)

LEMMA NoEvent ==
  ASSUME KnowledgeRight, UNCHANGED <<drawPile, known, possible>>
  PROVE  KnowledgeRight'
BY DEF KnowledgeRight

LEMMA TopEvent ==
  ASSUME KnowledgeRight, NEW c, PutOnTop(c)
  PROVE  KnowledgeRight'
<1>1. \A s \in possible : /\ RightAbout(known, s)
                          /\ IsSeq(s)
                          /\ Len(s) = Len(drawPile)
  BY DEF KnowledgeRight, RightAbout
<1>2. \A s \in possible : /\ RightAbout(InsertTop(known, c), Append(s, c))
                          /\ Len(Append(s, c)) = Len(drawPile) + 1
  BY <1>1, InsertTopIsRight, AppendIsSeq DEF KnowledgeRight
<1>3. Positions(InsertTop(known, c)) /\ Append(drawPile, c) \in possible'
  BY <1>1, InsertTopIsRight DEF KnowledgeRight, PutOnTop, AfterPushTop
<1>4. Len(drawPile') = Len(drawPile) + 1
  BY <1>2 DEF KnowledgeRight, PutOnTop
<1> QED BY <1>2, <1>3, <1>4 DEF KnowledgeRight, PutOnTop, AfterPushTop

LEMMA BottomEvent ==
  ASSUME KnowledgeRight, NEW c, PutOnBottom(c)
  PROVE  KnowledgeRight'
<1> DEFINE recorded == InsertBottom(known, c, Len(drawPile) + 1)
<1>1. \A s \in possible : /\ RightAbout(known, s)
                          /\ IsSeq(s)
                          /\ Len(s) = Len(drawPile)
  BY DEF KnowledgeRight, RightAbout
<1>2. \A s \in possible : /\ Positions(recorded)
                          /\ RightAbout(recorded, <<c>> \o s)
  <2> TAKE s \in possible
  <2>1. /\ Positions(InsertBottom(known, c, Len(s) + 1))
        /\ RightAbout(InsertBottom(known, c, Len(s) + 1), <<c>> \o s)
    BY <1>1, InsertBottomIsRight DEF KnowledgeRight
  <2> QED BY <1>1, <2>1
<1>3. \A s \in possible : Len(<<c>> \o s) = 1 + Len(drawPile)
  BY <1>1, SingletonIsSeq, ConcatIsSeq
<1>4. /\ known' = recorded
      /\ drawPile' = <<c>> \o drawPile
      /\ possible' = {<<c>> \o s : s \in possible}
  BY DEF PutOnBottom, AfterPushBottom
<1>5. drawPile \in possible
  BY DEF KnowledgeRight
<1> HIDE DEF recorded
<1> QED BY <1>2, <1>3, <1>4, <1>5 DEF KnowledgeRight

\* A shuffle, an insertion or a removal at an unknown place empties the record.
LEMMA ForgetEvent ==
  ASSUME known' = Nothing, drawPile' \in possible',
         \A s \in possible' : IsSeq(s) /\ Len(s) = Len(drawPile')
  PROVE  KnowledgeRight'
BY NothingIsRight DEF KnowledgeRight

LEMMA RemovalEvent ==
  ASSUME KnowledgeRight, NEW R, known' = Nothing,
         drawPile' = Dropping(drawPile, R),
         possible' = AfterRemoval(possible, R, Len(drawPile'))
  PROVE  KnowledgeRight'
<1>1. \A s \in possible : IsSeq(Dropping(s, R))
  BY DroppingIsSeq DEF KnowledgeRight, RightAbout
<1> QED BY <1>1, ForgetEvent DEF KnowledgeRight, AfterRemoval

\* The k next cards are drawn, whatever is done with them.
LEMMA DrawEvent ==
  ASSUME KnowledgeRight, NEW k \in 0..Len(drawPile),
         drawPile' = DropTop(drawPile, k), known' = RemoveTop(known, k),
         possible' = AfterDraw(possible, TopOf(drawPile, k))
  PROVE  KnowledgeRight'
<1>1. \A s \in possible : /\ RightAbout(known, s)
                          /\ IsSeq(s)
                          /\ Len(s) = Len(drawPile)
  BY DEF KnowledgeRight, RightAbout
<1>2. drawPile \in possible /\ Len(TopOf(drawPile, k)) = k
  BY <1>1, TopAndRest DEF KnowledgeRight
<1>3. possible' = {DropTop(s, k) : s \in {t \in possible :
                      k <= Len(t) /\ TopOf(t, k) = TopOf(drawPile, k)}}
  BY <1>2 DEF AfterDraw, AfterReveal
<1>4. drawPile' \in possible'
  <2>1. k <= Len(drawPile)
    BY <1>1, <1>2, SeqLen
  <2> QED BY <1>2, <1>3, <2>1
<1>5. \A s \in possible : /\ Positions(RemoveTop(known, k))
                          /\ RightAbout(RemoveTop(known, k), DropTop(s, k))
                          /\ Len(DropTop(s, k)) = Len(drawPile) - k
  BY <1>1, RemoveTopIsRight, TopAndRest DEF KnowledgeRight
<1> QED BY <1>2, <1>3, <1>4, <1>5 DEF KnowledgeRight

LEMMA RevealEvent ==
  ASSUME KnowledgeRight, NEW k \in 0..Len(drawPile), UNCHANGED drawPile,
         known' = RevealPrefix(known, TopOf(drawPile, k)),
         possible' = AfterReveal(possible, TopOf(drawPile, k))
  PROVE  KnowledgeRight'
<1>1. \A s \in possible : /\ RightAbout(known, s)
                          /\ IsSeq(s)
                          /\ Len(s) = Len(drawPile)
  BY DEF KnowledgeRight, RightAbout
<1>2. drawPile \in possible /\ Len(TopOf(drawPile, k)) = k
  BY <1>1, TopAndRest DEF KnowledgeRight
<1>3. possible' = {t \in possible :
                      k <= Len(t) /\ TopOf(t, k) = TopOf(drawPile, k)}
  BY <1>2 DEF AfterReveal
<1>4. drawPile' \in possible'
  <2>1. k <= Len(drawPile)
    BY <1>1, <1>2, SeqLen
  <2> QED BY <1>2, <1>3, <2>1
<1>5. \A s \in possible' : /\ Positions(RevealPrefix(known, TopOf(s, k)))
                           /\ RightAbout(RevealPrefix(known, TopOf(s, k)), s)
  BY <1>1, <1>3, RevealPrefixIsRight DEF KnowledgeRight
<1> QED BY <1>1, <1>3, <1>4, <1>5 DEF KnowledgeRight

------------------------------------------------------------------------------
(* Screens and drawing *)

LEMMA ScreenIsScreen ==
  ASSUME NEW purpose, NEW source, NEW held, NEW selectable
  PROVE  IsScreen(Screen(purpose, source, held, selectable))
BY EmptyIsSeq DEF IsScreen, Screen

LEMMA ShowsScreen ==
  ASSUME NEW screen, IsScreen(screen), NEW left, GoOn(screen, left)
  PROVE  IsScreen(decision')
<1>1. CASE decision' = screen
  BY <1>1
<1>2. CASE decision' = [screen EXCEPT !.pending = @ \o left]
  BY <1>2 DEF IsScreen
<1> QED BY <1>1, <1>2 DEF GoOn

LEMMA ProceedKeepsScreen ==
  ASSUME Shapes, Proceed
  PROVE  IsScreen(decision')
BY ShowsScreen DEF Shapes, Proceed

LEMMA CloseClosesScreen ==
  ASSUME NEW work, Close(work)
  PROVE  IsScreen(decision')
BY ScreenIsScreen DEF Close, NoScreen

LEMMA SelectKeepsScreen ==
  ASSUME Shapes, NEW selected, IsSeq(selected), Select(selected)
  PROVE  IsScreen(decision')
BY DEF Shapes, IsScreen, Select

LEMMA WithoutIsSeq ==
  ASSUME NEW s, IsSeq(s), NEW c
  PROVE  IsSeq(Without(s, c)) /\ Len(Without(s, c)) \in Nat
BY DroppingIsSeq, SeqLen DEF Without

\* draw_cards_batch_in_place, the shuffle of the discard pile included.
LEMMA DrawKeeps ==
  ASSUME IInv, NEW n \in Nat, NEW base, IsSeq(base), NEW occupied \in Nat,
         NEW tail, IsSeq(tail), Draw(n, base, occupied, tail)
  PROVE  KnowledgeRight' /\ IsSeq(hand') /\ IsSeq(discardPile')
<1> DEFINE want  == Min2(n, Room(occupied))
           first == Min2(want, Len(drawPile))
           later == Min2(want - first, Len(discardPile))
           shuffles == Orders(ToSet(discardPile), Len(discardPile))
<1>1. /\ IsSeq(drawPile) /\ Len(drawPile) \in Nat
      /\ IsSeq(discardPile) /\ Len(discardPile) \in Nat
  BY SeqLen DEF IInv, Shapes, KnowledgeRight, RightAbout
<1>2. want \in Nat
  BY SizesAssumption DEF Room, Min2
<1>3. first \in 0..Len(drawPile) /\ want - first \in Nat
  <2> HIDE DEF want
  <2> QED BY <1>1, <1>2 DEF Min2
<1>4. later \in 0..Len(discardPile)
  <2> HIDE DEF want, first
  <2> QED BY <1>1, <1>3 DEF Min2
<1>5. \/ \E order \in shuffles :
           /\ hand' = base \o TopOf(drawPile, first) \o TopOf(order, later) \o tail
           /\ drawPile' = DropTop(order, later)
           /\ discardPile' = <<>>
           /\ known' = RemoveTop(Nothing, later)
           /\ possible' = AfterDraw(shuffles, TopOf(order, later))
      \/ /\ hand' = base \o TopOf(drawPile, first) \o tail
         /\ drawPile' = DropTop(drawPile, first)
         /\ known' = RemoveTop(known, first)
         /\ possible' = AfterDraw(possible, TopOf(drawPile, first))
         /\ UNCHANGED discardPile
  BY DEF Draw
<1> HIDE DEF want, first, later
<1>6. IsSeq(TopOf(drawPile, first))
  BY <1>1, <1>3, TopAndRest
<1>7. ASSUME NEW order \in shuffles,
             hand' = base \o TopOf(drawPile, first) \o TopOf(order, later) \o tail,
             drawPile' = DropTop(order, later),
             discardPile' = <<>>,
             known' = RemoveTop(Nothing, later),
             possible' = AfterDraw(shuffles, TopOf(order, later))
      PROVE  KnowledgeRight' /\ IsSeq(hand') /\ IsSeq(discardPile')
  <2>1. \A s \in shuffles : IsSeq(s) /\ Len(s) = Len(discardPile)
    BY <1>1, OrdersAreSeqs
  <2>2. IsSeq(TopOf(order, later)) /\ Len(TopOf(order, later)) = later
    BY <1>4, <2>1, TopAndRest
  <2>3. IsSeq(hand')
    <3>1. IsSeq(base \o TopOf(drawPile, first))
      BY <1>6, ConcatIsSeq
    <3>2. IsSeq(base \o TopOf(drawPile, first) \o TopOf(order, later))
      BY <2>2, <3>1, ConcatIsSeq
    <3> QED BY <1>7, <3>2, ConcatIsSeq
  <2>4. known' = Nothing
    BY <1>7 DEF RemoveTop, Nothing
  <2>5. \A s \in shuffles : /\ IsSeq(DropTop(s, later))
                            /\ Len(DropTop(s, later)) = Len(discardPile) - later
    BY <1>4, <2>1, TopAndRest
  <2>6. later <= Len(order)
    BY <1>1, <1>4, <2>1
  <2>7. possible' = {DropTop(s, later) : s \in {t \in shuffles :
                        later <= Len(t) /\ TopOf(t, later) = TopOf(order, later)}}
    BY <1>7, <2>2 DEF AfterDraw, AfterReveal
  <2> HIDE DEF shuffles
  <2>8. drawPile' \in possible'
    BY <1>7, <2>6, <2>7
  <2>9. \A s \in possible' : IsSeq(s) /\ Len(s) = Len(drawPile')
    BY <1>7, <2>5, <2>7
  <2> QED BY <1>7, <2>3, <2>4, <2>8, <2>9, ForgetEvent, EmptyIsSeq
<1>8. ASSUME hand' = base \o TopOf(drawPile, first) \o tail,
             drawPile' = DropTop(drawPile, first),
             known' = RemoveTop(known, first),
             possible' = AfterDraw(possible, TopOf(drawPile, first)),
             UNCHANGED discardPile
      PROVE  KnowledgeRight' /\ IsSeq(hand') /\ IsSeq(discardPile')
  <2>1. KnowledgeRight'
    BY <1>3, <1>8, DrawEvent DEF IInv
  <2>2. IsSeq(base \o TopOf(drawPile, first))
    BY <1>6, ConcatIsSeq
  <2>3. IsSeq(hand')
    BY <1>8, <2>2, ConcatIsSeq
  <2> QED BY <1>1, <1>8, <2>1, <2>3
<1> QED BY <1>5, <1>7, <1>8

------------------------------------------------------------------------------
(* Running the queue *)

\* An action that leaves the piles alone and shows nothing new of them.
LEMMA QuietStep ==
  ASSUME IInv, UNCHANGED <<hand, drawPile, discardPile, public>>,
         IsScreen(decision')
  PROVE  IInv'
BY NoEvent DEF IInv, Shapes, public

LEMMA SettlesDiscard ==
  ASSUME IInv, NEW c, SettleSource(c)
  PROVE  IsSeq(discardPile')
BY AppendIsSeq DEF SettleSource, IInv, Shapes

LEMMA EndQueueInv ==
  ASSUME IInv, EndQueue
  PROVE  IInv'
<1>1. IsScreen(decision')
  BY ScreenIsScreen DEF EndQueue, NoScreen, IInv, Shapes
<1> QED BY <1>1, QuietStep DEF EndQueue, piles

LEMMA DealDamageInv ==
  ASSUME IInv, Run_DealDamage
  PROVE  IInv'
<1>1. IsScreen(decision')
  BY ShowsScreen DEF Run_DealDamage, IInv, Shapes
<1> QED BY <1>1, QuietStep DEF Run_DealDamage, piles

LEMMA MoveCardInv ==
  ASSUME IInv, Run_MoveCard
  PROVE  IInv'
<1>1. IsSeq(hand') /\ IsSeq(discardPile')
  BY WithoutIsSeq, SettlesDiscard DEF Run_MoveCard, IInv, Shapes
<1>2. KnowledgeRight'
  BY NoEvent DEF Run_MoveCard, IInv, public
<1> QED BY <1>1, <1>2, ProceedKeepsScreen DEF Run_MoveCard, IInv, Shapes

LEMMA TakeKeeps ==
  ASSUME IInv, NEW c, TakeFromDrawPile(c)
  PROVE  KnowledgeRight' /\ IsSeq(hand') /\ IsSeq(discardPile')
<1>1. KnowledgeRight'
  BY RemovalEvent DEF TakeFromDrawPile, Without, IInv
<1>2. IsSeq(hand') /\ IsSeq(discardPile')
  BY ZenonT(60), AppendIsSeq DEF TakeFromDrawPile, IInv, Shapes
<1> QED BY <1>1, <1>2

LEMMA MoveDrawCardToHandInv ==
  ASSUME IInv, Run_MoveDrawCardToHand
  PROVE  IInv'
BY TakeKeeps, ProceedKeepsScreen DEF Run_MoveDrawCardToHand, IInv, Shapes

LEMMA DrawCardsInv ==
  ASSUME IInv, Run_DrawCards
  PROVE  IInv'
<1>1. Current.n \in Nat
  BY DEF Run_DrawCards, Running, ActionsOf
<1>2. Len(Without(hand, cardInUse)) \in Nat /\ IsSeq(hand)
  BY WithoutIsSeq DEF IInv, Shapes
<1>3. KnowledgeRight' /\ IsSeq(hand') /\ IsSeq(discardPile')
  BY <1>1, <1>2, DrawKeeps, EmptyIsSeq DEF Run_DrawCards
<1> QED BY <1>3, ProceedKeepsScreen DEF Run_DrawCards, IInv, Shapes

LEMMA LimboDrawInv ==
  ASSUME IInv, Run_DrawCardsWhilePlayedCardIsInLimbo
  PROVE  IInv'
<1> DEFINE c    == Current.card
           rest == Without(hand, c)
           tail == IF c \in ToSet(hand) THEN <<c>> ELSE <<>>
<1>1. Current.n \in Nat
  BY DEF Run_DrawCardsWhilePlayedCardIsInLimbo, Running, ActionsOf
<1>2. IsSeq(rest) /\ Len(rest) \in Nat
  BY WithoutIsSeq DEF IInv, Shapes
<1>3. IsSeq(tail)
  BY SingletonIsSeq, EmptyIsSeq
<1>4. Draw(Current.n, rest, Len(rest), tail) /\ Proceed
  BY DEF Run_DrawCardsWhilePlayedCardIsInLimbo
<1> HIDE DEF rest, tail
<1>5. KnowledgeRight' /\ IsSeq(hand') /\ IsSeq(discardPile')
  BY <1>1, <1>2, <1>3, <1>4, DrawKeeps
<1> QED BY <1>4, <1>5, ProceedKeepsScreen DEF IInv, Shapes

LEMMA DeepBreathShuffleInv ==
  ASSUME IInv, Run_DeepBreathShuffle
  PROVE  IInv'
<1> DEFINE n == Len(drawPile) + Len(discardPile)
           shuffles == Orders(ToSet(drawPile) \union ToSet(discardPile), n)
<1>1. n \in Nat
  BY SeqLen DEF IInv, Shapes, KnowledgeRight, RightAbout
<1>2. IsScreen(decision')
  BY ProceedKeepsScreen DEF Run_DeepBreathShuffle, IInv
<1>3. CASE discardPile = <<>>
  BY <1>2, <1>3, QuietStep DEF Run_DeepBreathShuffle
<1>4. CASE discardPile # <<>>
  <2>1. /\ drawPile' \in shuffles /\ possible' = shuffles
        /\ known' = Nothing /\ discardPile' = <<>> /\ hand' = hand
    BY <1>4 DEF Run_DeepBreathShuffle
  <2>2. \A s \in shuffles : IsSeq(s) /\ Len(s) = n
    <3> HIDE DEF n
    <3> QED BY <1>1, OrdersAreSeqs
  <2> HIDE DEF shuffles, n
  <2> QED BY <1>2, <2>1, <2>2, ForgetEvent, EmptyIsSeq DEF IInv, Shapes
<1> QED BY <1>3, <1>4

LEMMA RandomSpotInv ==
  ASSUME IInv, Run_AddGeneratedCardToDrawPileRandomSpot
  PROVE  IInv'
<1>1. /\ IsScreen(decision')
      /\ UNCHANGED <<hand, discardPile>>
  BY ProceedKeepsScreen DEF Run_AddGeneratedCardToDrawPileRandomSpot, IInv
<1>2. CASE ~monstersAlive
  BY <1>1, <1>2, QuietStep DEF Run_AddGeneratedCardToDrawPileRandomSpot
<1>3. CASE monstersAlive /\ drawPile = <<>>
  <2>1. PutOnTop(NextCardInstanceId)
    BY <1>3 DEF Run_AddGeneratedCardToDrawPileRandomSpot
  <2> QED BY <1>1, <2>1, TopEvent DEF IInv, Shapes
<1>4. CASE monstersAlive /\ drawPile # <<>>
  <2> DEFINE c == NextCardInstanceId
  <2>1. PICK i \in 1..Len(drawPile) :
          /\ drawPile' = InsertAt(drawPile, i, c)
          /\ known' = Nothing
          /\ possible' = AfterRandomInsert(possible, c)
    BY <1>4 DEF Run_AddGeneratedCardToDrawPileRandomSpot, RandomSpots
  <2> HIDE DEF c
  <2>2. \A s \in possible : /\ IsSeq(s)
                            /\ Len(s) = Len(drawPile)
                            /\ RandomSpots(s) = 1..Len(drawPile)
    <3>1. \A s \in possible : IsSeq(s) /\ Len(s) = Len(drawPile)
      BY DEF IInv, KnowledgeRight, RightAbout
    <3>2. Len(drawPile) # 0
      BY <2>1
    <3> QED BY <3>1, <3>2, EmptyIsSeq DEF RandomSpots
  <2>3. drawPile \in possible
    BY DEF IInv, KnowledgeRight
  <2>4. possible' = {InsertAt(s, j, c) : s \in possible, j \in 1..Len(drawPile)}
    BY <2>1, <2>2 DEF AfterRandomInsert
  <2>5. \A s \in possible, j \in 1..Len(drawPile) :
          /\ IsSeq(InsertAt(s, j, c))
          /\ Len(InsertAt(s, j, c)) = Len(drawPile) + 1
    BY <2>2, InsertAtIsSeq
  <2>6. /\ drawPile' \in possible'
        /\ \A s \in possible' : IsSeq(s) /\ Len(s) = Len(drawPile) + 1
    BY <2>1, <2>3, <2>4, <2>5
  <2>7. KnowledgeRight'
    BY <2>1, <2>6, ForgetEvent
  <2> QED BY <1>1, <2>7 DEF IInv, Shapes
<1> QED BY <1>2, <1>3, <1>4

LEMMA ForethoughtAutoMoveInv ==
  ASSUME IInv, Run_ForethoughtAutoMove
  PROVE  IInv'
<1>1. PICK other : PutOnBottom(other)
  BY DEF Run_ForethoughtAutoMove
<1>2. KnowledgeRight'
  BY <1>1, BottomEvent DEF IInv
<1>3. IsSeq(hand') /\ IsSeq(discardPile') /\ IsScreen(decision')
  BY EmptyIsSeq, SettlesDiscard, ProceedKeepsScreen
     DEF Run_ForethoughtAutoMove, IInv
<1> QED BY <1>2, <1>3 DEF IInv, Shapes

LEMMA AwaitHandSelectInv ==
  ASSUME IInv, Run_AwaitHandSelect_Open \/ Run_AwaitHandSelect_Auto
  PROVE  IInv'
<1>1. CASE Run_AwaitHandSelect_Open
  <2>1. IsSeq(hand') /\ UNCHANGED <<drawPile, discardPile, public>>
    BY <1>1, WithoutIsSeq DEF Run_AwaitHandSelect_Open, IInv, Shapes
  <2>2. IsScreen(decision')
    BY <1>1, ScreenIsScreen, ShowsScreen DEF Run_AwaitHandSelect_Open, Show
  <2>3. KnowledgeRight'
    BY <2>1, NoEvent DEF IInv, public
  <2> QED BY <2>1, <2>2, <2>3 DEF IInv, Shapes
<1>2. CASE Run_AwaitHandSelect_Auto
  <2>1. /\ hand' = <<>> /\ SettleSource(Current.card) /\ Proceed
        /\ \/ UNCHANGED <<drawPile, public>>
           \/ \E c : PutOnTop(c)
    BY <1>2 DEF Run_AwaitHandSelect_Auto
  <2>2. KnowledgeRight'
    BY <2>1, NoEvent, TopEvent DEF IInv, public
  <2> QED BY <2>1, <2>2, EmptyIsSeq, SettlesDiscard, ProceedKeepsScreen
          DEF IInv, Shapes
<1> QED BY <1>1, <1>2

LEMMA AwaitDrawSelectInv ==
  ASSUME IInv, Run_AwaitDrawSelect
  PROVE  IInv'
<1> DEFINE k == Min2(ScryCount, Len(drawPile))
<1>1. IsSeq(hand') /\ UNCHANGED <<drawPile, discardPile>>
  BY WithoutIsSeq DEF Run_AwaitDrawSelect, IInv, Shapes
<1>2. IsScreen(decision')
  <2>1. \E purpose, source, held, selectable :
          Show(Screen(purpose, source, held, selectable))
    BY DEF Run_AwaitDrawSelect
  <2> QED BY <2>1, ScreenIsScreen, ShowsScreen DEF Show
<1>3. k \in 0..Len(drawPile)
  BY SizesAssumption, SeqLen DEF Min2, IInv, KnowledgeRight, RightAbout
<1>4. \/ UNCHANGED public
      \/ /\ known' = RevealPrefix(known, TopOf(drawPile, k))
         /\ possible' = AfterReveal(possible, TopOf(drawPile, k))
  BY DEF Run_AwaitDrawSelect
<1> HIDE DEF k
<1>5. KnowledgeRight'
  BY <1>1, <1>3, <1>4, NoEvent, RevealEvent DEF IInv, public
<1> QED BY <1>1, <1>2, <1>5 DEF IInv, Shapes

LEMMA AwaitDiscardSelectInv ==
  ASSUME IInv, Run_AwaitDiscardSelect
  PROVE  IInv'
<1>1. /\ IsSeq(hand')
      /\ \/ PutOnTop(discardPile[1]) \/ UNCHANGED <<drawPile, public>>
      /\ \/ discardPile' = <<Current.card>>
         \/ discardPile' = Append(discardPile, Current.card)
         \/ discardPile' = discardPile
      /\ Proceed \/ Show(Screen("Headbutt", Current.card, TRUE, {}))
  BY WithoutIsSeq DEF Run_AwaitDiscardSelect, IInv, Shapes
<1>2. KnowledgeRight'
  BY <1>1, NoEvent, TopEvent DEF IInv, public
<1>3. IsSeq(discardPile')
  <2>1. IsSeq(discardPile)
    BY DEF IInv, Shapes
  <2>2. IsSeq(Append(discardPile, Current.card)) /\ IsSeq(<<Current.card>>)
    BY <2>1, AppendIsSeq, SingletonIsSeq
  <2> QED BY <1>1, <2>1, <2>2
<1>4. IsScreen(decision')
  BY <1>1, ProceedKeepsScreen, ScreenIsScreen, ShowsScreen DEF Show, IInv
<1> QED BY <1>1, <1>2, <1>3, <1>4 DEF IInv, Shapes

LEMMA AwaitExhaustSelectInv ==
  ASSUME IInv, Run_AwaitExhaustSelect
  PROVE  IInv'
<1>1. /\ IsSeq(hand')
      /\ discardPile' = Append(discardPile, Current.card) \/ UNCHANGED discardPile
      /\ Proceed \/ Show(Screen("TrueGrit", Current.card, TRUE, {}))
      /\ UNCHANGED <<drawPile, public>>
  BY WithoutIsSeq, EmptyIsSeq DEF Run_AwaitExhaustSelect, IInv, Shapes
<1>2. KnowledgeRight'
  BY <1>1, NoEvent DEF IInv, public
<1>3. IsSeq(discardPile')
  <2>1. IsSeq(discardPile)
    BY DEF IInv, Shapes
  <2>2. IsSeq(Append(discardPile, Current.card))
    BY <2>1, AppendIsSeq
  <2> QED BY <1>1, <2>1, <2>2
<1>4. IsScreen(decision')
  BY <1>1, ProceedKeepsScreen, ScreenIsScreen, ShowsScreen DEF Show, IInv
<1> QED BY <1>1, <1>2, <1>3, <1>4 DEF IInv, Shapes

LEMMA OpenPotionScreenInv ==
  ASSUME IInv, \/ Run_OpenElixirSelection \/ Run_OpenGamblersBrewSelection
               \/ Run_OpenPotionCardReward
  PROVE  IInv'
<1>1. /\ UNCHANGED <<piles, public>>
      /\ \/ Proceed
         \/ \E purpose : Show(Screen(purpose, None, FALSE, {}))
  BY DEF Run_OpenElixirSelection, Run_OpenGamblersBrewSelection,
         Run_OpenPotionCardReward, OpenPotionSelection
<1>2. IsScreen(decision')
  BY <1>1, ProceedKeepsScreen, ScreenIsScreen, ShowsScreen DEF Show, IInv
<1> QED BY <1>1, <1>2, QuietStep DEF piles

LEMMA SettleSourceInv ==
  ASSUME IInv, Run_SettleHandSource \/ Run_MoveDrawSelectSource
  PROVE  IInv'
<1>1. /\ SettleSource(Current.card) /\ Proceed
      /\ UNCHANGED <<hand, drawPile, public>>
  BY DEF Run_SettleHandSource, Run_MoveDrawSelectSource
<1>2. KnowledgeRight'
  BY <1>1, NoEvent DEF IInv, public
<1> QED BY <1>1, <1>2, SettlesDiscard, ProceedKeepsScreen DEF IInv, Shapes

LEMMA RunQueueInv ==
  ASSUME IInv, RunQueue
  PROVE  IInv'
BY EndQueueInv, DealDamageInv, MoveCardInv, MoveDrawCardToHandInv, DrawCardsInv,
   LimboDrawInv, DeepBreathShuffleInv, RandomSpotInv, ForethoughtAutoMoveInv,
   AwaitHandSelectInv, AwaitDrawSelectInv, AwaitDiscardSelectInv,
   AwaitExhaustSelectInv, OpenPotionScreenInv, SettleSourceInv
   DEF RunQueue

------------------------------------------------------------------------------
(* Player commands *)

LEMMA PlayCardInv ==
  ASSUME IInv, NEW c, PlayCard(c)
  PROVE  IInv'
BY QuietStep DEF PlayCard, piles, IInv, Shapes

LEMMA EndTurnInv ==
  ASSUME IInv, EndTurn
  PROVE  IInv'
<1>1. IsSeq(hand') /\ IsSeq(discardPile')
  BY EmptyIsSeq, ReverseIsSeq, ConcatIsSeq DEF EndTurn, IInv, Shapes
<1>2. KnowledgeRight'
  BY NoEvent DEF EndTurn, IInv, public
<1> QED BY <1>1, <1>2 DEF EndTurn, IInv, Shapes

LEMMA UseQueuedPotionInv ==
  ASSUME IInv, NEW p, UseQueuedPotion(p)
  PROVE  IInv'
<1>1. UNCHANGED decision \/ \E a : decision' = [decision EXCEPT !.pending = a]
  BY DEF UseQueuedPotion, QueuePotionAction
<1>2. IsScreen(decision')
  BY <1>1 DEF IInv, Shapes, IsScreen
<1> QED BY <1>2, QuietStep DEF UseQueuedPotion, piles

LEMMA UseFirePotionInv ==
  ASSUME IInv, UseFirePotion
  PROVE  IInv'
<1>1. IsScreen(decision')
  BY ScreenIsScreen DEF UseFirePotion, NoScreen, IInv, Shapes
<1> QED BY <1>1, QuietStep DEF UseFirePotion, piles

LEMMA UseLiquidMemoriesInv ==
  ASSUME IInv, UseLiquidMemories
  PROVE  IInv'
<1>1. IsSeq(hand) /\ IsSeq(discardPile)
  BY DEF IInv, Shapes
<1>2. IsSeq(hand') /\ IsSeq(discardPile')
  BY <1>1, EmptyIsSeq, ConcatIsSeq DEF UseLiquidMemories, Returned
<1>3. IsScreen(decision')
  BY ScreenIsScreen DEF UseLiquidMemories, IInv, Shapes
<1>4. KnowledgeRight'
  BY NoEvent DEF UseLiquidMemories, IInv, public
<1> QED BY <1>2, <1>3, <1>4 DEF IInv, Shapes

\* Toggling or replacing what is selected.
LEMMA ChooseInv ==
  ASSUME IInv, NEW i,
         ChooseHandSelect(i) \/ ChooseScry(i) \/ ChooseExhaustSelect(i)
  PROVE  IInv'
<1>1. IsSeq(decision.selected)
  BY DEF IInv, Shapes, IsScreen
<1>2. IsSeq(Toggled(i)) /\ IsSeq(<<i>>)
  BY <1>1, WithoutIsSeq, AppendIsSeq, SingletonIsSeq DEF Toggled
<1>3. /\ Select(<<i>>) \/ Select(Toggled(i))
      /\ UNCHANGED <<piles, public>>
  BY DEF ChooseHandSelect, ChooseScry, ChooseExhaustSelect
<1>4. IsScreen(decision')
  BY <1>2, <1>3, SelectKeepsScreen DEF IInv
<1> QED BY <1>3, <1>4, QuietStep DEF piles

LEMMA ConfirmHandSelectInv ==
  ASSUME IInv, ConfirmHandSelect
  PROVE  IInv'
<1>1. PICK c : /\ hand' = Without(hand, c)
               /\ PutOnTop(c) \/ PutOnBottom(c)
  BY DEF ConfirmHandSelect
<1>2. IsSeq(hand')
  BY <1>1, WithoutIsSeq DEF IInv, Shapes
<1>3. KnowledgeRight'
  BY <1>1, TopEvent, BottomEvent DEF IInv
<1>4. IsScreen(decision')
  BY CloseClosesScreen DEF ConfirmHandSelect
<1> QED BY <1>2, <1>3, <1>4 DEF ConfirmHandSelect, IInv, Shapes

LEMMA ChooseSecretTechniqueInv ==
  ASSUME IInv, NEW c, ChooseSecretTechnique(c)
  PROVE  IInv'
BY TakeKeeps, CloseClosesScreen DEF ChooseSecretTechnique, IInv, Shapes

LEMMA ConfirmScryInv ==
  ASSUME IInv, ConfirmScry
  PROVE  IInv'
<1>1. IsSeq(decision.selected) /\ IsSeq(discardPile)
  BY DEF IInv, Shapes, IsScreen
<1>2. IsSeq(discardPile \o decision.selected)
  BY <1>1, ConcatIsSeq
<1>3. IsSeq(discardPile')
  BY <1>2, AppendIsSeq DEF ConfirmScry
<1>4. KnowledgeRight'
  <2> DEFINE chosen == ToSet(decision.selected)
  <2>1. CASE chosen = {}
    BY <2>1, NoEvent DEF ConfirmScry, IInv, public
  <2>2. CASE chosen # {}
    <3>1. /\ drawPile' = Dropping(drawPile, chosen)
          /\ known' = Nothing
          /\ possible' = AfterRemoval(possible, chosen, Len(drawPile'))
      BY <2>2 DEF ConfirmScry
    <3> HIDE DEF chosen
    <3> QED BY <3>1, RemovalEvent DEF IInv
  <2> QED BY <2>1, <2>2
<1>5. IsScreen(decision') /\ UNCHANGED hand
  BY CloseClosesScreen DEF ConfirmScry
<1> QED BY <1>3, <1>4, <1>5 DEF IInv, Shapes

LEMMA ChooseHeadbuttInv ==
  ASSUME IInv, NEW i, ChooseHeadbutt(i)
  PROVE  IInv'
<1>1. IsSeq(RemoveAt(discardPile, i))
  BY RemoveAtIsSeq DEF ChooseHeadbutt, IInv, Shapes
<1>2. IsSeq(discardPile')
  BY <1>1, AppendIsSeq DEF ChooseHeadbutt
<1>3. KnowledgeRight'
  BY TopEvent DEF ChooseHeadbutt, IInv
<1>4. IsScreen(decision') /\ UNCHANGED hand
  BY CloseClosesScreen DEF ChooseHeadbutt
<1> QED BY <1>2, <1>3, <1>4 DEF IInv, Shapes

LEMMA ChooseLiquidMemoriesInv ==
  ASSUME IInv, NEW i, ChooseLiquidMemories(i)
  PROVE  IInv'
<1>1. IsSeq(hand) /\ IsSeq(discardPile) /\ i \in DOMAIN discardPile
  BY DEF ChooseLiquidMemories, IInv, Shapes
<1>2. IsSeq(RemoveAt(discardPile, i)) /\ IsSeq(hand \o <<discardPile[i]>>)
  BY <1>1, RemoveAtIsSeq, SingletonIsSeq, ConcatIsSeq
<1>3. IsSeq(hand') /\ IsSeq(discardPile')
  BY <1>1, <1>2 DEF ChooseLiquidMemories, Returned
<1>4. IsScreen(decision') /\ UNCHANGED <<drawPile, public>>
  BY CloseClosesScreen DEF ChooseLiquidMemories
<1>5. KnowledgeRight'
  BY <1>4, NoEvent DEF IInv, public
<1> QED BY <1>3, <1>4, <1>5 DEF IInv, Shapes

\* True Grit, Elixir and Gambler's Brew: cards leave the hand.
LEMMA ConfirmExhaustSelectInv ==
  ASSUME IInv, ConfirmTrueGrit \/ ConfirmElixir \/ ConfirmGamblingChip
  PROVE  IInv'
<1>1. IsSeq(hand) /\ IsSeq(discardPile) /\ IsSeq(decision.selected)
  BY DEF IInv, Shapes, IsScreen
<1>2. IsSeq(Chosen)
  <2>1. Chosen = [k \in 1..Len(decision.selected) |-> Chosen[k]]
    BY <1>1, SeqLen DEF Chosen
  <2> QED BY <1>1, <2>1, SeqLen, FunctionIsSeq
<1>3. IsSeq(hand')
  BY <1>1, DroppingIsSeq
     DEF ConfirmTrueGrit, ConfirmElixir, ConfirmGamblingChip, NotChosen
<1>4. IsSeq(discardPile')
  <2>1. \/ discardPile' = discardPile
        \/ discardPile' = Append(discardPile, decision.source)
        \/ discardPile' = discardPile \o Chosen
    BY DEF ConfirmTrueGrit, ConfirmElixir, ConfirmGamblingChip
  <2>2. /\ IsSeq(Append(discardPile, decision.source))
        /\ IsSeq(discardPile \o Chosen)
    BY <1>1, <1>2, AppendIsSeq, ConcatIsSeq
  <2> QED BY <1>1, <2>1, <2>2
<1>5. IsScreen(decision') /\ UNCHANGED <<drawPile, public>>
  BY CloseClosesScreen DEF ConfirmTrueGrit, ConfirmElixir, ConfirmGamblingChip
<1>6. KnowledgeRight'
  BY <1>5, NoEvent DEF IInv, public
<1> QED BY <1>3, <1>4, <1>5, <1>6 DEF IInv, Shapes

LEMMA CombatCardRewardInv ==
  ASSUME IInv, ChooseCombatCardReward \/ SkipCombatCardReward
  PROVE  IInv'
<1>1. IsScreen(decision') /\ UNCHANGED <<drawPile, discardPile, public>>
  BY CloseClosesScreen DEF ChooseCombatCardReward, SkipCombatCardReward, piles
<1>2. IsSeq(hand')
  BY ZenonT(60), AppendIsSeq
     DEF ChooseCombatCardReward, SkipCombatCardReward, piles, IInv, Shapes
<1>3. KnowledgeRight'
  BY <1>1, NoEvent DEF IInv, public
<1> QED BY <1>1, <1>2, <1>3 DEF IInv, Shapes

LEMMA CommandInv ==
  ASSUME IInv, Command
  PROVE  IInv'
BY PlayCardInv, EndTurnInv, UseQueuedPotionInv, UseFirePotionInv,
   UseLiquidMemoriesInv, ChooseInv, ConfirmHandSelectInv,
   ChooseSecretTechniqueInv, ConfirmScryInv, ChooseHeadbuttInv,
   ChooseLiquidMemoriesInv, ConfirmExhaustSelectInv, CombatCardRewardInv
   DEF Command

------------------------------------------------------------------------------
(* The theorems *)

LEMMA InitInv == Init => IInv
<1> SUFFICES ASSUME Init PROVE IInv
  OBVIOUS
<1> DEFINE n == Len(Deck)
           orders == Orders(1..n, n)
           dealt == Min2(HandSize, n)
<1>1. n \in Nat /\ dealt \in 0..n
  BY DeckAssumption, SizesAssumption DEF Min2
<1>2. PICK order \in orders :
        /\ hand = TopOf(order, dealt)
        /\ drawPile = DropTop(order, dealt)
        /\ possible = AfterDraw(orders, hand)
        /\ discardPile = <<>>
        /\ known = {}
        /\ decision = NoScreen
  BY DEF Init, Deal
<1>3. \A s \in orders : IsSeq(s) /\ Len(s) = n
  BY <1>1, OrdersAreSeqs
<1> HIDE DEF orders, n, dealt
<1>4. IsSeq(hand) /\ Len(hand) = dealt
  BY <1>1, <1>2, <1>3, TopAndRest
<1>5. possible = {DropTop(s, dealt) : s \in {t \in orders :
                     dealt <= Len(t) /\ TopOf(t, dealt) = hand}}
  BY <1>2, <1>4 DEF AfterDraw, AfterReveal
<1>6. drawPile \in possible
  BY <1>1, <1>2, <1>3, <1>5
<1>7. \A s \in orders : /\ IsSeq(DropTop(s, dealt))
                        /\ Len(DropTop(s, dealt)) = n - dealt
  BY <1>1, <1>3, TopAndRest
<1>8. KnowledgeRight
  BY <1>2, <1>5, <1>6, <1>7, NothingIsRight DEF KnowledgeRight, Nothing
<1> QED BY <1>2, <1>4, <1>8, EmptyIsSeq, ScreenIsScreen
        DEF IInv, Shapes, NoScreen

LEMMA NextInv == IInv /\ [Next]_vars => IInv'
<1> SUFFICES ASSUME IInv, [Next]_vars PROVE IInv'
  OBVIOUS
<1>1. CASE RunQueue
  BY <1>1, RunQueueInv
<1>2. CASE Command
  BY <1>2, CommandInv
<1>3. CASE UNCHANGED vars
  BY <1>3, QuietStep DEF vars, piles, IInv, Shapes
<1> QED BY <1>1, <1>2, <1>3 DEF Next, CombatOver

\* The record and the possible orders keep their inductive invariant.
THEOREM Invariance == Spec => []IInv
<1> QED BY InitInv, NextInv, PTL DEF Spec

\* The fair record of draw positions never says more than the public history.
THEOREM RecordNeverLeaks == Spec => []KnowledgeNeverLeaks
<1>1. IInv => KnowledgeNeverLeaks
  BY DEF IInv, KnowledgeRight, RightAbout, KnowledgeNeverLeaks
<1> QED BY <1>1, Invariance, PTL

\* The record and the draw pile, updated by separate calls, never part.
THEOREM RecordIsSound == Spec => []KnowledgeSound
<1>1. IInv => KnowledgeSound
  BY DEF IInv, KnowledgeRight, RightAbout, KnowledgeSound
<1> QED BY <1>1, Invariance, PTL

\* The public history that RecordNeverLeaks is about is never wrong: the real
\* pile is one of the orders it leaves open.
THEOREM HistoryIsTrue == Spec => []TruthPossible
<1>1. IInv => TruthPossible
  BY DEF IInv, KnowledgeRight, TruthPossible
<1> QED BY <1>1, Invariance, PTL

------------------------------------------------------------------------------
(***************************************************************************)
(* The types of CombatSelect for any deck and any sizes.  Piles hold cards *)
(* only if a choice denotes a card and a source is a card, so the argument *)
(* needs more than types: while anything is chosen no work is in progress, *)
(* hence nothing shortens the pile that the choice is about.               *)
(***************************************************************************)

(* Piles and their pieces *)

LEMMA TopType ==
  ASSUME NEW S, NEW s \in Seq(S), NEW k \in 0..Len(s)
  PROVE  TopOf(s, k) \in Seq(S) /\ Len(TopOf(s, k)) = k
         /\ DropTop(s, k) \in Seq(S)
<1>1. TopOf(s, k) \in [1..k -> S]
  BY DEF TopOf
<1> QED BY <1>1 DEF DropTop

LEMMA OrdersType ==
  ASSUME NEW T, NEW S \in SUBSET T, NEW n \in Nat, NEW s \in Orders(S, n)
  PROVE  s \in Seq(T) /\ Len(s) = n
<1>1. s \in [1..n -> T]
  BY DEF Orders
<1> QED BY <1>1

LEMMA PiecesType ==
  ASSUME NEW S, NEW s \in Seq(S)
  PROVE  /\ Reverse(s) \in Seq(S)
         /\ \A i \in DOMAIN s : s[i] \in S /\ RemoveAt(s, i) \in Seq(S)
         /\ \A i \in 1..(Len(s) + 1), c \in S : InsertAt(s, i, c) \in Seq(S)
         /\ \A c \in S : Append(s, c) \in Seq(S) /\ <<c>> \o s \in Seq(S)
<1>1. Reverse(s) \in [1..Len(s) -> S]
  BY DEF Reverse
<1>2. Reverse(s) \in Seq(S)
  BY <1>1
<1>3. \A i \in DOMAIN s : s[i] \in S /\ RemoveAt(s, i) \in Seq(S)
  BY DEF RemoveAt
<1>4. \A c \in S : /\ Append(s, c) \in Seq(S) /\ <<c>> \in Seq(S)
                   /\ <<c>> \o s \in Seq(S)
  OBVIOUS
<1>5. ASSUME NEW i \in 1..(Len(s) + 1), NEW c \in S
      PROVE  InsertAt(s, i, c) \in Seq(S)
  <2>1. SubSeq(s, 1, i - 1) \in Seq(S) /\ SubSeq(s, i, Len(s)) \in Seq(S)
    OBVIOUS
  <2>2. SubSeq(s, 1, i - 1) \o <<c>> \in Seq(S)
    BY <1>4, <2>1
  <2> QED BY <2>1, <2>2 DEF InsertAt
<1> QED BY <1>2, <1>3, <1>4, <1>5

------------------------------------------------------------------------------
(* The inductive invariant *)

PileTypes == {hand, discardPile, exhaustPile, limbo} \subseteq Seq(CardIds)

RecordTypes ==
  /\ drawPile \in Seq(CardIds)
  /\ known \subseteq (0..MaxPosition) \X CardIds
  /\ possible \subseteq Seq(CardIds)

RestTypes ==
  /\ content \in [CardIds -> Contents]
  /\ cardInUse \in CardIds \union {None}
  /\ phase \in {"WaitingForPlayer", "Won"}
  /\ monstersAlive \in BOOLEAN
  /\ potions \subseteq Potions
  /\ issued \subseteq CardIds

\* The screens that a played card opens.
Sourced == HandSelects \union DrawSelects \union {"Headbutt", "TrueGrit"}

ScreenType ==
  {d \in [purpose : Purposes \union {"None"}, source : CardIds \union {None},
          held : BOOLEAN, selectable : SUBSET CardIds, selected : Seq(Nat),
          pending : Seq(InternalAction)] :
     d.purpose \in Sourced => d.source \in CardIds}

WorkType == Seq(Seq(InternalAction))

\* What is chosen exists, and nothing runs until the player goes on.
ChoiceHolds ==
  /\ decision.selected # <<>> => frames = <<>> /\ ScreenOpen
  /\ decision.purpose \in HandSelects \union ExhaustSelects =>
       ToSet(decision.selected) \subseteq DOMAIN hand
  /\ decision.purpose = "Scry" => decision.selected \in Seq(CardIds)

DecisionTypes == decision \in ScreenType /\ frames \in WorkType /\ ChoiceHolds

TInv == PileTypes /\ RecordTypes /\ RestTypes /\ DecisionTypes

------------------------------------------------------------------------------
(* The public events *)

LEMMA TopTypes ==
  ASSUME RecordTypes, NEW c \in CardIds, PutOnTop(c)
  PROVE  RecordTypes'
<1>1. drawPile' \in Seq(CardIds) /\ possible' \subseteq Seq(CardIds)
  BY PiecesType DEF RecordTypes, PutOnTop, AfterPushTop
<1>2. ASSUME NEW e \in InsertTop(known, c)
      PROVE  e \in (0..MaxPosition) \X CardIds
  <2>1. \/ e = <<0, c>>
        \/ \E o \in known : e = <<o[1] + 1, o[2]>> /\ e[1] <= MaxPosition
    BY <1>2 DEF InsertTop, ShiftPositions, Forget, Fits
  <2> QED BY <2>1, MaxPositionAssumption DEF RecordTypes
<1> QED BY <1>1, <1>2 DEF RecordTypes, PutOnTop

LEMMA BottomTypes ==
  ASSUME RecordTypes, NEW c \in CardIds, PutOnBottom(c)
  PROVE  RecordTypes'
<1>1. drawPile' \in Seq(CardIds) /\ possible' \subseteq Seq(CardIds)
  BY PiecesType DEF RecordTypes, PutOnBottom, AfterPushBottom
<1>2. InsertBottom(known, c, Len(drawPile) + 1)
        \subseteq (0..MaxPosition) \X CardIds
  BY DEF RecordTypes, InsertBottom, Forget
<1> QED BY <1>1, <1>2 DEF RecordTypes, PutOnBottom

LEMMA ForgetTypes ==
  ASSUME known' = Nothing, drawPile' \in Seq(CardIds),
         possible' \subseteq Seq(CardIds)
  PROVE  RecordTypes'
BY DEF RecordTypes, Nothing

LEMMA RemovalTypes ==
  ASSUME RecordTypes, NEW R, known' = Nothing,
         drawPile' = Dropping(drawPile, R),
         possible' = AfterRemoval(possible, R, Len(drawPile'))
  PROVE  RecordTypes'
<1>1. \A s \in possible : Dropping(s, R) \in Seq(CardIds)
  BY DroppingType DEF RecordTypes
<1>2. drawPile' \in Seq(CardIds)
  BY DroppingType DEF RecordTypes
<1> QED BY <1>1, <1>2, ForgetTypes DEF AfterRemoval

\* The orders left after the k next cards are known to be those of a pile.
LEMMA AfterDrawTypes ==
  ASSUME NEW orders \in SUBSET Seq(CardIds), NEW pile \in Seq(CardIds),
         NEW k \in 0..Len(pile)
  PROVE  /\ AfterReveal(orders, TopOf(pile, k)) \subseteq Seq(CardIds)
         /\ AfterDraw(orders, TopOf(pile, k)) \subseteq Seq(CardIds)
<1>1. Len(TopOf(pile, k)) = k
  BY TopType
<1>2. ASSUME NEW s \in orders, k <= Len(s)
      PROVE  DropTop(s, k) \in Seq(CardIds)
  <2>1. k \in 0..Len(s)
    BY <1>2
  <2> QED BY <2>1, TopType
<1> QED BY <1>1, <1>2 DEF AfterReveal, AfterDraw

LEMMA RemoveTopTypes ==
  ASSUME NEW r \in SUBSET ((0..MaxPosition) \X CardIds), NEW k \in Nat
  PROVE  RemoveTop(r, k) \subseteq (0..MaxPosition) \X CardIds
BY MaxPositionAssumption DEF RemoveTop

LEMMA DrawTypes ==
  ASSUME RecordTypes, NEW k \in 0..Len(drawPile),
         drawPile' = DropTop(drawPile, k), known' = RemoveTop(known, k),
         possible' = AfterDraw(possible, TopOf(drawPile, k))
  PROVE  RecordTypes'
<1>1. drawPile' \in Seq(CardIds)
  BY TopType DEF RecordTypes
<1>2. known' \subseteq (0..MaxPosition) \X CardIds
  BY RemoveTopTypes DEF RecordTypes
<1>3. possible' \subseteq Seq(CardIds)
  BY AfterDrawTypes DEF RecordTypes
<1> QED BY <1>1, <1>2, <1>3 DEF RecordTypes

LEMMA RevealTypes ==
  ASSUME RecordTypes, NEW k \in 0..Len(drawPile), UNCHANGED drawPile,
         known' = RevealPrefix(known, TopOf(drawPile, k)),
         possible' = AfterReveal(possible, TopOf(drawPile, k))
  PROVE  RecordTypes'
<1> DEFINE top == TopOf(drawPile, k)
<1>1. top \in Seq(CardIds)
  BY TopType DEF RecordTypes
<1> HIDE DEF top
<1>2. RevealPrefix(known, top) \subseteq (0..MaxPosition) \X CardIds
  <2>1. Len(top) <= MaxPosition =>
          \A i \in 1..Len(top) : i - 1 \in 0..MaxPosition /\ top[i] \in CardIds
    BY <1>1, MaxPositionAssumption
  <2>2. known \subseteq (0..MaxPosition) \X CardIds
    BY DEF RecordTypes
  <2> QED BY <2>1, <2>2 DEF RevealPrefix
<1>3. possible' \subseteq Seq(CardIds)
  BY AfterDrawTypes DEF RecordTypes
<1> QED BY <1>2, <1>3 DEF RecordTypes, top

LEMMA SameRecordTypes ==
  ASSUME RecordTypes, UNCHANGED <<drawPile, public>>
  PROVE  RecordTypes'
BY DEF RecordTypes, public

------------------------------------------------------------------------------
(* The work in progress *)

LEMMA ScreenTypes ==
  ASSUME NEW purpose \in Purposes \union {"None"},
         NEW source \in CardIds \union {None},
         NEW held \in BOOLEAN, NEW selectable \in SUBSET CardIds,
         purpose \in Sourced => source \in CardIds
  PROVE  /\ Screen(purpose, source, held, selectable) \in ScreenType
         /\ Screen(purpose, source, held, selectable).selected = <<>>
BY DEF Screen, ScreenType

LEMMA NoScreenTypes == NoScreen \in ScreenType /\ NoScreen.selected = <<>>
<1>1. "None" \notin Sourced
  BY DEF Sourced, HandSelects, DrawSelects
<1> QED BY <1>1, ScreenTypes DEF NoScreen

\* A screen in which nothing is chosen asks nothing of the piles.
LEMMA NothingChosen ==
  ASSUME decision'.selected = <<>>
  PROVE  ChoiceHolds'
BY DEF ChoiceHolds, ToSet

LEMMA RunningTypes ==
  ASSUME TInv, NEW op \in Ops, Running(op)
  PROVE  /\ Current \in InternalAction /\ Current.op = op
         /\ frames # <<>>
         /\ Tail(Head(frames)) \in Seq(InternalAction)
         /\ decision.selected = <<>>
<1>1. frames \in WorkType /\ frames # <<>> /\ Head(frames) # <<>>
  BY DEF TInv, DecisionTypes, Running
<1>2. Head(frames) \in Seq(InternalAction)
  BY <1>1 DEF WorkType
<1>3. Current \in InternalAction /\ Tail(Head(frames)) \in Seq(InternalAction)
  BY <1>1, <1>2 DEF Current
<1>4. Current.op = op
  BY DEF Running, ActionsOf
<1> QED BY <1>1, <1>3, <1>4 DEF TInv, DecisionTypes, ChoiceHolds

LEMMA GoOnTypes ==
  ASSUME TInv, frames # <<>>,
         NEW screen \in ScreenType, screen.selected = <<>>,
         NEW left \in Seq(InternalAction), GoOn(screen, left)
  PROVE  DecisionTypes'
<1>1. frames \in WorkType
  BY DEF TInv, DecisionTypes
<1>2. Tail(frames) \in WorkType /\ <<left>> \in WorkType /\ <<<<>>>> \in WorkType
  BY <1>1 DEF WorkType
<1>3. frames' \in WorkType
  <2>1. /\ <<<<>>>> \o Tail(frames) \in WorkType
        /\ <<left>> \o Tail(frames) \in WorkType
    BY <1>2 DEF WorkType
  <2> QED BY <2>1 DEF GoOn
<1>4. decision' \in ScreenType /\ decision'.selected = <<>>
  <2>1. screen.pending \o left \in Seq(InternalAction)
    BY DEF ScreenType
  <2>2. CASE decision' = [screen EXCEPT !.pending = @ \o left]
    BY <2>1, <2>2 DEF ScreenType
  <2>3. CASE decision' = screen
    BY <2>3
  <2> QED BY <2>2, <2>3 DEF GoOn
<1>5. ChoiceHolds'
  BY <1>4, NothingChosen
<1> QED BY <1>3, <1>4, <1>5 DEF DecisionTypes

LEMMA ProceedTypes ==
  ASSUME TInv, NEW op \in Ops, Running(op), Proceed
  PROVE  DecisionTypes'
<1>1. decision \in ScreenType
  BY DEF TInv, DecisionTypes
<1> QED BY <1>1, RunningTypes, GoOnTypes DEF Proceed

LEMMA ShowTypes ==
  ASSUME TInv, NEW op \in Ops, Running(op),
         NEW screen \in ScreenType, screen.selected = <<>>, Show(screen)
  PROVE  DecisionTypes'
BY RunningTypes, GoOnTypes DEF Show

\* Closing a screen starts work and leaves nothing chosen.
LEMMA CloseTypes ==
  ASSUME NEW work \in WorkType, Close(work)
  PROVE  DecisionTypes'
<1>1. decision' \in ScreenType /\ decision'.selected = <<>> /\ frames' \in WorkType
  BY NoScreenTypes DEF Close
<1>2. ChoiceHolds'
  BY <1>1, NothingChosen
<1> QED BY <1>1, <1>2 DEF DecisionTypes

LEMMA ActTypes ==
  ASSUME NEW op \in Ops \ DOMAIN AwaitPurposes,
         NEW c \in CardIds \union {None}, NEW n \in Nat
  PROVE  Act(op, c, n) \in InternalAction
BY DEF Act, InternalAction, ActionsOf

LEMMA AwaitTypes ==
  ASSUME NEW op \in DOMAIN AwaitPurposes, NEW c \in CardIds,
         NEW purpose \in AwaitPurposes[op]
  PROVE  Await(op, c, purpose) \in InternalAction
<1>1. op \in Ops /\ purpose \in Purposes
  BY DEF AwaitPurposes, Ops, Purposes
<1>2. Await(op, c, purpose) = [op |-> op, card |-> c, n |-> 0, purpose |-> purpose]
  BY DEF Await, Act
<1> QED BY <1>1, <1>2 DEF InternalAction, ActionsOf

LEMMA SettleTypes ==
  ASSUME PileTypes, NEW c \in CardIds, SettleSource(c)
  PROVE  discardPile' \in Seq(CardIds) /\ exhaustPile' \in Seq(CardIds)
BY PiecesType DEF PileTypes, SettleSource

LEMMA LeaveLimboTypes ==
  ASSUME PileTypes, NEW c, LeaveLimbo(c)
  PROVE  limbo' \in Seq(CardIds)
BY WithoutType DEF PileTypes, LeaveLimbo

LEMMA SameRest ==
  ASSUME RestTypes, UNCHANGED <<cards, combat>>
  PROVE  RestTypes'
BY DEF RestTypes, cards, combat

\* What most actions of the queue leave to show.
LEMMA WorkStep ==
  ASSUME TInv, PileTypes', RecordTypes', DecisionTypes',
         UNCHANGED <<cards, combat>>
  PROVE  TInv'
BY SameRest DEF TInv

------------------------------------------------------------------------------
(* Drawing *)

LEMMA DrawKeepsTypes ==
  ASSUME PileTypes, RecordTypes, NEW n \in Nat, NEW base \in Seq(CardIds),
         NEW occupied \in Nat, NEW tail \in Seq(CardIds),
         Draw(n, base, occupied, tail)
  PROVE  /\ RecordTypes'
         /\ hand' \in Seq(CardIds) /\ discardPile' \in Seq(CardIds)
<1> DEFINE want  == Min2(n, Room(occupied))
           first == Min2(want, Len(drawPile))
           later == Min2(want - first, Len(discardPile))
           shuffles == Orders(ToSet(discardPile), Len(discardPile))
<1>1. /\ drawPile \in Seq(CardIds) /\ Len(drawPile) \in Nat
      /\ discardPile \in Seq(CardIds) /\ Len(discardPile) \in Nat
  BY DEF PileTypes, RecordTypes
<1>2. want \in Nat
  BY SizesAssumption DEF Room, Min2
<1>3. first \in 0..Len(drawPile) /\ want - first \in Nat
  <2> HIDE DEF want
  <2> QED BY <1>1, <1>2 DEF Min2
<1>4. later \in 0..Len(discardPile)
  <2> HIDE DEF want, first
  <2> QED BY <1>1, <1>3 DEF Min2
<1>5. \/ \E order \in shuffles :
           /\ hand' = base \o TopOf(drawPile, first) \o TopOf(order, later) \o tail
           /\ drawPile' = DropTop(order, later)
           /\ discardPile' = <<>>
           /\ known' = RemoveTop(Nothing, later)
           /\ possible' = AfterDraw(shuffles, TopOf(order, later))
      \/ /\ hand' = base \o TopOf(drawPile, first) \o tail
         /\ drawPile' = DropTop(drawPile, first)
         /\ known' = RemoveTop(known, first)
         /\ possible' = AfterDraw(possible, TopOf(drawPile, first))
         /\ UNCHANGED discardPile
  BY DEF Draw
<1>6. \A s \in shuffles : s \in Seq(CardIds) /\ Len(s) = Len(discardPile)
  <2>1. ToSet(discardPile) \in SUBSET CardIds
    BY <1>1, ToSetType
  <2> QED BY <1>1, <2>1, OrdersType
<1> HIDE DEF want, first, later, shuffles
<1>7. TopOf(drawPile, first) \in Seq(CardIds)
  BY <1>1, <1>3, TopType
<1>8. ASSUME NEW order \in shuffles,
             hand' = base \o TopOf(drawPile, first) \o TopOf(order, later) \o tail,
             drawPile' = DropTop(order, later),
             discardPile' = <<>>,
             known' = RemoveTop(Nothing, later),
             possible' = AfterDraw(shuffles, TopOf(order, later))
      PROVE  /\ RecordTypes'
             /\ hand' \in Seq(CardIds) /\ discardPile' \in Seq(CardIds)
  <2>1. order \in Seq(CardIds) /\ later \in 0..Len(order)
    BY <1>4, <1>6
  <2>2. TopOf(order, later) \in Seq(CardIds) /\ drawPile' \in Seq(CardIds)
    BY <1>8, <2>1, TopType
  <2>3. hand' \in Seq(CardIds)
    BY <1>7, <1>8, <2>2
  <2>4. possible' \subseteq Seq(CardIds)
    BY <1>6, <1>8, <2>1, AfterDrawTypes
  <2>5. known' = Nothing
    BY <1>8 DEF RemoveTop, Nothing
  <2> QED BY <1>8, <2>2, <2>3, <2>4, <2>5, ForgetTypes
<1>9. ASSUME hand' = base \o TopOf(drawPile, first) \o tail,
             drawPile' = DropTop(drawPile, first),
             known' = RemoveTop(known, first),
             possible' = AfterDraw(possible, TopOf(drawPile, first)),
             UNCHANGED discardPile
      PROVE  /\ RecordTypes'
             /\ hand' \in Seq(CardIds) /\ discardPile' \in Seq(CardIds)
  <2>1. RecordTypes'
    BY <1>3, <1>9, DrawTypes
  <2> QED BY <1>1, <1>7, <1>9, <2>1
<1> QED BY <1>5, <1>8, <1>9

LEMMA TakeTypes ==
  ASSUME PileTypes, RecordTypes, NEW c \in CardIds, TakeFromDrawPile(c)
  PROVE  /\ RecordTypes'
         /\ hand' \in Seq(CardIds) /\ discardPile' \in Seq(CardIds)
<1>1. RecordTypes'
  BY RemovalTypes DEF TakeFromDrawPile, Without
<1> QED BY <1>1, PiecesType DEF TakeFromDrawPile, PileTypes

------------------------------------------------------------------------------
(* The actions of the queue *)

LEMMA EndQueueTypes ==
  ASSUME TInv, EndQueue
  PROVE  TInv'
<1>1. /\ frames \in WorkType /\ frames # <<>> /\ decision \in ScreenType
      /\ decision.selected = <<>>
  BY DEF TInv, DecisionTypes, ChoiceHolds, EndQueue
<1>2. frames' \in WorkType
  BY <1>1 DEF EndQueue, WorkType
<1>3. decision' \in ScreenType /\ decision'.selected = <<>>
  BY <1>1, NoScreenTypes DEF EndQueue
<1>4. DecisionTypes'
  BY <1>2, <1>3, NothingChosen DEF DecisionTypes
<1>5. PileTypes' /\ RecordTypes'
  BY SameRecordTypes DEF EndQueue, piles, public, TInv, PileTypes
<1>6. RestTypes'
  BY DEF EndQueue, cards, TInv, RestTypes
<1> QED BY <1>4, <1>5, <1>6 DEF TInv

LEMMA DealDamageTypes ==
  ASSUME TInv, Run_DealDamage
  PROVE  TInv'
<1>1. PICK lethal \in BOOLEAN :
        /\ monstersAlive' = (monstersAlive /\ ~lethal)
        /\ GoOn(decision,
                IF lethal
                THEN Dropping(Tail(Head(frames)), ActionsOf(CancelledPostLethal))
                ELSE Tail(Head(frames)))
  BY DEF Run_DealDamage
<1>2. /\ frames # <<>> /\ decision \in ScreenType /\ decision.selected = <<>>
      /\ Tail(Head(frames)) \in Seq(InternalAction)
  BY RunningTypes DEF Run_DealDamage, Ops, TInv, DecisionTypes
<1>3. Dropping(Tail(Head(frames)), ActionsOf(CancelledPostLethal))
        \in Seq(InternalAction)
  BY <1>2, DroppingType
<1>4. DecisionTypes'
  BY <1>1, <1>2, <1>3, GoOnTypes
<1>5. PileTypes' /\ RecordTypes'
  BY SameRecordTypes DEF Run_DealDamage, piles, public, TInv, PileTypes
<1>6. RestTypes'
  BY <1>1 DEF Run_DealDamage, cards, TInv, RestTypes
<1> QED BY <1>4, <1>5, <1>6 DEF TInv

LEMMA MoveCardTypes ==
  ASSUME TInv, Run_MoveCard
  PROVE  TInv'
<1>1. PileTypes /\ Current.card \in CardIds
  BY ToSetType DEF Run_MoveCard, TInv, PileTypes
<1>2. PileTypes'
  BY <1>1, SettleTypes, WithoutType DEF Run_MoveCard, PileTypes
<1>3. RecordTypes' /\ DecisionTypes'
  BY SameRecordTypes, ProceedTypes DEF Run_MoveCard, Ops, TInv
<1> QED BY <1>2, <1>3, WorkStep DEF Run_MoveCard

LEMMA MoveDrawCardTypes ==
  ASSUME TInv, Run_MoveDrawCardToHand
  PROVE  TInv'
<1>1. PileTypes /\ RecordTypes /\ Current.card \in CardIds
  BY ToSetType DEF Run_MoveDrawCardToHand, TInv, RecordTypes
<1>2. PileTypes' /\ RecordTypes'
  BY <1>1, TakeTypes DEF Run_MoveDrawCardToHand, PileTypes
<1>3. DecisionTypes'
  BY ProceedTypes DEF Run_MoveDrawCardToHand, Ops
<1> QED BY <1>2, <1>3, WorkStep DEF Run_MoveDrawCardToHand

LEMMA DrawCardsTypes ==
  ASSUME TInv, Run_DrawCards
  PROVE  TInv'
<1>1. PileTypes /\ RecordTypes /\ hand \in Seq(CardIds)
  BY DEF TInv, PileTypes
<1>2. Current.n \in Nat
  BY RunningTypes DEF Run_DrawCards, Ops, InternalAction, ActionsOf
<1>3. Len(Without(hand, cardInUse)) \in Nat /\ <<>> \in Seq(CardIds)
  BY <1>1, WithoutType
<1>4. PileTypes' /\ RecordTypes'
  BY <1>1, <1>2, <1>3, DrawKeepsTypes DEF Run_DrawCards, PileTypes
<1>5. DecisionTypes'
  BY ProceedTypes DEF Run_DrawCards, Ops
<1> QED BY <1>4, <1>5, WorkStep DEF Run_DrawCards

LEMMA LimboDrawTypes ==
  ASSUME TInv, Run_DrawCardsWhilePlayedCardIsInLimbo
  PROVE  TInv'
<1> DEFINE c    == Current.card
           rest == Without(hand, c)
           tail == IF c \in ToSet(hand) THEN <<c>> ELSE <<>>
<1>1. PileTypes /\ RecordTypes /\ hand \in Seq(CardIds)
  BY DEF TInv, PileTypes
<1>2. Current.n \in Nat
  BY RunningTypes
     DEF Run_DrawCardsWhilePlayedCardIsInLimbo, Ops, InternalAction, ActionsOf
<1>3. rest \in Seq(CardIds) /\ Len(rest) \in Nat /\ tail \in Seq(CardIds)
  BY <1>1, WithoutType, ToSetType
<1>4. Draw(Current.n, rest, Len(rest), tail)
  BY DEF Run_DrawCardsWhilePlayedCardIsInLimbo
<1> HIDE DEF rest, tail
<1>5. PileTypes' /\ RecordTypes'
  BY <1>1, <1>2, <1>3, <1>4, DrawKeepsTypes
     DEF Run_DrawCardsWhilePlayedCardIsInLimbo, PileTypes
<1>6. DecisionTypes'
  BY ProceedTypes DEF Run_DrawCardsWhilePlayedCardIsInLimbo, Ops
<1> QED BY <1>5, <1>6, WorkStep DEF Run_DrawCardsWhilePlayedCardIsInLimbo

LEMMA DeepBreathTypes ==
  ASSUME TInv, Run_DeepBreathShuffle
  PROVE  TInv'
<1> DEFINE n == Len(drawPile) + Len(discardPile)
           S == ToSet(drawPile) \union ToSet(discardPile)
<1>1. drawPile \in Seq(CardIds) /\ discardPile \in Seq(CardIds) /\ RecordTypes
  BY DEF TInv, PileTypes, RecordTypes
<1>2. n \in Nat /\ S \in SUBSET CardIds
  BY <1>1, ToSetType
<1>3. \/ UNCHANGED <<drawPile, discardPile, public>>
      \/ /\ drawPile' \in Orders(S, n) /\ possible' = Orders(S, n)
         /\ known' = Nothing /\ discardPile' = <<>>
  BY DEF Run_DeepBreathShuffle
<1> HIDE DEF n, S
<1>4. \A s \in Orders(S, n) : s \in Seq(CardIds)
  BY <1>2, OrdersType
<1>5. RecordTypes'
  BY <1>1, <1>3, <1>4, SameRecordTypes, ForgetTypes
<1>6. PileTypes'
  <2>1. discardPile' \in Seq(CardIds)
    <3>1. discardPile' = <<>> \/ discardPile' = discardPile
      BY <1>3
    <3> QED BY <1>1, <3>1, EmptyType
  <2>2. UNCHANGED <<hand, exhaustPile, limbo>>
    BY DEF Run_DeepBreathShuffle
  <2> QED BY <2>1, <2>2 DEF TInv, PileTypes
<1>7. DecisionTypes'
  BY ProceedTypes DEF Run_DeepBreathShuffle, Ops
<1> QED BY <1>5, <1>6, <1>7, WorkStep DEF Run_DeepBreathShuffle

LEMMA IssueTypes ==
  ASSUME RestTypes, NEW c, NEW what \in Contents, Issue(c, what),
         UNCHANGED combat
  PROVE  RestTypes' /\ c \in CardIds
BY DEF RestTypes, Issue, combat

LEMMA RandomSpotTypes ==
  ASSUME TInv, Run_AddGeneratedCardToDrawPileRandomSpot
  PROVE  TInv'
<1> DEFINE c == NextCardInstanceId
<1>1. RecordTypes /\ RestTypes /\ drawPile \in Seq(CardIds)
  BY DEF TInv, RecordTypes
<1>2. PileTypes' /\ DecisionTypes'
  BY ProceedTypes
     DEF Run_AddGeneratedCardToDrawPileRandomSpot, Ops, TInv, PileTypes
<1>3. CASE ~monstersAlive
  <2>1. UNCHANGED <<drawPile, public, cards, combat>>
    BY <1>3 DEF Run_AddGeneratedCardToDrawPileRandomSpot
  <2> QED BY <1>1, <1>2, <2>1, SameRecordTypes, WorkStep
<1>4. CASE monstersAlive
  <2>1. /\ Issue(c, "Wound") /\ UNCHANGED combat
        /\ \/ PutOnTop(c)
           \/ /\ drawPile # <<>>
              /\ \E i \in RandomSpots(drawPile) :
                   drawPile' = InsertAt(drawPile, i, c)
              /\ known' = Nothing
              /\ possible' = AfterRandomInsert(possible, c)
    BY <1>4 DEF Run_AddGeneratedCardToDrawPileRandomSpot
  <2> HIDE DEF c
  <2>2. RestTypes' /\ c \in CardIds
    BY <1>1, <2>1, IssueTypes DEF Contents
  <2>3. CASE PutOnTop(c)
    BY <1>1, <1>2, <2>2, <2>3, TopTypes DEF TInv
  <2>4. CASE ~PutOnTop(c)
    <3>1. ASSUME NEW s \in Seq(CardIds), NEW i \in RandomSpots(s)
          PROVE  InsertAt(s, i, c) \in Seq(CardIds)
      <4>1. i \in 1..(Len(s) + 1)
        BY DEF RandomSpots
      <4> QED BY <2>2, <4>1, PiecesType
    <3>2. drawPile' \in Seq(CardIds)
      BY <1>1, <2>1, <2>4, <3>1
    <3>3. possible' \subseteq Seq(CardIds)
      BY <1>1, <2>1, <2>4, <3>1 DEF AfterRandomInsert, RecordTypes
    <3> QED BY <1>2, <2>1, <2>2, <2>4, <3>2, <3>3, ForgetTypes DEF TInv
  <2> QED BY <2>3, <2>4
<1> QED BY <1>1, <1>3, <1>4

LEMMA ForethoughtAutoMoveTypes ==
  ASSUME TInv, Run_ForethoughtAutoMove
  PROVE  TInv'
<1>1. PileTypes /\ RecordTypes /\ ToSet(hand) \in SUBSET CardIds
  BY ToSetType DEF TInv, PileTypes
<1>2. /\ Current.card \in CardIds /\ SettleSource(Current.card)
      /\ \E other \in CardIds : PutOnBottom(other)
      /\ hand' = <<>> /\ UNCHANGED limbo
  BY <1>1 DEF Run_ForethoughtAutoMove
<1>3. RecordTypes'
  BY <1>1, <1>2, BottomTypes
<1>4. PileTypes'
  BY <1>1, <1>2, SettleTypes DEF PileTypes
<1>5. DecisionTypes'
  BY ProceedTypes DEF Run_ForethoughtAutoMove, Ops
<1> QED BY <1>3, <1>4, <1>5, WorkStep DEF Run_ForethoughtAutoMove

\* The card an opening action names, and what its screen may be for.
LEMMA AwaitingTypes ==
  ASSUME TInv, NEW op \in DOMAIN AwaitPurposes, Running(op)
  PROVE  Current.card \in CardIds /\ Current.purpose \in AwaitPurposes[op]
<1>1. op \in Ops
  BY DEF AwaitPurposes, Ops
<1> QED BY <1>1, RunningTypes DEF InternalAction

LEMMA AwaitHandSelectTypes ==
  ASSUME TInv, Run_AwaitHandSelect_Open \/ Run_AwaitHandSelect_Auto
  PROVE  TInv'
<1> DEFINE c == Current.card
           others == Without(hand, c)
<1>1. PileTypes /\ RecordTypes /\ hand \in Seq(CardIds) /\ limbo \in Seq(CardIds)
  BY DEF TInv, PileTypes
<1>2. others \in Seq(CardIds)
  BY <1>1, WithoutType
<1>3. Running("AwaitHandSelect")
  BY DEF Run_AwaitHandSelect_Open, Run_AwaitHandSelect_Auto
<1>4. c \in CardIds /\ Current.purpose \in HandSelects
  BY <1>3, AwaitingTypes DEF AwaitPurposes
<1>5. CASE Run_AwaitHandSelect_Open
  <2>1. PileTypes'
    BY <1>1, <1>2, <1>4, <1>5, PiecesType
       DEF Run_AwaitHandSelect_Open, PileTypes
  <2>2. RecordTypes'
    BY <1>1, <1>5, SameRecordTypes DEF Run_AwaitHandSelect_Open
  <2>3. /\ Screen(Current.purpose, c, FALSE, {}) \in ScreenType
        /\ Screen(Current.purpose, c, FALSE, {}).selected = <<>>
    BY <1>4, ScreenTypes DEF Purposes
  <2>4. Show(Screen(Current.purpose, c, FALSE, {}))
    BY <1>5 DEF Run_AwaitHandSelect_Open
  <2>5. DecisionTypes'
    BY <1>3, <2>3, <2>4, ShowTypes DEF Ops
  <2> QED BY <1>5, <2>1, <2>2, <2>5, WorkStep DEF Run_AwaitHandSelect_Open
<1>6. CASE Run_AwaitHandSelect_Auto
  <2>1. \/ UNCHANGED <<drawPile, public>>
        \/ others # <<>> /\ PutOnTop(others[1])
    BY <1>6 DEF Run_AwaitHandSelect_Auto
  <2>2. others # <<>> => others[1] \in CardIds
    BY <1>2
  <2>3. RecordTypes'
    BY <1>1, <2>1, <2>2, SameRecordTypes, TopTypes
  <2>4. PileTypes'
    BY <1>1, <1>4, <1>6, SettleTypes DEF Run_AwaitHandSelect_Auto, PileTypes
  <2>5. DecisionTypes'
    BY <1>6, ProceedTypes DEF Run_AwaitHandSelect_Auto, Ops
  <2> QED BY <1>6, <2>3, <2>4, <2>5, WorkStep DEF Run_AwaitHandSelect_Auto
<1> QED BY <1>5, <1>6

LEMMA AwaitDrawSelectTypes ==
  ASSUME TInv, Run_AwaitDrawSelect
  PROVE  TInv'
<1> DEFINE c   == Current.card
           k   == Min2(ScryCount, Len(drawPile))
           top == TopOf(drawPile, k)
<1>1. PileTypes /\ RecordTypes /\ drawPile \in Seq(CardIds) /\ c \in CardIds
  BY AwaitingTypes DEF Run_AwaitDrawSelect, AwaitPurposes, TInv, RecordTypes
<1>2. PileTypes'
  BY <1>1, WithoutType, PiecesType DEF Run_AwaitDrawSelect, PileTypes
<1>3. k \in 0..Len(drawPile)
  BY <1>1, SizesAssumption DEF Min2
<1>4. \/ /\ known' = RevealPrefix(known, top)
         /\ possible' = AfterReveal(possible, top)
         /\ Show(Screen("Scry", c, FALSE, ToSet(top)))
      \/ /\ Show(Screen("SecretTechnique", c, FALSE, ToSet(SkillsIn(drawPile))))
         /\ UNCHANGED public
  BY DEF Run_AwaitDrawSelect
<1>5. UNCHANGED drawPile
  BY DEF Run_AwaitDrawSelect
<1> HIDE DEF k
<1>6. RecordTypes'
  BY <1>1, <1>3, <1>4, <1>5, RevealTypes, SameRecordTypes
<1>7. ToSet(top) \in SUBSET CardIds /\ ToSet(SkillsIn(drawPile)) \in SUBSET CardIds
  <2>1. top \in Seq(CardIds) /\ SkillsIn(drawPile) \in Seq(CardIds)
    BY <1>1, <1>3, TopType, DroppingType DEF SkillsIn
  <2> QED BY <2>1, ToSetType
<1> HIDE DEF top, c
<1>8. ASSUME NEW purpose \in DrawSelects, NEW selectable \in SUBSET CardIds,
             Show(Screen(purpose, c, FALSE, selectable))
      PROVE  DecisionTypes'
  <2>1. /\ Screen(purpose, c, FALSE, selectable) \in ScreenType
        /\ Screen(purpose, c, FALSE, selectable).selected = <<>>
    BY <1>1, ScreenTypes DEF Purposes
  <2> QED BY <1>8, <2>1, ShowTypes DEF Run_AwaitDrawSelect, Ops
<1>9. DecisionTypes'
  BY <1>4, <1>7, <1>8 DEF DrawSelects
<1> QED BY <1>2, <1>6, <1>9, WorkStep DEF Run_AwaitDrawSelect

LEMMA AwaitDiscardSelectTypes ==
  ASSUME TInv, Run_AwaitDiscardSelect
  PROVE  TInv'
<1> DEFINE c == Current.card
<1>1. PileTypes /\ RecordTypes /\ c \in CardIds /\ discardPile \in Seq(CardIds)
  BY AwaitingTypes DEF Run_AwaitDiscardSelect, AwaitPurposes, TInv, PileTypes
<1>2. /\ hand' = Without(hand, c) /\ UNCHANGED <<exhaustPile, limbo>>
      /\ \/ /\ Len(discardPile) = 1 /\ PutOnTop(discardPile[1])
            /\ discardPile' = <<c>> /\ Proceed
         \/ /\ discardPile' = Append(discardPile, c) /\ Proceed
            /\ UNCHANGED <<drawPile, public>>
         \/ /\ Show(Screen("Headbutt", c, TRUE, {}))
            /\ UNCHANGED <<discardPile, drawPile, public>>
  BY DEF Run_AwaitDiscardSelect
<1>3. Len(discardPile) = 1 => discardPile[1] \in CardIds
  BY <1>1
<1>4. RecordTypes'
  BY <1>1, <1>2, <1>3, TopTypes, SameRecordTypes
<1> HIDE DEF c
<1>5. PileTypes'
  <2>1. hand' \in Seq(CardIds)
    BY <1>1, <1>2, WithoutType DEF PileTypes
  <2>2. discardPile' \in Seq(CardIds)
    <3>1. \/ discardPile' = <<c>>
          \/ discardPile' = Append(discardPile, c)
          \/ discardPile' = discardPile
      BY <1>2
    <3>2. Append(discardPile, c) \in Seq(CardIds) /\ <<c>> \in Seq(CardIds)
      BY <1>1
    <3> QED BY <1>1, <3>1, <3>2
  <2> QED BY <1>1, <1>2, <2>1, <2>2 DEF PileTypes
<1>6. /\ Screen("Headbutt", c, TRUE, {}) \in ScreenType
      /\ Screen("Headbutt", c, TRUE, {}).selected = <<>>
  BY <1>1, ScreenTypes DEF Purposes, DiscardSelects
<1>7. DecisionTypes'
  BY <1>2, <1>6, ProceedTypes, ShowTypes DEF Run_AwaitDiscardSelect, Ops
<1> QED BY <1>4, <1>5, <1>7, WorkStep DEF Run_AwaitDiscardSelect

LEMMA AwaitExhaustSelectTypes ==
  ASSUME TInv, Run_AwaitExhaustSelect
  PROVE  TInv'
<1> DEFINE c == Current.card
           others == Without(hand, c)
<1>1. PileTypes /\ RecordTypes /\ c \in CardIds /\ hand \in Seq(CardIds)
  BY AwaitingTypes DEF Run_AwaitExhaustSelect, AwaitPurposes, TInv, PileTypes
<1>2. others \in Seq(CardIds)
  BY <1>1, WithoutType
<1>3. \/ /\ hand' = <<>> /\ exhaustPile' = exhaustPile \o others
         /\ discardPile' = Append(discardPile, c) /\ Proceed
      \/ /\ hand' = others /\ Show(Screen("TrueGrit", c, TRUE, {}))
         /\ UNCHANGED <<exhaustPile, discardPile>>
  BY DEF Run_AwaitExhaustSelect
<1>4. UNCHANGED <<drawPile, public, limbo>>
  BY DEF Run_AwaitExhaustSelect
<1> HIDE DEF c, others
<1>5. PileTypes'
  <2>1. hand' = <<>> \/ hand' = others
    BY <1>3
  <2>2. discardPile' = Append(discardPile, c) \/ discardPile' = discardPile
    BY <1>3
  <2>3. exhaustPile' = exhaustPile \o others \/ exhaustPile' = exhaustPile
    BY <1>3
  <2>4. /\ Append(discardPile, c) \in Seq(CardIds)
        /\ exhaustPile \o others \in Seq(CardIds)
    BY <1>1, <1>2, PiecesType DEF PileTypes
  <2> QED BY <1>1, <1>2, <1>4, <2>1, <2>2, <2>3, <2>4, EmptyType DEF PileTypes
<1>6. /\ Screen("TrueGrit", c, TRUE, {}) \in ScreenType
      /\ Screen("TrueGrit", c, TRUE, {}).selected = <<>>
  BY <1>1, ScreenTypes DEF Purposes, ExhaustSelects
<1>7. DecisionTypes'
  BY <1>3, <1>6, ProceedTypes, ShowTypes DEF Run_AwaitExhaustSelect, Ops
<1>8. RecordTypes'
  BY <1>1, <1>4, SameRecordTypes
<1> QED BY <1>5, <1>7, <1>8, WorkStep DEF Run_AwaitExhaustSelect

LEMMA OpenPotionTypes ==
  ASSUME TInv, \/ Run_OpenElixirSelection \/ Run_OpenGamblersBrewSelection
               \/ Run_OpenPotionCardReward
  PROVE  TInv'
<1>1. PICK op \in Ops, purpose \in Purposes \ Sourced :
        /\ Running(op)
        /\ Proceed \/ Show(Screen(purpose, None, FALSE, {}))
        /\ UNCHANGED <<piles, public, cards, combat>>
  <2>1. {"OpenElixirSelection", "OpenGamblersBrewSelection",
         "OpenPotionCardReward"} \subseteq Ops
    BY DEF Ops
  <2>2. {"Exhaust", "GamblingChip", "CardReward"} \subseteq Purposes \ Sourced
    BY DEF Purposes, Sourced, HandSelects, DrawSelects, ExhaustSelects
  <2> QED BY <2>1, <2>2
          DEF Run_OpenElixirSelection, Run_OpenGamblersBrewSelection,
              Run_OpenPotionCardReward, OpenPotionSelection
<1>2. /\ Screen(purpose, None, FALSE, {}) \in ScreenType
      /\ Screen(purpose, None, FALSE, {}).selected = <<>>
  BY ScreenTypes
<1>3. DecisionTypes'
  BY <1>1, <1>2, ProceedTypes, ShowTypes
<1>4. PileTypes' /\ RecordTypes'
  BY <1>1, SameRecordTypes DEF piles, public, TInv, PileTypes
<1> QED BY <1>1, <1>3, <1>4, WorkStep

LEMMA SettleSourceTypes ==
  ASSUME TInv, Run_SettleHandSource \/ Run_MoveDrawSelectSource
  PROVE  TInv'
<1>1. PileTypes /\ RecordTypes /\ limbo \in Seq(CardIds)
  BY DEF TInv, PileTypes
<1>2. PICK op \in Ops :
        /\ Running(op) /\ Proceed /\ Current.card \in ToSet(limbo)
        /\ LeaveLimbo(Current.card) /\ SettleSource(Current.card)
        /\ UNCHANGED <<hand, drawPile, public, cards, combat>>
  BY DEF Run_SettleHandSource, Run_MoveDrawSelectSource, Ops
<1>3. Current.card \in CardIds
  BY <1>1, <1>2, ToSetType
<1>4. PileTypes'
  BY <1>1, <1>2, <1>3, SettleTypes, LeaveLimboTypes DEF PileTypes
<1>5. RecordTypes' /\ DecisionTypes'
  BY <1>1, <1>2, SameRecordTypes, ProceedTypes
<1> QED BY <1>2, <1>4, <1>5, WorkStep

LEMMA RunQueueTypes ==
  ASSUME TInv, RunQueue
  PROVE  TInv'
BY EndQueueTypes, DealDamageTypes, MoveCardTypes, MoveDrawCardTypes,
   DrawCardsTypes, LimboDrawTypes, DeepBreathTypes, RandomSpotTypes,
   ForethoughtAutoMoveTypes, AwaitHandSelectTypes, AwaitDrawSelectTypes,
   AwaitDiscardSelectTypes, AwaitExhaustSelectTypes, OpenPotionTypes,
   SettleSourceTypes
   DEF RunQueue
------------------------------------------------------------------------------
(* Player commands *)

\* Piles and choices while no work is in progress.
LEMMA CommandStep ==
  ASSUME TInv, PileTypes', RecordTypes', DecisionTypes',
         UNCHANGED <<cards, phase, monstersAlive>>,
         cardInUse' \in CardIds \union {None}, potions' \subseteq Potions
  PROVE  TInv'
BY DEF TInv, RestTypes, cards

LEMMA PlayCardQueueTypes ==
  ASSUME TInv, NEW c \in CardIds, Playable(c)
  PROVE  PlayCardQueue(c) \in Seq(InternalAction)
<1> DEFINE settle == Act("MoveCard", c, 0)
           hit    == Act("DealDamage", c, 0)
           skills == SkillsIn(drawPile)
           plain  == Ops \ DOMAIN AwaitPurposes
<1>1. content[c] \in Contents /\ content[c] # "Wound"
  BY DEF TInv, RestTypes, Playable
<1>2. {"MoveCard", "DealDamage", "DrawCardsWhilePlayedCardIsInLimbo",
       "AddGeneratedCardToDrawPileRandomSpot", "ForethoughtAutoMove",
       "MoveDrawCardToHand", "DeepBreathShuffle", "DrawCards"} \subseteq plain
  BY DEF Ops, AwaitPurposes
<1>3. skills \in Seq(CardIds)
  BY DroppingType DEF SkillsIn, TInv, RecordTypes
<1>4. Len(skills) = 1 => skills[1] \in CardIds
  <2> HIDE DEF skills
  <2>1. Len(skills) = 1 => 1 \in DOMAIN skills
    BY <1>3
  <2> QED BY <1>3, <2>1, PiecesType
<1> HIDE DEF plain, skills
<1>5. /\ settle \in InternalAction /\ hit \in InternalAction
      /\ Act("DrawCardsWhilePlayedCardIsInLimbo", c, 1) \in InternalAction
      /\ Act("AddGeneratedCardToDrawPileRandomSpot", None, 0) \in InternalAction
      /\ Act("ForethoughtAutoMove", c, 0) \in InternalAction
      /\ Act("DeepBreathShuffle", None, 0) \in InternalAction
      /\ Act("DrawCards", None, 1) \in InternalAction
      /\ Len(skills) = 1 =>
           Act("MoveDrawCardToHand", skills[1], 0) \in InternalAction
  BY <1>2, <1>4, ActTypes DEF plain
<1>6. /\ Await("AwaitHandSelect", c, "Warcry") \in InternalAction
      /\ Await("AwaitHandSelect", c, "Forethought") \in InternalAction
      /\ Await("AwaitDrawSelect", c, "SecretTechnique") \in InternalAction
      /\ Await("AwaitDrawSelect", c, "Scry") \in InternalAction
      /\ Await("AwaitDiscardSelect", c, "Headbutt") \in InternalAction
      /\ Await("AwaitExhaustSelect", c, "TrueGrit") \in InternalAction
  <2>1. /\ {"AwaitHandSelect", "AwaitDrawSelect", "AwaitDiscardSelect",
            "AwaitExhaustSelect"} = DOMAIN AwaitPurposes
        /\ {"Warcry", "Forethought"} \subseteq AwaitPurposes["AwaitHandSelect"]
        /\ {"SecretTechnique", "Scry"} \subseteq AwaitPurposes["AwaitDrawSelect"]
        /\ "Headbutt" \in AwaitPurposes["AwaitDiscardSelect"]
        /\ "TrueGrit" \in AwaitPurposes["AwaitExhaustSelect"]
    BY DEF AwaitPurposes, HandSelects, DrawSelects, DiscardSelects, ExhaustSelects
  <2> QED BY <2>1, AwaitTypes
<1> HIDE DEF settle, hit
<1>7. content[c] \in {"Strike", "Headbutt", "PommelStrike", "WildStrike",
                      "Defend", "Warcry", "Forethought", "SecretTechnique",
                      "ThirdEye", "DeepBreath", "TrueGrit"}
  BY <1>1 DEF Contents, Attacks, Skills
<1> QED BY <1>5, <1>6, <1>7 DEF PlayCardQueue, settle, hit, skills

\* A command that starts work with no screen open.
LEMMA StartTypes ==
  ASSUME TInv, NEW queue \in Seq(InternalAction), frames' = <<queue>>,
         ~ScreenOpen, UNCHANGED decision
  PROVE  DecisionTypes'
<1>1. decision' \in ScreenType /\ decision'.selected = <<>>
  BY DEF TInv, DecisionTypes, ChoiceHolds
<1>2. frames' \in WorkType
  BY DEF WorkType
<1> QED BY <1>1, <1>2, NothingChosen DEF DecisionTypes

LEMMA PlayCardTypes ==
  ASSUME TInv, NEW c \in CardIds, PlayCard(c)
  PROVE  TInv'
<1>1. DecisionTypes'
  BY PlayCardQueueTypes, StartTypes DEF PlayCard
<1>2. PileTypes' /\ RecordTypes'
  BY SameRecordTypes DEF PlayCard, piles, public, TInv, PileTypes
<1> QED BY <1>1, <1>2, CommandStep DEF PlayCard, TInv, RestTypes

LEMMA EndTurnTypes ==
  ASSUME TInv, EndTurn
  PROVE  TInv'
<1>1. PileTypes'
  <2>1. discardPile \o Reverse(hand) \in Seq(CardIds)
    BY PiecesType DEF TInv, PileTypes
  <2> QED BY <2>1, EmptyType DEF EndTurn, TInv, PileTypes
<1>2. RecordTypes'
  BY SameRecordTypes DEF EndTurn, TInv
<1>3. <<Act("DrawCards", None, HandSize)>> \in Seq(InternalAction)
  <2>1. "DrawCards" \in Ops \ DOMAIN AwaitPurposes /\ HandSize \in Nat
    BY SizesAssumption DEF Ops, AwaitPurposes
  <2>2. Act("DrawCards", None, HandSize) \in InternalAction
    BY <2>1, ActTypes
  <2> QED BY <2>2
<1>4. DecisionTypes'
  BY <1>3, StartTypes DEF EndTurn
<1> QED BY <1>1, <1>2, <1>4, WorkStep DEF EndTurn

LEMMA UseQueuedPotionTypes ==
  ASSUME TInv, NEW p \in DOMAIN PotionAction, UseQueuedPotion(p)
  PROVE  TInv'
<1> DEFINE a == PotionAction[p]
<1>1. a \in InternalAction
  <2>1. /\ {"DrawCards", "OpenElixirSelection", "OpenGamblersBrewSelection",
            "OpenPotionCardReward"} \subseteq Ops \ DOMAIN AwaitPurposes
        /\ SwiftDraw \in Nat
    BY SizesAssumption DEF Ops, AwaitPurposes
  <2>2. /\ Act("DrawCards", None, SwiftDraw) \in InternalAction
        /\ Act("OpenElixirSelection", None, 0) \in InternalAction
        /\ Act("OpenGamblersBrewSelection", None, 0) \in InternalAction
        /\ Act("OpenPotionCardReward", None, 0) \in InternalAction
    BY <2>1, ActTypes
  <2> QED BY <2>2 DEF PotionAction
<1>2. \/ UNCHANGED <<decision, frames>>
      \/ QueuePotionAction(a)
  BY DEF UseQueuedPotion
<1> HIDE DEF a
<1>3. PileTypes' /\ RecordTypes' /\ UNCHANGED piles
  BY SameRecordTypes DEF UseQueuedPotion, piles, public, TInv, PileTypes
<1>4. DecisionTypes'
  <2>1. CASE UNCHANGED <<decision, frames>>
    BY <1>3, <2>1 DEF TInv, DecisionTypes, ChoiceHolds, ScreenOpen, piles
  <2>2. CASE ScreenOpen /\ QueuePotionAction(a)
    <3>1. /\ decision' = [decision EXCEPT !.pending = Append(@, a)]
          /\ UNCHANGED frames
      BY <2>2 DEF QueuePotionAction
    <3>2. decision' \in ScreenType
      <4>1. decision \in ScreenType
        BY DEF TInv, DecisionTypes
      <4>2. Append(decision.pending, a) \in Seq(InternalAction)
        BY <1>1, <4>1 DEF ScreenType
      <4> QED BY <3>1, <4>1, <4>2 DEF ScreenType
    <3>3. decision'.selected = decision.selected
          /\ decision'.purpose = decision.purpose
      BY <3>1 DEF TInv, DecisionTypes, ScreenType
    <3> QED BY <1>3, <3>1, <3>2, <3>3
            DEF TInv, DecisionTypes, ChoiceHolds, ScreenOpen, piles
  <2>3. CASE ~ScreenOpen /\ QueuePotionAction(a)
    <3>1. <<a>> \in Seq(InternalAction)
      BY <1>1
    <3> QED BY <2>3, <3>1, StartTypes DEF QueuePotionAction
  <2> QED BY <1>2, <2>1, <2>2, <2>3
<1> QED BY <1>3, <1>4, CommandStep DEF UseQueuedPotion, Drink, TInv, RestTypes

LEMMA UseFirePotionTypes ==
  ASSUME TInv, UseFirePotion
  PROVE  TInv'
<1>1. PileTypes' /\ RecordTypes' /\ UNCHANGED <<piles, frames>>
  BY SameRecordTypes DEF UseFirePotion, piles, public, TInv, PileTypes
<1>2. CASE UNCHANGED decision
  <2>1. DecisionTypes'
    BY <1>1, <1>2 DEF TInv, DecisionTypes, ChoiceHolds, ScreenOpen, piles
  <2>2. RestTypes'
    BY DEF UseFirePotion, Drink, cards, TInv, RestTypes
  <2> QED BY <1>1, <2>1, <2>2 DEF TInv
<1>3. CASE decision' = NoScreen
  <2>1. DecisionTypes'
    BY <1>1, <1>3, NoScreenTypes, NothingChosen DEF TInv, DecisionTypes
  <2>2. RestTypes'
    BY DEF UseFirePotion, Drink, cards, TInv, RestTypes
  <2> QED BY <1>1, <2>1, <2>2 DEF TInv
<1> QED BY <1>2, <1>3 DEF UseFirePotion

LEMMA UseLiquidMemoriesTypes ==
  ASSUME TInv, UseLiquidMemories
  PROVE  TInv'
<1> DEFINE liquid == Screen("LiquidMemories", None, FALSE, {})
<1>1. hand \in Seq(CardIds) /\ discardPile \in Seq(CardIds)
  BY DEF TInv, PileTypes
<1>2. \/ hand' = hand \o discardPile /\ discardPile' = <<>>
         /\ UNCHANGED decision
      \/ UNCHANGED <<hand, discardPile, decision>>
      \/ UNCHANGED <<hand, discardPile>> /\ decision' = liquid
  BY DEF UseLiquidMemories, Returned
<1>3. /\ hand' \in Seq(CardIds) /\ discardPile' \in Seq(CardIds)
      /\ DOMAIN hand \subseteq DOMAIN hand'
  <2>1. /\ hand \o discardPile \in Seq(CardIds)
        /\ DOMAIN hand \subseteq DOMAIN (hand \o discardPile)
    BY <1>1
  <2>2. \/ hand' = hand \o discardPile /\ discardPile' = <<>>
        \/ hand' = hand /\ discardPile' = discardPile
    BY <1>2
  <2> QED BY <1>1, <2>1, <2>2, EmptyType
<1>4. UNCHANGED <<drawPile, exhaustPile, limbo, public, cards, cardInUse, phase,
                  monstersAlive, frames>>
  BY DEF UseLiquidMemories
<1>5. PileTypes' /\ RecordTypes'
  BY <1>3, <1>4, SameRecordTypes DEF TInv, PileTypes
<1>6. liquid \in ScreenType /\ liquid.selected = <<>>
  <2>1. "LiquidMemories" \in Purposes \ Sourced
    BY DEF Purposes, DiscardSelects, Sourced, HandSelects, DrawSelects
  <2> QED BY <2>1, ScreenTypes
<1> HIDE DEF liquid
<1>7. CASE UNCHANGED decision
  <2>1. DecisionTypes'
    BY <1>3, <1>4, <1>7 DEF TInv, DecisionTypes, ChoiceHolds, ScreenOpen
  <2> QED BY <1>4, <1>5, <2>1, CommandStep
          DEF UseLiquidMemories, Drink, TInv, RestTypes
<1>8. CASE decision' = liquid
  <2>1. DecisionTypes'
    BY <1>4, <1>6, <1>8, NothingChosen DEF TInv, DecisionTypes
  <2> QED BY <1>4, <1>5, <2>1, CommandStep
          DEF UseLiquidMemories, Drink, TInv, RestTypes
<1> QED BY <1>2, <1>7, <1>8
------------------------------------------------------------------------------
(* Answers *)

\* A new choice is made while no work is in progress.
LEMMA SelectTypes ==
  ASSUME TInv, CanCommand, ScreenOpen, UNCHANGED <<piles, frames>>,
         NEW selected \in Seq(Nat), Select(selected),
         decision.purpose \in HandSelects \union ExhaustSelects =>
           ToSet(selected) \subseteq DOMAIN hand,
         decision.purpose = "Scry" => selected \in Seq(CardIds)
  PROVE  DecisionTypes'
<1>1. decision \in ScreenType /\ frames \in WorkType
  BY DEF TInv, DecisionTypes
<1>2. decision' = [decision EXCEPT !.selected = selected]
  BY DEF Select
<1>3. decision' \in ScreenType
  BY <1>1, <1>2 DEF ScreenType
<1>4. decision'.selected = selected /\ decision'.purpose = decision.purpose
  BY <1>1, <1>2 DEF ScreenType
<1>5. ChoiceHolds'
  BY <1>4 DEF ChoiceHolds, ScreenOpen, CanCommand, piles
<1> QED BY <1>1, <1>3, <1>5 DEF DecisionTypes

LEMMA ToggledTypes ==
  ASSUME NEW S, decision.selected \in Seq(S), NEW i \in S
  PROVE  Toggled(i) \in Seq(S)
BY WithoutType, PiecesType DEF Toggled

LEMMA ChooseTypes ==
  ASSUME TInv, NEW i,
         ChooseHandSelect(i) \/ ChooseScry(i) \/ ChooseExhaustSelect(i)
  PROVE  TInv'
<1>1. /\ hand \in Seq(CardIds) /\ decision.selected \in Seq(Nat)
      /\ ChoiceHolds /\ CardIds \subseteq Nat
  BY DEF TInv, PileTypes, DecisionTypes, ScreenType, CardIds
<1>2. PileTypes' /\ RecordTypes' /\ UNCHANGED <<piles, frames, public, cards, combat>>
  BY SameRecordTypes
     DEF ChooseHandSelect, ChooseScry, ChooseExhaustSelect, piles, public, TInv,
         PileTypes
<1>3. CanCommand /\ ScreenOpen
  BY DEF ChooseHandSelect, ChooseScry, ChooseExhaustSelect, Answering,
         ScreenOpen, HandSelects, ExhaustSelects
<1>4. ASSUME i \in DOMAIN hand, decision.purpose \in HandSelects \union ExhaustSelects
      PROVE  /\ <<i>> \in Seq(Nat) /\ Toggled(i) \in Seq(Nat)
             /\ ToSet(<<i>>) \subseteq DOMAIN hand
             /\ ToSet(Toggled(i)) \subseteq DOMAIN hand
  <2>1. i \in Nat /\ DOMAIN hand \subseteq Nat
    BY <1>1, <1>4
  <2>2. decision.selected \in Seq(DOMAIN hand)
    <3>1. ToSet(decision.selected) \subseteq DOMAIN hand
      BY <1>1, <1>4 DEF ChoiceHolds
    <3>2. \A k \in 1..Len(decision.selected) : decision.selected[k] \in DOMAIN hand
      BY <1>1, <3>1 DEF ToSet
    <3> QED BY <1>1, <3>2
  <2>3. Toggled(i) \in Seq(DOMAIN hand) /\ <<i>> \in Seq(DOMAIN hand)
    BY <1>4, <2>2, ToggledTypes
  <2>4. Toggled(i) \in Seq(Nat)
    BY <1>1, <2>1, ToggledTypes
  <2>5. <<i>> \in Seq(Nat)
    BY <2>1
  <2>6. ToSet(<<i>>) \subseteq DOMAIN hand
    BY <2>3, ToSetType
  <2>7. ToSet(Toggled(i)) \subseteq DOMAIN hand
    BY <2>3, ToSetType
  <2> QED BY <2>4, <2>5, <2>6, <2>7
<1>5. CASE ChooseHandSelect(i)
  <2>1. /\ Select(<<i>>) /\ i \in DOMAIN hand
        /\ decision.purpose \in HandSelects /\ decision.purpose # "Scry"
    BY <1>5 DEF ChooseHandSelect, Answering, HandSelects
  <2>2. DecisionTypes'
    BY <1>2, <1>3, <1>4, <2>1, SelectTypes
  <2> QED BY <1>2, <2>2, WorkStep
<1>6. CASE ChooseExhaustSelect(i)
  <2>1. /\ Select(<<i>>) \/ Select(Toggled(i))
        /\ i \in DOMAIN hand
        /\ decision.purpose \in ExhaustSelects /\ decision.purpose # "Scry"
    BY <1>6 DEF ChooseExhaustSelect, Answering, ExhaustSelects
  <2>2. DecisionTypes'
    BY <1>2, <1>3, <1>4, <2>1, SelectTypes
  <2> QED BY <1>2, <2>2, WorkStep
<1>7. CASE ChooseScry(i)
  <2>1. /\ Select(Toggled(i)) /\ i \in decision.selectable
        /\ decision.purpose = "Scry"
        /\ decision.purpose \notin HandSelects \union ExhaustSelects
    BY <1>7 DEF ChooseScry, Answering, HandSelects, ExhaustSelects
  <2>2. i \in CardIds
    BY <2>1 DEF TInv, DecisionTypes, ScreenType
  <2>3. Toggled(i) \in Seq(CardIds) /\ Toggled(i) \in Seq(Nat)
    BY <1>1, <2>1, <2>2, ToggledTypes DEF ChoiceHolds
  <2>4. DecisionTypes'
    BY <1>2, <1>3, <2>1, <2>3, SelectTypes
  <2> QED BY <1>2, <2>4, WorkStep
<1> QED BY <1>5, <1>6, <1>7

\* The chosen cards of a hand screen are cards of the hand.
LEMMA ChosenTypes ==
  ASSUME TInv, decision.purpose \in HandSelects \union ExhaustSelects
  PROVE  Chosen \in Seq(CardIds) /\ Len(Chosen) \in Nat
         /\ \A k \in DOMAIN decision.selected :
              hand[decision.selected[k]] \in CardIds
<1>1. /\ hand \in Seq(CardIds) /\ decision.selected \in Seq(Nat)
      /\ ToSet(decision.selected) \subseteq DOMAIN hand
  BY DEF TInv, PileTypes, DecisionTypes, ScreenType, ChoiceHolds
<1>2. \A k \in DOMAIN decision.selected : hand[decision.selected[k]] \in CardIds
  BY <1>1 DEF ToSet
<1>3. /\ Chosen \in [1..Len(decision.selected) -> CardIds]
      /\ Len(decision.selected) \in Nat
  BY <1>1, <1>2 DEF Chosen
<1>4. Chosen \in Seq(CardIds)
  BY <1>3
<1>5. Len(Chosen) \in Nat
  BY <1>4
<1> QED BY <1>2, <1>4, <1>5

LEMMA ConfirmHandSelectTypes ==
  ASSUME TInv, ConfirmHandSelect
  PROVE  TInv'
<1> DEFINE c    == hand[decision.selected[1]]
           pend == decision.pending
           other == Dropping(pend, ActionsOf({"DrawCards"}))
           settle == <<Act("SettleHandSource", decision.source, 0)>>
           draws == Dropping(pend, ActionsOf(Ops \ {"DrawCards"}))
<1>1. /\ PileTypes /\ RecordTypes /\ hand \in Seq(CardIds)
      /\ decision.source \in CardIds /\ decision.selected \in Seq(Nat)
      /\ pend \in Seq(InternalAction)
  BY DEF ConfirmHandSelect, Answering, Sourced, TInv, PileTypes, DecisionTypes,
         ScreenType
<1>2. c \in CardIds
  <2>1. decision.purpose \in HandSelects /\ 1 \in DOMAIN decision.selected
    BY <1>1 DEF ConfirmHandSelect, Answering
  <2> QED BY <2>1, ChosenTypes
<1>3. /\ hand' = Without(hand, c)
      /\ PutOnTop(c) \/ PutOnBottom(c)
      /\ Close(<<other, settle, draws>>)
      /\ UNCHANGED <<discardPile, exhaustPile, limbo, cards, combat>>
  BY DEF ConfirmHandSelect
<1> HIDE DEF c
<1>4. RecordTypes'
  BY <1>1, <1>2, <1>3, TopTypes, BottomTypes
<1>5. PileTypes'
  <2>1. hand' \in Seq(CardIds)
    BY <1>1, <1>3, WithoutType
  <2>2. UNCHANGED <<discardPile, exhaustPile, limbo>>
    BY <1>3
  <2> QED BY <1>1, <2>1, <2>2 DEF PileTypes
<1>6. <<other, settle, draws>> \in WorkType
  <2>1. other \in Seq(InternalAction) /\ draws \in Seq(InternalAction)
    BY <1>1, DroppingType
  <2>2. "SettleHandSource" \in Ops \ DOMAIN AwaitPurposes
    BY DEF Ops, AwaitPurposes
  <2>3. settle \in Seq(InternalAction)
    BY <1>1, <2>2, ActTypes
  <2> HIDE DEF other, settle, draws
  <2> QED BY <2>1, <2>3 DEF WorkType
<1>7. DecisionTypes'
  BY <1>3, <1>6, CloseTypes
<1> QED BY <1>3, <1>4, <1>5, <1>7, WorkStep

\* Work made of one or two queues.
LEMMA QueuesType ==
  ASSUME NEW a \in Seq(InternalAction), NEW b \in Seq(InternalAction)
  PROVE  <<a>> \in WorkType /\ <<a, b>> \in WorkType
BY DEF WorkType

LEMMA PendingType == ASSUME TInv PROVE decision.pending \in Seq(InternalAction)
BY DEF TInv, DecisionTypes, ScreenType

LEMMA ChooseSecretTechniqueTypes ==
  ASSUME TInv, NEW c \in CardIds, ChooseSecretTechnique(c)
  PROVE  TInv'
<1>1. PileTypes' /\ RecordTypes'
  BY TakeTypes DEF ChooseSecretTechnique, TInv, PileTypes
<1>2. decision.source \in CardIds
  BY DEF ChooseSecretTechnique, Answering, Sourced, DrawSelects, TInv,
         DecisionTypes, ScreenType
<1>3. "MoveDrawSelectSource" \in Ops \ DOMAIN AwaitPurposes
  BY DEF Ops, AwaitPurposes
<1>4. Act("MoveDrawSelectSource", decision.source, 0) \in InternalAction
  BY <1>2, <1>3, ActTypes
<1>5. <<Act("MoveDrawSelectSource", decision.source, 0)>> \in Seq(InternalAction)
  BY <1>4
<1>6. DecisionTypes'
  BY <1>5, PendingType, QueuesType, CloseTypes DEF ChooseSecretTechnique
<1> QED BY <1>1, <1>6, WorkStep DEF ChooseSecretTechnique

LEMMA ConfirmScryTypes ==
  ASSUME TInv, ConfirmScry
  PROVE  TInv'
<1> DEFINE chosen == ToSet(decision.selected)
<1>1. /\ PileTypes /\ RecordTypes /\ discardPile \in Seq(CardIds)
      /\ decision.source \in CardIds /\ decision.selected \in Seq(CardIds)
  BY DEF ConfirmScry, Answering, Sourced, DrawSelects, TInv, PileTypes,
         DecisionTypes, ScreenType, ChoiceHolds
<1>2. RecordTypes'
  <2>1. \/ UNCHANGED <<drawPile, public>>
        \/ /\ drawPile' = Dropping(drawPile, chosen)
           /\ known' = Nothing
           /\ possible' = AfterRemoval(possible, chosen, Len(drawPile'))
    BY DEF ConfirmScry
  <2> HIDE DEF chosen
  <2> QED BY <1>1, <2>1, RemovalTypes, SameRecordTypes
<1>3. PileTypes'
  <2>1. discardPile \o decision.selected \in Seq(CardIds)
    BY <1>1
  <2>2. discardPile' \in Seq(CardIds)
    BY <1>1, <2>1, PiecesType DEF ConfirmScry
  <2>3. limbo' \in Seq(CardIds)
    BY <1>1, LeaveLimboTypes DEF ConfirmScry
  <2>4. UNCHANGED <<hand, exhaustPile>>
    BY DEF ConfirmScry
  <2> QED BY <1>1, <2>2, <2>3, <2>4 DEF PileTypes
<1>4. DecisionTypes'
  BY PendingType, QueuesType, CloseTypes DEF ConfirmScry
<1> QED BY <1>2, <1>3, <1>4, WorkStep DEF ConfirmScry

LEMMA ChooseHeadbuttTypes ==
  ASSUME TInv, NEW i, ChooseHeadbutt(i)
  PROVE  TInv'
<1>1. /\ PileTypes /\ RecordTypes /\ discardPile \in Seq(CardIds)
      /\ decision.source \in CardIds /\ i \in DOMAIN discardPile
  BY DEF ChooseHeadbutt, Answering, Sourced, TInv, PileTypes, DecisionTypes,
         ScreenType
<1>2. discardPile[i] \in CardIds /\ RemoveAt(discardPile, i) \in Seq(CardIds)
  BY <1>1, PiecesType
<1>3. PileTypes'
  <2>1. discardPile' \in Seq(CardIds)
    BY <1>1, <1>2, PiecesType DEF ChooseHeadbutt
  <2> QED BY <1>1, <2>1 DEF ChooseHeadbutt, PileTypes
<1>4. RecordTypes'
  BY <1>1, <1>2, TopTypes DEF ChooseHeadbutt
<1>5. DecisionTypes'
  BY PendingType, QueuesType, CloseTypes DEF ChooseHeadbutt
<1> QED BY <1>3, <1>4, <1>5, WorkStep DEF ChooseHeadbutt

LEMMA ChooseLiquidMemoriesTypes ==
  ASSUME TInv, NEW i, ChooseLiquidMemories(i)
  PROVE  TInv'
<1>1. /\ PileTypes /\ RecordTypes /\ i \in DOMAIN discardPile
      /\ hand \in Seq(CardIds) /\ discardPile \in Seq(CardIds)
  BY DEF ChooseLiquidMemories, TInv, PileTypes
<1>2. discardPile[i] \in CardIds /\ RemoveAt(discardPile, i) \in Seq(CardIds)
  BY <1>1, PiecesType
<1>3. hand \o <<discardPile[i]>> \in Seq(CardIds)
  BY <1>1, <1>2
<1>4. PileTypes'
  BY <1>1, <1>2, <1>3 DEF ChooseLiquidMemories, Returned, PileTypes
<1>5. RecordTypes'
  BY <1>1, SameRecordTypes DEF ChooseLiquidMemories
<1>6. DecisionTypes'
  BY PendingType, QueuesType, CloseTypes DEF ChooseLiquidMemories
<1> QED BY <1>4, <1>5, <1>6, WorkStep DEF ChooseLiquidMemories

\* True Grit, Elixir and Gambler's Brew.
LEMMA ConfirmExhaustSelectTypes ==
  ASSUME TInv, ConfirmTrueGrit \/ ConfirmElixir \/ ConfirmGamblingChip
  PROVE  TInv'
<1>1. /\ PileTypes /\ RecordTypes /\ hand \in Seq(CardIds)
      /\ exhaustPile \in Seq(CardIds) /\ discardPile \in Seq(CardIds)
      /\ decision.purpose = "TrueGrit" => decision.source \in CardIds
  BY DEF Sourced, TInv, PileTypes, DecisionTypes, ScreenType
<1>2. Chosen \in Seq(CardIds) /\ Len(Chosen) \in Nat
  BY ChosenTypes
     DEF ConfirmTrueGrit, ConfirmElixir, ConfirmGamblingChip, Answering,
         ExhaustSelects
<1>3. NotChosen \in Seq(CardIds)
  BY <1>1, DroppingType DEF NotChosen
<1>4. exhaustPile \o Chosen \in Seq(CardIds) /\ discardPile \o Chosen \in Seq(CardIds)
  BY <1>1, <1>2
<1>5. /\ hand' = NotChosen /\ UNCHANGED limbo
      /\ exhaustPile' = exhaustPile \/ exhaustPile' = exhaustPile \o Chosen
      /\ \/ discardPile' = discardPile
         \/ discardPile' = discardPile \o Chosen
         \/ /\ decision.purpose = "TrueGrit"
            /\ discardPile' = Append(discardPile, decision.source)
  BY DEF ConfirmTrueGrit, ConfirmElixir, ConfirmGamblingChip, Answering
<1>6. PileTypes'
  <2>1. exhaustPile' \in Seq(CardIds)
    BY <1>1, <1>4, <1>5
  <2>2. decision.purpose = "TrueGrit" =>
          Append(discardPile, decision.source) \in Seq(CardIds)
    BY <1>1, PiecesType
  <2>3. discardPile' \in Seq(CardIds)
    BY <1>1, <1>4, <1>5, <2>2
  <2> QED BY <1>1, <1>3, <1>5, <2>1, <2>3 DEF PileTypes
<1>7. RecordTypes' /\ UNCHANGED <<cards, combat>>
  BY <1>1, SameRecordTypes
     DEF ConfirmTrueGrit, ConfirmElixir, ConfirmGamblingChip
<1>8. DecisionTypes'
  <2>1. CASE ConfirmTrueGrit \/ ConfirmElixir
    BY <2>1, PendingType, QueuesType, CloseTypes DEF ConfirmTrueGrit, ConfirmElixir
  <2>2. CASE ConfirmGamblingChip
    <3>1. "DrawCards" \in Ops \ DOMAIN AwaitPurposes
      BY DEF Ops, AwaitPurposes
    <3>2. Act("DrawCards", None, Len(Chosen)) \in InternalAction
      BY <1>2, <3>1, ActTypes
    <3>3. <<Act("DrawCards", None, Len(Chosen))>> \in Seq(InternalAction)
      BY <3>2
    <3> QED BY <2>2, <3>3, PendingType, QueuesType, CloseTypes
            DEF ConfirmGamblingChip
  <2> QED BY <2>1, <2>2
<1> QED BY <1>6, <1>7, <1>8, WorkStep

LEMMA CombatCardRewardTypes ==
  ASSUME TInv, ChooseCombatCardReward \/ SkipCombatCardReward
  PROVE  TInv'
<1>1. DecisionTypes'
  BY PendingType, QueuesType, CloseTypes
     DEF ChooseCombatCardReward, SkipCombatCardReward
<1>2. CASE ChooseCombatCardReward
  <2> DEFINE c == NextCardInstanceId
  <2>1. /\ Issue(c, "Strike") /\ hand' = Append(hand, c)
        /\ UNCHANGED <<drawPile, discardPile, exhaustPile, limbo, public, combat>>
    BY <1>2 DEF ChooseCombatCardReward
  <2> HIDE DEF c
  <2>2. RestTypes' /\ c \in CardIds
    BY <2>1, IssueTypes DEF Contents, Attacks, TInv
  <2>3. PileTypes' /\ RecordTypes'
    BY <2>1, <2>2, PiecesType, SameRecordTypes DEF TInv, PileTypes
  <2> QED BY <1>1, <2>2, <2>3 DEF TInv
<1>3. CASE SkipCombatCardReward
  BY <1>1, <1>3, SameRecordTypes, WorkStep
     DEF SkipCombatCardReward, piles, public, TInv, PileTypes
<1> QED BY <1>2, <1>3

LEMMA CommandTypes ==
  ASSUME TInv, Command
  PROVE  TInv'
BY PlayCardTypes, EndTurnTypes, UseQueuedPotionTypes, UseFirePotionTypes,
   UseLiquidMemoriesTypes, ChooseTypes, ConfirmHandSelectTypes,
   ChooseSecretTechniqueTypes, ConfirmScryTypes, ChooseHeadbuttTypes,
   ChooseLiquidMemoriesTypes, ConfirmExhaustSelectTypes, CombatCardRewardTypes
   DEF Command

------------------------------------------------------------------------------
(* The theorems *)

LEMMA InitTypes == Init => TInv
<1> SUFFICES ASSUME Init PROVE TInv
  OBVIOUS
<1> DEFINE n == Len(Deck)
           orders == Orders(1..n, n)
           dealt == Min2(HandSize, n)
<1>1. n \in Nat /\ dealt \in 0..n /\ 1..n \in SUBSET CardIds
  BY DeckAssumption, SizesAssumption DEF Min2, CardIds
<1>2. PICK order \in orders :
        /\ hand = TopOf(order, dealt)
        /\ drawPile = DropTop(order, dealt)
        /\ possible = AfterDraw(orders, hand)
  BY DEF Init, Deal
<1>3. \A s \in orders : s \in Seq(CardIds) /\ Len(s) = n
  BY <1>1, OrdersType
<1> HIDE DEF orders, dealt
<1>4. hand \in Seq(CardIds) /\ drawPile \in Seq(CardIds)
  BY <1>1, <1>2, <1>3, TopType
<1>5. possible \subseteq Seq(CardIds)
  BY <1>1, <1>2, <1>3, AfterDrawTypes
<1>6. PileTypes
  BY <1>4, EmptyType DEF Init, Deal, PileTypes
<1>7. RecordTypes
  BY <1>4, <1>5 DEF Init, Deal, RecordTypes
<1>8. RestTypes
  <2>1. content = [c \in CardIds |-> IF c <= Len(Deck) THEN Deck[c] ELSE "Wound"]
    BY DEF Init, Deal
  <2>2. \A c \in CardIds : c <= Len(Deck) => Deck[c] \in Contents
    BY DeckAssumption DEF CardIds
  <2>3. content \in [CardIds -> Contents]
    BY <2>1, <2>2 DEF Contents
  <2> QED BY <1>1, <2>3, NamesAssumption DEF Init, Deal, RestTypes
<1>9. DecisionTypes
  <2>1. decision \in ScreenType /\ decision.selected = <<>> /\ decision = NoScreen
    BY NoScreenTypes DEF Init, Deal
  <2>2. ChoiceHolds
    BY <2>1, EmptyType DEF ChoiceHolds, ToSet
  <2>3. frames \in WorkType
    BY EmptyType DEF Init, Deal, WorkType
  <2> QED BY <2>1, <2>2, <2>3 DEF DecisionTypes
<1> QED BY <1>6, <1>7, <1>8, <1>9 DEF TInv

LEMMA NextTypes == TInv /\ [Next]_vars => TInv'
<1> SUFFICES ASSUME TInv, [Next]_vars PROVE TInv'
  OBVIOUS
<1>1. CASE RunQueue
  BY <1>1, RunQueueTypes
<1>2. CASE Command
  BY <1>2, CommandTypes
<1>3. CASE UNCHANGED vars
  <2>1. DecisionTypes'
    BY <1>3 DEF vars, piles, TInv, DecisionTypes, ChoiceHolds, ScreenOpen
  <2>2. PileTypes' /\ RecordTypes'
    BY <1>3, SameRecordTypes DEF vars, piles, public, TInv, PileTypes
  <2> QED BY <1>3, <2>1, <2>2, WorkStep DEF vars
<1> QED BY <1>1, <1>2, <1>3 DEF Next, CombatOver

\* The types of every variable hold of every deck: in particular, a command
\* never moves a card that is not there.
THEOREM TypeCorrect == Spec => []TypeOK
<1>1. TInv => TypeOK
  BY DEF TInv, PileTypes, RecordTypes, RestTypes, DecisionTypes, ScreenType,
         WorkType, TypeOK
<1> QED BY <1>1, InitTypes, NextTypes, PTL DEF Spec

\* What the player has chosen in a screen exists, in whatever order potions
\* were used while it was open, and nothing runs meanwhile.
THEOREM ChoicesExist == Spec => []ChoiceHolds
<1>1. TInv => ChoiceHolds
  BY DEF TInv, DecisionTypes
<1> QED BY <1>1, InitTypes, NextTypes, PTL DEF Spec

------------------------------------------------------------------------------
(***************************************************************************)
(* The work in progress and the selection screens of CombatSelect.         *)
(*                                                                         *)
(* The argument follows the queues a command can leave.  A played card has *)
(* one queue, whose last action settles the card or opens its screen; any  *)
(* other command has a stack of potion and settling actions, in which only *)
(* settling actions and draws follow a queue that may open a screen.       *)
(***************************************************************************)

\* The operations of a list of actions.
OpsIn(q) == {a.op : a \in ToSet(q)}

SettleOps == {"SettleHandSource", "MoveDrawSelectSource"}
OpenOps   == {"OpenElixirSelection", "OpenGamblersBrewSelection",
              "OpenPotionCardReward"}
PotionOps == OpenOps \union {"DrawCards"}
LateOps   == SettleOps \union {"DrawCards"}

\* The last action of a played card settles the card or opens its screen.
FinalOps == DOMAIN AwaitPurposes \union {"MoveCard", "ForethoughtAutoMove"}
CardOps  == Ops \ (OpenOps \union SettleOps)

\* What is left of a queue after its damage, if that was lethal or if not.
DeadOps == {"MoveCard", "AwaitDiscardSelect",
            "AddGeneratedCardToDrawPileRandomSpot"}
HitOps  == DeadOps \union {"DrawCardsWhilePlayedCardIsInLimbo"}

Forethinks(a) == a.op = "AwaitHandSelect" /\ a.purpose = "Forethought"
Searches(a)   == a.op = "AwaitDrawSelect" /\ a.purpose = "SecretTechnique"

\* q is what may be left of the queue of the played card c.
CardWork(q, c) ==
  /\ q # <<>>
  /\ \A i \in DOMAIN q :
       /\ q[i].op \in CardOps
       /\ q[i].op \in FinalOps <=> i = Len(q)
       /\ q[i].op \in FinalOps \union {"DrawCardsWhilePlayedCardIsInLimbo"}
            => q[i].card = c
       /\ q[i].op = "DealDamage" =>
            i = 1 /\ \A j \in DOMAIN q : j # 1 => q[j].op \in HitOps
       /\ q[i].op = "ForethoughtAutoMove" \/ Forethinks(q[i]) \/ Searches(q[i])
            => Len(q) = 1

\* What playing the card has made sure of before its only action runs.
Prepared(a) ==
  /\ a.op = "ForethoughtAutoMove" => Len(Without(hand, cardInUse)) = 1
  /\ Forethinks(a) => Without(hand, cardInUse) # <<>>
  /\ Searches(a) => SkillsIn(drawPile) # <<>>

PlayedCardWork ==
  /\ Len(frames) = 1
  /\ cardInUse \in ToSet(hand)
  /\ CardWork(Head(frames), cardInUse)
  /\ Prepared(Current)
  /\ ~ScreenOpen

Settling(q) == OpsIn(q) \intersect SettleOps # {}
Opening(q)  == OpsIn(q) \intersect OpenOps # {}

\* f is what may be left of the queues of any other command.
Stack(f) ==
  /\ \A i \in DOMAIN f : /\ OpsIn(f[i]) \subseteq PotionOps \union SettleOps
                         /\ Settling(f[i]) => Len(f[i]) = 1
  /\ \A i, j \in DOMAIN f : Settling(f[i]) /\ Settling(f[j]) => i = j
  /\ \A i, j \in DOMAIN f :
       i < j /\ Opening(f[i]) => OpsIn(f[j]) \subseteq LateOps

\* Nothing left in f opens a screen.
Late(f) == \A i \in DOMAIN f : OpsIn(f[i]) \subseteq LateOps

OtherWork == Stack(frames) /\ (ScreenOpen => Late(frames))

AliveShape ==
  monstersAlive => /\ phase = "WaitingForPlayer"
                   /\ PlayedCardWork \/ OtherWork

LethalShape ==
  ~monstersAlive =>
    /\ ~ScreenOpen
    /\ \/ phase = "Won" /\ frames = <<>>
       \/ /\ phase = "WaitingForPlayer"
          /\ Len(frames) = 1
          /\ OpsIn(Head(frames)) \subseteq DeadOps

PendingShape == OpsIn(decision.pending) \subseteq PotionOps

\* An open screen can be answered; nothing runs behind one that a card opened.
PileShape ==
  /\ decision.purpose \in HandSelects \union ExhaustSelects => hand # <<>>
  /\ decision.purpose \in DiscardSelects => Len(discardPile) >= 2
  /\ decision.purpose = "SecretTechnique" =>
       decision.selectable \intersect ToSet(drawPile) # {}
  /\ decision.purpose = "Scry" =>
       ToSet(decision.selected) \subseteq decision.selectable
                                          \intersect ToSet(drawPile)
  /\ decision.purpose \in Sourced \union {"LiquidMemories"} =>
       \A i \in DOMAIN frames : frames[i] = <<>>

SInv == TInv /\ AliveShape /\ LethalShape /\ PendingShape /\ PileShape

LEMMA ActionOps ==
  ASSUME NEW q \in Seq(InternalAction)
  PROVE  /\ OpsIn(q) \subseteq Ops
         /\ \A i \in DOMAIN q : q[i] \in InternalAction /\ q[i].op \in OpsIn(q)
         /\ q # <<>> => /\ OpsIn(q) = {Head(q).op} \union OpsIn(Tail(q))
                        /\ Tail(q) \in Seq(InternalAction)
         /\ OpsIn(<<>>) = {}
<1>1. \A a \in ToSet(q) : a \in InternalAction
  BY DEF ToSet
<1>2. \A a \in InternalAction : a.op \in Ops
  BY DEF InternalAction, ActionsOf
<1>3. q # <<>> => ToSet(q) = {Head(q)} \union ToSet(Tail(q))
  BY SetOfTail
<1>4. \A i \in DOMAIN q : q[i] \in ToSet(q) /\ q[i] \in InternalAction
  BY DEF ToSet
<1>5. q # <<>> => Tail(q) \in Seq(InternalAction)
  OBVIOUS
<1> QED BY <1>1, <1>2, <1>3, <1>4, <1>5, SetOfEmpty DEF OpsIn

LEMMA ConcatOps ==
  ASSUME NEW q \in Seq(InternalAction), NEW r \in Seq(InternalAction)
  PROVE  OpsIn(q \o r) = OpsIn(q) \union OpsIn(r)
<1>1. ToSet(q \o r) = ToSet(q) \union ToSet(r)
  BY SetOfConcat
<1> QED BY <1>1 DEF OpsIn

\* Dropping the actions of some operations leaves those of the others.
LEMMA DroppingOps ==
  ASSUME NEW q \in Seq(InternalAction), NEW X
  PROVE  /\ Dropping(q, ActionsOf(X)) \in Seq(InternalAction)
         /\ OpsIn(Dropping(q, ActionsOf(X))) = OpsIn(q) \ X
<1>1. /\ Dropping(q, ActionsOf(X)) \in Seq(InternalAction)
      /\ ToSet(Dropping(q, ActionsOf(X))) = ToSet(q) \ ActionsOf(X)
  BY SetOfDropping
<1>2. \A a \in ToSet(q) : a \in InternalAction
  BY DEF ToSet
<1>3. \A a \in InternalAction : a \in ActionsOf(X) <=> a.op \in X
  BY DEF InternalAction, ActionsOf
<1> QED BY <1>1, <1>2, <1>3 DEF OpsIn

\* A screen lives in the first frame only when the frame gives way to less.
LEMMA ShrinkHead ==
  ASSUME NEW f \in WorkType, f # <<>>, NEW q \in Seq(InternalAction),
         OpsIn(q) \subseteq OpsIn(Head(f)), Settling(q) => Len(q) = 1
  PROVE  /\ Stack(f) => Stack(<<q>> \o Tail(f))
         /\ Late(f) => Late(<<q>> \o Tail(f))
         /\ Stack(f) /\ Opening(Head(f)) /\ q = <<>> => Late(<<q>> \o Tail(f))
<1> DEFINE g == <<q>> \o Tail(f)
<1>1. /\ DOMAIN f = 1..Len(f) /\ DOMAIN g = DOMAIN f /\ 1 \in DOMAIN f
      /\ g[1] = q /\ Head(f) = f[1]
      /\ \A i \in DOMAIN f : i # 1 => g[i] = f[i]
  <2>1. /\ Tail(f) \in Seq(Seq(InternalAction)) /\ <<q>> \in Seq(Seq(InternalAction))
        /\ f \in Seq(Seq(InternalAction))
    BY DEF WorkType
  <2>2. /\ Len(Tail(f)) = Len(f) - 1
        /\ \A i \in 1..Len(Tail(f)) : Tail(f)[i] = f[i + 1]
    BY <2>1
  <2>3. Len(g) = Len(f) /\ g[1] = q
    BY <2>1, <2>2
  <2>4. \A i \in 1..Len(Tail(f)) : g[1 + i] = Tail(f)[i]
    BY <2>1, <2>2
  <2>5. \A i \in 2..Len(f) : i - 1 \in 1..Len(Tail(f)) /\ i = 1 + (i - 1)
    BY <2>1, <2>2
  <2>6. \A i \in 2..Len(f) : g[i] = f[i]
    BY <2>1, <2>2, <2>4, <2>5
  <2> QED BY <2>1, <2>3, <2>6
<1> HIDE DEF g
<1>2. /\ OpsIn(g[1]) \subseteq OpsIn(f[1])
      /\ Settling(g[1]) => Settling(f[1])
      /\ Opening(g[1]) => Opening(f[1])
  BY <1>1 DEF Settling, Opening
<1>3. ASSUME Stack(f) PROVE Stack(g)
  <2>1. ASSUME NEW i \in DOMAIN g
        PROVE  /\ OpsIn(g[i]) \subseteq PotionOps \union SettleOps
               /\ Settling(g[i]) => Len(g[i]) = 1
    BY <1>1, <1>2, <1>3 DEF Stack
  <2>2. ASSUME NEW i \in DOMAIN g, NEW j \in DOMAIN g,
               Settling(g[i]), Settling(g[j])
        PROVE  i = j
    <3>1. Settling(f[i]) /\ Settling(f[j])
      BY <1>1, <1>2, <2>2
    <3> QED BY <1>1, <1>3, <3>1 DEF Stack
  <2>3. ASSUME NEW i \in DOMAIN g, NEW j \in DOMAIN g, i < j, Opening(g[i])
        PROVE  OpsIn(g[j]) \subseteq LateOps
    <3>1. Opening(f[i]) /\ j # 1
      BY <1>1, <1>2, <2>3
    <3> QED BY <1>1, <1>3, <2>3, <3>1 DEF Stack
  <2> QED BY <2>1, <2>2, <2>3 DEF Stack
<1>4. ASSUME Late(f) PROVE Late(g)
  BY <1>1, <1>2, <1>4 DEF Late
<1>5. ASSUME Stack(f), Opening(f[1]), q = <<>>
      PROVE  Late(g)
  <2>1. \A j \in DOMAIN f : j # 1 => OpsIn(f[j]) \subseteq LateOps
    BY <1>1, <1>5 DEF Stack
  <2>2. OpsIn(g[1]) = {}
    BY <1>1, <1>5, ActionOps
  <2> QED BY <1>1, <2>1, <2>2 DEF Late
<1> QED BY <1>1, <1>3, <1>4, <1>5 DEF g

LEMMA DropHead ==
  ASSUME NEW f \in WorkType, f # <<>>
  PROVE  /\ Stack(f) => Stack(Tail(f))
         /\ Late(f) => Late(Tail(f))
<1>1. /\ DOMAIN f = 1..Len(f)
      /\ DOMAIN Tail(f) = 1..(Len(f) - 1)
      /\ \A i \in DOMAIN Tail(f) : i + 1 \in DOMAIN f /\ Tail(f)[i] = f[i + 1]
      /\ Len(f) \in Nat
  BY DEF WorkType
<1>2. ASSUME Stack(f) PROVE Stack(Tail(f))
  <2>1. \A i, j \in DOMAIN Tail(f) : (i < j => i + 1 < j + 1)
                                     /\ (i + 1 = j + 1 => i = j)
    BY <1>1
  <2> QED BY <1>1, <1>2, <2>1 DEF Stack
<1>3. ASSUME Late(f) PROVE Late(Tail(f))
  BY <1>1, <1>3 DEF Late
<1> QED BY <1>2, <1>3

LEMMA NoWorkLeft ==
  /\ Stack(<<>>) /\ Late(<<>>)
  /\ Stack(<<<<>>>>) /\ Late(<<<<>>>>)
<1>1. OpsIn(<<>>) = {} /\ ~Settling(<<>>) /\ ~Opening(<<>>)
  BY ActionOps, EmptyType DEF Settling, Opening
<1>2. <<<<>>>>[1] = <<>> /\ DOMAIN <<<<>>>> = {1} /\ DOMAIN <<>> = {}
  OBVIOUS
<1> QED BY <1>1, <1>2 DEF Stack, Late

LEMMA LoneTail ==
  ASSUME NEW S, NEW s \in Seq(S), Len(s) = 1
  PROVE  Tail(s) = <<>>
<1>1. s # <<>>
  BY EmptySeq
<1>2. Tail(s) \in Seq(S) /\ Len(Tail(s)) = 0
  BY <1>1, HeadTailProperties
<1> QED BY <1>2, EmptySeq

LEMMA OneFrame ==
  ASSUME NEW f \in WorkType, Len(f) = 1, NEW q \in Seq(InternalAction)
  PROVE  <<q>> \o Tail(f) = <<q>> /\ Len(<<q>>) = 1 /\ Head(<<q>>) = q
<1> DEFINE S == Seq(InternalAction)
<1>1. f \in Seq(S) /\ <<q>> \in Seq(S)
  BY DEF WorkType
<1> HIDE DEF S
<1>2. Tail(f) = <<>>
  BY <1>1, LoneTail
<1>3. <<q>> \o <<>> = <<q>>
  BY <1>1, ConcatEmptySeq
<1>4. Len(<<q>>) = 1 /\ Head(<<q>>) = q
  OBVIOUS
<1> QED BY <1>2, <1>3, <1>4

\* The queue of a played card after its first action.
LEMMA CardTail ==
  ASSUME NEW q \in Seq(InternalAction), NEW c, CardWork(q, c)
  PROVE  /\ Head(q).op \in CardOps
         /\ Head(q).op \in FinalOps \union {"DrawCardsWhilePlayedCardIsInLimbo"}
              => Head(q).card = c
         /\ Head(q).op \in FinalOps => Tail(q) = <<>>
         /\ Head(q).op \notin FinalOps =>
              /\ CardWork(Tail(q), c)
              /\ Len(q) # 1
         /\ Head(q).op = "DealDamage" => OpsIn(Tail(q)) \subseteq HitOps
<1> DEFINE r == Tail(q)
<1>1. /\ q # <<>> /\ Len(q) \in Nat /\ 1 \in DOMAIN q /\ q[1] = Head(q)
      /\ DOMAIN q = 1..Len(q) /\ DOMAIN r = 1..(Len(q) - 1)
      /\ Len(r) = Len(q) - 1
      /\ r \in Seq(InternalAction)
      /\ \A i \in DOMAIN r : /\ i + 1 \in DOMAIN q
                             /\ r[i] = q[i + 1]
                             /\ i + 1 # 1
  BY DEF CardWork
<1>2. /\ q[1].op \in CardOps
      /\ q[1].op \in FinalOps <=> 1 = Len(q)
      /\ q[1].op \in FinalOps \union {"DrawCardsWhilePlayedCardIsInLimbo"}
           => q[1].card = c
  BY <1>1 DEF CardWork
<1>3. q[1].op \in FinalOps => r = <<>>
  BY <1>1, <1>2
<1>4. ASSUME q[1].op \notin FinalOps
      PROVE  CardWork(r, c) /\ Len(q) # 1
  <2>1. Len(q) # 1 /\ r # <<>>
    <3>1. Len(q) # 1
      BY <1>1, <1>2, <1>4
    <3>2. Len(r) # 0
      BY <1>1, <3>1
    <3> HIDE DEF r
    <3> QED BY <3>1, <3>2
  <2>2. ASSUME NEW i \in DOMAIN r
        PROVE  /\ r[i].op \in CardOps
               /\ r[i].op \in FinalOps <=> i = Len(r)
               /\ r[i].op \in FinalOps \union {"DrawCardsWhilePlayedCardIsInLimbo"}
                    => r[i].card = c
               /\ r[i].op # "DealDamage"
               /\ ~(r[i].op = "ForethoughtAutoMove" \/ Forethinks(r[i])
                      \/ Searches(r[i]))
    <3>1. i + 1 \in DOMAIN q /\ r[i] = q[i + 1] /\ i + 1 # 1
      BY <1>1
    <3>2. i + 1 = Len(q) <=> i = Len(r)
      BY <1>1
    <3> HIDE DEF r
    <3> QED BY <2>1, <3>1, <3>2 DEF CardWork
  <2> HIDE DEF r
  <2> QED BY <2>1, <2>2 DEF CardWork
<1>5. ASSUME q[1].op = "DealDamage"
      PROVE  OpsIn(r) \subseteq HitOps
  <2>1. \A i \in DOMAIN r : r[i].op \in HitOps
    BY <1>1, <1>5 DEF CardWork
  <2> HIDE DEF r
  <2> QED BY <2>1 DEF OpsIn, ToSet
<1> QED BY <1>1, <1>2, <1>3, <1>4, <1>5

------------------------------------------------------------------------------
(* One step of the queue *)

WorkShapes == AliveShape /\ LethalShape /\ PendingShape /\ PileShape

\* A closed screen asks nothing of the piles.
LEMMA ClosedShape ==
  ASSUME ~ScreenOpen
  PROVE  PileShape
BY DEF ScreenOpen, PileShape, HandSelects, ExhaustSelects, DiscardSelects,
       DrawSelects, Sourced

LEMMA FramesTypes ==
  ASSUME TInv
  PROVE  /\ frames \in WorkType
         /\ Len(frames) \in Nat
         /\ DOMAIN frames = 1..Len(frames)
         /\ \A i \in DOMAIN frames : frames[i] \in Seq(InternalAction)
         /\ frames # <<>> => /\ 1 \in DOMAIN frames
                             /\ Head(frames) = frames[1]
                             /\ Head(frames) \in Seq(InternalAction)
                             /\ Tail(frames) \in WorkType
         /\ decision.pending \in Seq(InternalAction)
BY DEF TInv, DecisionTypes, WorkType, ScreenType

\* Whose work an action is tells what else is left.
LEMMA WhoRuns ==
  ASSUME SInv, NEW op \in Ops, Running(op)
  PROVE  /\ frames # <<>> /\ Head(frames) # <<>>
         /\ Current.op = op /\ op \in OpsIn(Head(frames))
         /\ ~monstersAlive => /\ op \in DeadOps /\ ~ScreenOpen
                              /\ phase = "WaitingForPlayer" /\ Len(frames) = 1
                              /\ OpsIn(Head(frames)) \subseteq DeadOps
         /\ monstersAlive /\ op \in OpenOps \union SettleOps => OtherWork
         /\ monstersAlive /\ op \notin PotionOps \union SettleOps => PlayedCardWork
         /\ monstersAlive => /\ PlayedCardWork \/ OtherWork
                             /\ phase = "WaitingForPlayer"
<1>1. TInv /\ frames # <<>> /\ Head(frames) # <<>>
  BY DEF SInv, Running
<1>2. Current.op = op
  BY <1>1, RunningTypes
<1>3. OpsIn(Head(frames)) = {op} \union OpsIn(Tail(Head(frames)))
  BY <1>1, <1>2, FramesTypes, ActionOps DEF Current
<1>4. ~monstersAlive => /\ ~ScreenOpen
                        /\ phase = "WaitingForPlayer" /\ Len(frames) = 1
                        /\ OpsIn(Head(frames)) \subseteq DeadOps
  BY <1>1 DEF SInv, LethalShape
<1>5. monstersAlive => /\ PlayedCardWork \/ OtherWork
                       /\ phase = "WaitingForPlayer"
  BY DEF SInv, AliveShape
<1>6. PlayedCardWork => op \in CardOps
  BY <1>1, <1>2, FramesTypes, CardTail DEF PlayedCardWork, Current
<1>7. OtherWork => op \in PotionOps \union SettleOps
  BY <1>1, <1>3, FramesTypes DEF OtherWork, Stack
<1> QED BY <1>1, <1>2, <1>3, <1>4, <1>5, <1>6, <1>7 DEF CardOps

LEMMA GoOnFrames ==
  ASSUME SInv, NEW op \in Ops, Running(op), NEW screen,
         GoOn(screen, Tail(Head(frames)))
  PROVE  /\ screen.purpose # "None" => frames' = <<<<>>>> \o Tail(frames)
         /\ screen.purpose = "None" =>
              frames' = <<Tail(Head(frames))>> \o Tail(frames)
BY DEF GoOn

\* The next action of a played card, or the end of its queue.
LEMMA CardProceeds ==
  ASSUME SInv, NEW op \in Ops, Running(op), monstersAlive, PlayedCardWork,
         Proceed, UNCHANGED <<phase, monstersAlive, cardInUse>>,
         op \notin FinalOps => cardInUse \in ToSet(hand')
  PROVE  WorkShapes'
<1> DEFINE q == Head(frames)
<1>1. /\ q \in Seq(InternalAction) /\ q # <<>> /\ Len(frames) = 1
      /\ Head(q).op = op /\ CardWork(q, cardInUse)
      /\ phase = "WaitingForPlayer"
      /\ TInv
  BY WhoRuns, FramesTypes DEF PlayedCardWork, Current, SInv
<1>2. ~ScreenOpen /\ decision' = decision /\ frames' = <<Tail(q)>> \o Tail(frames)
  BY GoOnFrames DEF PlayedCardWork, Proceed, GoOn, ScreenOpen
<1>3. Tail(q) \in Seq(InternalAction) /\ frames \in WorkType
  BY <1>1, ActionOps, FramesTypes
<1>4. frames' = <<Tail(q)>>
  BY <1>1, <1>2, <1>3, OneFrame
<1>5. ~ScreenOpen'
  BY <1>2 DEF ScreenOpen
<1>6. PileShape'
  BY <1>5, ClosedShape, PTL
<1>7. PendingShape'
  BY <1>2 DEF PendingShape, SInv
<1>8. AliveShape'
  <2>1. CASE op \in FinalOps
    <3>1. frames' = <<<<>>>>
      BY <1>1, <1>4, <2>1, CardTail
    <3>2. Stack(frames')
      BY <3>1, NoWorkLeft
    <3> QED BY <1>1, <1>5, <3>2 DEF AliveShape, OtherWork
  <2>2. CASE op \notin FinalOps
    <3>1. CardWork(Tail(q), cardInUse) /\ Tail(q) \in Seq(InternalAction)
      BY <1>1, <2>2, CardTail, ActionOps
    <3>2. Len(frames') = 1 /\ Head(frames') = Tail(q)
      BY <1>4
    <3>3. Prepared(Current)'
      <4>1. Tail(q) # <<>> /\ Len(q) # 1
        BY <1>1, <2>2, <3>1, CardTail DEF CardWork
      <4>2. Head(Tail(q)) = q[2] /\ 2 \in DOMAIN q
        BY <1>1, <4>1
      <4>3. ~(q[2].op = "ForethoughtAutoMove" \/ Forethinks(q[2]) \/ Searches(q[2]))
        BY <1>1, <4>1, <4>2 DEF CardWork
      <4>4. Current' = q[2]
        BY <3>2, <4>2 DEF Current
      <4> QED BY <4>3, <4>4 DEF Prepared, Forethinks, Searches
    <3> QED BY <1>1, <1>5, <2>2, <3>1, <3>2, <3>3 DEF AliveShape, PlayedCardWork
  <2> QED BY <2>1, <2>2
<1>9. LethalShape'
  BY DEF LethalShape
<1> QED BY <1>6, <1>7, <1>8, <1>9 DEF WorkShapes

\* The next potion or settling action, which an open screen may park.
LEMMA OtherProceeds ==
  ASSUME SInv, NEW op \in Ops, Running(op), monstersAlive, OtherWork,
         Proceed, UNCHANGED <<phase, monstersAlive>>,
         hand # <<>> => hand' # <<>>
  PROVE  WorkShapes'
<1> DEFINE q == Head(frames)
           left == Tail(q)
<1>1. /\ frames \in WorkType /\ frames # <<>>
      /\ q \in Seq(InternalAction) /\ q # <<>> /\ q = frames[1]
      /\ 1 \in DOMAIN frames
      /\ phase = "WaitingForPlayer"
      /\ TInv
      /\ decision.pending \in Seq(InternalAction)
  BY WhoRuns, FramesTypes DEF SInv
<1>2. /\ left \in Seq(InternalAction)
      /\ OpsIn(left) \subseteq OpsIn(q)
      /\ OpsIn(<<>>) = {}
      /\ <<>> \in Seq(InternalAction)
  BY <1>1, ActionOps, EmptyType
<1>3. Settling(q) => left = <<>>
  <2>1. Settling(q) => Len(q) = 1
    BY <1>1 DEF OtherWork, Stack
  <2> QED BY <1>1, <2>1, LoneTail
<1>4. Settling(left) => Len(left) = 1
  BY <1>2, <1>3 DEF Settling
<1>5. CASE ScreenOpen
  <2>1. /\ frames' = <<<<>>>> \o Tail(frames)
        /\ decision' = [decision EXCEPT !.pending = @ \o left]
    BY <1>5 DEF Proceed, GoOn, ScreenOpen
  <2>2. /\ decision'.purpose = decision.purpose
        /\ decision'.selectable = decision.selectable
        /\ decision'.selected = decision.selected
        /\ decision'.pending = decision.pending \o left
    BY <1>1, <2>1 DEF TInv, DecisionTypes, ScreenType
  <2>3. OpsIn(left) \subseteq PotionOps
    <3>1. OpsIn(q) \subseteq LateOps
      BY <1>1, <1>5 DEF OtherWork, Late
    <3>2. CASE Settling(q)
      BY <1>2, <1>3, <3>2
    <3>3. CASE ~Settling(q)
      BY <1>2, <3>1, <3>3 DEF Settling, LateOps, PotionOps
    <3> QED BY <3>2, <3>3
  <2>4. PendingShape'
    <3>1. OpsIn(decision.pending) \subseteq PotionOps
      BY DEF SInv, PendingShape
    <3>2. OpsIn(decision.pending \o left) = OpsIn(decision.pending) \union OpsIn(left)
      BY <1>1, <1>2, ConcatOps
    <3> QED BY <2>2, <2>3, <3>1, <3>2 DEF PendingShape
  <2>5. Stack(frames') /\ Late(frames')
    <3>1. ~Settling(<<>>)
      BY <1>2 DEF Settling
    <3>2. /\ Stack(frames) => Stack(<<<<>>>> \o Tail(frames))
          /\ Late(frames) => Late(<<<<>>>> \o Tail(frames))
      BY <1>1, <1>2, <3>1, ShrinkHead
    <3> QED BY <1>5, <2>1, <3>2 DEF OtherWork
  <2>6. AliveShape'
    BY <1>1, <2>5 DEF AliveShape, OtherWork
  <2>7. decision.purpose \notin Sourced \union {"LiquidMemories"}
    BY <1>1 DEF SInv, PileShape
  <2>8. PileShape'
    <3>1. /\ decision.purpose \notin DiscardSelects
          /\ decision.purpose # "SecretTechnique"
          /\ decision.purpose # "Scry"
      BY <2>7 DEF Sourced, DiscardSelects, DrawSelects
    <3> QED BY <2>2, <2>7, <3>1 DEF SInv, PileShape
  <2> QED BY <2>4, <2>6, <2>8 DEF WorkShapes, LethalShape
<1>6. CASE ~ScreenOpen
  <2>1. frames' = <<left>> \o Tail(frames) /\ decision' = decision
    BY <1>6 DEF Proceed, GoOn, ScreenOpen
  <2>2. ~ScreenOpen'
    BY <1>6, <2>1 DEF ScreenOpen
  <2>3. Stack(frames')
    <3>1. Stack(frames) => Stack(<<left>> \o Tail(frames))
      <4> HIDE DEF left
      <4> QED BY <1>1, <1>2, <1>4, ShrinkHead
    <3> QED BY <2>1, <3>1 DEF OtherWork
  <2>4. AliveShape'
    BY <1>1, <2>2, <2>3 DEF AliveShape, OtherWork
  <2>5. PendingShape' /\ LethalShape'
    BY <2>1 DEF PendingShape, LethalShape, SInv
  <2> QED BY <2>2, <2>4, <2>5, ClosedShape, PTL DEF WorkShapes
<1> QED BY <1>5, <1>6

\* After the last monster died only the card is left to settle.
LEMMA DeadProceeds ==
  ASSUME SInv, NEW op \in Ops, Running(op), ~monstersAlive, Proceed,
         UNCHANGED <<phase, monstersAlive>>
  PROVE  WorkShapes'
<1> DEFINE q == Head(frames)
<1>1. /\ q \in Seq(InternalAction) /\ q # <<>> /\ Len(frames) = 1
      /\ phase = "WaitingForPlayer"
      /\ OpsIn(q) \subseteq DeadOps
      /\ ~ScreenOpen /\ TInv
  BY WhoRuns, FramesTypes DEF SInv
<1>2. decision' = decision /\ frames' = <<Tail(q)>> \o Tail(frames)
  BY <1>1 DEF Proceed, GoOn, ScreenOpen
<1>3. Tail(q) \in Seq(InternalAction) /\ frames \in WorkType
  BY <1>1, ActionOps, FramesTypes
<1>4. Len(frames') = 1 /\ Head(frames') = Tail(q)
  BY <1>1, <1>2, <1>3, OneFrame
<1>5. OpsIn(Tail(q)) \subseteq DeadOps
  BY <1>1, ActionOps
<1>6. ~ScreenOpen' /\ LethalShape'
  BY <1>1, <1>2, <1>4, <1>5 DEF ScreenOpen, LethalShape
<1>7. PendingShape' /\ AliveShape'
  BY <1>2 DEF PendingShape, AliveShape, SInv
<1> QED BY <1>6, <1>7, ClosedShape, PTL DEF WorkShapes

\* What an action that opens no screen must keep of the hand.
LEMMA ProceedShapes ==
  ASSUME SInv, NEW op \in Ops, Running(op), Proceed,
         UNCHANGED <<phase, monstersAlive, cardInUse>>,
         op \in CardOps \ FinalOps /\ cardInUse \in ToSet(hand)
           => cardInUse \in ToSet(hand'),
         op \in PotionOps \union SettleOps /\ hand # <<>> => hand' # <<>>
  PROVE  WorkShapes'
<1>1. CASE ~monstersAlive
  BY <1>1, DeadProceeds
<1>2. CASE monstersAlive /\ PlayedCardWork
  <2>1. op \in CardOps
    BY <1>2, WhoRuns, FramesTypes, CardTail DEF PlayedCardWork, Current, SInv
  <2>2. op \notin FinalOps => cardInUse \in ToSet(hand')
    BY <1>2, <2>1 DEF PlayedCardWork
  <2> QED BY <1>2, <2>2, CardProceeds
<1>3. CASE monstersAlive /\ OtherWork
  <2>1. op \in PotionOps \union SettleOps
    BY <1>3, WhoRuns, FramesTypes DEF SInv, OtherWork, Stack
  <2> QED BY <1>3, <2>1, OtherProceeds
<1> QED BY <1>1, <1>2, <1>3, WhoRuns

------------------------------------------------------------------------------
(* The actions of a queue *)

LEMMA EndQueueShapes ==
  ASSUME SInv, EndQueue
  PROVE  WorkShapes'
<1>1. /\ TInv /\ frames \in WorkType /\ frames # <<>> /\ Head(frames) = <<>>
      /\ frames' = Tail(frames)
      /\ phase' = IF monstersAlive THEN phase ELSE "Won"
      /\ decision' = IF monstersAlive THEN decision ELSE NoScreen
      /\ UNCHANGED <<piles, monstersAlive>>
      /\ Len(frames) \in Nat
  BY FramesTypes DEF SInv, EndQueue
<1>2. CASE monstersAlive
  <2>1. OtherWork /\ phase = "WaitingForPlayer"
    BY <1>1, <1>2 DEF SInv, AliveShape, PlayedCardWork, CardWork
  <2>2. Stack(frames') /\ (ScreenOpen => Late(frames'))
    BY <1>1, <2>1, DropHead DEF OtherWork
  <2>3. AliveShape' /\ LethalShape'
    BY <1>1, <1>2, <2>1, <2>2 DEF AliveShape, LethalShape, OtherWork, ScreenOpen
  <2>4. \A i \in DOMAIN frames' : i + 1 \in DOMAIN frames
                                  /\ frames'[i] = frames[i + 1]
    BY <1>1 DEF WorkType
  <2>5. PendingShape' /\ PileShape'
    BY <1>1, <1>2, <2>4 DEF SInv, PendingShape, PileShape, piles
  <2> QED BY <2>3, <2>5 DEF WorkShapes
<1>3. CASE ~monstersAlive
  <2>1. Len(frames) = 1
    BY <1>1, <1>3 DEF SInv, LethalShape
  <2>2. frames' = <<>>
    BY <1>1, <2>1, LoneTail DEF WorkType
  <2>3. decision' = NoScreen /\ ~ScreenOpen'
    BY <1>1, <1>3 DEF NoScreen, Screen, ScreenOpen
  <2>4. AliveShape' /\ LethalShape'
    BY <1>1, <1>3, <2>2, <2>3 DEF AliveShape, LethalShape
  <2>5. PendingShape'
    <3>1. decision'.pending = <<>>
      BY <2>3 DEF NoScreen, Screen
    <3> QED BY <3>1, ActionOps, EmptyType DEF PendingShape
  <2> QED BY <2>3, <2>4, <2>5, ClosedShape, PTL DEF WorkShapes
<1> QED BY <1>2, <1>3

\* A lethal hit cancels the draws left in the queue of the card.
LEMMA DealDamageShapes ==
  ASSUME SInv, Run_DealDamage
  PROVE  WorkShapes'
<1> DEFINE q == Head(frames)
           kept == Dropping(Tail(q), ActionsOf(CancelledPostLethal))
<1>1. PICK lethal \in BOOLEAN :
        /\ monstersAlive' = (monstersAlive /\ ~lethal)
        /\ GoOn(decision, IF lethal THEN kept ELSE Tail(q))
  BY DEF Run_DealDamage
<1>2. /\ Running("DealDamage") /\ "DealDamage" \in Ops
      /\ "DealDamage" \notin DeadOps \union FinalOps \union PotionOps \union SettleOps
      /\ UNCHANGED <<hand, phase, cardInUse>>
  BY DEF Run_DealDamage, Ops, DeadOps, FinalOps, PotionOps, OpenOps, SettleOps,
         AwaitPurposes, piles
<1>3. /\ monstersAlive /\ PlayedCardWork /\ phase = "WaitingForPlayer"
      /\ Current.op = "DealDamage"
  BY <1>2, WhoRuns
<1>4. /\ q \in Seq(InternalAction) /\ q # <<>> /\ Len(frames) = 1
      /\ Head(q).op = "DealDamage" /\ CardWork(q, cardInUse)
      /\ frames \in WorkType /\ ~ScreenOpen /\ TInv
  BY <1>2, <1>3, FramesTypes DEF PlayedCardWork, Current, SInv, Running
<1>5. CASE ~lethal
  <2>1. Proceed /\ UNCHANGED monstersAlive
    BY <1>1, <1>3, <1>5 DEF Proceed
  <2> QED BY <1>2, <1>3, <2>1, CardProceeds DEF PlayedCardWork
<1>6. CASE lethal
  <2>1. frames' = <<kept>> \o Tail(frames) /\ decision' = decision /\ ~monstersAlive'
    BY <1>1, <1>4, <1>6 DEF GoOn, ScreenOpen
  <2>2. /\ kept \in Seq(InternalAction)
        /\ OpsIn(kept) = OpsIn(Tail(q)) \ CancelledPostLethal
    BY <1>4, ActionOps, DroppingOps
  <2>3. OpsIn(Tail(q)) \subseteq HitOps
    BY <1>4, CardTail
  <2>4. OpsIn(kept) \subseteq DeadOps
    BY <2>2, <2>3 DEF HitOps, CancelledPostLethal
  <2>5. Len(frames') = 1 /\ Head(frames') = kept
    <3> HIDE DEF kept
    <3> QED BY <1>4, <2>1, <2>2, OneFrame
  <2>6. ~ScreenOpen' /\ LethalShape' /\ AliveShape'
    BY <1>2, <1>3, <1>4, <2>1, <2>4, <2>5 DEF ScreenOpen, LethalShape, AliveShape
  <2>7. PendingShape'
    BY <2>1 DEF PendingShape, SInv
  <2> QED BY <2>6, <2>7, ClosedShape, PTL DEF WorkShapes
<1> QED BY <1>5, <1>6

\* draw_cards_batch_in_place: how many cards are drawn, and from where.
LEMMA DrawCases ==
  ASSUME TInv, NEW n \in Nat, NEW base \in Seq(CardIds),
         NEW occupied \in Nat, NEW tail \in Seq(CardIds),
         Draw(n, base, occupied, tail)
  PROVE  \/ \E k \in 0..Len(drawPile) :
              /\ k <= Room(occupied)
              /\ hand' = base \o TopOf(drawPile, k) \o tail
              /\ drawPile' = DropTop(drawPile, k)
              /\ discardPile' = discardPile
         \/ \E order \in Orders(ToSet(discardPile), Len(discardPile)),
               l \in 0..Len(discardPile) :
              /\ Len(drawPile) + l <= Room(occupied)
              /\ hand' = base \o TopOf(drawPile, Len(drawPile))
                              \o TopOf(order, l) \o tail
              /\ drawPile' = DropTop(order, l)
              /\ discardPile' = <<>>
<1> DEFINE want  == Min2(n, Room(occupied))
           first == Min2(want, Len(drawPile))
           later == Min2(want - first, Len(discardPile))
           shuffles == Orders(ToSet(discardPile), Len(discardPile))
<1>1. Len(drawPile) \in Nat /\ Len(discardPile) \in Nat
  BY DEF TInv, PileTypes, RecordTypes
<1>2. want \in Nat /\ Room(occupied) \in Nat /\ want <= Room(occupied)
  BY SizesAssumption DEF Room, Min2
<1>3. first \in 0..Len(drawPile) /\ first <= want
      /\ (want > Len(drawPile) => first = Len(drawPile))
  <2> HIDE DEF want
  <2> QED BY <1>1, <1>2 DEF Min2
<1>4. later \in 0..Len(discardPile) /\ later <= want - first
  <2> HIDE DEF want, first
  <2> QED BY <1>1, <1>2, <1>3 DEF Min2
<1>5. \/ /\ want > Len(drawPile)
         /\ \E order \in shuffles :
              /\ hand' = base \o TopOf(drawPile, first) \o TopOf(order, later) \o tail
              /\ drawPile' = DropTop(order, later)
              /\ discardPile' = <<>>
      \/ /\ hand' = base \o TopOf(drawPile, first) \o tail
         /\ drawPile' = DropTop(drawPile, first)
         /\ UNCHANGED discardPile
  BY DEF Draw
<1> HIDE DEF want, first, later
<1>6. CASE /\ want > Len(drawPile)
           /\ \E order \in shuffles :
                /\ hand' = base \o TopOf(drawPile, first) \o TopOf(order, later) \o tail
                /\ drawPile' = DropTop(order, later)
                /\ discardPile' = <<>>
  <2>1. Len(drawPile) + later <= Room(occupied) /\ first = Len(drawPile)
    BY <1>1, <1>2, <1>3, <1>4, <1>6
  <2> HIDE DEF shuffles
  <2> QED BY <1>4, <1>6, <2>1 DEF shuffles
<1>7. CASE /\ hand' = base \o TopOf(drawPile, first) \o tail
           /\ drawPile' = DropTop(drawPile, first)
           /\ UNCHANGED discardPile
  <2>1. first <= Room(occupied)
    BY <1>1, <1>2, <1>3
  <2> QED BY <1>3, <1>7, <2>1
<1> QED BY <1>5, <1>6, <1>7

\* The shuffled cards are cards of the discard pile, each once.
LEMMA OrdersOfCards ==
  ASSUME TInv, NEW order \in Orders(ToSet(discardPile), Len(discardPile))
  PROVE  order \in Seq(CardIds) /\ Len(order) = Len(discardPile)
<1>1. ToSet(discardPile) \in SUBSET CardIds /\ Len(discardPile) \in Nat
  BY ToSetType DEF TInv, PileTypes
<1> QED BY <1>1, OrdersType

LEMMA ThreeParts ==
  ASSUME NEW S, NEW s \in Seq(S), NEW t \in Seq(S), NEW u \in Seq(S)
  PROVE  /\ s \o t \o u \in Seq(S)
         /\ ToSet(s \o t \o u) = ToSet(s) \union ToSet(t) \union ToSet(u)
<1> DEFINE front == s \o t
<1>1. front \in Seq(S) /\ ToSet(front) = ToSet(s) \union ToSet(t)
  BY SetOfConcat
<1> HIDE DEF front
<1>2. front \o u \in Seq(S) /\ ToSet(front \o u) = ToSet(front) \union ToSet(u)
  BY <1>1, SetOfConcat
<1> QED BY <1>1, <1>2 DEF front

\* A draw adds cards to the hand and takes none.
LEMMA DrawKeepsHand ==
  ASSUME TInv, NEW n \in Nat, NEW base \in Seq(CardIds),
         NEW occupied \in Nat, NEW tail \in Seq(CardIds),
         Draw(n, base, occupied, tail)
  PROVE  ToSet(base) \union ToSet(tail) \subseteq ToSet(hand')
<1>1. drawPile \in Seq(CardIds) /\ Len(drawPile) \in Nat
  BY DEF TInv, RecordTypes
<1>2. CASE \E k \in 0..Len(drawPile) : hand' = base \o TopOf(drawPile, k) \o tail
  <2>1. PICK k \in 0..Len(drawPile) : hand' = base \o TopOf(drawPile, k) \o tail
    BY <1>2
  <2> DEFINE a == TopOf(drawPile, k)
  <2>2. a \in Seq(CardIds)
    BY <1>1, TopType
  <2>3. hand' = base \o a \o tail
    BY <2>1
  <2> HIDE DEF a
  <2>4. ToSet(hand') = ToSet(base) \union ToSet(a) \union ToSet(tail)
    BY <2>2, <2>3, ThreeParts
  <2> QED BY <2>4
<1>3. CASE \E order \in Orders(ToSet(discardPile), Len(discardPile)),
              l \in 0..Len(discardPile) :
             hand' = base \o TopOf(drawPile, Len(drawPile))
                          \o TopOf(order, l) \o tail
  <2>1. PICK order \in Orders(ToSet(discardPile), Len(discardPile)),
             l \in 0..Len(discardPile) :
               hand' = base \o TopOf(drawPile, Len(drawPile))
                            \o TopOf(order, l) \o tail
    BY <1>3
  <2> DEFINE a == TopOf(drawPile, Len(drawPile))
             b == TopOf(order, l)
             front == base \o a
  <2>2. a \in Seq(CardIds)
    BY <1>1, TopType
  <2>3. b \in Seq(CardIds)
    BY OrdersOfCards, TopType
  <2>4. hand' = front \o b \o tail
    BY <2>1
  <2> HIDE DEF a, b
  <2>5. front \in Seq(CardIds) /\ ToSet(base) \subseteq ToSet(front)
    BY <2>2, SetOfConcat
  <2> HIDE DEF front
  <2>6. ToSet(hand') = ToSet(front) \union ToSet(b) \union ToSet(tail)
    BY <2>3, <2>4, <2>5, ThreeParts
  <2> QED BY <2>5, <2>6
<1>4. \/ \E k \in 0..Len(drawPile) : hand' = base \o TopOf(drawPile, k) \o tail
      \/ \E order \in Orders(ToSet(discardPile), Len(discardPile)),
            l \in 0..Len(discardPile) :
           hand' = base \o TopOf(drawPile, Len(drawPile)) \o TopOf(order, l) \o tail
  BY DrawCases, Zenon
<1> QED BY <1>2, <1>3, <1>4
\* The actions that neither open a screen nor take from the hand.
LEMMA QuietShapes ==
  ASSUME SInv, NEW op \in Ops, Running(op), Proceed, UNCHANGED combat,
         op \notin FinalOps => ToSet(hand) \subseteq ToSet(hand')
  PROVE  WorkShapes'
<1>1. UNCHANGED <<phase, monstersAlive, cardInUse>>
  BY DEF combat
<1>2. op \in CardOps \ FinalOps /\ cardInUse \in ToSet(hand)
        => cardInUse \in ToSet(hand')
  OBVIOUS
<1>3. op \in PotionOps \union SettleOps => op \notin FinalOps
  BY DEF PotionOps, OpenOps, SettleOps, FinalOps, AwaitPurposes
<1>4. op \in PotionOps \union SettleOps /\ hand # <<>> => hand' # <<>>
  <2>1. hand \in Seq(CardIds)
    BY DEF SInv, TInv, PileTypes
  <2>2. hand # <<>> => ToSet(hand) # {}
    BY <2>1, SetOfTail
  <2> QED BY <1>3, <2>2, SetOfEmpty
<1> QED BY <1>1, <1>2, <1>4, ProceedShapes

LEMMA SettlingShapes ==
  ASSUME SInv, \/ Run_MoveCard \/ Run_ForethoughtAutoMove
               \/ Run_AwaitHandSelect_Auto \/ Run_SettleHandSource
               \/ Run_MoveDrawSelectSource \/ Run_DeepBreathShuffle
               \/ Run_AddGeneratedCardToDrawPileRandomSpot
  PROVE  WorkShapes'
<1>1. {"MoveCard", "ForethoughtAutoMove", "AwaitHandSelect"} \subseteq FinalOps
  BY DEF FinalOps, AwaitPurposes
<1>2. PICK op \in Ops :
        /\ Running(op) /\ Proceed /\ UNCHANGED combat
        /\ op \in FinalOps \/ UNCHANGED hand
  BY <1>1 DEF Run_MoveCard, Run_ForethoughtAutoMove, Run_AwaitHandSelect_Auto,
         Run_SettleHandSource, Run_MoveDrawSelectSource, Run_DeepBreathShuffle,
         Run_AddGeneratedCardToDrawPileRandomSpot, Ops
<1> QED BY <1>2, QuietShapes

LEMMA MoveDrawCardShapes ==
  ASSUME SInv, Run_MoveDrawCardToHand
  PROVE  WorkShapes'
<1>1. /\ hand \in Seq(CardIds) /\ drawPile \in Seq(CardIds)
      /\ Current.card \in ToSet(drawPile)
      /\ TakeFromDrawPile(Current.card)
      /\ Running("MoveDrawCardToHand") /\ Proceed /\ UNCHANGED combat
  BY DEF SInv, TInv, PileTypes, RecordTypes, Run_MoveDrawCardToHand
<1>2. Current.card \in CardIds
  BY <1>1, ToSetType
<1>3. ToSet(Append(hand, Current.card)) = ToSet(hand) \union {Current.card}
  BY <1>1, <1>2, SetOfAppend
<1>4. hand' = hand \/ hand' = Append(hand, Current.card)
  BY <1>1 DEF TakeFromDrawPile
<1>5. ToSet(hand) \subseteq ToSet(hand')
  <2>1. CASE hand' = hand
    BY <2>1
  <2>2. CASE hand' = Append(hand, Current.card)
    BY <1>3, <2>2
  <2> QED BY <1>4, <2>1, <2>2
<1> QED BY <1>1, <1>5, QuietShapes DEF Ops

LEMMA DrawCardsShapes ==
  ASSUME SInv, Run_DrawCards
  PROVE  WorkShapes'
<1>1. /\ TInv /\ hand \in Seq(CardIds) /\ <<>> \in Seq(CardIds)
      /\ Running("DrawCards") /\ Proceed /\ UNCHANGED combat
      /\ Draw(Current.n, hand, Len(Without(hand, cardInUse)), <<>>)
  BY DEF SInv, TInv, PileTypes, Run_DrawCards
<1>2. Current.n \in Nat
  BY <1>1, RunningTypes DEF Ops, InternalAction, ActionsOf
<1>3. Len(Without(hand, cardInUse)) \in Nat
  BY <1>1, WithoutType
<1>4. ToSet(hand) \union ToSet(<<>>) \subseteq ToSet(hand')
  BY <1>1, <1>2, <1>3, DrawKeepsHand
<1> QED BY <1>1, <1>4, QuietShapes DEF Ops

LEMMA LimboDrawShapes ==
  ASSUME SInv, Run_DrawCardsWhilePlayedCardIsInLimbo
  PROVE  WorkShapes'
<1> DEFINE c    == Current.card
           rest == Without(hand, c)
           tail == IF c \in ToSet(hand) THEN <<c>> ELSE <<>>
<1>1. /\ TInv /\ hand \in Seq(CardIds)
      /\ Running("DrawCardsWhilePlayedCardIsInLimbo") /\ Proceed /\ UNCHANGED combat
      /\ Draw(Current.n, rest, Len(rest), tail)
  BY DEF SInv, TInv, PileTypes, Run_DrawCardsWhilePlayedCardIsInLimbo
<1>2. Current.n \in Nat
  BY <1>1, RunningTypes DEF Ops, InternalAction, ActionsOf
<1>3. /\ rest \in Seq(CardIds) /\ Len(rest) \in Nat /\ tail \in Seq(CardIds)
      /\ ToSet(rest) = ToSet(hand) \ {c}
  BY <1>1, SetOfWithout, ToSetType
<1>4. c \in ToSet(hand) => ToSet(tail) = {c}
  BY SetOfOne
<1> HIDE DEF rest, tail
<1>5. ToSet(rest) \union ToSet(tail) \subseteq ToSet(hand')
  BY <1>1, <1>2, <1>3, DrawKeepsHand
<1>6. ToSet(hand) \subseteq ToSet(hand')
  BY <1>3, <1>4, <1>5
<1> QED BY <1>1, <1>6, QuietShapes DEF Ops

\* The last action of a played card opens its screen over nothing.
LEMMA CardScreenShapes ==
  ASSUME SInv, NEW op \in DOMAIN AwaitPurposes, Running(op), monstersAlive,
         NEW purpose \in Sourced, NEW source, NEW held, NEW selectable,
         Show(Screen(purpose, source, held, selectable)), UNCHANGED combat,
         purpose \in HandSelects \union ExhaustSelects => hand' # <<>>,
         purpose \in DiscardSelects => Len(discardPile') >= 2,
         purpose = "SecretTechnique" =>
           selectable \intersect ToSet(drawPile') # {}
  PROVE  WorkShapes'
<1> DEFINE screen == Screen(purpose, source, held, selectable)
<1>1. /\ screen.purpose = purpose /\ screen.selectable = selectable
      /\ screen.selected = <<>> /\ screen.pending = <<>>
      /\ purpose # "None"
  BY DEF Screen, Sourced, HandSelects, DrawSelects
<1>2. op \in Ops /\ op \notin PotionOps \union SettleOps /\ op \in FinalOps
  BY DEF AwaitPurposes, Ops, PotionOps, OpenOps, SettleOps, FinalOps
<1>3. /\ PlayedCardWork /\ frames \in WorkType /\ Len(frames) = 1
      /\ Head(frames) \in Seq(InternalAction) /\ Head(frames) # <<>>
      /\ CardWork(Head(frames), cardInUse) /\ Head(Head(frames)).op = op
      /\ TInv /\ phase = "WaitingForPlayer"
  <2>1. PlayedCardWork /\ Current.op = op /\ Head(frames) # <<>>
        /\ phase = "WaitingForPlayer" /\ frames # <<>> /\ TInv
    BY <1>2, WhoRuns DEF SInv
  <2> QED BY <2>1, FramesTypes DEF PlayedCardWork, Current
<1>4. Tail(Head(frames)) = <<>>
  BY <1>2, <1>3, CardTail
<1>5. frames' = <<<<>>>> \o Tail(frames)
      /\ decision' = [screen EXCEPT !.pending = screen.pending \o <<>>]
  <2>1. GoOn(screen, <<>>)
    BY <1>4 DEF Show
  <2> HIDE DEF screen
  <2> QED BY <1>1, <2>1 DEF GoOn
<1>6. frames' = <<<<>>>>
  BY <1>3, <1>5, OneFrame, EmptyType
<1>7. /\ decision'.purpose = purpose /\ decision'.selectable = selectable
      /\ decision'.selected = <<>> /\ decision'.pending = <<>>
  <2>1. <<>> \o <<>> = <<>>
    OBVIOUS
  <2> QED BY <1>1, <1>5, <2>1 DEF Screen
<1>8. AliveShape' /\ LethalShape'
  <2>1. Stack(frames') /\ Late(frames')
    BY <1>6, NoWorkLeft
  <2> QED BY <1>3, <2>1 DEF AliveShape, LethalShape, OtherWork, combat
<1>9. PendingShape'
  BY <1>7, ActionOps, EmptyType DEF PendingShape
<1>10. PileShape'
  <2>1. \A i \in DOMAIN frames' : frames'[i] = <<>>
    BY <1>6
  <2> QED BY <1>7, <2>1, SetOfEmpty DEF PileShape
<1> QED BY <1>8, <1>9, <1>10 DEF WorkShapes

\* Whose screen it is, and what playing the card has made sure of.
LEMMA WhoAwaits ==
  ASSUME SInv, NEW op \in DOMAIN AwaitPurposes, Running(op), monstersAlive
  PROVE  /\ Current.card = cardInUse /\ cardInUse \in ToSet(hand)
         /\ Current.op = op /\ Prepared(Current)
         /\ Current.purpose \in AwaitPurposes[op]
<1>1. op \in Ops /\ op \notin PotionOps \union SettleOps /\ op \in FinalOps
  BY DEF AwaitPurposes, Ops, PotionOps, OpenOps, SettleOps, FinalOps
<1>2. PlayedCardWork /\ Current.op = op /\ frames # <<>> /\ TInv
  BY <1>1, WhoRuns DEF SInv
<1>3. Current.card = cardInUse
  BY <1>1, <1>2, FramesTypes, CardTail DEF PlayedCardWork, Current
<1> QED BY <1>2, <1>3, AwaitingTypes DEF PlayedCardWork

LEMMA AwaitHandSelectShapes ==
  ASSUME SInv, Run_AwaitHandSelect_Open
  PROVE  WorkShapes'
<1>1. /\ Running("AwaitHandSelect") /\ "AwaitHandSelect" \in DOMAIN AwaitPurposes
      /\ hand' = Without(hand, Current.card) /\ UNCHANGED <<combat, discardPile, drawPile>>
      /\ Current.purpose = "Warcry" => Len(Without(hand, Current.card)) > 1
      /\ Show(Screen(Current.purpose, Current.card, FALSE, {}))
  BY DEF Run_AwaitHandSelect_Open, AwaitPurposes
<1>2. monstersAlive
  BY <1>1, WhoRuns DEF Ops, DeadOps, SInv, TInv, RestTypes
<1>3. /\ Current.card = cardInUse /\ Prepared(Current)
      /\ Current.op = "AwaitHandSelect" /\ Current.purpose \in HandSelects
  BY <1>1, <1>2, WhoAwaits DEF AwaitPurposes
<1>4. hand' # <<>>
  <2>1. CASE Current.purpose = "Warcry"
    <3>1. Len(hand') > 1
      BY <1>1, <2>1
    <3> QED BY <3>1
  <2>2. CASE Current.purpose = "Forethought"
    BY <1>1, <1>3, <2>2 DEF Prepared, Forethinks
  <2> QED BY <1>3, <2>1, <2>2 DEF HandSelects
<1>5. /\ Current.purpose \in Sourced
      /\ Current.purpose \notin DiscardSelects
      /\ Current.purpose # "SecretTechnique"
  BY <1>3 DEF Sourced, HandSelects, DiscardSelects
<1> QED BY <1>1, <1>2, <1>4, <1>5, CardScreenShapes

LEMMA AwaitDrawSelectShapes ==
  ASSUME SInv, Run_AwaitDrawSelect
  PROVE  WorkShapes'
<1>1. /\ Running("AwaitDrawSelect") /\ "AwaitDrawSelect" \in DOMAIN AwaitPurposes
      /\ UNCHANGED <<combat, drawPile>>
  BY DEF Run_AwaitDrawSelect, AwaitPurposes
<1>2. monstersAlive
  BY <1>1, WhoRuns DEF Ops, DeadOps, SInv, TInv, RestTypes
<1>3. /\ Prepared(Current) /\ Current.op = "AwaitDrawSelect"
      /\ Current.purpose \in DrawSelects
  BY <1>1, <1>2, WhoAwaits DEF AwaitPurposes
<1>4. PICK purpose \in {"Scry", "SecretTechnique"} :
        \E selectable :
          /\ Show(Screen(purpose, Current.card, FALSE, selectable))
          /\ purpose = "SecretTechnique" =>
               Current.purpose # "Scry" /\ selectable = ToSet(SkillsIn(drawPile))
  BY DEF Run_AwaitDrawSelect
<1>5. PICK selectable :
        /\ Show(Screen(purpose, Current.card, FALSE, selectable))
        /\ purpose = "SecretTechnique" =>
             Current.purpose # "Scry" /\ selectable = ToSet(SkillsIn(drawPile))
  BY <1>4
<1>6. purpose = "SecretTechnique" => selectable \intersect ToSet(drawPile') # {}
  <2> SUFFICES ASSUME purpose = "SecretTechnique"
               PROVE  selectable \intersect ToSet(drawPile) # {}
    BY <1>1
  <2>1. SkillsIn(drawPile) # <<>> /\ selectable = ToSet(SkillsIn(drawPile))
    BY <1>3, <1>5 DEF Prepared, Searches, DrawSelects
  <2>2. /\ SkillsIn(drawPile) \in Seq(CardIds)
        /\ ToSet(SkillsIn(drawPile)) \subseteq ToSet(drawPile)
    BY SetOfDropping DEF SkillsIn, SInv, TInv, RecordTypes
  <2>3. ToSet(SkillsIn(drawPile)) # {}
    BY <2>1, <2>2, SetOfTail
  <2> QED BY <2>1, <2>2, <2>3
<1>7. /\ purpose \in Sourced
      /\ purpose \notin HandSelects \union ExhaustSelects \union DiscardSelects
  BY DEF Sourced, DrawSelects, HandSelects, ExhaustSelects, DiscardSelects
<1> QED BY <1>1, <1>2, <1>5, <1>6, <1>7, CardScreenShapes

LEMMA AwaitDiscardSelectShapes ==
  ASSUME SInv, Run_AwaitDiscardSelect
  PROVE  WorkShapes'
<1>1. /\ Running("AwaitDiscardSelect") /\ UNCHANGED combat
      /\ "AwaitDiscardSelect" \in DOMAIN AwaitPurposes
      /\ "AwaitDiscardSelect" \in FinalOps /\ "AwaitDiscardSelect" \in Ops
      /\ \/ Proceed
         \/ /\ Show(Screen("Headbutt", Current.card, TRUE, {}))
            /\ discardPile' = discardPile /\ monstersAlive
            /\ Len(discardPile) # 1 /\ discardPile # <<>>
  BY DEF Run_AwaitDiscardSelect, AwaitPurposes, FinalOps, Ops
<1>2. CASE Proceed
  BY <1>1, <1>2, QuietShapes
<1>3. CASE /\ Show(Screen("Headbutt", Current.card, TRUE, {}))
           /\ discardPile' = discardPile /\ monstersAlive
           /\ Len(discardPile) # 1 /\ discardPile # <<>>
  <2>1. Len(discardPile') >= 2
    <3>1. discardPile \in Seq(CardIds)
      BY DEF SInv, TInv, PileTypes
    <3>2. Len(discardPile) \in Nat /\ Len(discardPile) # 0
      BY <1>3, <3>1, ToSetType
    <3>3. Len(discardPile) # 1 /\ discardPile' = discardPile
      BY <1>3
    <3>4. \A n \in Nat : n # 0 /\ n # 1 => n >= 2
      OBVIOUS
    <3>5. Len(discardPile) >= 2
      BY <3>2, <3>3, <3>4
    <3> QED BY <3>3, <3>5
  <2>2. /\ "Headbutt" \in Sourced
        /\ "Headbutt" \notin HandSelects \union ExhaustSelects
    BY DEF Sourced, HandSelects, ExhaustSelects
  <2> QED BY <1>1, <1>3, <2>1, <2>2, CardScreenShapes
<1> QED BY <1>1, <1>2, <1>3

LEMMA AwaitExhaustSelectShapes ==
  ASSUME SInv, Run_AwaitExhaustSelect
  PROVE  WorkShapes'
<1>1. /\ Running("AwaitExhaustSelect") /\ UNCHANGED combat
      /\ "AwaitExhaustSelect" \in DOMAIN AwaitPurposes
      /\ "AwaitExhaustSelect" \in FinalOps /\ "AwaitExhaustSelect" \in Ops
      /\ \/ Proceed
         \/ /\ Show(Screen("TrueGrit", Current.card, TRUE, {}))
            /\ hand' = Without(hand, Current.card)
            /\ ~(Len(Without(hand, Current.card)) <= 1)
  BY DEF Run_AwaitExhaustSelect, AwaitPurposes, FinalOps, Ops
<1>2. CASE Proceed
  BY <1>1, <1>2, QuietShapes
<1>3. CASE /\ Show(Screen("TrueGrit", Current.card, TRUE, {}))
           /\ hand' = Without(hand, Current.card)
           /\ ~(Len(Without(hand, Current.card)) <= 1)
  <2>1. monstersAlive
    BY <1>1, WhoRuns DEF DeadOps, SInv, TInv, RestTypes
  <2>2. hand' # <<>>
    BY <1>3
  <2>3. /\ "TrueGrit" \in Sourced
        /\ "TrueGrit" \notin DiscardSelects
    BY DEF Sourced, DiscardSelects
  <2> QED BY <1>1, <1>3, <2>1, <2>2, <2>3, CardScreenShapes
<1> QED BY <1>1, <1>2, <1>3

\* A potion's screen opens over actions that open none.
LEMMA OpenPotionShapes ==
  ASSUME SInv, \/ Run_OpenElixirSelection \/ Run_OpenGamblersBrewSelection
               \/ Run_OpenPotionCardReward
  PROVE  WorkShapes'
<1>1. PICK op \in OpenOps, purpose \in {"Exhaust", "GamblingChip", "CardReward"} :
        /\ Running(op) /\ ~ScreenOpen
        /\ \/ Proceed
           \/ /\ Show(Screen(purpose, None, FALSE, {}))
              /\ purpose = "CardReward" \/ hand # <<>>
        /\ UNCHANGED <<hand, combat>>
  BY DEF Run_OpenElixirSelection, Run_OpenGamblersBrewSelection,
         Run_OpenPotionCardReward, OpenPotionSelection, OpenOps, piles
<1>2. op \in Ops /\ op \notin DeadOps
  BY DEF OpenOps, Ops, DeadOps
<1>3. CASE Proceed
  BY <1>1, <1>2, <1>3, QuietShapes
<1>4. CASE /\ Show(Screen(purpose, None, FALSE, {}))
           /\ purpose = "CardReward" \/ hand # <<>>
  <2> DEFINE screen == Screen(purpose, None, FALSE, {})
             q      == Head(frames)
             left   == Tail(q)
  <2>1. /\ monstersAlive /\ OtherWork /\ phase = "WaitingForPlayer"
        /\ frames # <<>> /\ q # <<>> /\ op \in OpsIn(q) /\ TInv
    BY <1>1, <1>2, WhoRuns DEF SInv, TInv, RestTypes
  <2>2. /\ screen.purpose = purpose /\ screen.selected = <<>>
        /\ screen.pending = <<>> /\ purpose # "None"
    BY DEF Screen
  <2>3. /\ frames \in WorkType /\ q \in Seq(InternalAction) /\ q = frames[1]
        /\ 1 \in DOMAIN frames
    BY <2>1, FramesTypes
  <2>4. left \in Seq(InternalAction) /\ OpsIn(left) \subseteq OpsIn(q)
        /\ OpsIn(<<>>) = {} /\ <<>> \in Seq(InternalAction)
    BY <2>1, <2>3, ActionOps, EmptyType
  <2>5. /\ frames' = <<<<>>>> \o Tail(frames)
        /\ decision' = [screen EXCEPT !.pending = screen.pending \o left]
    <3>1. GoOn(screen, left)
      BY <1>4 DEF Show
    <3> HIDE DEF screen, left
    <3> QED BY <2>2, <3>1 DEF GoOn
  <2>6. /\ decision'.purpose = purpose /\ decision'.selected = <<>>
        /\ decision'.pending = left
    <3>1. <<>> \o left = left
      BY <2>4
    <3> HIDE DEF left
    <3> QED BY <2>2, <2>5, <3>1 DEF Screen
  <2>7. Settling(q) => left = <<>>
    <3>1. Settling(q) => Len(q) = 1
      BY <2>1, <2>3 DEF OtherWork, Stack
    <3> QED BY <2>3, <3>1, LoneTail
  <2>8. PendingShape'
    <3>1. OpsIn(q) \subseteq PotionOps \union SettleOps
      BY <2>1, <2>3 DEF OtherWork, Stack
    <3>2. OpsIn(left) \subseteq PotionOps
      <4>1. CASE Settling(q)
        BY <2>4, <2>7, <4>1
      <4>2. CASE ~Settling(q)
        BY <2>4, <3>1, <4>2 DEF Settling
      <4> QED BY <4>1, <4>2
    <3> QED BY <2>6, <3>2 DEF PendingShape
  <2>9. Stack(frames') /\ Late(frames')
    <3>1. Opening(q) /\ ~Settling(<<>>)
      BY <2>1, <2>4 DEF Opening, Settling
    <3>2. Stack(frames) => Stack(<<<<>>>> \o Tail(frames))
      BY <2>1, <2>3, <2>4, <3>1, ShrinkHead
    <3>3. Stack(frames) => Late(<<<<>>>> \o Tail(frames))
      BY <2>1, <2>3, <2>4, <3>1, ShrinkHead
    <3> QED BY <2>1, <2>5, <3>2, <3>3 DEF OtherWork
  <2>10. AliveShape' /\ LethalShape'
    BY <1>1, <2>1, <2>9 DEF AliveShape, LethalShape, OtherWork, combat
  <2>11. PileShape'
    <3>1. /\ purpose \notin DiscardSelects \union Sourced \union {"LiquidMemories"}
          /\ purpose # "SecretTechnique" /\ purpose # "Scry"
      BY DEF DiscardSelects, Sourced, HandSelects, DrawSelects
    <3>2. purpose \in HandSelects \union ExhaustSelects => hand' # <<>>
      BY <1>1, <1>4 DEF HandSelects, ExhaustSelects
    <3> QED BY <2>6, <3>1, <3>2 DEF PileShape
  <2> QED BY <2>8, <2>10, <2>11 DEF WorkShapes
<1> QED BY <1>1, <1>3, <1>4

LEMMA RunQueueShapes ==
  ASSUME SInv, RunQueue
  PROVE  SInv'
<1>1. TInv'
  BY RunQueueTypes DEF SInv
<1>2. WorkShapes'
  BY EndQueueShapes, DealDamageShapes, SettlingShapes, MoveDrawCardShapes,
     DrawCardsShapes, LimboDrawShapes, AwaitHandSelectShapes,
     AwaitDrawSelectShapes, AwaitDiscardSelectShapes, AwaitExhaustSelectShapes,
     OpenPotionShapes DEF RunQueue
<1> QED BY <1>1, <1>2 DEF SInv, WorkShapes
------------------------------------------------------------------------------
(* The commands *)

\* A command comes when nothing is left of the one before it.
LEMMA Commanding ==
  ASSUME SInv, CanCommand
  PROVE  /\ frames = <<>> /\ phase = "WaitingForPlayer" /\ monstersAlive
         /\ TInv /\ decision.pending \in Seq(InternalAction)
<1>1. frames = <<>> /\ phase = "WaitingForPlayer" /\ TInv
  BY DEF SInv, CanCommand
<1>2. Len(frames) # 1 /\ phase # "Won"
  BY <1>1
<1> QED BY <1>1, <1>2, FramesTypes DEF SInv, LethalShape

LEMMA OneOp ==
  ASSUME NEW a
  PROVE  OpsIn(<<a>>) = {a.op} /\ Len(<<a>>) = 1 /\ DOMAIN <<a>> = {1}
<1>1. ToSet(<<a>>) = {a}
  BY SetOfOne
<1> QED BY <1>1 DEF OpsIn

LEMMA LoneStack ==
  ASSUME NEW q \in Seq(InternalAction), OpsIn(q) \subseteq PotionOps
  PROVE  Stack(<<q>>)
<1>1. DOMAIN <<q>> = {1} /\ <<q>>[1] = q /\ ~(1 < 1)
  OBVIOUS
<1>2. ~Settling(q)
  BY DEF Settling, PotionOps, OpenOps, SettleOps
<1> QED BY <1>1, <1>2 DEF Stack

\* A settling action may follow potion actions, and draws may follow that.
LEMMA SettlingStack ==
  ASSUME NEW q \in Seq(InternalAction), OpsIn(q) \subseteq PotionOps,
         NEW a, a.op \in SettleOps
  PROVE  /\ Stack(<<q, <<a>>>>)
         /\ \A r \in Seq(InternalAction) :
              OpsIn(r) \subseteq {"DrawCards"} => Stack(<<q, <<a>>, r>>)
<1>1. OpsIn(<<a>>) \subseteq LateOps /\ Len(<<a>>) = 1 /\ ~Opening(<<a>>)
      /\ OpsIn(<<a>>) \subseteq PotionOps \union SettleOps
  BY OneOp DEF LateOps, Opening, OpenOps, SettleOps
<1>2. ~Settling(q)
  BY DEF Settling, PotionOps, OpenOps, SettleOps
<1>3. Stack(<<q, <<a>>>>)
  <2> DEFINE f == <<q, <<a>>>>
  <2>1. DOMAIN f = {1, 2} /\ f[1] = q /\ f[2] = <<a>>
    OBVIOUS
  <2> HIDE DEF f
  <2>2. \A i, j \in DOMAIN f : i < j => j = 2
    BY <2>1
  <2>3. \A i \in DOMAIN f : Settling(f[i]) => i = 2
    BY <1>2, <2>1
  <2>4. Stack(f)
    BY <1>1, <1>2, <2>1, <2>2, <2>3 DEF Stack
  <2> QED BY <2>4 DEF f
<1>4. ASSUME NEW r \in Seq(InternalAction), OpsIn(r) \subseteq {"DrawCards"}
      PROVE  Stack(<<q, <<a>>, r>>)
  <2> DEFINE f == <<q, <<a>>, r>>
  <2>1. DOMAIN f = {1, 2, 3} /\ f[1] = q /\ f[2] = <<a>> /\ f[3] = r
    OBVIOUS
  <2> HIDE DEF f
  <2>2. ~Settling(r) /\ OpsIn(r) \subseteq LateOps /\ OpsIn(r) \subseteq PotionOps
    BY <1>4 DEF Settling, SettleOps, LateOps, PotionOps
  <2>3. \A i, j \in DOMAIN f : i < j => j \in {2, 3}
    BY <2>1
  <2>4. \A i \in DOMAIN f : Settling(f[i]) => i = 2
    BY <1>2, <2>1, <2>2
  <2>5. Stack(f)
    BY <1>1, <2>1, <2>2, <2>3, <2>4 DEF Stack
  <2> QED BY <2>5 DEF f
<1> QED BY <1>3, <1>4

\* The draw of Gambler's Brew comes before anything that waited.
LEMMA DrawingStack ==
  ASSUME NEW q \in Seq(InternalAction), OpsIn(q) \subseteq PotionOps,
         NEW a, a.op = "DrawCards"
  PROVE  Stack(<<<<a>>, q>>)
<1> DEFINE f == <<<<a>>, q>>
<1>1. OpsIn(<<a>>) \subseteq PotionOps /\ ~Opening(<<a>>) /\ ~Settling(<<a>>)
  BY OneOp DEF PotionOps, Opening, OpenOps, Settling, SettleOps
<1>2. ~Settling(q)
  BY DEF Settling, PotionOps, OpenOps, SettleOps
<1>3. DOMAIN f = {1, 2} /\ f[1] = <<a>> /\ f[2] = q
  OBVIOUS
<1> HIDE DEF f
<1>4. \A i, j \in DOMAIN f : i < j => i = 1
  BY <1>3
<1>5. Stack(f)
  BY <1>1, <1>2, <1>3, <1>4 DEF Stack
<1> QED BY <1>5 DEF f

\* What a command leaves to show while the monsters live.
LEMMA StartShapes ==
  ASSUME SInv, CanCommand, UNCHANGED <<phase, monstersAlive>>,
         Stack(frames'), ~ScreenOpen', decision'.pending = <<>>
  PROVE  WorkShapes'
<1>1. AliveShape' /\ LethalShape'
  BY Commanding DEF AliveShape, LethalShape, OtherWork
<1>2. PendingShape'
  BY ActionOps, EmptyType DEF PendingShape
<1> QED BY <1>1, <1>2, ClosedShape, PTL DEF WorkShapes

LEMMA CloseShapes ==
  ASSUME SInv, CanCommand, UNCHANGED combat, NEW work, Close(work), Stack(work)
  PROVE  WorkShapes'
<1>1. frames' = work /\ decision' = NoScreen /\ UNCHANGED <<phase, monstersAlive>>
  BY DEF Close, combat
<1>2. ~ScreenOpen' /\ decision'.pending = <<>>
  BY <1>1 DEF NoScreen, Screen, ScreenOpen
<1> QED BY <1>1, <1>2, StartShapes

\* A screen that stays open asks the same of the piles.
LEMMA StayShapes ==
  ASSUME SInv, CanCommand, UNCHANGED <<frames, phase, monstersAlive>>,
         OpsIn(decision'.pending) \subseteq PotionOps, PileShape'
  PROVE  WorkShapes'
<1>1. Stack(frames') /\ Late(frames')
  BY Commanding, NoWorkLeft
<1>2. AliveShape' /\ LethalShape'
  BY <1>1, Commanding DEF AliveShape, LethalShape, OtherWork
<1> QED BY <1>2 DEF WorkShapes, PendingShape
------------------------------------------------------------------------------
(* Playing a card *)

LEMMA WorkOfOne ==
  ASSUME NEW a, NEW c, a.op \in FinalOps, a.card = c
  PROVE  CardWork(<<a>>, c)
<1> DEFINE q == <<a>>
<1>1. DOMAIN q = {1} /\ q[1] = a /\ Len(q) = 1 /\ q # <<>>
  OBVIOUS
<1>2. a.op \in CardOps /\ a.op # "DealDamage"
  BY DEF FinalOps, AwaitPurposes, CardOps, Ops, OpenOps, SettleOps
<1> HIDE DEF q
<1>3. CardWork(q, c)
  BY <1>1, <1>2 DEF CardWork
<1> QED BY <1>3 DEF q

\* Actions of a played card before the last.
BeforeLast(a, c) ==
  /\ a.op \in CardOps \ FinalOps
  /\ a.op = "DrawCardsWhilePlayedCardIsInLimbo" => a.card = c

ComesLast(a, c) ==
  /\ a.op \in FinalOps /\ a.card = c
  /\ ~(a.op = "ForethoughtAutoMove" \/ Forethinks(a) \/ Searches(a))

LEMMA WorkOfTwo ==
  ASSUME NEW a, NEW b, NEW c, BeforeLast(a, c), ComesLast(b, c),
         a.op = "DealDamage" => b.op \in HitOps
  PROVE  CardWork(<<a, b>>, c)
<1> DEFINE q == <<a, b>>
<1>1. DOMAIN q = {1, 2} /\ q[1] = a /\ q[2] = b /\ Len(q) = 2 /\ q # <<>>
  OBVIOUS
<1>2. b.op \in CardOps /\ b.op # "DealDamage"
  BY DEF ComesLast, FinalOps, AwaitPurposes, CardOps, Ops, OpenOps, SettleOps
<1>3. ~(a.op = "ForethoughtAutoMove" \/ Forethinks(a) \/ Searches(a))
  BY DEF BeforeLast, FinalOps, AwaitPurposes, Forethinks, Searches
<1> HIDE DEF q
<1>4. CardWork(q, c)
  BY <1>1, <1>2, <1>3 DEF CardWork, BeforeLast, ComesLast
<1> QED BY <1>4 DEF q

LEMMA WorkOfThree ==
  ASSUME NEW a, NEW b, NEW d, NEW c, BeforeLast(a, c), BeforeLast(b, c),
         ComesLast(d, c), b.op # "DealDamage",
         a.op = "DealDamage" => {b.op, d.op} \subseteq HitOps
  PROVE  CardWork(<<a, b, d>>, c)
<1> DEFINE q == <<a, b, d>>
<1>1. DOMAIN q = {1, 2, 3} /\ q[1] = a /\ q[2] = b /\ q[3] = d /\ Len(q) = 3
      /\ q # <<>>
  OBVIOUS
<1>2. d.op \in CardOps /\ d.op # "DealDamage"
  BY DEF ComesLast, FinalOps, AwaitPurposes, CardOps, Ops, OpenOps, SettleOps
<1>3. \A x \in {a, b} :
        ~(x.op = "ForethoughtAutoMove" \/ Forethinks(x) \/ Searches(x))
  BY DEF BeforeLast, FinalOps, AwaitPurposes, Forethinks, Searches
<1> HIDE DEF q
<1>4. CardWork(q, c)
  BY <1>1, <1>2, <1>3 DEF CardWork, BeforeLast, ComesLast
<1> QED BY <1>4 DEF q

\* What PlayCardQueue promises of the first action.
Begins(q, c) ==
  /\ CardWork(q, c)
  /\ Head(q).op = "ForethoughtAutoMove" => Len(Without(hand, c)) = 1
  /\ Forethinks(Head(q)) => Without(hand, c) # <<>>
  /\ Searches(Head(q)) => SkillsIn(drawPile) # <<>>

LEMMA QueueBegins ==
  ASSUME SInv, NEW c \in CardIds, Playable(c)
  PROVE  Begins(PlayCardQueue(c), c)
<1> DEFINE settle == Act("MoveCard", c, 0)
           hit    == Act("DealDamage", c, 0)
           drawn  == Act("DrawCardsWhilePlayedCardIsInLimbo", c, 1)
           wound  == Act("AddGeneratedCardToDrawPileRandomSpot", None, 0)
           found  == Act("MoveDrawCardToHand", SkillsIn(drawPile)[1], 0)
           breath == Act("DeepBreathShuffle", None, 0)
           draw   == Act("DrawCards", None, 1)
           auto   == Act("ForethoughtAutoMove", c, 0)
           others == Len(Without(hand, c))
           think  == Await("AwaitHandSelect", c, "Forethought")
           cry    == Await("AwaitHandSelect", c, "Warcry")
           search == Await("AwaitDrawSelect", c, "SecretTechnique")
           scry   == Await("AwaitDrawSelect", c, "Scry")
           butt   == Await("AwaitDiscardSelect", c, "Headbutt")
           grit   == Await("AwaitExhaustSelect", c, "TrueGrit")
<1>1. /\ settle.op = "MoveCard" /\ settle.card = c
      /\ hit.op = "DealDamage" /\ drawn.op = "DrawCardsWhilePlayedCardIsInLimbo"
      /\ drawn.card = c
      /\ wound.op = "AddGeneratedCardToDrawPileRandomSpot"
      /\ found.op = "MoveDrawCardToHand" /\ breath.op = "DeepBreathShuffle"
      /\ draw.op = "DrawCards" /\ auto.op = "ForethoughtAutoMove" /\ auto.card = c
  BY DEF Act
<1>2. /\ think.op = "AwaitHandSelect" /\ think.card = c /\ think.purpose = "Forethought"
      /\ cry.op = "AwaitHandSelect" /\ cry.card = c /\ cry.purpose = "Warcry"
      /\ search.op = "AwaitDrawSelect" /\ search.card = c
      /\ search.purpose = "SecretTechnique"
      /\ scry.op = "AwaitDrawSelect" /\ scry.card = c /\ scry.purpose = "Scry"
      /\ butt.op = "AwaitDiscardSelect" /\ butt.card = c
      /\ grit.op = "AwaitExhaustSelect" /\ grit.card = c
  BY DEF Await, Act
<1>3. content[c] \in {"Strike", "Headbutt", "PommelStrike", "WildStrike",
                      "Defend", "Warcry", "Forethought", "SecretTechnique",
                      "ThirdEye", "DeepBreath", "TrueGrit"}
  <2>1. content[c] \in Contents /\ content[c] # "Wound"
    BY DEF SInv, TInv, RestTypes, Playable
  <2> QED BY <2>1 DEF Contents, Attacks, Skills
<1> HIDE DEF settle, hit, drawn, wound, found, breath, draw, auto, think, cry,
             search, scry, butt, grit
<1>4. /\ {hit.op, drawn.op, wound.op, found.op, breath.op, draw.op}
           \subseteq CardOps \ FinalOps
      /\ {settle.op, auto.op, think.op, cry.op, search.op, scry.op, butt.op, grit.op}
           \subseteq FinalOps
      /\ {settle.op, butt.op, drawn.op, wound.op} \subseteq HitOps
  BY <1>1, <1>2 DEF CardOps, Ops, OpenOps, SettleOps, FinalOps, AwaitPurposes, HitOps, DeadOps
<1>5. /\ BeforeLast(hit, c) /\ BeforeLast(drawn, c) /\ BeforeLast(wound, c)
      /\ BeforeLast(found, c) /\ BeforeLast(breath, c) /\ BeforeLast(draw, c)
  BY <1>1, <1>4 DEF BeforeLast
<1>6. ComesLast(settle, c) /\ ComesLast(butt, c) /\ ComesLast(cry, c)
  BY <1>1, <1>2, <1>4 DEF ComesLast, Forethinks, Searches
<1>7. /\ CardWork(<<hit, settle>>, c) /\ CardWork(<<hit, butt>>, c)
      /\ CardWork(<<drawn, cry>>, c) /\ CardWork(<<found, settle>>, c)
  BY <1>1, <1>4, <1>5, <1>6, WorkOfTwo
<1>8. /\ CardWork(<<hit, drawn, settle>>, c) /\ CardWork(<<hit, wound, settle>>, c)
      /\ CardWork(<<breath, draw, settle>>, c)
  BY <1>1, <1>4, <1>5, <1>6, WorkOfThree
<1>9. /\ CardWork(<<settle>>, c) /\ CardWork(<<auto>>, c) /\ CardWork(<<think>>, c)
      /\ CardWork(<<search>>, c) /\ CardWork(<<scry>>, c) /\ CardWork(<<grit>>, c)
  BY <1>1, <1>2, <1>4, WorkOfOne
<1>10. /\ content[c] = "Strike" => PlayCardQueue(c) = <<hit, settle>>
       /\ content[c] = "Headbutt" => PlayCardQueue(c) = <<hit, butt>>
       /\ content[c] = "PommelStrike" => PlayCardQueue(c) = <<hit, drawn, settle>>
       /\ content[c] = "WildStrike" => PlayCardQueue(c) = <<hit, wound, settle>>
       /\ content[c] = "Defend" => PlayCardQueue(c) = <<settle>>
  BY DEF PlayCardQueue, settle, hit, butt, drawn, wound
<1>11. /\ content[c] = "Warcry" => PlayCardQueue(c) = <<drawn, cry>>
       /\ content[c] = "ThirdEye" => PlayCardQueue(c) = <<scry>>
       /\ content[c] = "DeepBreath" => PlayCardQueue(c) = <<breath, draw, settle>>
       /\ content[c] = "TrueGrit" => PlayCardQueue(c) = <<grit>>
  BY DEF PlayCardQueue, settle, drawn, cry, scry, breath, draw, grit
<1>12. content[c] = "Forethought" =>
         \/ PlayCardQueue(c) = <<settle>>
         \/ PlayCardQueue(c) = <<auto>> /\ others = 1
         \/ PlayCardQueue(c) = <<think>> /\ others # 0
  BY DEF PlayCardQueue, settle, auto, think
<1>13. content[c] = "SecretTechnique" =>
         \/ PlayCardQueue(c) = <<found, settle>>
         \/ PlayCardQueue(c) = <<search>>
  BY DEF PlayCardQueue, settle, found, search
<1>14. /\ Head(<<hit, settle>>) = hit /\ Head(<<hit, butt>>) = hit
       /\ Head(<<hit, drawn, settle>>) = hit /\ Head(<<hit, wound, settle>>) = hit
       /\ Head(<<settle>>) = settle /\ Head(<<drawn, cry>>) = drawn
       /\ Head(<<found, settle>>) = found /\ Head(<<scry>>) = scry
       /\ Head(<<breath, draw, settle>>) = breath /\ Head(<<grit>>) = grit
       /\ Head(<<auto>>) = auto /\ Head(<<think>>) = think
       /\ Head(<<search>>) = search
  OBVIOUS
<1>15. \A a \in {hit, settle, drawn, found, scry, breath, grit} :
         ~(a.op = "ForethoughtAutoMove" \/ Forethinks(a) \/ Searches(a))
  BY <1>1, <1>2 DEF Forethinks, Searches
<1>16. \A q, a : /\ CardWork(q, c) /\ Head(q) = a
                 /\ a \in {hit, settle, drawn, found, scry, breath, grit}
                 => Begins(q, c)
  BY <1>15 DEF Begins
<1>17. CASE content[c] \in {"Strike", "Headbutt", "PommelStrike", "WildStrike", "Defend"}
  BY <1>7, <1>8, <1>9, <1>10, <1>14, <1>16, <1>17
<1>18. CASE content[c] \in {"Warcry", "ThirdEye", "DeepBreath", "TrueGrit"}
  BY <1>7, <1>8, <1>9, <1>11, <1>14, <1>16, <1>18
<1>19. CASE content[c] = "Forethought"
  <2>1. CASE PlayCardQueue(c) = <<settle>>
    BY <1>9, <1>14, <1>16, <2>1
  <2>2. CASE PlayCardQueue(c) = <<auto>> /\ others = 1
    BY <1>1, <1>9, <1>14, <2>2 DEF Begins, Forethinks, Searches
  <2>3. CASE PlayCardQueue(c) = <<think>> /\ others # 0
    <3>1. Without(hand, c) # <<>>
      BY <2>3
    <3> QED BY <1>2, <1>9, <1>14, <2>3, <3>1 DEF Begins, Forethinks, Searches
  <2> QED BY <1>12, <1>19, <2>1, <2>2, <2>3
<1>20. CASE content[c] = "SecretTechnique"
  <2>1. CASE PlayCardQueue(c) = <<found, settle>>
    BY <1>7, <1>14, <1>16, <2>1
  <2>2. CASE PlayCardQueue(c) = <<search>>
    <3>1. SkillsIn(drawPile) # <<>>
      BY <1>20 DEF Playable
    <3> QED BY <1>2, <1>9, <1>14, <2>2, <3>1 DEF Begins, Forethinks, Searches
  <2> QED BY <1>13, <1>20, <2>1, <2>2
<1> QED BY <1>3, <1>17, <1>18, <1>19, <1>20

LEMMA PlayCardShapes ==
  ASSUME SInv, NEW c \in CardIds, PlayCard(c)
  PROVE  WorkShapes'
<1> DEFINE q == PlayCardQueue(c)
<1>1. /\ CanCommand /\ ~ScreenOpen /\ c \in ToSet(hand) /\ Playable(c)
      /\ frames' = <<q>> /\ cardInUse' = c
      /\ UNCHANGED <<hand, drawPile, content, phase, monstersAlive, decision>>
  BY DEF PlayCard, piles, cards
<1>2. Begins(q, c)
  BY <1>1, QueueBegins
<1> HIDE DEF q
<1>3. Len(frames') = 1 /\ Head(frames') = q /\ Current' = Head(q)
  BY <1>1 DEF Current
<1>4. Without(hand, c)' = Without(hand, c) /\ SkillsIn(drawPile)' = SkillsIn(drawPile)
  BY <1>1 DEF SkillsIn
<1>5. Prepared(Current)'
  BY <1>1, <1>2, <1>3, <1>4 DEF Prepared, Begins
<1>6. ~ScreenOpen'
  BY <1>1 DEF ScreenOpen
<1>7. PlayedCardWork'
  BY <1>1, <1>2, <1>3, <1>5, <1>6 DEF PlayedCardWork, Begins
<1>8. AliveShape' /\ LethalShape'
  BY <1>1, <1>7, Commanding DEF AliveShape, LethalShape
<1>9. PendingShape'
  BY <1>1 DEF SInv, PendingShape
<1> QED BY <1>6, <1>8, <1>9, ClosedShape, PTL DEF WorkShapes
------------------------------------------------------------------------------
(* The other commands *)

LEMMA EndTurnShapes ==
  ASSUME SInv, EndTurn
  PROVE  WorkShapes'
<1> DEFINE a == Act("DrawCards", None, HandSize)
<1>1. /\ CanCommand /\ ~ScreenOpen /\ frames' = <<<<a>>>>
      /\ UNCHANGED <<phase, monstersAlive, decision>> /\ TInv
  BY DEF EndTurn, combat, SInv
<1>2. a \in InternalAction /\ a.op = "DrawCards"
  <2>1. "DrawCards" \in Ops \ DOMAIN AwaitPurposes /\ HandSize \in Nat
    BY SizesAssumption DEF Ops, AwaitPurposes
  <2> QED BY <2>1, ActTypes DEF Act
<1> HIDE DEF a
<1>3. Stack(frames')
  <2>1. <<a>> \in Seq(InternalAction) /\ OpsIn(<<a>>) \subseteq PotionOps
    BY <1>2, OneOp DEF PotionOps
  <2> QED BY <1>1, <2>1, LoneStack
<1>4. AliveShape' /\ LethalShape' /\ ~ScreenOpen'
  BY <1>1, <1>3, Commanding DEF AliveShape, LethalShape, OtherWork, ScreenOpen
<1>5. PendingShape'
  BY <1>1 DEF SInv, PendingShape
<1> QED BY <1>4, <1>5, ClosedShape, PTL DEF WorkShapes

\* A potion's action runs at once or waits behind the open screen.
LEMMA UseQueuedPotionShapes ==
  ASSUME SInv, NEW p \in DOMAIN PotionAction, UseQueuedPotion(p)
  PROVE  WorkShapes'
<1> DEFINE a == PotionAction[p]
<1>1. a \in InternalAction /\ a.op \in PotionOps
  <2>1. /\ {"DrawCards", "OpenElixirSelection", "OpenGamblersBrewSelection",
            "OpenPotionCardReward"} \subseteq Ops \ DOMAIN AwaitPurposes
        /\ SwiftDraw \in Nat
    BY SizesAssumption DEF Ops, AwaitPurposes
  <2>2. /\ Act("DrawCards", None, SwiftDraw) \in InternalAction
        /\ Act("OpenElixirSelection", None, 0) \in InternalAction
        /\ Act("OpenGamblersBrewSelection", None, 0) \in InternalAction
        /\ Act("OpenPotionCardReward", None, 0) \in InternalAction
    BY <2>1, ActTypes
  <2>3. a \in {Act("DrawCards", None, SwiftDraw),
               Act("OpenElixirSelection", None, 0),
               Act("OpenGamblersBrewSelection", None, 0),
               Act("OpenPotionCardReward", None, 0)}
    BY DEF PotionAction
  <2>4. \A x \in {Act("DrawCards", None, SwiftDraw),
                  Act("OpenElixirSelection", None, 0),
                  Act("OpenGamblersBrewSelection", None, 0),
                  Act("OpenPotionCardReward", None, 0)} : x.op \in PotionOps
    BY DEF Act, PotionOps, OpenOps
  <2> HIDE DEF a
  <2> QED BY <2>2, <2>3, <2>4
<1>2. /\ CanCommand /\ UNCHANGED <<piles, phase, monstersAlive>>
      /\ UNCHANGED <<decision, frames>> \/ QueuePotionAction(a)
      /\ TInv /\ PendingShape /\ PileShape
  BY DEF UseQueuedPotion, Drink, SInv
<1> HIDE DEF a
<1>3. CASE UNCHANGED <<decision, frames>>
  <2>1. PileShape'
    BY <1>2, <1>3 DEF PileShape, piles
  <2>2. OpsIn(decision'.pending) \subseteq PotionOps
    BY <1>2, <1>3 DEF PendingShape
  <2> QED BY <1>2, <1>3, <2>1, <2>2, StayShapes
<1>4. CASE ScreenOpen /\ QueuePotionAction(a)
  <2>1. /\ decision' = [decision EXCEPT !.pending = Append(decision.pending, a)]
        /\ UNCHANGED frames
    BY <1>4 DEF QueuePotionAction
  <2>2. /\ decision'.purpose = decision.purpose
        /\ decision'.selectable = decision.selectable
        /\ decision'.selected = decision.selected
        /\ decision'.pending = Append(decision.pending, a)
    BY <1>2, <2>1 DEF TInv, DecisionTypes, ScreenType
  <2>3. PileShape'
    BY <1>2, <2>1, <2>2 DEF PileShape, piles
  <2>4. OpsIn(decision'.pending) \subseteq PotionOps
    <3>1. decision.pending \in Seq(InternalAction)
      BY <1>2, PendingType
    <3>2. ToSet(Append(decision.pending, a)) = ToSet(decision.pending) \union {a}
      BY <1>1, <3>1, SetOfAppend
    <3> QED BY <1>1, <1>2, <2>2, <3>2 DEF PendingShape, OpsIn
  <2> QED BY <1>2, <2>1, <2>3, <2>4, StayShapes
<1>5. CASE ~ScreenOpen /\ QueuePotionAction(a)
  <2>1. frames' = <<<<a>>>> /\ UNCHANGED decision
    BY <1>5 DEF QueuePotionAction
  <2>2. Stack(frames')
    <3>1. <<a>> \in Seq(InternalAction) /\ OpsIn(<<a>>) \subseteq PotionOps
      BY <1>1, OneOp
    <3> QED BY <2>1, <3>1, LoneStack
  <2>3. AliveShape' /\ LethalShape' /\ ~ScreenOpen'
    BY <1>2, <1>5, <2>1, <2>2, Commanding
       DEF AliveShape, LethalShape, OtherWork, ScreenOpen
  <2>4. PendingShape'
    BY <1>2, <2>1 DEF PendingShape
  <2> QED BY <2>3, <2>4, ClosedShape, PTL DEF WorkShapes
<1> QED BY <1>2, <1>3, <1>4, <1>5

LEMMA UseFirePotionShapes ==
  ASSUME SInv, UseFirePotion
  PROVE  WorkShapes'
<1>1. CanCommand /\ UNCHANGED <<piles, frames>> /\ PendingShape /\ PileShape
  BY DEF UseFirePotion, Drink, SInv
<1>2. CASE UNCHANGED <<decision, phase, monstersAlive>>
  <2>1. PileShape' /\ OpsIn(decision'.pending) \subseteq PotionOps
    BY <1>1, <1>2 DEF PileShape, PendingShape, piles
  <2> QED BY <1>1, <1>2, <2>1, StayShapes
<1>3. CASE monstersAlive' = FALSE /\ phase' = "Won" /\ decision' = NoScreen
  <2>1. ~ScreenOpen' /\ decision'.pending = <<>>
    BY <1>3 DEF NoScreen, Screen, ScreenOpen
  <2>2. frames' = <<>>
    BY <1>1, Commanding
  <2>3. AliveShape' /\ LethalShape'
    BY <1>3, <2>1, <2>2 DEF AliveShape, LethalShape
  <2>4. PendingShape'
    BY <2>1, ActionOps, EmptyType DEF PendingShape
  <2> QED BY <2>1, <2>3, <2>4, ClosedShape, PTL DEF WorkShapes
<1> QED BY <1>2, <1>3 DEF UseFirePotion

\* The screen of Liquid Memories opens over two discarded cards or more.
LEMMA UseLiquidMemoriesShapes ==
  ASSUME SInv, UseLiquidMemories
  PROVE  WorkShapes'
<1> DEFINE liquid == Screen("LiquidMemories", None, FALSE, {})
<1>1. /\ CanCommand /\ UNCHANGED <<frames, drawPile, phase, monstersAlive>>
      /\ PendingShape /\ PileShape /\ frames = <<>>
      /\ hand \in Seq(CardIds) /\ discardPile \in Seq(CardIds)
  BY Commanding DEF UseLiquidMemories, Drink, SInv, TInv, PileTypes
<1>2. \/ /\ Len(discardPile) <= 1 /\ UNCHANGED decision
         /\ hand' = hand \/ hand' = hand \o discardPile
         /\ discardPile' = discardPile \/ discardPile # <<>>
      \/ /\ ~(Len(discardPile) <= 1) /\ decision' = liquid
         /\ UNCHANGED <<hand, discardPile>>
  BY DEF UseLiquidMemories, Returned
<1>3. CASE /\ Len(discardPile) <= 1 /\ UNCHANGED decision
           /\ hand' = hand \/ hand' = hand \o discardPile
  <2>1. hand # <<>> => hand' # <<>>
    <3>1. hand # <<>> => hand \o discardPile # <<>>
      BY <1>1
    <3> QED BY <1>3, <3>1
  <2>2. decision.purpose \notin DiscardSelects
    <3>1. ~(Len(discardPile) >= 2)
      BY <1>1, <1>3
    <3> QED BY <1>1, <3>1 DEF PileShape
  <2>3. PileShape' /\ OpsIn(decision'.pending) \subseteq PotionOps
    BY <1>1, <1>3, <2>1, <2>2 DEF PileShape, PendingShape
  <2> QED BY <1>1, <2>3, StayShapes
<1>4. CASE /\ ~(Len(discardPile) <= 1) /\ decision' = liquid
           /\ UNCHANGED <<hand, discardPile>>
  <2>1. decision'.purpose = "LiquidMemories" /\ decision'.pending = <<>>
    BY <1>4 DEF Screen
  <2>2. Len(discardPile') >= 2
    <3>1. Len(discardPile) \in Nat
      BY <1>1
    <3>2. \A n \in Nat : ~(n <= 1) => n >= 2
      OBVIOUS
    <3>3. Len(discardPile) >= 2
      BY <1>4, <3>1, <3>2
    <3> QED BY <1>4, <3>3
  <2>3. \A i \in DOMAIN frames' : frames'[i] = <<>>
    BY <1>1
  <2>4. PileShape'
    BY <2>1, <2>2, <2>3 DEF PileShape, HandSelects, ExhaustSelects
  <2>5. OpsIn(decision'.pending) \subseteq PotionOps
    BY <2>1, ActionOps, EmptyType
  <2> QED BY <1>1, <2>4, <2>5, StayShapes
<1> QED BY <1>2, <1>3, <1>4

\* Choosing changes nothing but the choice.
LEMMA SelectShapes ==
  ASSUME SInv, CanCommand, UNCHANGED <<piles, frames, combat>>,
         NEW selected, Select(selected),
         decision.purpose = "Scry" =>
           ToSet(selected) \subseteq decision.selectable \intersect ToSet(drawPile)
  PROVE  WorkShapes'
<1>1. TInv /\ PileShape /\ PendingShape /\ UNCHANGED <<phase, monstersAlive>>
  BY DEF SInv, combat
<1>2. /\ decision'.purpose = decision.purpose
      /\ decision'.selectable = decision.selectable
      /\ decision'.selected = selected
      /\ decision'.pending = decision.pending
  BY <1>1 DEF Select, TInv, DecisionTypes, ScreenType
<1>3. PileShape'
  BY <1>1, <1>2 DEF PileShape, piles
<1>4. OpsIn(decision'.pending) \subseteq PotionOps
  BY <1>1, <1>2 DEF PendingShape
<1> QED BY <1>1, <1>3, <1>4, StayShapes

LEMMA ChooseShapes ==
  ASSUME SInv, NEW i,
         ChooseHandSelect(i) \/ ChooseScry(i) \/ ChooseExhaustSelect(i)
  PROVE  WorkShapes'
<1>1. CanCommand /\ UNCHANGED <<piles, frames, combat>>
  BY DEF ChooseHandSelect, ChooseScry, ChooseExhaustSelect, Answering
<1>2. CASE ChooseHandSelect(i) \/ ChooseExhaustSelect(i)
  <2>1. \E selected : Select(selected)
    BY <1>2 DEF ChooseHandSelect, ChooseExhaustSelect
  <2>2. decision.purpose # "Scry"
    BY <1>2 DEF ChooseHandSelect, ChooseExhaustSelect, Answering, HandSelects,
                ExhaustSelects
  <2> QED BY <1>1, <2>1, <2>2, SelectShapes
<1>3. CASE ChooseScry(i)
  <2>1. /\ Select(Toggled(i)) /\ decision.purpose = "Scry"
        /\ i \in decision.selectable \intersect ToSet(drawPile)
    BY <1>3 DEF ChooseScry, Answering
  <2>2. /\ decision.selected \in Seq(CardIds) /\ i \in CardIds
        /\ ToSet(decision.selected) \subseteq decision.selectable
                                              \intersect ToSet(drawPile)
    BY <2>1 DEF SInv, TInv, DecisionTypes, ChoiceHolds, ScreenType, PileShape
  <2>3. /\ ToSet(Without(decision.selected, i)) \subseteq ToSet(decision.selected)
        /\ ToSet(Append(decision.selected, i)) = ToSet(decision.selected) \union {i}
    BY <2>2, SetOfWithout, SetOfAppend
  <2>4. Toggled(i) \in {Without(decision.selected, i), Append(decision.selected, i)}
    BY DEF Toggled
  <2>5. ToSet(Toggled(i)) \subseteq decision.selectable \intersect ToSet(drawPile)
    BY <2>1, <2>2, <2>3, <2>4
  <2> QED BY <1>1, <2>1, <2>5, SelectShapes
<1> QED BY <1>2, <1>3

LEMMA ConfirmHandSelectShapes ==
  ASSUME SInv, ConfirmHandSelect
  PROVE  WorkShapes'
<1> DEFINE pend   == decision.pending
           other  == Dropping(pend, ActionsOf({"DrawCards"}))
           settle == Act("SettleHandSource", decision.source, 0)
           draws  == Dropping(pend, ActionsOf(Ops \ {"DrawCards"}))
<1>1. /\ CanCommand /\ Close(<<other, <<settle>>, draws>>) /\ UNCHANGED combat
  BY DEF ConfirmHandSelect, Answering
<1>2. pend \in Seq(InternalAction) /\ OpsIn(pend) \subseteq PotionOps
  BY <1>1, Commanding DEF SInv, PendingShape
<1>3. /\ other \in Seq(InternalAction) /\ OpsIn(other) \subseteq PotionOps
      /\ draws \in Seq(InternalAction) /\ OpsIn(draws) \subseteq {"DrawCards"}
  <2>1. OpsIn(pend) \subseteq Ops
    BY <1>2, ActionOps
  <2> QED BY <1>2, <2>1, DroppingOps
<1>4. settle.op \in SettleOps
  BY DEF Act, SettleOps
<1> HIDE DEF other, settle, draws
<1>5. Stack(<<other, <<settle>>, draws>>)
  BY <1>3, <1>4, SettlingStack
<1> QED BY <1>1, <1>5, CloseShapes

LEMMA CloseToSettleShapes ==
  ASSUME SInv, NEW c, ChooseSecretTechnique(c)
  PROVE  WorkShapes'
<1> DEFINE settle == Act("MoveDrawSelectSource", decision.source, 0)
<1>1. /\ CanCommand /\ Close(<<decision.pending, <<settle>>>>) /\ UNCHANGED combat
  BY DEF ChooseSecretTechnique, Answering
<1>2. decision.pending \in Seq(InternalAction) /\ OpsIn(decision.pending) \subseteq PotionOps
  BY <1>1, Commanding DEF SInv, PendingShape
<1>3. settle.op \in SettleOps
  BY DEF Act, SettleOps
<1> HIDE DEF settle
<1>4. Stack(<<decision.pending, <<settle>>>>)
  BY <1>2, <1>3, SettlingStack
<1> QED BY <1>1, <1>4, CloseShapes

\* The answers after which only what waited is left to do.
LEMMA CloseToPendingShapes ==
  ASSUME SInv, \/ ConfirmScry \/ ConfirmTrueGrit \/ ConfirmElixir
               \/ ChooseCombatCardReward \/ SkipCombatCardReward
               \/ \E i \in 1..Len(discardPile) :
                    ChooseHeadbutt(i) \/ ChooseLiquidMemories(i)
  PROVE  WorkShapes'
<1>1. CanCommand /\ Close(<<decision.pending>>) /\ UNCHANGED combat
  BY DEF ConfirmScry, ConfirmTrueGrit, ConfirmElixir, ChooseCombatCardReward,
         SkipCombatCardReward, ChooseHeadbutt, ChooseLiquidMemories, Answering
<1>2. Stack(<<decision.pending>>)
  BY <1>1, Commanding, LoneStack DEF SInv, PendingShape
<1> QED BY <1>1, <1>2, CloseShapes

LEMMA ConfirmGamblingChipShapes ==
  ASSUME SInv, ConfirmGamblingChip
  PROVE  WorkShapes'
<1> DEFINE draw == Act("DrawCards", None, Len(Chosen))
<1>1. CanCommand /\ Close(<<<<draw>>, decision.pending>>) /\ UNCHANGED combat
  BY DEF ConfirmGamblingChip, Answering
<1>2. decision.pending \in Seq(InternalAction) /\ OpsIn(decision.pending) \subseteq PotionOps
  BY <1>1, Commanding DEF SInv, PendingShape
<1>3. draw.op = "DrawCards"
  BY DEF Act
<1> HIDE DEF draw
<1>4. Stack(<<<<draw>>, decision.pending>>)
  BY <1>2, <1>3, DrawingStack
<1> QED BY <1>1, <1>4, CloseShapes

LEMMA CommandShapes ==
  ASSUME SInv, Command
  PROVE  SInv'
<1>1. TInv'
  BY CommandTypes DEF SInv
<1>2. WorkShapes'
  BY PlayCardShapes, EndTurnShapes, UseQueuedPotionShapes, UseFirePotionShapes,
     UseLiquidMemoriesShapes, ChooseShapes, ConfirmHandSelectShapes,
     CloseToSettleShapes, CloseToPendingShapes, ConfirmGamblingChipShapes
     DEF Command
<1> QED BY <1>1, <1>2 DEF SInv, WorkShapes

------------------------------------------------------------------------------
(* The theorems *)

LEMMA InitShapes == Init => SInv
<1> SUFFICES ASSUME Init PROVE SInv
  OBVIOUS
<1>1. TInv
  BY InitTypes
<1>2. /\ decision = NoScreen /\ frames = <<>> /\ phase = "WaitingForPlayer"
      /\ monstersAlive = TRUE
  BY DEF Init, Deal
<1>3. ~ScreenOpen /\ decision.pending = <<>>
  BY <1>2 DEF NoScreen, Screen, ScreenOpen
<1>4. AliveShape /\ LethalShape
  BY <1>2, <1>3, NoWorkLeft DEF AliveShape, LethalShape, OtherWork
<1>5. PendingShape
  BY <1>3, ActionOps, EmptyType DEF PendingShape
<1> QED BY <1>1, <1>3, <1>4, <1>5, ClosedShape DEF SInv

LEMMA NextShapes == SInv /\ [Next]_vars => SInv'
<1> SUFFICES ASSUME SInv, [Next]_vars PROVE SInv'
  OBVIOUS
<1>1. CASE UNCHANGED vars
  <2>1. TInv'
    BY <1>1, NextTypes DEF SInv
  <2>2. UNCHANGED <<hand, drawPile, discardPile, content, decision, frames,
                    cardInUse, phase, monstersAlive>>
    BY <1>1 DEF vars, piles, cards, combat
  <2>3. WorkShapes'
    BY <2>2 DEF SInv, WorkShapes, AliveShape, LethalShape, PendingShape, PileShape,
                PlayedCardWork, OtherWork, ScreenOpen, Prepared, Current, SkillsIn
  <2> QED BY <2>1, <2>3 DEF SInv, WorkShapes
<1> QED BY <1>1, RunQueueShapes, CommandShapes DEF Next, CombatOver

THEOREM WorkIsShaped == Spec => []SInv
BY InitShapes, NextShapes, PTL DEF Spec
LEMMA WonMeansClosed == ASSUME SInv PROVE ClearedAfterWin
BY DEF SInv, AliveShape, LethalShape, ClearedAfterWin

\* ClearedAfterWin: winning drops the screen and what waited behind it, at the
\* end of a queue as well as from a potion.
THEOREM WinClearsScreen == Spec => []ClearedAfterWin
BY WorkIsShaped, WonMeansClosed, PTL

LEMMA ShapedIsAnswerable == ASSUME SInv PROVE ScreenAnswerable
<1> SUFFICES ASSUME Quiescent
             PROVE  CASE decision.purpose \in HandSelects \union ExhaustSelects ->
                           hand # <<>> /\ ToSet(decision.selected) \subseteq DOMAIN hand
                      [] decision.purpose \in DiscardSelects -> discardPile # <<>>
                      [] decision.purpose = "SecretTechnique" ->
                           decision.selectable \intersect ToSet(drawPile) # {}
                      [] decision.purpose = "Scry" ->
                           ToSet(decision.selected) \subseteq decision.selectable
                                                              \intersect ToSet(drawPile)
                      [] OTHER -> TRUE
  BY DEF ScreenAnswerable
<1>1. PileShape /\ ChoiceHolds
  BY DEF SInv, TInv, DecisionTypes
<1>2. Len(discardPile) >= 2 => discardPile # <<>>
  <2>1. discardPile = <<>> => Len(discardPile) = 0
    OBVIOUS
  <2> QED BY <2>1
<1>3. CASE decision.purpose \in HandSelects \union ExhaustSelects
  BY <1>1, <1>3 DEF PileShape, ChoiceHolds, HandSelects, ExhaustSelects, DiscardSelects
<1>4. CASE decision.purpose \in DiscardSelects
  BY <1>1, <1>2, <1>4 DEF PileShape, HandSelects, ExhaustSelects, DiscardSelects
<1>5. CASE decision.purpose = "SecretTechnique"
  BY <1>1, <1>5 DEF PileShape, HandSelects, ExhaustSelects, DiscardSelects
<1>6. CASE decision.purpose = "Scry"
  BY <1>1, <1>6 DEF PileShape, HandSelects, ExhaustSelects, DiscardSelects
<1>7. CASE ~\/ decision.purpose \in HandSelects \union ExhaustSelects
            \/ decision.purpose \in DiscardSelects
            \/ decision.purpose = "SecretTechnique"
            \/ decision.purpose = "Scry"
  BY <1>7
<1> QED BY <1>3, <1>4, <1>5, <1>6, <1>7

\* ScreenAnswerable: whatever is used while a screen is open, the screen that
\* waits for the player still has an answer.
THEOREM ScreensCanBeAnswered == Spec => []ScreenAnswerable
BY WorkIsShaped, ShapedIsAnswerable, PTL

LEMMA DeadHandShrinks ==
  ASSUME SInv, [Next]_vars, ~monstersAlive
  PROVE  ToSet(hand') \subseteq ToSet(hand)
<1>1. hand \in Seq(CardIds)
  BY DEF SInv, TInv, PileTypes
<1>2. ASSUME RunQueue, ~EndQueue
      PROVE  hand' = hand \/ \E c : hand' = Without(hand, c)
  <2>1. \A op \in Ops : Running(op) => op \in DeadOps
    BY WhoRuns
  <2>2. \/ Run_MoveCard \/ Run_AwaitDiscardSelect
        \/ Run_AddGeneratedCardToDrawPileRandomSpot
    <3>1. \A op \in {"DealDamage", "MoveDrawCardToHand", "DrawCards",
                     "DrawCardsWhilePlayedCardIsInLimbo", "DeepBreathShuffle",
                     "ForethoughtAutoMove", "AwaitHandSelect", "AwaitDrawSelect",
                     "AwaitExhaustSelect", "OpenElixirSelection",
                     "OpenGamblersBrewSelection", "OpenPotionCardReward",
                     "SettleHandSource", "MoveDrawSelectSource"} : ~Running(op)
      BY <2>1 DEF Ops, DeadOps
    <3> QED BY <1>2, <3>1
            DEF RunQueue, Run_DealDamage, Run_MoveDrawCardToHand, Run_DrawCards,
                Run_DrawCardsWhilePlayedCardIsInLimbo, Run_DeepBreathShuffle,
                Run_ForethoughtAutoMove, Run_AwaitHandSelect_Open,
                Run_AwaitHandSelect_Auto, Run_AwaitDrawSelect,
                Run_AwaitExhaustSelect, Run_OpenElixirSelection,
                Run_OpenGamblersBrewSelection, OpenPotionSelection,
                Run_OpenPotionCardReward, Run_SettleHandSource,
                Run_MoveDrawSelectSource
  <2> QED BY <2>2 DEF Run_MoveCard, Run_AwaitDiscardSelect,
                      Run_AddGeneratedCardToDrawPileRandomSpot
<1>3. ~Command
  <2>1. ~CanCommand
    BY Commanding
  <2> QED BY <2>1 DEF Command, PlayCard, EndTurn, UseQueuedPotion, UseFirePotion,
             UseLiquidMemories, Drink, ChooseHandSelect, ConfirmHandSelect,
             ChooseSecretTechnique, ChooseScry, ConfirmScry, ChooseHeadbutt,
             ChooseLiquidMemories, ChooseExhaustSelect, ConfirmTrueGrit,
             ConfirmElixir, ConfirmGamblingChip, ChooseCombatCardReward,
             SkipCombatCardReward, Answering
<1>4. EndQueue \/ CombatOver \/ UNCHANGED vars => hand' = hand
  BY DEF EndQueue, CombatOver, vars, piles
<1>5. hand' = hand \/ \E c : hand' = Without(hand, c)
  BY <1>2, <1>3, <1>4 DEF Next
<1>6. ASSUME NEW c, hand' = Without(hand, c)
      PROVE  ToSet(hand') \subseteq ToSet(hand)
  <2>1. ToSet(Without(hand, c)) = ToSet(hand) \ {c}
    BY <1>1, SetOfWithout
  <2> QED BY <1>6, <2>1
<1> QED BY <1>5, <1>6

\* NoDrawAfterLethal: the draws a lethal hit finds in the queue are cancelled,
\* and nothing left in it can bring a card to the hand.
THEOREM DeadDrawNothing == Spec => NoDrawAfterLethal
<1>1. SInv /\ [Next]_vars => [~monstersAlive => ToSet(hand') \subseteq ToSet(hand)]_vars
  BY DeadHandShrinks
<1> QED BY <1>1, WorkIsShaped, PTL DEF Spec, NoDrawAfterLethal

LEMMA ChoiceStands ==
  ASSUME TInv, [Next]_vars,
         decision.purpose \in HandSelects \union ExhaustSelects,
         decision'.purpose = decision.purpose,
         decision'.selected = decision.selected
  PROVE  Chosen' = Chosen
<1>1. /\ hand \in Seq(CardIds) /\ decision.selected \in Seq(Nat) /\ ChoiceHolds
      /\ discardPile \in Seq(CardIds)
  BY DEF TInv, PileTypes, DecisionTypes, ScreenType
<1>2. CASE decision.selected = <<>>
  <2>1. DOMAIN decision.selected = {}
    BY <1>2
  <2> QED BY <2>1 DEF Chosen
<1>3. CASE decision.selected # <<>>
  <2>1. frames = <<>> /\ ScreenOpen
        /\ ToSet(decision.selected) \subseteq DOMAIN hand
    BY <1>1, <1>3 DEF ChoiceHolds
  <2>2. decision' # NoScreen
    BY DEF NoScreen, Screen, HandSelects, ExhaustSelects
  <2>3. hand' = hand \/ hand' = hand \o discardPile
    <3>1. ~RunQueue
      BY <2>1 DEF RunQueue, EndQueue, Running, Run_DealDamage, Run_MoveCard,
         Run_MoveDrawCardToHand, Run_DrawCards,
         Run_DrawCardsWhilePlayedCardIsInLimbo, Run_DeepBreathShuffle,
         Run_AddGeneratedCardToDrawPileRandomSpot,
         Run_ForethoughtAutoMove, Run_AwaitHandSelect_Open,
         Run_AwaitHandSelect_Auto, Run_AwaitDrawSelect, Run_AwaitDiscardSelect,
         Run_AwaitExhaustSelect, Run_OpenElixirSelection,
         Run_OpenGamblersBrewSelection, OpenPotionSelection,
         Run_OpenPotionCardReward, Run_SettleHandSource,
         Run_MoveDrawSelectSource
    <3>2. Command => hand' = hand \/ hand' = hand \o discardPile
      BY <2>1, <2>2 DEF Command, PlayCard, EndTurn, UseQueuedPotion, UseFirePotion,
         UseLiquidMemories, Returned, ChooseHandSelect, ConfirmHandSelect,
         ChooseSecretTechnique, ChooseScry, ConfirmScry, ChooseHeadbutt,
         ChooseLiquidMemories, ChooseExhaustSelect, ConfirmTrueGrit,
         ConfirmElixir, ConfirmGamblingChip, ChooseCombatCardReward,
         SkipCombatCardReward, Close, piles
    <3> QED BY <3>1, <3>2 DEF Next, CombatOver, vars, piles
  <2>4. \A i \in DOMAIN hand : hand'[i] = hand[i]
    <3>1. \A i \in DOMAIN hand : (hand \o discardPile)[i] = hand[i]
      BY <1>1
    <3> QED BY <2>3, <3>1
  <2>5. \A k \in DOMAIN decision.selected :
          hand'[decision.selected[k]] = hand[decision.selected[k]]
    BY <2>1, <2>4 DEF ToSet
  <2>6. DOMAIN decision'.selected = DOMAIN decision.selected
    OBVIOUS
  <2> QED BY <2>5, <2>6 DEF Chosen
<1> QED BY <1>2, <1>3

\* ChoiceKeepsItsCards: a choice is made of hand positions, and while it stands
\* cards only join the hand behind them.
THEOREM ChoiceDenotesItsCards == Spec => ChoiceKeepsItsCards
<1>1. SInv /\ [Next]_vars =>
        [/\ decision.purpose \in HandSelects \union ExhaustSelects
         /\ decision'.purpose = decision.purpose
         /\ decision'.selected = decision.selected
         => Chosen' = Chosen]_vars
  BY ChoiceStands DEF SInv
<1> QED BY <1>1, WorkIsShaped, PTL DEF Spec, ChoiceKeepsItsCards
==============================================================================

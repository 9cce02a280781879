------------------------- MODULE EventStreamProofs -------------------------
(* No event behind a cursor is lost: StreamInv is an invariant of Spec. *)
EXTENDS EventStream, FiniteSetTheorems, WellFoundedInduction, TLAPS

-----------------------------------------------------------------------------
(* Operators *)

\* ORDER BY id LIMIT n reads a prefix: it takes no id and skips a smaller one.
LEMMA TailOfIsPrefix ==
  ASSUME NEW top \in Nat, NEW ids \in SUBSET (1..top),
         NEW since \in Int, NEW n \in Int,
         NEW i \in TailOf(ids, since, n),
         NEW j \in ids, since < j, j < i
  PROVE  j \in TailOf(ids, since, n)
<1> DEFINE Below(x) == {k \in ids : since < k /\ k < x}
<1>1. /\ i \in ids
      /\ Cardinality(Below(i)) < n
  BY DEF TailOf
<1>2. Below(j) \subseteq Below(i)
  <2> SUFFICES ASSUME NEW k \in ids, since < k, k < j
               PROVE  k < i
    OBVIOUS
  <2>1. i \in Int /\ j \in Int /\ k \in Int
    BY <1>1
  <2> QED
    BY <2>1
<1>3. IsFiniteSet(1..top)
  BY FS_Interval
<1>4. IsFiniteSet(Below(i))
  <2>1. Below(i) \subseteq 1..top
    OBVIOUS
  <2> QED
    BY <1>3, <2>1, FS_Subset
<1>5. /\ IsFiniteSet(Below(j))
      /\ Cardinality(Below(j)) <= Cardinality(Below(i))
  BY <1>2, <1>4, FS_Subset
<1>6. Cardinality(Below(j)) < n
  BY <1>1, <1>4, <1>5, FS_CardinalityType
<1> QED
  BY <1>6 DEF TailOf

\* A position that has advanced stands on one that was read, or where it was,
\* and nothing read up to it was cut unless it did not move.
LEMMA AdvancedStopsAtCut ==
  ASSUME NEW new, NEW old, NEW read, NEW cut, Advanced(new, old, read, cut)
  PROVE  \/ new = old
         \/ new \in read /\ \A j \in read : j <= new => j \notin cut
  BY DEF Advanced

\* What is not cut is carried.
LEMMA NotCutIsCarried ==
  ASSUME NEW events, NEW emitted, NEW s,
         NEW e \in events, e.src = s, e.pos \notin Cut(s, events, emitted)
  PROVE  e.pos \in PositionsIn(s, emitted)
  BY DEF Cut, PositionsIn

\* An answer carries only what was read.
LEMMA EmittedIsRead ==
  ASSUME NEW events, NEW limit
  PROVE  Emitted(events, limit) \subseteq events
  BY DEF Emitted, First

-----------------------------------------------------------------------------
(* The order of events *)

Sources == {"k", "d", "a"}

\* Events as a poll reads them: one per source, place and half of a pair; the
\* two of a pair have the time of their row, and only rows tell pairs.
EventSet(E) ==
  /\ IsFiniteSet(E)
  /\ \A e \in E : /\ e.src \in Sources /\ e.pos \in Nat /\ e.sub \in {0, 1} /\ e.ts \in Nat
                  /\ e.src # "k" => e.sub = 0
  /\ \A e, f \in E : (e.src = f.src /\ e.pos = f.pos) => e.ts = f.ts
  /\ \A e, f \in E : (e.src = f.src /\ e.pos = f.pos /\ e.sub = f.sub) => e = f

\* A nonempty set of numbers has a least element.
LEMMA LeastOf ==
  ASSUME NEW S \in SUBSET Nat, S # {}
  PROVE  \E m \in S : \A n \in S : m <= n
<1> DEFINE family == {0..n : n \in S}
           less == StrictSubsetOrdering(Nat)
<1>1. IsWellFoundedOn(less, FiniteSubsetsOf(Nat))
  BY FS_StrictSubsetOrderingWellFounded
<1>2. family \subseteq FiniteSubsetsOf(Nat) /\ family # {}
  <2>1. \A n \in S : 0..n \subseteq Nat /\ IsFiniteSet(0..n)
    BY FS_Interval
  <2> QED
    BY <2>1 DEF FiniteSubsetsOf
<1> HIDE DEF less
<1>3. PICK x \in family : \A y \in family : <<y, x>> \notin less
  BY <1>1, <1>2, WFMin
<1>4. PICK m \in S : x = 0..m
  BY <1>3
<1>5. ASSUME NEW n \in S PROVE m <= n
  <2> SUFFICES ASSUME n < m PROVE FALSE
    OBVIOUS
  <2>1. 0..n \subseteq 0..m /\ m \in 0..m /\ m \notin 0..n /\ 0..n \subseteq Nat /\ 0..m \subseteq Nat
    OBVIOUS
  <2>2. <<0..n, 0..m>> \in less
    BY <2>1 DEF less, StrictSubsetOrdering
  <2> QED
    BY <1>3, <1>4, <2>2
<1> QED
  BY <1>5

\* A page of fewer rows than were asked for holds all of them.
LEMMA ShortPageIsAll ==
  ASSUME NEW top \in Nat, NEW ids \in SUBSET (1..top), NEW since \in Int, NEW n \in Nat,
         Cardinality(TailOf(ids, since, n)) < n,
         NEW i \in ids, since < i
  PROVE  i \in TailOf(ids, since, n)
<1> DEFINE Below(x) == {j \in ids : since < j /\ j < x}
           page == TailOf(ids, since, n)
           missed == {x \in ids : since < x /\ x \notin page}
<1> SUFFICES ASSUME i \notin page PROVE FALSE
  OBVIOUS
<1>1. missed \in SUBSET Nat /\ i \in missed
  <2>1. ids \subseteq Nat
    OBVIOUS
  <2> QED
    BY <2>1
<1>2. PICK m \in missed : \A x \in missed : m <= x
  BY <1>1, LeastOf
<1>3. Below(m) \subseteq page
  <2> SUFFICES ASSUME NEW j \in ids, since < j, j < m, j \notin page PROVE FALSE
    OBVIOUS
  <2>1. j \in missed
    OBVIOUS
  <2>2. m <= j /\ m \in Nat /\ j \in Nat
    BY <1>1, <1>2, <2>1
  <2> QED
    BY <2>2
<1>4. IsFiniteSet(page)
  <2>1. page \in SUBSET (1..top)
    BY DEF TailOf
  <2>2. IsFiniteSet(1..top)
    BY FS_Interval
  <2> HIDE DEF page
  <2> QED
    BY <2>1, <2>2, FS_Subset
<1>5. Cardinality(Below(m)) <= Cardinality(page) /\ Cardinality(Below(m)) \in Nat /\ Cardinality(page) \in Nat
  BY <1>3, <1>4, FS_Subset, FS_CardinalityType
<1>6. Cardinality(Below(m)) < n
  BY <1>5
<1>7. m \in page
  BY <1>2, <1>6 DEF TailOf
<1> QED
  BY <1>2, <1>7

\* Sources have different ranks.
LEMMA RankOfSource ==
  /\ SourceRank["k"] = 0 /\ SourceRank["d"] = 1 /\ SourceRank["a"] = 3
  /\ \A s \in Sources : SourceRank[s] \in Nat
  /\ \A s, t \in Sources : SourceRank[s] = SourceRank[t] => s = t
BY DEF SourceRank, Sources

\* Before is a strict order, and total on the events of a poll.
LEMMA BeforeOrders ==
  ASSUME NEW E, EventSet(E)
  PROVE  /\ \A e \in E : ~Before(e, e)
         /\ \A e, f, g \in E : Before(e, f) /\ Before(f, g) => Before(e, g)
         /\ \A e, f \in E : e # f => Before(e, f) \/ Before(f, e)
<1> DEFINE r(e) == SourceRank[e.src]
<1>1. \A e \in E : r(e) \in Nat /\ e.ts \in Nat /\ e.pos \in Nat /\ e.sub \in Nat
  BY RankOfSource DEF EventSet
<1>2. \A e, f \in E : r(e) = r(f) => e.src = f.src
  BY RankOfSource DEF EventSet
<1>3. \A e, f \in E : Before(e, f) <=>
        \/ e.ts < f.ts
        \/ e.ts = f.ts /\ r(e) < r(f)
        \/ e.ts = f.ts /\ r(e) = r(f) /\ e.pos < f.pos
        \/ e.ts = f.ts /\ r(e) = r(f) /\ e.pos = f.pos /\ e.sub < f.sub
  BY <1>2 DEF Before
<1>4. \A e, f \in E : (r(e) = r(f) /\ e.pos = f.pos /\ e.sub = f.sub) => e = f
  BY <1>2 DEF EventSet
<1> HIDE DEF r
<1>5. ASSUME NEW e \in E PROVE ~Before(e, e)
  BY <1>1, <1>3
<1>6. ASSUME NEW e \in E, NEW f \in E, NEW g \in E, Before(e, f), Before(f, g) PROVE Before(e, g)
  BY <1>1, <1>3, <1>6
<1>7. ASSUME NEW e \in E, NEW f \in E, e # f PROVE Before(e, f) \/ Before(f, e)
  BY <1>1, <1>3, <1>4, <1>7
<1> QED
  BY <1>5, <1>6, <1>7

\* The rank of an event is the number of those before it: it orders them as
\* Before does, and no two have the same.
LEMMA RankOrders ==
  ASSUME NEW E, EventSet(E)
  PROVE  /\ \A e \in E : Rank(e, E) \in Nat
         /\ \A e, f \in E : Before(e, f) => Rank(e, E) < Rank(f, E)
         /\ \A e, f \in E : Rank(e, E) < Rank(f, E) => Before(e, f)
         /\ \A e, f \in E : Rank(e, E) = Rank(f, E) => e = f
<1> DEFINE Ahead(e) == {f \in E : Before(f, e)}
<1>1. IsFiniteSet(E)
  BY DEF EventSet
<1>2. \A e \in E : IsFiniteSet(Ahead(e)) /\ Rank(e, E) = Cardinality(Ahead(e))
  BY <1>1, FS_Subset DEF Rank
<1>3. \A e \in E : Rank(e, E) \in Nat
  BY <1>2, FS_CardinalityType
<1>4. ASSUME NEW e \in E, NEW f \in E, Before(e, f) PROVE Rank(e, E) < Rank(f, E)
  <2>1. Ahead(e) \subseteq Ahead(f)
    BY <1>4, BeforeOrders
  <2>2. e \in Ahead(f) /\ e \notin Ahead(e)
    BY <1>4, BeforeOrders
  <2> HIDE DEF Ahead
  <2>3. Cardinality(Ahead(e)) <= Cardinality(Ahead(f)) /\ Cardinality(Ahead(e)) # Cardinality(Ahead(f))
    BY <1>2, <2>1, <2>2, FS_Subset
  <2> QED
    BY <1>2, <1>3, <2>3
<1>5. ASSUME NEW e \in E, NEW f \in E, Rank(e, E) < Rank(f, E) PROVE Before(e, f)
  <2>1. e # f
    BY <1>3, <1>5
  <2>2. ~Before(f, e)
    <3> SUFFICES ASSUME Before(f, e) PROVE FALSE
      OBVIOUS
    <3>1. Rank(f, E) < Rank(e, E)
      BY <1>4
    <3> QED
      BY <1>3, <1>5, <3>1
  <2> QED
    BY <2>1, <2>2, BeforeOrders
<1>6. ASSUME NEW e \in E, NEW f \in E, Rank(e, E) = Rank(f, E) PROVE e = f
  <2> SUFFICES ASSUME e # f PROVE FALSE
    OBVIOUS
  <2>1. Rank(e, E) < Rank(f, E) \/ Rank(f, E) < Rank(e, E)
    BY <1>4, BeforeOrders
  <2> QED
    BY <1>3, <1>6, <2>1
<1> QED
  BY <1>3, <1>4, <1>5, <1>6

\* The first n events are those whose rank is below n.
LEMMA FirstByRank ==
  ASSUME NEW E, NEW n
  PROVE  First(n, E) = {e \in E : Rank(e, E) < n}
BY DEF First, Rank

\* The first events are as many as were asked for, at most, and come before
\* the others.
LEMMA FirstIsPrefix ==
  ASSUME NEW E, EventSet(E), NEW n \in Nat
  PROVE  /\ First(n, E) \subseteq E /\ IsFiniteSet(First(n, E)) /\ Cardinality(First(n, E)) <= n
         /\ \A e \in First(n, E), f \in E : Before(f, e) => f \in First(n, E)
<1> DEFINE F == First(n, E)
           rank == [e \in F |-> Rank(e, E)]
<1>1. F = {e \in E : Rank(e, E) < n}
  BY FirstByRank
<1> HIDE DEF F
<1>2. \A e \in E : Rank(e, E) \in Nat
  BY RankOrders
<1>3. rank \in Injection(F, 0..(n - 1))
  <2>1. rank \in [F -> 0..(n - 1)]
    BY <1>1, <1>2
  <2>2. \A e, f \in F : rank[e] = rank[f] => e = f
    BY <1>1, RankOrders
  <2> QED
    BY <2>1, <2>2 DEF Injection, IsInjective
<1>4. IsFiniteSet(0..(n - 1)) /\ Cardinality(0..(n - 1)) = n
  BY FS_Interval
<1> HIDE DEF rank
<1>5. IsFiniteSet(F) /\ Cardinality(F) <= n
  BY <1>3, <1>4, FS_Injection
<1>6. ASSUME NEW e \in F, NEW f \in E, Before(f, e) PROVE f \in F
  <2>1. Rank(f, E) < Rank(e, E)
    BY <1>1, <1>6, RankOrders
  <2> QED
    BY <1>1, <1>2, <2>1
<1> QED
  BY <1>1, <1>5, <1>6 DEF F

\* Nothing comes between the two events of one row.
LEMMA PairRanks ==
  ASSUME NEW E, EventSet(E), NEW e \in E, NEW f \in E, Before(e, f),
         e.src = "k", f.src = "k", e.pos = f.pos
  PROVE  e.sub = 0 /\ f.sub = 1 /\ Rank(f, E) = Rank(e, E) + 1
<1> DEFINE Ahead(x) == {g \in E : Before(g, x)}
<1>1. e.ts = f.ts /\ e.ts \in Nat /\ e.pos \in Nat
  BY DEF EventSet
<1>2. e.sub \in {0, 1} /\ f.sub \in {0, 1}
  BY DEF EventSet
<1>3. e.sub < f.sub
  BY <1>1, RankOfSource DEF Before
<1>4. e.sub = 0 /\ f.sub = 1
  BY <1>2, <1>3
<1>5. ASSUME NEW g \in E, Before(g, f), g # e PROVE Before(g, e)
  <2> SUFFICES ASSUME Before(e, g) PROVE FALSE
    BY <1>5, BeforeOrders
  <2>1. /\ g.ts \in Nat /\ g.pos \in Nat /\ g.sub \in {0, 1} /\ g.src \in Sources
        /\ SourceRank[g.src] \in Nat
    BY RankOfSource DEF EventSet
  <2>2. g.ts = e.ts
    BY <1>1, <1>5, <2>1 DEF Before
  <2>3. SourceRank[g.src] = 0
    BY <1>1, <1>5, <2>1, <2>2, RankOfSource DEF Before
  <2>4. g.src = "k"
    BY <2>1, <2>3, RankOfSource DEF Sources
  <2>5. g.pos = e.pos
    BY <1>1, <1>5, <2>1, <2>2, <2>4, RankOfSource DEF Before
  <2>6. e.sub < g.sub /\ g.sub < f.sub
    BY <1>1, <1>5, <2>1, <2>2, <2>4, <2>5, RankOfSource DEF Before
  <2> QED
    BY <1>4, <2>1, <2>6
<1>6. Ahead(f) = Ahead(e) \cup {e} /\ e \notin Ahead(e)
  <2>1. \A g \in Ahead(e) : g \in Ahead(f)
    BY BeforeOrders
  <2>2. e \notin Ahead(e)
    BY BeforeOrders
  <2> QED
    BY <1>5, <2>1, <2>2
<1>7. IsFiniteSet(Ahead(e))
  BY FS_Subset DEF EventSet
<1> HIDE DEF Ahead
<1>8. Cardinality(Ahead(f)) = Cardinality(Ahead(e)) + 1
  BY <1>6, <1>7, FS_AddElement
<1> QED
  BY <1>4, <1>8 DEF Rank, Ahead

\* Where the limit splits a pair.
LEMMA SplitAt ==
  ASSUME NEW E, EventSet(E), NEW n \in Nat, NEW e \in First(n, E), NEW f \in E \ First(n, E),
         e.src = "k", f.src = "k", e.pos = f.pos
  PROVE  /\ Before(e, f) /\ e.sub = 0 /\ f.sub = 1
         /\ Rank(e, E) = n - 1 /\ Rank(f, E) = n
<1>1. e \in E /\ Rank(e, E) < n /\ ~(Rank(f, E) < n) /\ e # f
  BY FirstByRank
<1>2. Rank(e, E) \in Nat /\ Rank(f, E) \in Nat
  BY <1>1, RankOrders
<1>3. Before(e, f)
  BY <1>1, <1>2, RankOrders
<1>4. e.sub = 0 /\ f.sub = 1 /\ Rank(f, E) = Rank(e, E) + 1
  BY <1>1, <1>3, PairRanks
<1> QED
  BY <1>1, <1>2, <1>3, <1>4

\* Two limits that follow one another do not both split a pair.
LEMMA NoTwoSplits ==
  ASSUME NEW E, EventSet(E), NEW n \in Nat, SplitsPair(E, n), SplitsPair(E, n + 1)
  PROVE  FALSE
<1>1. PICK e \in First(n, E), f \in E \ First(n, E) : e.src = "k" /\ f.src = "k" /\ e.pos = f.pos
  BY DEF SplitsPair
<1>2. PICK g \in First(n + 1, E), h \in E \ First(n + 1, E) : g.src = "k" /\ h.src = "k" /\ g.pos = h.pos
  BY DEF SplitsPair
<1>3. Rank(f, E) = n /\ f.sub = 1
  BY <1>1, SplitAt
<1>4. Rank(g, E) = (n + 1) - 1 /\ g.sub = 0
  BY <1>2, SplitAt
<1>5. g \in E /\ f \in E
  BY FirstByRank
<1>6. f = g
  BY <1>3, <1>4, <1>5, RankOrders
<1> QED
  BY <1>3, <1>4, <1>6

\* An answer carries the first events and no half of a pair.
LEMMA EmittedIsFirst ==
  ASSUME NEW E, EventSet(E), NEW limit \in Nat \ {0}
  PROVE  \E n \in Nat : Emitted(E, limit) = First(n, E) /\ ~SplitsPair(E, n)
<1>1. CASE ~SplitsPair(E, limit)
  <2>1. Emitted(E, limit) = First(limit, E)
    BY <1>1 DEF Emitted
  <2> QED
    BY <1>1, <2>1
<1>2. CASE SplitsPair(E, limit) /\ limit > 1
  <2>1. Emitted(E, limit) = First(limit - 1, E) /\ limit - 1 \in Nat /\ (limit - 1) + 1 = limit
    BY <1>2 DEF Emitted
  <2>2. ~SplitsPair(E, limit - 1)
    BY <1>2, <2>1, NoTwoSplits
  <2> QED
    BY <2>1, <2>2
<1>3. CASE SplitsPair(E, limit) /\ ~(limit > 1)
  <2>1. Emitted(E, limit) = First(limit + 1, E)
    BY <1>3 DEF Emitted
  <2>2. ~SplitsPair(E, limit + 1)
    BY <1>3, NoTwoSplits
  <2> QED
    BY <2>1, <2>2
<1> QED
  BY <1>1, <1>2, <1>3

-----------------------------------------------------------------------------
(* Steps that write the logs *)

\* Every row is about a card.
LEMMA RowsHaveCards ==
  ASSUME LogTypes, NEW x \in Boards, NEW i \in Present(x)
  PROVE  klog[x][i].card \in Cards
<1>1. klog[x] \in Seq(Row) /\ i \in DOMAIN klog[x]
  BY DEF LogTypes, Present
<1>2. klog[x][i] \in Row
  BY <1>1
<1> QED
  BY <1>2 DEF Row

\* The invariant holds before anything is written or polled.
LEMMA InitInv == Init => StreamInv
<1> SUFFICES ASSUME Init PROVE StreamInv
  OBVIOUS
<1>1. TypeOK
  BY StreamAssumption
  DEF Init, TypeOK, LogTypes, ClientTypes, OnlyLiveCardsHaveRows, WithinLogs, Present,
      NoCursor, Cursor, Position, Missing
<1>2. RequestOK
  BY DEF Init, RequestOK, Idle, Polling
<1>3. NoGap
  BY DEF Init, NoGap, NoGapOnBoard, NoGapInArtifacts, Present, Chosen
<1> QED
  BY <1>1, <1>2, <1>3 DEF StreamInv

\* The clock touches nothing else.
LEMMA TickInv ==
  ASSUME StreamInv, Tick
  PROVE  StreamInv'
<1> USE DEF StreamInv, TypeOK, Tick, client
<1>1. TypeOK'
  BY StreamAssumption
  DEF LogTypes, ClientTypes, OnlyLiveCardsHaveRows, WithinLogs, Present
<1>2. RequestOK'
  BY DEF RequestOK, Polling, Present
<1>3. NoGap'
  BY DEF NoGap, NoGapOnBoard, NoGapInArtifacts, Present, Chosen
<1> QED
  BY <1>1, <1>2, <1>3

\* A new row comes behind every id read, and is not passed by any cursor.
LEMMA AppendRowInv ==
  ASSUME StreamInv, NEW b \in Boards, NEW c \in Cards, NEW kind \in RowKinds,
         AppendRow(b, c, kind)
  PROVE  StreamInv'
<1> DEFINE row == [ts |-> now, kind |-> kind, card |-> c]
           n == Len(klog[b])
<1> USE DEF StreamInv, TypeOK
<1>0. /\ UNCHANGED <<now, kgone, dlog, alog, writer>>
      /\ UNCHANGED <<cur, carrier, archived, req, base, got>>
      /\ klog' = [klog EXCEPT ![b] = Append(@, row)]
      /\ card' = [card EXCEPT ![b][c] = "live"]
  BY DEF AppendRow, client
<1>1. /\ row \in Row
      /\ n \in Nat
      /\ klog[b] \in Seq(Row)
  <2>1. row \in Row
    BY DEF LogTypes, Row
  <2>2. klog[b] \in Seq(Row)
    BY DEF LogTypes
  <2> QED
    BY <2>1, <2>2
<1> HIDE DEF row
<1>2. /\ klog' \in [Boards -> Seq(Row)]
      /\ Len(klog'[b]) = n + 1
      /\ DOMAIN klog'[b] = 1..(n + 1)
      /\ DOMAIN klog[b] = 1..n
      /\ klog'[b][n + 1] = row
      /\ \A i \in 1..n : klog'[b][i] = klog[b][i]
      /\ \A x \in Boards : x # b => klog'[x] = klog[x]
  BY <1>0, <1>1 DEF LogTypes
<1>3. kgone[b] \subseteq 1..n
  BY <1>2 DEF WithinLogs
<1>4. /\ Present(b)' = Present(b) \cup {n + 1}
      /\ \A x \in Boards : x # b => Present(x)' = Present(x)
      /\ \A x \in Boards : \A i \in Present(x) : klog'[x][i] = klog[x][i]
  BY <1>0, <1>1, <1>2, <1>3 DEF Present
<1>5. /\ card' \in [Boards -> [Cards -> {"none", "live", "erased", "logged"}]]
      /\ card'[b][c] = "live"
      /\ \A x \in Boards, y \in Cards : card[x][y] = "live" => card'[x][y] = "live"
  BY <1>0 DEF LogTypes
<1>6. TypeOK'
  <2>1. LogTypes'
    BY <1>0, <1>2, <1>5 DEF LogTypes
  <2>2. ClientTypes'
    BY <1>0 DEF ClientTypes
  <2>3. OnlyLiveCardsHaveRows'
    <3> SUFFICES ASSUME NEW x \in Boards, NEW i \in Present(x)'
                 PROVE  card'[x][klog'[x][i].card] = "live"
      BY DEF OnlyLiveCardsHaveRows
    <3>1. CASE i \in Present(x)
      <4>1. klog[x][i].card \in Cards /\ klog'[x][i] = klog[x][i]
        BY <1>4, <3>1, RowsHaveCards
      <4>2. card[x][klog[x][i].card] = "live"
        BY <3>1 DEF OnlyLiveCardsHaveRows
      <4> QED
        BY <1>5, <4>1, <4>2
    <3>2. CASE i \notin Present(x)
      <4>1. x = b /\ i = n + 1
        BY <1>4, <3>2
      <4> QED
        BY <1>2, <1>5, <4>1 DEF row
    <3> QED
      BY <3>1, <3>2
  <2>4. WithinLogs'
    <3>1. \A x \in Boards : DOMAIN klog[x] \subseteq DOMAIN klog'[x]
      BY <1>1, <1>2
    <3>2. cur[b].k <= n + 1
      BY <1>1 DEF WithinLogs, ClientTypes, Cursor, Position, Missing
    <3>3. \A x \in Boards : cur[x].k <= Len(klog'[x])
      BY <1>2, <3>2 DEF WithinLogs
    <3> QED
      BY <1>0, <3>1, <3>3 DEF WithinLogs
  <2> QED
    BY <2>1, <2>2, <2>3, <2>4
<1>7. RequestOK'
  <2> SUFFICES ASSUME Polling
               PROVE  /\ req.end \in 0..Len(klog'[req.board])
                      /\ \A i \in Present(req.board)', j \in req.ids :
                           (cur[req.board].k < i /\ i < j) => i \in req.ids
    BY <1>0 DEF RequestOK, Polling
  <2>1. req.board \in Boards /\ req.end \in 0..Len(klog[req.board]) /\ req.ids \subseteq 1..req.end
    BY DEF RequestOK
  <2>2. \A j \in req.ids : j \in Int /\ j <= Len(klog[req.board])
    <3>1. klog[req.board] \in Seq(Row)
      BY <2>1 DEF LogTypes
    <3> QED
      BY <2>1, <3>1
  <2>3. CASE req.board = b
    <3>1. \A j \in req.ids : ~(n + 1 < j)
      BY <1>1, <2>2, <2>3
    <3>2. req.end \in 0..(n + 1)
      BY <1>1, <2>1, <2>3
    <3> QED
      BY <1>0, <1>2, <1>4, <2>1, <2>3, <3>1, <3>2 DEF RequestOK
  <2>4. CASE req.board # b
    BY <1>0, <1>2, <1>4, <2>1, <2>4 DEF RequestOK
  <2> QED
    BY <2>3, <2>4
<1>8. NoGap'
  <2>1. ASSUME NEW x \in Boards PROVE NoGapOnBoard(x)'
    <3>1. NoGapOnBoard(x)
      BY DEF NoGap
    <3>2. cur[b].k <= n /\ cur[b].k \in Int
      BY DEF WithinLogs, ClientTypes, Cursor, Position, Missing
    <3>3. ~(n + 1 <= cur[b].k)
      BY <1>1, <3>2
    <3> QED
      BY <1>0, <1>4, <3>1, <3>3 DEF NoGapOnBoard
  <2>2. \A x \in Boards : NoGapInArtifacts(x)'
    BY <1>0 DEF NoGap, NoGapInArtifacts, Chosen
  <2> QED
    BY <2>1, <2>2 DEF NoGap
<1> QED
  BY <1>6, <1>7, <1>8

\* Rows that go are rows less to deliver.
LEMMA EraseCardInv ==
  ASSUME StreamInv, NEW b \in Boards, NEW c \in Cards, EraseCard(b, c)
  PROVE  StreamInv'
<1> DEFINE own == {i \in DOMAIN klog[b] : klog[b][i].card = c}
<1> USE DEF StreamInv, TypeOK
<1>0. /\ UNCHANGED <<now, klog, dlog, alog, writer>>
      /\ UNCHANGED <<cur, carrier, archived, req, base, got>>
      /\ card' = [card EXCEPT ![b][c] = "erased"]
      /\ kgone' = [kgone EXCEPT ![b] = @ \cup own]
  BY DEF EraseCard, client
<1>1. own \subseteq DOMAIN klog[b] /\ DOMAIN klog[b] \subseteq Nat
  BY DEF LogTypes
<1>2. /\ kgone'[b] = kgone[b] \cup own
      /\ \A x \in Boards : x # b => kgone'[x] = kgone[x]
      /\ \A x \in Boards : Present(x)' \subseteq Present(x)
      /\ \A i \in Present(b)' : klog[b][i].card # c
  BY <1>0 DEF LogTypes, Present
<1>3. TypeOK'
  <2>1. LogTypes'
    BY <1>0, <1>1, <1>2 DEF LogTypes
  <2>2. ClientTypes'
    BY <1>0 DEF ClientTypes
  <2>3. OnlyLiveCardsHaveRows'
    BY <1>0, <1>2 DEF OnlyLiveCardsHaveRows, LogTypes
  <2>4. WithinLogs'
    BY <1>0, <1>1, <1>2 DEF WithinLogs
  <2> QED
    BY <2>1, <2>2, <2>3, <2>4
<1>4. RequestOK'
  BY <1>0, <1>2 DEF RequestOK, Polling
<1>5. NoGap'
  BY <1>0, <1>2 DEF NoGap, NoGapOnBoard, NoGapInArtifacts, Chosen
<1> QED
  BY <1>3, <1>4, <1>5

\* A new line comes behind every cursor; the card it is about had no rows left.
LEMMA LogDeletionInv ==
  ASSUME StreamInv, NEW b \in Boards, NEW c \in Cards, LogDeletion(b, c)
  PROVE  StreamInv'
<1> DEFINE line == [ts |-> now, card |-> c]
           n == Len(dlog[b])
<1> USE DEF StreamInv, TypeOK
<1>0. /\ UNCHANGED <<now, klog, kgone, alog, writer>>
      /\ UNCHANGED <<cur, carrier, archived, req, base, got>>
      /\ card[b][c] = "erased"
      /\ card' = [card EXCEPT ![b][c] = "logged"]
      /\ dlog' = [dlog EXCEPT ![b] = Append(@, line)]
  BY DEF LogDeletion, client
<1>1. /\ line \in Line
      /\ n \in Nat
      /\ dlog[b] \in Seq(Line)
  <2>1. line \in Line
    BY DEF LogTypes, Line
  <2>2. dlog[b] \in Seq(Line)
    BY DEF LogTypes
  <2> QED
    BY <2>1, <2>2
<1> HIDE DEF line
<1>2. /\ dlog' \in [Boards -> Seq(Line)]
      /\ Len(dlog'[b]) = n + 1
      /\ DOMAIN dlog'[b] = 1..(n + 1)
      /\ DOMAIN dlog[b] = 1..n
      /\ \A x \in Boards : x # b => dlog'[x] = dlog[x]
  BY <1>0, <1>1 DEF LogTypes
<1>3. \A x \in Boards : Present(x)' = Present(x)
  BY <1>0 DEF Present
<1>4. cur[b].d \in Int /\ cur[b].d <= n
  BY DEF WithinLogs, ClientTypes, Cursor, Position, Missing
<1>5. TypeOK'
  <2>1. LogTypes'
    BY <1>0, <1>2 DEF LogTypes
  <2>2. ClientTypes'
    BY <1>0 DEF ClientTypes
  <2>3. OnlyLiveCardsHaveRows'
    <3> SUFFICES ASSUME NEW x \in Boards, NEW i \in Present(x)
                 PROVE  card'[x][klog[x][i].card] = "live"
      BY <1>0, <1>3 DEF OnlyLiveCardsHaveRows
    <3>1. card[x][klog[x][i].card] = "live" /\ klog[x][i].card \in Cards
      BY RowsHaveCards DEF OnlyLiveCardsHaveRows
    <3> QED
      BY <1>0, <3>1 DEF LogTypes
  <2>4. WithinLogs'
    <3>1. \A x \in Boards : DOMAIN dlog[x] \subseteq DOMAIN dlog'[x]
      BY <1>1, <1>2
    <3>2. cur[b].d <= n + 1
      BY <1>1, <1>4
    <3>3. \A x \in Boards : cur[x].d <= Len(dlog'[x])
      BY <1>2, <3>2 DEF WithinLogs
    <3> QED
      BY <1>0, <3>1, <3>3 DEF WithinLogs
  <2> QED
    BY <2>1, <2>2, <2>3, <2>4
<1>6. RequestOK'
  BY <1>0, <1>3 DEF RequestOK, Polling
<1>7. NoGap'
  <2>1. ASSUME NEW x \in Boards PROVE NoGapOnBoard(x)'
    <3>1. NoGapOnBoard(x)
      BY DEF NoGap
    <3>2. ~(n + 1 <= cur[b].d)
      BY <1>1, <1>4
    <3> QED
      BY <1>0, <1>2, <1>3, <3>1, <3>2 DEF NoGapOnBoard
  <2>2. \A x \in Boards : NoGapInArtifacts(x)'
    BY <1>0 DEF NoGap, NoGapInArtifacts, Chosen
  <2> QED
    BY <2>1, <2>2 DEF NoGap
<1> QED
  BY <1>5, <1>6, <1>7

\* A writer that reads the clock, or gives up, leaves the logs alone.
LEMMA WriterInv ==
  ASSUME StreamInv, NEW w \in Writers, ReadClock(w) \/ AbandonArtifact(w)
  PROVE  StreamInv'
<1> USE DEF StreamInv, TypeOK
<1>0. /\ UNCHANGED <<now, klog, kgone, card, dlog, alog>>
      /\ UNCHANGED <<cur, carrier, archived, req, base, got>>
      /\ writer' = [writer EXCEPT ![w] = now] \/ writer' = [writer EXCEPT ![w] = Missing]
  BY DEF ReadClock, AbandonArtifact, client
<1>1. LogTypes'
  BY <1>0 DEF LogTypes
<1>2. ClientTypes' /\ OnlyLiveCardsHaveRows' /\ WithinLogs'
  BY <1>0 DEF ClientTypes, OnlyLiveCardsHaveRows, WithinLogs, Present
<1>3. RequestOK'
  BY <1>0 DEF RequestOK, Polling, Present
<1>4. NoGap'
  BY <1>0 DEF NoGap, NoGapOnBoard, NoGapInArtifacts, Present, Chosen
<1> QED
  BY <1>1, <1>2, <1>3, <1>4

\* A new artifact event comes behind the carrier's position.
LEMMA CommitArtifactInv ==
  ASSUME StreamInv, NEW w \in Writers, NEW kind \in Kinds, CommitArtifact(w, kind)
  PROVE  StreamInv'
<1> DEFINE entry == [ts |-> writer[w], kind |-> kind]
           n == Len(alog)
<1> USE DEF StreamInv, TypeOK
<1>0. /\ UNCHANGED <<now, klog, kgone, card, dlog>>
      /\ UNCHANGED <<cur, carrier, archived, req, base, got>>
      /\ writer[w] # Missing
      /\ writer' = [writer EXCEPT ![w] = Missing]
      /\ alog' = Append(alog, entry)
  BY DEF CommitArtifact, client
<1>1. /\ entry \in Artifact
      /\ n \in Nat
      /\ alog \in Seq(Artifact)
  <2>1. writer[w] \in 0..MaxClock
    BY <1>0 DEF LogTypes
  <2>2. entry \in Artifact
    BY <2>1 DEF Artifact
  <2>3. alog \in Seq(Artifact)
    BY DEF LogTypes
  <2> QED
    BY <2>2, <2>3
<1> HIDE DEF entry
<1>2. /\ alog' \in Seq(Artifact)
      /\ Len(alog') = n + 1
      /\ DOMAIN alog' = 1..(n + 1)
      /\ DOMAIN alog = 1..n
      /\ \A i \in 1..n : alog'[i] = alog[i]
  BY <1>0, <1>1
<1>3. \A x \in Boards : cur[x].a \in Int /\ cur[x].a <= n
  BY DEF WithinLogs, ClientTypes, Cursor, Position, Missing
<1>4. TypeOK'
  <2>1. LogTypes'
    BY <1>0, <1>2 DEF LogTypes
  <2>2. ClientTypes' /\ OnlyLiveCardsHaveRows'
    BY <1>0 DEF ClientTypes, OnlyLiveCardsHaveRows, Present
  <2>3. WithinLogs'
    <3>1. \A x \in Boards : cur[x].a <= n + 1
      BY <1>1, <1>3
    <3>2. DOMAIN alog \subseteq DOMAIN alog'
      BY <1>1, <1>2
    <3> QED
      BY <1>0, <1>2, <3>1, <3>2 DEF WithinLogs
  <2> QED
    BY <2>1, <2>2, <2>3
<1>5. RequestOK'
  BY <1>0 DEF RequestOK, Polling, Present
<1>6. NoGap'
  <2>1. \A x \in Boards : NoGapOnBoard(x)'
    BY <1>0 DEF NoGap, NoGapOnBoard, Present
  <2>2. ASSUME NEW x \in Boards PROVE NoGapInArtifacts(x)'
    <3>1. ~(n + 1 <= cur[x].a)
      BY <1>1, <1>3
    <3>2. Chosen' \subseteq Chosen \cup {n + 1}
      BY <1>1, <1>2 DEF Chosen
    <3> QED
      BY <1>0, <3>1, <3>2 DEF NoGap, NoGapInArtifacts
  <2> QED
    BY <2>1, <2>2 DEF NoGap
<1> QED
  BY <1>4, <1>5, <1>6

-----------------------------------------------------------------------------
(* Steps of the client *)

\* The positions of a log are the numbers from 1 to its length.
LEMMA SequenceLengths ==
  ASSUME LogTypes
  PROVE  /\ \A x \in Boards : /\ Len(klog[x]) \in Nat /\ DOMAIN klog[x] = 1..Len(klog[x])
                              /\ Len(dlog[x]) \in Nat /\ DOMAIN dlog[x] = 1..Len(dlog[x])
         /\ Len(alog) \in Nat /\ DOMAIN alog = 1..Len(alog)
  BY DEF LogTypes

\* Positions are integers, the missing one included.
LEMMA CursorTypes ==
  ASSUME ClientTypes
  PROVE  \A x \in Boards : /\ cur[x].k \in Int /\ cur[x].d \in Int /\ cur[x].a \in Int
                           /\ base[x].k \in Int /\ base[x].d \in Int /\ base[x].a \in Int
  BY DEF ClientTypes, Cursor, Position, Missing

\* A client that starts has nothing behind it.
LEMMA StartInv ==
  ASSUME StreamInv, NEW b \in Boards, Start(b)
  PROVE  StreamInv'
<1> USE DEF StreamInv, TypeOK
<1>1. PICK m \in Present(b) \cup {0} :
        cur' = [cur EXCEPT ![b] =
                 [k |-> m, d |-> Len(dlog[b]), a |-> IF carrier = b THEN Len(alog) ELSE Missing]]
  BY DEF Start
<1>0. /\ UNCHANGED <<now, klog, kgone, card, dlog, alog, writer>>
      /\ UNCHANGED <<carrier, archived, req, got>>
      /\ base' = [base EXCEPT ![b] = cur'[b]]
      /\ ~Polling
  BY DEF Start, server
<1>2. m \in 0..Len(klog[b])
  BY SequenceLengths DEF Present
<1> DEFINE new == [k |-> m, d |-> Len(dlog[b]), a |-> IF carrier = b THEN Len(alog) ELSE Missing]
<1>3. /\ new \in Cursor
      /\ new.k <= Len(klog[b]) /\ new.d <= Len(dlog[b]) /\ new.a <= Len(alog)
      /\ new.k \in Int /\ new.d \in Int /\ new.a \in Int
  BY <1>2, SequenceLengths DEF Cursor, Position, Missing
<1> HIDE DEF new
<1>4. /\ cur' = [cur EXCEPT ![b] = new]
      /\ base' = [base EXCEPT ![b] = new]
      /\ cur'[b] = new /\ base'[b] = new
      /\ \A x \in Boards : x # b => cur'[x] = cur[x] /\ base'[x] = base[x]
  BY <1>0, <1>1 DEF new, ClientTypes
<1>5. TypeOK'
  <2>1. LogTypes' /\ OnlyLiveCardsHaveRows'
    BY <1>0 DEF LogTypes, OnlyLiveCardsHaveRows, Present
  <2>2. ClientTypes'
    BY <1>0, <1>3, <1>4 DEF ClientTypes
  <2>3. WithinLogs'
    BY <1>0, <1>3, <1>4 DEF WithinLogs
  <2> QED
    BY <2>1, <2>2, <2>3
<1>6. RequestOK'
  BY <1>0 DEF RequestOK, Polling
<1>7. NoGap'
  <2> SUFFICES ASSUME NEW x \in Boards PROVE NoGapOnBoard(x)' /\ NoGapInArtifacts(x)'
    BY DEF NoGap
  <2>1. CASE x = b
    <3>1. \A i \in Int : /\ ~(new.k < i /\ i <= new.k)
                         /\ ~(new.d < i /\ i <= new.d)
                         /\ ~(new.a < i /\ i <= new.a)
      BY <1>3
    <3> QED
      BY <1>0, <1>4, <2>1, <3>1, SequenceLengths DEF NoGapOnBoard, NoGapInArtifacts, Present, Chosen
  <2>2. CASE x # b
    BY <1>0, <1>4, <2>2 DEF NoGap, NoGapOnBoard, NoGapInArtifacts, Present, Chosen
  <2> QED
    BY <2>1, <2>2
<1> QED
  BY <1>5, <1>6, <1>7

\* Opting in and losing an answer move no position.
LEMMA OptInInv ==
  ASSUME StreamInv, NEW b \in Boards, OptIn(b)
  PROVE  StreamInv'
<1> USE DEF StreamInv, TypeOK, OptIn, server
<1>1. TypeOK'
  BY DEF LogTypes, ClientTypes, OnlyLiveCardsHaveRows, WithinLogs, Present
<1>2. RequestOK'
  BY DEF RequestOK, Polling, Present
<1>3. NoGap'
  BY DEF NoGap, NoGapOnBoard, NoGapInArtifacts, Present, Chosen
<1> QED
  BY <1>1, <1>2, <1>3

\* A client that loses the answer still has the cursor it asked with.
LEMMA LoseAnswerInv ==
  ASSUME StreamInv, LoseAnswer
  PROVE  StreamInv'
<1> USE DEF StreamInv, TypeOK, LoseAnswer, server
<1>1. TypeOK'
  BY DEF LogTypes, ClientTypes, OnlyLiveCardsHaveRows, WithinLogs, Present
<1>2. RequestOK'
  BY DEF RequestOK, Polling, Idle
<1>3. NoGap'
  BY DEF NoGap, NoGapOnBoard, NoGapInArtifacts, Present, Chosen
<1> QED
  BY <1>1, <1>2, <1>3

\* The rows read are a prefix of those behind the cursor.
LEMMA ReadBoardInv ==
  ASSUME StreamInv, NEW b \in Boards, NEW limit \in Limits, ReadBoard(b, limit)
  PROVE  StreamInv'
<1> USE DEF StreamInv, TypeOK
<1> DEFINE ids == TailOf(Present(b), cur[b].k, limit + 1)
<1>0. /\ UNCHANGED <<now, klog, kgone, card, dlog, alog, writer>>
      /\ UNCHANGED <<cur, carrier, archived, base, got>>
      /\ cur[b] # NoCursor
  BY DEF ReadBoard, server
<1>1. /\ req'.phase = "reading" /\ req'.board = b /\ req'.limit = limit
      /\ req'.end = Len(klog[b]) /\ req'.ids = ids
  BY DEF ReadBoard
<1>2. TypeOK'
  BY <1>0 DEF LogTypes, ClientTypes, OnlyLiveCardsHaveRows, WithinLogs, Present
<1>3. RequestOK'
  <2>1. Present(b) \subseteq 1..Len(klog[b]) /\ Len(klog[b]) \in Nat
    BY SequenceLengths DEF Present
  <2>2. ids \subseteq {i \in 1..Len(klog[b]) : cur[b].k < i}
    BY <2>1, CursorTypes DEF TailOf
  <2>3. ASSUME NEW i \in Present(b), NEW j \in ids, cur[b].k < i, i < j
        PROVE  i \in ids
    <3>1. limit + 1 \in Int /\ cur[b].k \in Int
      BY StreamAssumption, CursorTypes
    <3> HIDE DEF ids
    <3>2. i \in TailOf(Present(b), cur[b].k, limit + 1)
      BY <2>1, <2>3, <3>1, TailOfIsPrefix DEF ids
    <3> QED
      BY <3>2 DEF ids
  <2> HIDE DEF ids
  <2>4. Present(b)' = Present(b)
    BY <1>0 DEF Present
  <2>5. Len(klog[b]) \in 0..Len(klog[b])
    BY <2>1
  <2> QED
    BY <1>0, <1>1, <2>2, <2>3, <2>4, <2>5 DEF RequestOK, Polling, Present
<1>4. NoGap'
  BY <1>0 DEF NoGap, NoGapOnBoard, NoGapInArtifacts, Present, Chosen
<1> QED
  BY <1>2, <1>3, <1>4

\* The old carrier's place in the host-wide log, and what has been delivered
\* from there, become the new carrier's.
LEMMA HandOffInv ==
  ASSUME StreamInv, NEW b \in Boards, HandOff(b)
  PROVE  StreamInv'
<1> USE DEF StreamInv, TypeOK
<1>0. /\ UNCHANGED <<now, klog, kgone, card, dlog, alog, writer>>
      /\ UNCHANGED <<req, got>>
      /\ carrier' = b
      /\ archived' = archived \cup {carrier}
      /\ ~Polling
      /\ carrier \in Boards /\ carrier # b
  BY DEF HandOff, server, ClientTypes
<1>1. PICK m \in Present(b) \cup {0} :
        LET target == IF cur[b] # NoCursor THEN cur[b]
                      ELSE [k |-> m, d |-> Len(dlog[b]), a |-> Missing]
            merged == Merged(target, cur[carrier])
        IN  /\ cur' = [cur EXCEPT ![b] = merged]
            /\ base' = [base EXCEPT ![b] =
                          [k |-> IF cur[b] = NoCursor THEN merged.k ELSE @.k,
                           d |-> IF cur[b] = NoCursor THEN merged.d ELSE @.d,
                           a |-> base[carrier].a]]
  BY DEF HandOff
<1> DEFINE fresh == cur[b] = NoCursor
           new == [k |-> IF fresh THEN m ELSE cur[b].k,
                   d |-> IF fresh THEN Len(dlog[b]) ELSE cur[b].d,
                   a |-> cur[carrier].a]
           old == [k |-> IF fresh THEN m ELSE base[b].k,
                   d |-> IF fresh THEN Len(dlog[b]) ELSE base[b].d,
                   a |-> base[carrier].a]
<1>2. cur[b] \in Cursor /\ cur[carrier] \in Cursor /\ base[b] \in Cursor /\ base[carrier] \in Cursor
  BY <1>0 DEF ClientTypes
<1>3. cur' = [cur EXCEPT ![b] = new] /\ base' = [base EXCEPT ![b] = old]
  BY <1>1 DEF Merged
<1>4. m \in 0..Len(klog[b])
  BY SequenceLengths DEF Present
<1>5. /\ new \in Cursor /\ old \in Cursor
      /\ new.k <= Len(klog[b]) /\ new.d <= Len(dlog[b]) /\ new.a <= Len(alog)
  <2>1. m \in Nat /\ m <= Len(klog[b]) /\ Len(dlog[b]) \in Nat
    BY <1>4, SequenceLengths
  <2>2. /\ cur[b].k <= Len(klog[b]) /\ cur[b].d <= Len(dlog[b])
        /\ cur[carrier].a <= Len(alog)
    BY <1>0 DEF WithinLogs
  <2>3. Len(dlog[b]) <= Len(dlog[b])
    BY <2>1
  <2>4. new \in Cursor
    BY <1>2, <2>1 DEF Cursor, Position
  <2>5. old \in Cursor
    BY <1>2, <2>1 DEF Cursor, Position
  <2> QED
    BY <2>1, <2>2, <2>3, <2>4, <2>5
<1>6. \A i \in Int : /\ (old.k < i /\ i <= new.k) => (base[b].k < i /\ i <= cur[b].k)
                     /\ (old.d < i /\ i <= new.d) => (base[b].d < i /\ i <= cur[b].d)
                     /\ (old.a < i /\ i <= new.a) => (base[carrier].a < i /\ i <= cur[carrier].a)
  BY <1>0, <1>4, SequenceLengths, CursorTypes
<1> HIDE DEF new, old, fresh
<1>7. /\ cur'[b] = new /\ base'[b] = old
      /\ \A x \in Boards : x # b => cur'[x] = cur[x] /\ base'[x] = base[x]
  BY <1>3 DEF ClientTypes
<1>8. TypeOK'
  <2>1. LogTypes' /\ OnlyLiveCardsHaveRows'
    BY <1>0 DEF LogTypes, OnlyLiveCardsHaveRows, Present
  <2>2. ClientTypes'
    BY <1>0, <1>3, <1>5 DEF ClientTypes
  <2>3. WithinLogs'
    BY <1>0, <1>5, <1>7 DEF WithinLogs
  <2> QED
    BY <2>1, <2>2, <2>3
<1>9. RequestOK'
  BY <1>0 DEF RequestOK, Polling
<1>10. NoGap'
  <2> SUFFICES ASSUME NEW x \in Boards PROVE NoGapOnBoard(x)' /\ NoGapInArtifacts(x)'
    BY DEF NoGap
  <2>1. /\ Present(x)' = Present(x) /\ Present(x) \subseteq Int
        /\ DOMAIN dlog[x] \subseteq Int
        /\ Chosen' = Chosen /\ Chosen \subseteq Int
    BY <1>0, SequenceLengths DEF Present, Chosen
  <2>2. CASE x = b
    BY <1>0, <1>6, <1>7, <2>1, <2>2 DEF NoGap, NoGapOnBoard, NoGapInArtifacts
  <2>3. CASE x # b
    BY <1>0, <1>7, <2>1, <2>3 DEF NoGap, NoGapOnBoard, NoGapInArtifacts
  <2> QED
    BY <2>2, <2>3
<1> QED
  BY <1>8, <1>9, <1>10

\* The answer carries no position that was not read.
LEMMA PositionsInRead ==
  ASSUME NEW s, NEW events, NEW read, \A e \in events : e.src = s => e.pos \in read
  PROVE  PositionsIn(s, events) \subseteq read
  BY DEF PositionsIn

\* The events of rows come from those rows, and every row but a quiet one has one.
LEMMA RowsEventsSources ==
  ASSUME NEW b, NEW ids, NEW pairs
  PROVE  /\ \A e \in RowsEvents(b, ids, pairs) : e.src = "k" /\ e.pos \in ids
         /\ \A i \in ids : klog[b][i].kind # "quiet" =>
              \E e \in RowsEvents(b, ids, pairs) : e.src = "k" /\ e.pos = i
<1>1. ASSUME NEW i, NEW e \in RowEvents(b, i, pairs)
      PROVE  e.src = "k" /\ e.pos = i
  BY <1>1 DEF RowEvents
<1>2. ASSUME NEW i, klog[b][i].kind # "quiet"
      PROVE  RowEvents(b, i, pairs) # {}
  <2> DEFINE subs == IF klog[b][i].kind = "quiet" THEN {}
                     ELSE IF i \in pairs THEN {0, 1} ELSE {0}
  <2>1. 0 \in subs
    BY <1>2
  <2> HIDE DEF subs
  <2>2. RowEvents(b, i, pairs) =
          {[src |-> "k", pos |-> i, sub |-> sub, ts |-> klog[b][i].ts, card |-> klog[b][i].card] :
             sub \in subs}
    BY Zenon DEF RowEvents, subs
  <2> QED
    BY <2>1, <2>2
<1>3. ASSUME NEW e \in RowsEvents(b, ids, pairs)
      PROVE  e.src = "k" /\ e.pos \in ids
  <2>1. PICK i \in ids : e \in RowEvents(b, i, pairs)
    BY DEF RowsEvents
  <2> QED
    BY <1>1, <2>1
<1>4. ASSUME NEW i \in ids, klog[b][i].kind # "quiet"
      PROVE  \E e \in RowsEvents(b, ids, pairs) : e.src = "k" /\ e.pos = i
  <2>1. PICK e : e \in RowEvents(b, i, pairs)
    BY <1>2, <1>4
  <2>2. e \in RowsEvents(b, ids, pairs)
    BY <2>1 DEF RowsEvents
  <2> QED
    BY <1>1, <2>1, <2>2
<1> QED
  BY <1>3, <1>4

\* Every line of the deletion log that is read has its event, and no other does.
LEMMA LineEventsSources ==
  ASSUME NEW b, NEW ns
  PROVE  /\ \A e \in LineEvents(b, ns) : e.src = "d" /\ e.pos \in ns
         /\ \A n \in ns : \E e \in LineEvents(b, ns) : e.src = "d" /\ e.pos = n
<1>1. ASSUME NEW n \in ns
      PROVE  \E e \in LineEvents(b, ns) : e.src = "d" /\ e.pos = n
  <2> DEFINE e == [src |-> "d", pos |-> n, sub |-> 0, ts |-> dlog[b][n].ts, card |-> dlog[b][n].card]
  <2>1. e \in LineEvents(b, ns)
    BY DEF LineEvents
  <2>2. e.src = "d" /\ e.pos = n
    OBVIOUS
  <2> QED
    BY <2>1, <2>2
<1>2. \A e \in LineEvents(b, ns) : e.src = "d" /\ e.pos \in ns
  BY DEF LineEvents
<1> QED
  BY <1>1, <1>2

\* Every artifact_events row that is read has its event, and no other does.
LEMMA ArtifactEventsSources ==
  ASSUME NEW is
  PROVE  /\ \A e \in ArtifactEvents(is) : e.src = "a" /\ e.pos \in is
         /\ \A i \in is : \E e \in ArtifactEvents(is) : e.src = "a" /\ e.pos = i
<1>1. ASSUME NEW i \in is
      PROVE  \E e \in ArtifactEvents(is) : e.src = "a" /\ e.pos = i
  <2> DEFINE e == [src |-> "a", pos |-> i, sub |-> 0, ts |-> alog[i].ts, card |-> Missing]
  <2>1. e \in ArtifactEvents(is)
    BY DEF ArtifactEvents
  <2>2. e.src = "a" /\ e.pos = i
    OBVIOUS
  <2> QED
    BY <2>1, <2>2
<1>2. \A e \in ArtifactEvents(is) : e.src = "a" /\ e.pos \in is
  BY DEF ArtifactEvents
<1> QED
  BY <1>1, <1>2

\* What a poll reads comes from the positions it has read, and every position
\* it has read is told, quiet rows apart.
LEMMA EventsReadSources ==
  ASSUME NEW b, NEW ids, NEW pairs, NEW limit, NEW events, NEW lines, NEW as,
         events = EventsRead(b, ids, pairs, limit),
         lines = LinesRead(b), as = ArtifactsRead(b, limit)
  PROVE  /\ \A i \in ids : klog[b][i].kind # "quiet" => \E e \in events : e.src = "k" /\ e.pos = i
         /\ \A n \in lines : \E e \in events : e.src = "d" /\ e.pos = n
         /\ \A i \in as : \E e \in events : e.src = "a" /\ e.pos = i
         /\ \A e \in events : e.src = "k" => e.pos \in ids
         /\ \A e \in events : e.src = "d" => e.pos \in lines
         /\ \A e \in events : e.src = "a" => e.pos \in as
<1>1. events = RowsEvents(b, ids, pairs) \cup LineEvents(b, lines) \cup ArtifactEvents(as)
  BY DEF EventsRead
<1>2. "k" # "d" /\ "k" # "a" /\ "d" # "a"
  OBVIOUS
<1> QED
  BY <1>1, <1>2, RowsEventsSources, LineEventsSources, ArtifactEventsSources

\* A poll on the carrier that reads an artifact event reads every opted one
\* between the cursor and it.
LEMMA ArtifactsReadIsPrefix ==
  ASSUME LogTypes, NEW b, NEW limit, limit \in Limits,
         NEW since, NEW as,
         since = ArtifactsSince(b), since \in Int,
         as = ArtifactsRead(b, limit)
  PROVE  \A a \in as, i \in Chosen : (since < i /\ i < a) => i \in as
<1> SUFFICES ASSUME NEW a \in as, NEW i \in Chosen, since < i, i < a
             PROVE  i \in as
  OBVIOUS
<1>1. as = TailOf(Chosen, since, limit + 1)
  BY DEF ArtifactsRead
<1>2. Len(alog) \in Nat /\ Chosen \in SUBSET (1..Len(alog))
  BY SequenceLengths DEF Chosen
<1>3. limit + 1 \in Int
  BY StreamAssumption
<1>4. a \in TailOf(Chosen, since, limit + 1)
  BY <1>1
<1>5. i \in TailOf(Chosen, since, limit + 1)
  BY <1>2, <1>3, <1>4, TailOfIsPrefix
<1> QED
  BY <1>1, <1>5

\* A poll that answers moves each position only over what its answer carries.
LEMMA RespondInv ==
  ASSUME StreamInv, Respond
  PROVE  StreamInv'
<1> USE DEF StreamInv, TypeOK
<1> PICK b \in Boards : b = req.board
  BY DEF Respond, RequestOK
<1> DEFINE ids == req.ids
           lines == LinesRead(b)
           since == ArtifactsSince(b)
           as == ArtifactsRead(b, req.limit)
           events == EventsRead(b, ids, req.pairs, req.limit)
           emitted == Emitted(events, req.limit)
<1>0. /\ UNCHANGED <<now, klog, kgone, card, dlog, alog, writer>>
      /\ UNCHANGED <<carrier, archived>>
      /\ Polling
      /\ Answer(b, req.limit, ids, req.pairs, events, emitted)
  BY DEF Respond, server
<1>1. /\ b \in Boards
      /\ req.limit \in Limits
      /\ ids \subseteq {i \in 1..Len(klog[b]) : cur[b].k < i}
      /\ \A i \in Present(b), j \in ids : (cur[b].k < i /\ i < j) => i \in ids
  BY <1>0, SequenceLengths DEF RequestOK
<1>2. PICK k \in ids \cup {cur[b].k}, d \in lines \cup {cur[b].d}, a \in as \cup {since} :
        /\ Advanced(k, cur[b].k, ids, Cut("k", events, emitted))
        /\ Advanced(d, cur[b].d, lines, Cut("d", events, emitted))
        /\ Advanced(a, since, as, Cut("a", events, emitted))
        /\ cur' = [cur EXCEPT ![b] = [k |-> k, d |-> d, a |-> a]]
  BY <1>0 DEF Answer
<1>3. /\ base' = [base EXCEPT ![b].a = IF cur[b].a = Missing THEN since ELSE @]
      /\ got' = [k |-> [got.k EXCEPT ![b] = @ \cup PositionsIn("k", emitted)],
                 d |-> [got.d EXCEPT ![b] = @ \cup PositionsIn("d", emitted)],
                 a |-> got.a \cup PositionsIn("a", emitted)]
      /\ req'.phase = "answered"
  BY <1>0 DEF Answer
<1>4. /\ lines \subseteq {n \in 1..Len(dlog[b]) : cur[b].d < n}
      /\ as \subseteq {i \in Chosen : since < i}
      /\ since \in Int /\ since <= Len(alog)
      /\ Chosen \subseteq 1..Len(alog)
      /\ cur[b].a # Missing => since = cur[b].a
      /\ since = Missing \/ since \in Nat
  <2>1. lines \subseteq {n \in 1..Len(dlog[b]) : cur[b].d < n}
    BY <1>1, SequenceLengths, CursorTypes DEF LinesRead
  <2>2. cur[b].a \in Nat \cup {Missing} /\ cur[b].a <= Len(alog)
    BY <1>1 DEF WithinLogs, ClientTypes, Cursor, Position
  <2>3. /\ since \in Nat \cup {Missing} /\ since <= Len(alog)
        /\ cur[b].a # Missing => since = cur[b].a
    BY <2>2, SequenceLengths DEF ArtifactsSince, Missing
  <2>4. Chosen \subseteq 1..Len(alog)
    BY SequenceLengths DEF Chosen
  <2>5. as \subseteq {i \in Chosen : since < i}
    BY <2>3, <2>4 DEF ArtifactsRead, TailOf, Missing
  <2> QED
    BY <2>1, <2>3, <2>4, <2>5 DEF Missing
<1>4a. /\ \A x \in as : x \in Int
       /\ \A x \in as, i \in Chosen : (since < i /\ i < x) => i \in as
  <2>1. ASSUME NEW x \in as PROVE x \in Int
    <3> HIDE DEF since, as
    <3>1. Len(alog) \in Nat
      BY SequenceLengths
    <3>2. x \in 1..Len(alog)
      BY <1>4, <2>1
    <3> QED
      BY <3>1, <3>2
  <2>2. since = ArtifactsSince(b) /\ as = ArtifactsRead(b, req.limit)
    OBVIOUS
  <2>3. LogTypes /\ since \in Int /\ req.limit \in Limits
    BY <1>1, <1>4
  <2> HIDE DEF since, as
  <2>4. \A x \in as, i \in Chosen : (since < i /\ i < x) => i \in as
    BY <2>2, <2>3, ArtifactsReadIsPrefix
  <2> QED
    BY <2>1, <2>4
<1>5. /\ \A i \in ids : klog[b][i].kind # "quiet" =>
           \E e \in events : e.src = "k" /\ e.pos = i
      /\ \A n \in lines : \E e \in events : e.src = "d" /\ e.pos = n
      /\ \A i \in as : \E e \in events : e.src = "a" /\ e.pos = i
      /\ \A e \in events : e.src = "k" => e.pos \in ids
      /\ \A e \in events : e.src = "d" => e.pos \in lines
      /\ \A e \in events : e.src = "a" => e.pos \in as
  BY EventsReadSources
<1>6. /\ PositionsIn("k", emitted) \subseteq ids
      /\ PositionsIn("d", emitted) \subseteq lines
      /\ PositionsIn("a", emitted) \subseteq as
  <2>1. emitted \subseteq events
    BY EmittedIsRead
  <2> HIDE DEF events, emitted
  <2> QED
    BY <1>5, <2>1, PositionsInRead
<1>7. /\ \A i \in ids : (k # cur[b].k /\ i <= k /\ klog[b][i].kind # "quiet")
                         => i \in PositionsIn("k", emitted)
      /\ \A n \in lines : (d # cur[b].d /\ n <= d) => n \in PositionsIn("d", emitted)
      /\ \A i \in as : (a # since /\ i <= a) => i \in PositionsIn("a", emitted)
  <2> HIDE DEF events, emitted, ids, lines, as, since
  <2>1. ASSUME NEW i \in ids, k # cur[b].k, i <= k, klog[b][i].kind # "quiet"
        PROVE  i \in PositionsIn("k", emitted)
    <3>1. i \notin Cut("k", events, emitted)
      <4>1. Advanced(k, cur[b].k, ids, Cut("k", events, emitted))
        BY <1>2
      <4> QED
        BY <2>1, <4>1 DEF Advanced
    <3>2. PICK e \in events : e.src = "k" /\ e.pos = i
      BY <1>5, <2>1
    <3> QED
      BY <3>1, <3>2, NotCutIsCarried
  <2>2. ASSUME NEW n \in lines, d # cur[b].d, n <= d
        PROVE  n \in PositionsIn("d", emitted)
    <3>1. n \notin Cut("d", events, emitted)
      <4>1. Advanced(d, cur[b].d, lines, Cut("d", events, emitted))
        BY <1>2
      <4> QED
        BY <2>2, <4>1 DEF Advanced
    <3>2. PICK e \in events : e.src = "d" /\ e.pos = n
      BY <1>5
    <3> QED
      BY <3>1, <3>2, NotCutIsCarried
  <2>3. ASSUME NEW i \in as, a # since, i <= a
        PROVE  i \in PositionsIn("a", emitted)
    <3>1. i \notin Cut("a", events, emitted)
      <4>1. Advanced(a, since, as, Cut("a", events, emitted))
        BY <1>2
      <4> QED
        BY <2>3, <4>1 DEF Advanced
    <3>2. PICK e \in events : e.src = "a" /\ e.pos = i
      BY <1>5
    <3> QED
      BY <3>1, <3>2, NotCutIsCarried
  <2> QED
    BY <2>1, <2>2, <2>3
<1> HIDE DEF events, emitted
<1>8. /\ k \in Nat \cup {Missing} /\ k <= Len(klog[b])
      /\ d \in Nat \cup {Missing} /\ d <= Len(dlog[b])
      /\ a \in Nat \cup {Missing} /\ a <= Len(alog)
  <2>0. /\ cur[b].k \in Nat \cup {Missing} /\ cur[b].k <= Len(klog[b])
        /\ cur[b].d \in Nat \cup {Missing} /\ cur[b].d <= Len(dlog[b])
    <3>1. cur[b] \in Cursor
      BY DEF ClientTypes
    <3>2. cur[b].k <= Len(klog[b]) /\ cur[b].d <= Len(dlog[b])
      BY DEF WithinLogs
    <3> QED
      BY <3>1, <3>2 DEF Cursor, Position
  <2> HIDE DEF ids, lines, as, since
  <2>1. k \in Nat \cup {Missing} /\ k <= Len(klog[b])
    BY <1>1, <2>0, SequenceLengths
  <2>2. d \in Nat \cup {Missing} /\ d <= Len(dlog[b])
    BY <1>4, <2>0, SequenceLengths
  <2>3. a \in Nat \cup {Missing} /\ a <= Len(alog)
    <3>1. CASE a = since
      BY <1>4, <3>1
    <3>2. CASE a \in as
      <4>1. Len(alog) \in Nat
        BY SequenceLengths
      <4>2. a \in 1..Len(alog)
        BY <1>4, <3>2
      <4> QED
        BY <4>1, <4>2
    <3> QED
      BY <3>1, <3>2
  <2> QED
    BY <2>1, <2>2, <2>3
<1> DEFINE new == [k |-> k, d |-> d, a |-> a]
           old == [base[b] EXCEPT !.a = IF cur[b].a = Missing THEN since ELSE @]
<1>9. /\ new \in Cursor /\ old \in Cursor
      /\ cur' = [cur EXCEPT ![b] = new] /\ base' = [base EXCEPT ![b] = old]
      /\ cur'[b] = new /\ base'[b] = old
      /\ \A x \in Boards : x # b => cur'[x] = cur[x] /\ base'[x] = base[x]
      /\ old.k = base[b].k /\ old.d = base[b].d
      /\ old.a = IF cur[b].a = Missing THEN since ELSE base[b].a
  <2>1. base[b] \in Cursor
    BY <1>1 DEF ClientTypes
  <2>2. since \in Nat \cup {Missing}
    BY <1>4
  <2> HIDE DEF since
  <2> QED
    BY <1>1, <1>2, <1>3, <1>8, <2>1, <2>2 DEF Cursor, Position, ClientTypes
<1>10. /\ got'.k = [got.k EXCEPT ![b] = @ \cup PositionsIn("k", emitted)]
       /\ got'.d = [got.d EXCEPT ![b] = @ \cup PositionsIn("d", emitted)]
       /\ got'.a = got.a \cup PositionsIn("a", emitted)
  BY <1>3
<1>11. /\ got'.k[b] = got.k[b] \cup PositionsIn("k", emitted)
       /\ got'.d[b] = got.d[b] \cup PositionsIn("d", emitted)
       /\ \A x \in Boards : x # b => got'.k[x] = got.k[x] /\ got'.d[x] = got.d[x]
  BY <1>1, <1>10 DEF ClientTypes
<1> HIDE DEF new, old
<1>12. TypeOK'
  <2>1. LogTypes' /\ OnlyLiveCardsHaveRows'
    BY <1>0 DEF LogTypes, OnlyLiveCardsHaveRows, Present
  <2>2. /\ PositionsIn("k", emitted) \subseteq DOMAIN klog[b]
        /\ PositionsIn("d", emitted) \subseteq DOMAIN dlog[b]
        /\ PositionsIn("a", emitted) \subseteq DOMAIN alog
        /\ DOMAIN klog[b] \subseteq Nat /\ DOMAIN dlog[b] \subseteq Nat /\ DOMAIN alog \subseteq Nat
    BY <1>1, <1>4, <1>6, SequenceLengths
  <2>3. ClientTypes'
    <3>1. got' \in [k : [Boards -> SUBSET Nat], d : [Boards -> SUBSET Nat], a : SUBSET Nat]
      BY <1>3, <2>2 DEF ClientTypes
    <3> QED
      BY <1>0, <1>9, <3>1 DEF ClientTypes
  <2>4. WithinLogs'
    <3>1. new.k <= Len(klog[b]) /\ new.d <= Len(dlog[b]) /\ new.a <= Len(alog)
      BY <1>8 DEF new
    <3> QED
      BY <1>0, <1>9, <1>10, <1>11, <2>2, <3>1 DEF WithinLogs
  <2> QED
    BY <2>1, <2>3, <2>4
<1>13. RequestOK'
  BY <1>3 DEF RequestOK, Polling
<1>14. NoGap'
  <2>1. ASSUME NEW x \in Boards, x # b PROVE NoGapOnBoard(x)' /\ NoGapInArtifacts(x)'
    BY <1>0, <1>9, <1>10, <1>11, <2>1 DEF NoGap, NoGapOnBoard, NoGapInArtifacts, Present, Chosen
  <2>2. NoGapOnBoard(b)
    BY <1>1 DEF NoGap
  <2>3. ASSUME NEW i \in Present(b), base[b].k < i, i <= k, klog[b][i].kind # "quiet"
        PROVE  i \in got'.k[b]
    <3>0. i \in Int /\ cur[b].k \in Int
      BY <1>1, SequenceLengths, CursorTypes DEF Present
    <3>1. CASE i <= cur[b].k
      BY <1>11, <2>2, <2>3, <3>1 DEF NoGapOnBoard
    <3>2. CASE cur[b].k < i
      <4>1. k # cur[b].k /\ k \in ids /\ k \in Int
        BY <1>1, <1>2, <2>3, <3>0, <3>2
      <4>2. i \in ids
        BY <1>1, <2>3, <3>0, <3>2, <4>1
      <4> QED
        BY <1>7, <1>11, <2>3, <4>1, <4>2
    <3> QED
      BY <3>0, <3>1, <3>2
  <2>4. ASSUME NEW n \in DOMAIN dlog[b], base[b].d < n, n <= d
        PROVE  n \in got'.d[b]
    <3>0. n \in Int /\ cur[b].d \in Int
      BY <1>1, SequenceLengths, CursorTypes
    <3>1. CASE n <= cur[b].d
      BY <1>11, <2>2, <2>4, <3>1 DEF NoGapOnBoard
    <3>2. CASE cur[b].d < n
      <4>1. n \in lines
        BY <3>0, <3>2 DEF LinesRead
      <4>2. d # cur[b].d
        BY <2>4, <3>0, <3>2
      <4> QED
        BY <1>7, <1>11, <2>4, <4>1, <4>2
    <3> QED
      BY <3>0, <3>1, <3>2
  <2>5. ASSUME NEW i \in Chosen, old.a < i, i <= a
        PROVE  i \in got'.a
    <3>0. i \in Int /\ since \in Int
      BY <1>4
    <3>1. CASE i <= since
      <4>1. cur[b].a # Missing /\ since = cur[b].a /\ old.a = base[b].a
        BY <1>4, <1>9, <2>5, <3>0, <3>1
      <4> QED
        BY <1>1, <1>10, <2>5, <3>1, <4>1 DEF NoGap, NoGapInArtifacts
    <3>2. CASE since < i
      <4>1. a # since /\ a \in as
        BY <1>2, <2>5, <3>0, <3>2
      <4>2. i \in as
        <5> HIDE DEF as, since
        <5>1. a \in as /\ a \in Int
          BY <1>4a, <4>1
        <5>2. i = a \/ i < a
          BY <2>5, <3>0, <5>1
        <5> QED
          BY <1>4a, <3>2, <5>1, <5>2
      <4> QED
        BY <1>7, <1>10, <2>5, <4>1, <4>2
    <3> QED
      BY <3>0, <3>1, <3>2
  <2>6. NoGapOnBoard(b)' /\ NoGapInArtifacts(b)'
    <3>2. \A i \in Present(b) : (old.k < i /\ i <= new.k /\ klog[b][i].kind # "quiet") => i \in got'.k[b]
      BY <1>9, <2>3 DEF new
    <3>3. \A n \in DOMAIN dlog[b] : (old.d < n /\ n <= new.d) => n \in got'.d[b]
      BY <1>9, <2>4 DEF new
    <3>4. \A i \in Chosen : (old.a < i /\ i <= new.a) => i \in got'.a
      BY <2>5 DEF new
    <3> QED
      BY <1>0, <1>9, <3>2, <3>3, <3>4 DEF NoGapOnBoard, NoGapInArtifacts, Present, Chosen
  <2> QED
    BY <2>1, <2>6 DEF NoGap
<1> QED
  BY <1>12, <1>13, <1>14

-----------------------------------------------------------------------------
(* What a poll reads *)

RowEvent(b, i, half) ==
  [src |-> "k", pos |-> i, sub |-> half, ts |-> klog[b][i].ts, card |-> klog[b][i].card]

LineEvent(b, n) ==
  [src |-> "d", pos |-> n, sub |-> 0, ts |-> dlog[b][n].ts, card |-> dlog[b][n].card]

ArtifactEvent(i) ==
  [src |-> "a", pos |-> i, sub |-> 0, ts |-> alog[i].ts, card |-> Missing]

\* The events of a poll, one by one.
LEMMA EventsAre ==
  ASSUME NEW b, NEW ids, NEW pairs, NEW limit, NEW e
  PROVE  e \in EventsRead(b, ids, pairs, limit) <=>
           \/ \E i \in ids, half \in {0, 1} : /\ klog[b][i].kind # "quiet" /\ (half = 1 => i \in pairs)
                                              /\ e = RowEvent(b, i, half)
           \/ \E n \in LinesRead(b) : e = LineEvent(b, n)
           \/ \E i \in ArtifactsRead(b, limit) : e = ArtifactEvent(i)
<1>1. e \in RowsEvents(b, ids, pairs) <=>
        \E i \in ids, half \in {0, 1} : /\ klog[b][i].kind # "quiet" /\ (half = 1 => i \in pairs)
                                        /\ e = RowEvent(b, i, half)
  <2>1. ASSUME NEW i
        PROVE  e \in RowEvents(b, i, pairs) <=>
                 \E half \in {0, 1} : /\ klog[b][i].kind # "quiet" /\ (half = 1 => i \in pairs)
                                      /\ e = RowEvent(b, i, half)
    <3> DEFINE halves == IF klog[b][i].kind = "quiet" THEN {} ELSE IF i \in pairs THEN {0, 1} ELSE {0}
    <3>1. \A half : half \in halves <=> half \in {0, 1} /\ klog[b][i].kind # "quiet" /\ (half = 1 => i \in pairs)
      OBVIOUS
    <3>2. RowEvents(b, i, pairs) = {RowEvent(b, i, half) : half \in halves}
      BY Zenon DEF RowEvents, RowEvent
    <3> HIDE DEF halves
    <3> QED
      BY <3>1, <3>2
  <2>2. e \in RowsEvents(b, ids, pairs) <=> \E i \in ids : e \in RowEvents(b, i, pairs)
    BY DEF RowsEvents
  <2> QED
    BY <2>1, <2>2
<1>2. e \in LineEvents(b, LinesRead(b)) <=> \E n \in LinesRead(b) : e = LineEvent(b, n)
  BY DEF LineEvents, LineEvent
<1>3. e \in ArtifactEvents(ArtifactsRead(b, limit)) <=> \E i \in ArtifactsRead(b, limit) : e = ArtifactEvent(i)
  BY DEF ArtifactEvents, ArtifactEvent
<1> QED
  BY <1>1, <1>2, <1>3, Zenon DEF EventsRead

\* What an event tells, by its source.
LEMMA EventFields ==
  ASSUME NEW b, NEW ids, NEW pairs, NEW limit, NEW e \in EventsRead(b, ids, pairs, limit)
  PROVE  /\ \/ /\ e.src = "k" /\ e.pos \in ids /\ e.sub \in {0, 1} /\ (e.sub = 1 => e.pos \in pairs)
               /\ klog[b][e.pos].kind # "quiet"
               /\ e.ts = klog[b][e.pos].ts /\ e.card = klog[b][e.pos].card
               /\ e = RowEvent(b, e.pos, e.sub)
            \/ /\ e.src = "d" /\ e.pos \in LinesRead(b) /\ e.sub = 0
               /\ e.ts = dlog[b][e.pos].ts /\ e.card = dlog[b][e.pos].card
               /\ e = LineEvent(b, e.pos)
            \/ /\ e.src = "a" /\ e.pos \in ArtifactsRead(b, limit) /\ e.sub = 0
               /\ e.ts = alog[e.pos].ts /\ e = ArtifactEvent(e.pos)
         /\ e.src \in Sources
<1>1. CASE \E i \in ids, half \in {0, 1} : /\ klog[b][i].kind # "quiet" /\ (half = 1 => i \in pairs)
                                          /\ e = RowEvent(b, i, half)
  BY <1>1 DEF RowEvent, Sources
<1>2. CASE \E n \in LinesRead(b) : e = LineEvent(b, n)
  BY <1>2 DEF LineEvent, Sources
<1>3. CASE \E i \in ArtifactsRead(b, limit) : e = ArtifactEvent(i)
  BY <1>3 DEF ArtifactEvent, Sources
<1> QED
  BY <1>1, <1>2, <1>3, EventsAre

\* A set of events whose places are bounded is finite.
LEMMA TagsAreFew ==
  ASSUME NEW E, NEW top \in Nat,
         \A e \in E : e.src \in Sources /\ e.pos \in 0..top /\ e.sub \in {0, 1},
         \A e, f \in E : (e.src = f.src /\ e.pos = f.pos /\ e.sub = f.sub) => e = f
  PROVE  IsFiniteSet(E)
<1> DEFINE T == Sources \X ((0..top) \X (0..1))
           tag == [e \in E |-> <<e.src, <<e.pos, e.sub>>>>]
<1>1. IsFiniteSet(Sources)
  <2>1. IsFiniteSet({"k"})
    BY FS_Singleton
  <2>2. IsFiniteSet({"k"} \cup {"d"})
    BY <2>1, FS_AddElement
  <2>3. IsFiniteSet(({"k"} \cup {"d"}) \cup {"a"})
    BY <2>2, FS_AddElement
  <2>4. Sources = ({"k"} \cup {"d"}) \cup {"a"}
    BY DEF Sources
  <2> QED
    BY <2>3, <2>4
<1>2. IsFiniteSet(0..top) /\ IsFiniteSet(0..1)
  <2>1. 0 \in Int /\ 1 \in Int /\ top \in Int
    OBVIOUS
  <2> QED
    BY <2>1, FS_Interval
<1>3. IsFiniteSet((0..top) \X (0..1))
  BY <1>2, FS_Product
<1>4. IsFiniteSet(T)
  BY <1>1, <1>3, FS_Product
<1>5. tag \in [E -> T]
  OBVIOUS
<1>6. \A e, f \in E : tag[e] = tag[f] => e = f
  OBVIOUS
<1>7. tag \in Injection(E, T)
  BY <1>5, <1>6 DEF Injection, IsInjective
<1> HIDE DEF T, tag
<1> QED
  BY <1>4, <1>7, FS_Injection

\* What is read is behind the cursor and within the logs.
LEMMA ReadWithin ==
  ASSUME LogTypes, ClientTypes, NEW b \in Boards, NEW limit
  PROVE  /\ LinesRead(b) = {n \in 1..Len(dlog[b]) : cur[b].d < n} /\ LinesRead(b) \subseteq Nat
         /\ ArtifactsRead(b, limit) \subseteq 1..Len(alog) /\ ArtifactsRead(b, limit) \subseteq Nat
         /\ \A n \in LinesRead(b) : dlog[b][n].ts \in Nat
         /\ \A i \in 1..Len(alog) : alog[i].ts \in Nat
         /\ \A i \in 1..Len(klog[b]) : klog[b][i].ts \in Nat
<1>1. LinesRead(b) = {n \in 1..Len(dlog[b]) : cur[b].d < n} /\ LinesRead(b) \subseteq Nat
  BY SequenceLengths, CursorTypes DEF LinesRead
<1>2. ArtifactsRead(b, limit) \subseteq 1..Len(alog) /\ ArtifactsRead(b, limit) \subseteq Nat
  BY SequenceLengths DEF ArtifactsRead, TailOf, Chosen
<1>3. \A n \in 1..Len(dlog[b]) : dlog[b][n] \in Line
  BY DEF LogTypes
<1>4. \A i \in 1..Len(alog) : alog[i] \in Artifact
  BY DEF LogTypes
<1>5. \A i \in 1..Len(klog[b]) : klog[b][i] \in Row
  BY DEF LogTypes
<1>6. 0..MaxClock \subseteq Nat
  OBVIOUS
<1> QED
  BY <1>1, <1>2, <1>3, <1>4, <1>5, <1>6 DEF Line, Artifact, Row

\* The events of a poll are a set of events.
LEMMA PollsRead ==
  ASSUME LogTypes, ClientTypes, NEW b \in Boards, NEW ids \in SUBSET (1..Len(klog[b])), NEW pairs, NEW limit
  PROVE  EventSet(EventsRead(b, ids, pairs, limit))
<1> DEFINE E == EventsRead(b, ids, pairs, limit)
<1>1. Len(klog[b]) \in Nat /\ Len(dlog[b]) \in Nat /\ Len(alog) \in Nat
  BY SequenceLengths
<1>2. \A e \in E : /\ e.src \in Sources /\ e.sub \in {0, 1} /\ (e.src # "k" => e.sub = 0)
                   /\ \/ e.pos \in 1..Len(klog[b])
                      \/ e.pos \in 1..Len(dlog[b])
                      \/ e.pos \in 1..Len(alog)
                   /\ e.ts \in Nat
  <2> SUFFICES ASSUME NEW e \in E
               PROVE  /\ e.src \in Sources /\ e.sub \in {0, 1} /\ (e.src # "k" => e.sub = 0)
                      /\ \/ e.pos \in 1..Len(klog[b])
                         \/ e.pos \in 1..Len(dlog[b])
                         \/ e.pos \in 1..Len(alog)
                      /\ e.ts \in Nat
    OBVIOUS
  <2>1. \/ /\ e.src = "k" /\ e.pos \in ids /\ e.sub \in {0, 1}
           /\ e.ts = klog[b][e.pos].ts
        \/ /\ e.src = "d" /\ e.pos \in LinesRead(b) /\ e.sub = 0
           /\ e.ts = dlog[b][e.pos].ts
        \/ /\ e.src = "a" /\ e.pos \in ArtifactsRead(b, limit) /\ e.sub = 0
           /\ e.ts = alog[e.pos].ts
    BY EventFields
  <2>2. e.src \in Sources
    BY EventFields
  <2>3. /\ LinesRead(b) = {n \in 1..Len(dlog[b]) : cur[b].d < n}
        /\ ArtifactsRead(b, limit) \subseteq 1..Len(alog)
        /\ \A n \in LinesRead(b) : dlog[b][n].ts \in Nat
        /\ \A i \in 1..Len(alog) : alog[i].ts \in Nat
        /\ \A i \in 1..Len(klog[b]) : klog[b][i].ts \in Nat
    BY ReadWithin
  <2> HIDE DEF E
  <2>4. e.ts \in Nat /\ e.sub \in {0, 1} /\ (e.src # "k" => e.sub = 0)
    BY <2>1, <2>3
  <2>5. e.pos \in 1..Len(klog[b]) \/ e.pos \in 1..Len(dlog[b]) \/ e.pos \in 1..Len(alog)
    BY <2>1, <2>3
  <2> QED
    BY <2>2, <2>4, <2>5
<1>3. \A e, f \in E : e.src = f.src /\ e.pos = f.pos => e.ts = f.ts
  BY EventFields
<1>4. \A e, f \in E : e.src = f.src /\ e.pos = f.pos /\ e.sub = f.sub => e = f
  BY EventFields
<1> HIDE DEF E
<1>5. PICK top \in Nat : \A e \in E : e.pos \in 0..top /\ e.pos \in Nat
  <2>1. \A x, y, z \in Nat : \E top \in Nat : x <= top /\ y <= top /\ z <= top
    <3> SUFFICES ASSUME NEW x \in Nat, NEW y \in Nat, NEW z \in Nat
                 PROVE  \E top \in Nat : x <= top /\ y <= top /\ z <= top
      OBVIOUS
    <3>1. x + y + z \in Nat /\ x <= x + y + z /\ y <= x + y + z /\ z <= x + y + z
      OBVIOUS
    <3> QED
      BY <3>1
  <2>2. PICK top \in Nat : Len(klog[b]) <= top /\ Len(dlog[b]) <= top /\ Len(alog) <= top
    BY <1>1, <2>1
  <2>3. \A e \in E : e.pos \in Nat /\ e.pos <= top
    BY <1>1, <1>2, <2>2
  <2> QED
    BY <2>3
<1>6. IsFiniteSet(E)
  BY <1>2, <1>4, <1>5, TagsAreFew
<1> QED
  BY <1>2, <1>3, <1>4, <1>5, <1>6 DEF EventSet, E

-----------------------------------------------------------------------------
(* What an answer carries *)

\* Events that come before one that is carried are carried, and both events of
\* a row or none.
LEMMA EmittedIsPrefix ==
  ASSUME NEW E, EventSet(E), NEW limit \in Nat \ {0}, NEW e \in Emitted(E, limit), NEW f \in E,
         Before(f, e) \/ (e.src = "k" /\ f.src = "k" /\ e.pos = f.pos)
  PROVE  f \in Emitted(E, limit)
<1>1. PICK n \in Nat : Emitted(E, limit) = First(n, E) /\ ~SplitsPair(E, n)
  BY EmittedIsFirst
<1>2. Before(f, e) => f \in First(n, E)
  BY <1>1, FirstIsPrefix
<1> QED
  BY <1>1, <1>2 DEF SplitsPair

\* Two different events are two.
LEMMA TwoOf ==
  ASSUME NEW e, NEW f, e # f
  PROVE  Cardinality({e} \cup {f}) = 2
<1>1. IsFiniteSet({e}) /\ Cardinality({e}) = 1 /\ f \notin {e}
  BY FS_Singleton
<1>2. Cardinality({e} \cup {f}) = Cardinality({e}) + 1
  BY <1>1, FS_AddElement
<1> QED
  BY <1>1, <1>2

\* An answer has at most `limit` events, or the two of one row.
LEMMA EmittedSize ==
  ASSUME NEW E, EventSet(E), NEW limit \in Nat \ {0}
  PROVE  \/ Cardinality(Emitted(E, limit)) <= limit
         \/ /\ limit = 1 /\ Cardinality(Emitted(E, limit)) = 2
            /\ \A e, f \in Emitted(E, limit) : e.src = "k" /\ f.src = "k" /\ e.pos = f.pos
<1>1. CASE ~SplitsPair(E, limit)
  <2>1. Emitted(E, limit) = First(limit, E)
    BY <1>1 DEF Emitted
  <2> QED
    BY <2>1, FirstIsPrefix
<1>2. CASE SplitsPair(E, limit) /\ limit > 1
  <2>1. Emitted(E, limit) = First(limit - 1, E) /\ limit - 1 \in Nat
    BY <1>2 DEF Emitted
  <2>2. Cardinality(First(limit - 1, E)) <= limit - 1 /\ Cardinality(First(limit - 1, E)) \in Nat
    BY <2>1, FirstIsPrefix, FS_CardinalityType
  <2> QED
    BY <2>1, <2>2
<1>3. CASE SplitsPair(E, limit) /\ ~(limit > 1)
  <2>1. limit = 1 /\ Emitted(E, limit) = First(2, E)
    BY <1>3 DEF Emitted
  <2>2. PICK e \in First(1, E), f \in E \ First(1, E) : e.src = "k" /\ f.src = "k" /\ e.pos = f.pos
    BY <1>3, <2>1 DEF SplitsPair
  <2>3. Rank(e, E) = 0 /\ Rank(f, E) = 1 /\ e \in E /\ f \in E
    <3>1. Rank(e, E) = 1 - 1 /\ Rank(f, E) = 1
      BY <2>2, SplitAt
    <3> QED
      BY <3>1, FirstByRank
  <2>4. First(2, E) = {e} \cup {f}
    <3>1. First(2, E) = {g \in E : Rank(g, E) < 2}
      BY FirstByRank
    <3>2. \A g \in E : Rank(g, E) < 2 => g = e \/ g = f
      BY <2>3, RankOrders
    <3> QED
      BY <2>3, <3>1, <3>2
  <2>5. e # f
    BY <2>3
  <2>6. Cardinality({e} \cup {f}) = 2
    BY <2>5, TwoOf
  <2> QED
    BY <2>1, <2>2, <2>4, <2>6
<1> QED
  BY <1>1, <1>2, <1>3

\* Where the times of a source follow its places, its places are carried in order.
LEMMA EmittedInOrder ==
  ASSUME NEW E, EventSet(E), NEW limit \in Nat \ {0}, NEW s \in Sources,
         \A x, y \in E : (x.src = s /\ y.src = s /\ x.pos <= y.pos) => x.ts <= y.ts,
         NEW e \in Emitted(E, limit), NEW f \in E, e.src = s, f.src = s, f.pos <= e.pos
  PROVE  f \in Emitted(E, limit)
<1>1. e \in E
  BY EmittedIsRead
<1>2. e.pos \in Nat /\ f.pos \in Nat /\ e.ts \in Nat /\ f.ts \in Nat
  BY <1>1 DEF EventSet
<1>3. f.ts <= e.ts
  BY <1>1
<1>4. CASE f.pos < e.pos
  <2>1. Before(f, e)
    BY <1>2, <1>3, <1>4 DEF Before
  <2> QED
    BY <2>1, EmittedIsPrefix
<1>5. CASE f.pos = e.pos
  <2>1. CASE s = "k"
    BY <1>5, <2>1, EmittedIsPrefix
  <2>2. CASE s # "k"
    <3>1. e.sub = 0 /\ f.sub = 0
      BY <1>1, <2>2 DEF EventSet
    <3>2. e = f
      BY <1>1, <1>5, <3>1 DEF EventSet
    <3> QED
      BY <3>2
  <2> QED
    BY <2>1, <2>2
<1> QED
  BY <1>2, <1>4, <1>5

\* So no place that is carried lies behind the one to which the cursor moves.
LEMMA AdvancedCovers ==
  ASSUME NEW E, EventSet(E), NEW limit \in Nat \ {0}, NEW s \in Sources,
         \A x, y \in E : (x.src = s /\ y.src = s /\ x.pos <= y.pos) => x.ts <= y.ts,
         NEW new, NEW old, NEW read, \A x \in E : x.src = s => x.pos \in read,
         Advanced(new, old, read, Cut(s, E, Emitted(E, limit))),
         NEW p \in PositionsIn(s, Emitted(E, limit))
  PROVE  p <= new
<1> DEFINE cut == Cut(s, E, Emitted(E, limit))
           done == {i \in read : \A j \in read : j <= i => j \notin cut}
<1>1. PICK e \in Emitted(E, limit) : e.src = s /\ e.pos = p
  BY DEF PositionsIn
<1>2. e \in E /\ p \in read
  BY <1>1, EmittedIsRead
<1>3. ASSUME NEW j \in cut, j <= p PROVE FALSE
  <2>1. PICK f \in E \ Emitted(E, limit) : f.src = s /\ f.pos = j
    BY DEF Cut, PositionsIn
  <2> QED
    BY <1>1, <1>3, <2>1, EmittedInOrder
<1>4. p \in done
  BY <1>2, <1>3
<1>5. Advanced(new, old, read, cut)
  OBVIOUS
<1> HIDE DEF cut
<1> QED
  BY <1>4, <1>5 DEF Advanced

-----------------------------------------------------------------------------
(* Logs in order, positions ahead of what was delivered *)

\* Rows and lines have the time at which they were appended.
LogsInOrder(b) ==
  /\ \A i, j \in DOMAIN klog[b] : i <= j => klog[b][i].ts <= klog[b][j].ts
  /\ \A i \in DOMAIN klog[b] : klog[b][i].ts <= now
  /\ \A m, n \in DOMAIN dlog[b] : m <= n => dlog[b][m].ts <= dlog[b][n].ts
  /\ \A n \in DOMAIN dlog[b] : dlog[b][n].ts <= now

\* A card whose deletion is logged is gone for good, and was written about
\* before that.
DeletedStay(b) ==
  \A n \in DOMAIN dlog[b] :
    /\ card[b][dlog[b][n].card] = "logged"
    /\ \A i \in DOMAIN klog[b] : klog[b][i].card = dlog[b][n].card => klog[b][i].ts <= dlog[b][n].ts

\* A cursor has not moved back from where the client started, and nothing
\* beyond it has been delivered.
Behind(b) ==
  /\ base[b].k <= cur[b].k /\ base[b].d <= cur[b].d
  /\ \A i \in got.k[b] : i <= cur[b].k
  /\ \A n \in got.d[b] : n <= cur[b].d

\* A page that is not full holds all rows that were there, and none of a card
\* whose deletion the client knows.
PageOK ==
  Polling =>
    /\ Cardinality(req.ids) <= req.limit =>
         \A i \in Present(req.board) : cur[req.board].k < i /\ i <= req.end => i \in req.ids
    /\ \A n \in got.d[req.board], i \in req.ids : dlog[req.board][n].card # klog[req.board][i].card

OrderInv ==
  /\ \A b \in Boards : LogsInOrder(b) /\ DeletedStay(b) /\ Behind(b)
  /\ PageOK

LEMMA InitOrder == Init => OrderInv
<1> SUFFICES ASSUME Init PROVE OrderInv
  OBVIOUS
<1>1. \A b \in Boards : klog[b] = <<>> /\ dlog[b] = <<>> /\ got.k[b] = {} /\ got.d[b] = {}
                        /\ base[b] = NoCursor /\ cur[b] = NoCursor
  BY DEF Init
<1>2. NoCursor.k <= NoCursor.k /\ NoCursor.d <= NoCursor.d
  BY DEF NoCursor, Missing
<1>3. ~Polling
  BY DEF Init, Idle, Polling
<1> QED
  BY <1>1, <1>2, <1>3 DEF OrderInv, LogsInOrder, DeletedStay, Behind, PageOK

\* A log with one more entry, of the present time.
LEMMA AppendInOrder ==
  ASSUME NEW S, NEW old \in Seq(S), NEW x \in S, NEW time \in Int, x.ts = time,
         \A i \in DOMAIN old : old[i].ts \in Int /\ old[i].ts <= time,
         \A i, j \in DOMAIN old : i <= j => old[i].ts <= old[j].ts,
         NEW new, new = Append(old, x)
  PROVE  /\ \A i \in DOMAIN new : new[i].ts <= time
         /\ \A i, j \in DOMAIN new : i <= j => new[i].ts <= new[j].ts
<1> DEFINE n == Len(old)
<1>1. /\ n \in Nat /\ DOMAIN old = 1..n /\ DOMAIN new = 1..(n + 1)
      /\ new[n + 1] = x /\ \A i \in 1..n : new[i] = old[i]
  OBVIOUS
<1> HIDE DEF n
<1>2. \A i \in 1..(n + 1) : i \in 1..n \/ i = n + 1
  BY <1>1
<1>3. \A i \in 1..(n + 1) : new[i].ts <= time
  BY <1>1, <1>2
<1>4. ASSUME NEW i \in 1..(n + 1), NEW j \in 1..(n + 1), i <= j PROVE new[i].ts <= new[j].ts
  <2>1. CASE j \in 1..n
    <3>1. i \in 1..n
      BY <1>1, <1>4, <2>1
    <3> QED
      BY <1>1, <1>4, <2>1, <3>1
  <2>2. CASE j = n + 1
    BY <1>1, <1>3, <2>2
  <2> QED
    BY <1>2, <2>1, <2>2
<1> QED
  BY <1>1, <1>3, <1>4

\* The times of rows and lines, and their cards.
LEMMA Entries ==
  ASSUME LogTypes, NEW b \in Boards
  PROVE  /\ \A i \in DOMAIN klog[b] : klog[b][i].ts \in Int /\ klog[b][i].card \in Cards
         /\ \A n \in DOMAIN dlog[b] : dlog[b][n].ts \in Int /\ dlog[b][n].card \in Cards
         /\ now \in Int /\ klog[b] \in Seq(Row) /\ dlog[b] \in Seq(Line)
<1>1. klog[b] \in Seq(Row) /\ dlog[b] \in Seq(Line) /\ now \in 0..MaxClock
  BY DEF LogTypes
<1>2. \A i \in DOMAIN klog[b] : klog[b][i] \in Row
  BY <1>1
<1>3. \A n \in DOMAIN dlog[b] : dlog[b][n] \in Line
  BY <1>1
<1> QED
  BY <1>1, <1>2, <1>3 DEF Row, Line

\* The steps of Next, by what they touch.
LEMMA StepsAre ==
  ASSUME [Next]_vars
  PROVE  \/ Tick
         \/ \E b \in Boards, c \in Cards, kind \in RowKinds : AppendRow(b, c, kind)
         \/ \E b \in Boards, c \in Cards : EraseCard(b, c) \/ LogDeletion(b, c)
         \/ UNCHANGED <<now, klog, kgone, card, dlog>> /\ UNCHANGED client
         \/ \E b \in Boards : UNCHANGED server /\ (Start(b) \/ HandOff(b))
         \/ \E b \in Boards, limit \in Limits : UNCHANGED server /\ ReadBoard(b, limit)
         \/ UNCHANGED server /\ UNCHANGED <<cur, base, got>> /\ (UNCHANGED req \/ LoseAnswer)
         \/ UNCHANGED server /\ Respond
<1>1. CASE \E w \in Writers : \/ ReadClock(w)
                              \/ \E kind \in Kinds : CommitArtifact(w, kind)
                              \/ AbandonArtifact(w)
  BY <1>1 DEF ReadClock, CommitArtifact, AbandonArtifact
<1>2. CASE \E b \in Boards : Start(b) \/ HandOff(b)
  BY <1>2 DEF Start, HandOff
<1>3. CASE \E b \in Boards : OptIn(b)
  BY <1>3 DEF OptIn
<1>4. CASE \E b \in Boards, limit \in Limits : ReadBoard(b, limit)
  BY <1>4 DEF ReadBoard
<1>5. CASE Respond
  BY <1>5 DEF Respond
<1>6. CASE LoseAnswer
  BY <1>6 DEF LoseAnswer
<1>7. CASE UNCHANGED vars
  BY <1>7 DEF vars, server, client
<1> QED
  BY <1>1, <1>2, <1>3, <1>4, <1>5, <1>6, <1>7, Zenon DEF Next

\* What is logged stays, and what comes, comes at the end.
LEMMA LogsGrow ==
  ASSUME LogTypes, [Next]_vars, NEW x \in Boards
  PROVE  /\ \A i \in DOMAIN klog[x] : i \in DOMAIN klog'[x] /\ klog'[x][i] = klog[x][i]
         /\ \A n \in DOMAIN dlog[x] : n \in DOMAIN dlog'[x] /\ dlog'[x][n] = dlog[x][n]
         /\ \A i \in Present(x)' : i \in DOMAIN klog[x] => i \in Present(x)
<1>1. klog[x] \in Seq(Row) /\ dlog[x] \in Seq(Line)
  BY DEF LogTypes
<1>2. ASSUME NEW b \in Boards, NEW c \in Cards, NEW kind \in RowKinds, AppendRow(b, c, kind)
      PROVE  /\ \A i \in DOMAIN klog[x] : i \in DOMAIN klog'[x] /\ klog'[x][i] = klog[x][i]
             /\ UNCHANGED <<dlog, kgone>>
  <2>1. klog' = [klog EXCEPT ![b] = Append(@, [ts |-> now, kind |-> kind, card |-> c])] /\ UNCHANGED <<dlog, kgone>>
    BY <1>2 DEF AppendRow
  <2>2. klog'[x] = klog[x] \/ klog'[x] = Append(klog[x], [ts |-> now, kind |-> kind, card |-> c])
    BY <2>1 DEF LogTypes
  <2> QED
    BY <1>1, <2>1, <2>2
<1>3. ASSUME NEW b \in Boards, NEW c \in Cards, EraseCard(b, c)
      PROVE  UNCHANGED <<klog, dlog>> /\ kgone[x] \subseteq kgone'[x]
  BY <1>3 DEF EraseCard, LogTypes
<1>4. ASSUME NEW b \in Boards, NEW c \in Cards, LogDeletion(b, c)
      PROVE  /\ \A n \in DOMAIN dlog[x] : n \in DOMAIN dlog'[x] /\ dlog'[x][n] = dlog[x][n]
             /\ UNCHANGED <<klog, kgone>>
  <2>1. dlog' = [dlog EXCEPT ![b] = Append(@, [ts |-> now, card |-> c])] /\ UNCHANGED <<klog, kgone>>
    BY <1>4 DEF LogDeletion
  <2>2. dlog'[x] = dlog[x] \/ dlog'[x] = Append(dlog[x], [ts |-> now, card |-> c])
    BY <2>1 DEF LogTypes
  <2> QED
    BY <1>1, <2>1, <2>2
<1>5. \/ UNCHANGED <<klog, dlog, kgone>>
      \/ \E b \in Boards, c \in Cards, kind \in RowKinds : AppendRow(b, c, kind)
      \/ \E b \in Boards, c \in Cards : EraseCard(b, c) \/ LogDeletion(b, c)
  BY StepsAre DEF Tick, server
<1> QED
  BY <1>2, <1>3, <1>4, <1>5 DEF Present

\* The logs stay in order, and a deleted card deleted.
LEMMA LogsNext ==
  ASSUME LogTypes, OrderInv, [Next]_vars, NEW x \in Boards
  PROVE  LogsInOrder(x)' /\ DeletedStay(x)'
<1>0. LogsInOrder(x) /\ DeletedStay(x)
  BY DEF OrderInv
<1>1. CASE UNCHANGED <<now, klog, card, dlog>>
  BY <1>0, <1>1 DEF LogsInOrder, DeletedStay
<1>2. CASE Tick
  <2>1. now' = now + 1 /\ UNCHANGED <<klog, card, dlog>>
    BY <1>2 DEF Tick
  <2>2. /\ \A i \in DOMAIN klog[x] : klog[x][i].ts <= now + 1
        /\ \A n \in DOMAIN dlog[x] : dlog[x][n].ts <= now + 1
    BY <1>0, Entries DEF LogsInOrder
  <2> QED
    BY <1>0, <2>1, <2>2 DEF LogsInOrder, DeletedStay
<1>3. ASSUME NEW b \in Boards, NEW c \in Cards, NEW kind \in RowKinds, AppendRow(b, c, kind)
      PROVE  LogsInOrder(x)' /\ DeletedStay(x)'
  <2> DEFINE entry == [ts |-> now, kind |-> kind, card |-> c]
  <2>1. /\ UNCHANGED <<now, dlog>> /\ card[b][c] \in {"none", "live"}
        /\ klog' = [klog EXCEPT ![b] = Append(@, entry)] /\ card' = [card EXCEPT ![b][c] = "live"]
    BY <1>3 DEF AppendRow
  <2>2. entry \in Row /\ entry.ts = now /\ entry.card = c
    BY DEF LogTypes, Row
  <2> HIDE DEF entry
  <2>3. CASE x # b
    <3>1. klog'[x] = klog[x] /\ card'[x] = card[x] /\ dlog' = dlog /\ now' = now
      BY <2>1, <2>3 DEF LogTypes
    <3>2. LogsInOrder(x)'
      BY <1>0, <3>1 DEF LogsInOrder
    <3>3. DeletedStay(x)'
      BY <1>0, <3>1 DEF DeletedStay
    <3> QED
      BY <3>2, <3>3
  <2>4. CASE x = b
    <3>1. klog'[x] = Append(klog[x], entry)
      BY <2>1, <2>4 DEF LogTypes
    <3>2. /\ \A i \in DOMAIN klog'[x] : klog'[x][i].ts <= now
          /\ \A i, j \in DOMAIN klog'[x] : i <= j => klog'[x][i].ts <= klog'[x][j].ts
      BY <1>0, <2>2, <3>1, Entries, AppendInOrder DEF LogsInOrder
    <3>3. \A n \in DOMAIN dlog[x] : dlog[x][n].card # c /\ card'[x][dlog[x][n].card] = "logged"
      BY <1>0, <2>1, <2>4, Entries DEF DeletedStay, LogTypes
    <3>4. \A i \in DOMAIN klog'[x] : klog'[x][i] = entry \/ (i \in DOMAIN klog[x] /\ klog'[x][i] = klog[x][i])
      BY <2>2, <3>1, Entries
    <3>5. LogsInOrder(x)'
      BY <1>0, <2>1, <3>2 DEF LogsInOrder
    <3>6. DeletedStay(x)'
      BY <1>0, <2>1, <2>2, <3>3, <3>4 DEF LogsInOrder, DeletedStay
    <3> QED
      BY <3>5, <3>6
  <2> QED
    BY <2>3, <2>4
<1>4. ASSUME NEW b \in Boards, NEW c \in Cards, EraseCard(b, c)
      PROVE  LogsInOrder(x)' /\ DeletedStay(x)'
  <2>1. /\ UNCHANGED <<now, klog, dlog>> /\ card[b][c] = "live" /\ card' = [card EXCEPT ![b][c] = "erased"]
    BY <1>4 DEF EraseCard
  <2>2. \A n \in DOMAIN dlog[x] : card'[x][dlog[x][n].card] = "logged"
    BY <1>0, <2>1, Entries DEF DeletedStay, LogTypes
  <2> QED
    BY <1>0, <2>1, <2>2 DEF LogsInOrder, DeletedStay
<1>5. ASSUME NEW b \in Boards, NEW c \in Cards, LogDeletion(b, c)
      PROVE  LogsInOrder(x)' /\ DeletedStay(x)'
  <2> DEFINE entry == [ts |-> now, card |-> c]
  <2>1. /\ UNCHANGED <<now, klog>> /\ card[b][c] = "erased"
        /\ dlog' = [dlog EXCEPT ![b] = Append(@, entry)] /\ card' = [card EXCEPT ![b][c] = "logged"]
    BY <1>5 DEF LogDeletion
  <2>2. entry \in Line /\ entry.ts = now /\ entry.card = c
    BY DEF LogTypes, Line
  <2> HIDE DEF entry
  <2>3. CASE x # b
    <3>1. dlog'[x] = dlog[x] /\ card'[x] = card[x] /\ klog' = klog /\ now' = now
      BY <2>1, <2>3 DEF LogTypes
    <3>2. LogsInOrder(x)'
      BY <1>0, <3>1, Zenon DEF LogsInOrder
    <3>3. DeletedStay(x)'
      BY <1>0, <3>1, Zenon DEF DeletedStay
    <3> QED
      BY <3>2, <3>3
  <2>4. CASE x = b
    <3>1. dlog'[x] = Append(dlog[x], entry)
      BY <2>1, <2>4 DEF LogTypes
    <3>2. /\ \A n \in DOMAIN dlog'[x] : dlog'[x][n].ts <= now
          /\ \A m, n \in DOMAIN dlog'[x] : m <= n => dlog'[x][m].ts <= dlog'[x][n].ts
      BY <1>0, <2>2, <3>1, Entries, AppendInOrder DEF LogsInOrder
    <3>3. card'[x][c] = "logged" /\ \A n \in DOMAIN dlog[x] : card'[x][dlog[x][n].card] = "logged"
      BY <1>0, <2>1, <2>4, Entries DEF DeletedStay, LogTypes
    <3>4. \A n \in DOMAIN dlog'[x] : dlog'[x][n] = entry \/ (n \in DOMAIN dlog[x] /\ dlog'[x][n] = dlog[x][n])
      BY <2>2, <3>1, Entries
    <3> QED
      BY <1>0, <2>1, <2>2, <3>2, <3>3, <3>4 DEF LogsInOrder, DeletedStay
  <2> QED
    BY <2>3, <2>4
<1> QED
  BY <1>1, <1>2, <1>3, <1>4, <1>5, StepsAre DEF server

-----------------------------------------------------------------------------
(* Types, and nothing skipped *)

\* Every step of the system, a step that changes nothing included, preserves
\* the inductive invariant.
LEMMA NextInv ==
  ASSUME StreamInv, [Next]_vars
  PROVE  StreamInv'
<1>1. CASE Tick
  BY <1>1, TickInv
<1>2. ASSUME NEW b \in Boards, NEW c \in Cards, NEW kind \in RowKinds, AppendRow(b, c, kind)
      PROVE  StreamInv'
  BY <1>2, AppendRowInv
<1>3. ASSUME NEW b \in Boards, NEW c \in Cards, EraseCard(b, c)
      PROVE  StreamInv'
  BY <1>3, EraseCardInv
<1>4. ASSUME NEW b \in Boards, NEW c \in Cards, LogDeletion(b, c)
      PROVE  StreamInv'
  BY <1>4, LogDeletionInv
<1>5. ASSUME NEW w \in Writers, ReadClock(w) \/ AbandonArtifact(w)
      PROVE  StreamInv'
  BY <1>5, WriterInv
<1>6. ASSUME NEW w \in Writers, NEW kind \in Kinds, CommitArtifact(w, kind)
      PROVE  StreamInv'
  BY <1>6, CommitArtifactInv
<1>7. ASSUME NEW b \in Boards, Start(b)
      PROVE  StreamInv'
  BY <1>7, StartInv
<1>8. ASSUME NEW b \in Boards, OptIn(b)
      PROVE  StreamInv'
  BY <1>8, OptInInv
<1>9. ASSUME NEW b \in Boards, NEW limit \in Limits, ReadBoard(b, limit)
      PROVE  StreamInv'
  BY <1>9, ReadBoardInv
<1>10. ASSUME NEW b \in Boards, HandOff(b)
       PROVE  StreamInv'
  BY <1>10, HandOffInv
<1>11. CASE Respond
  BY <1>11, RespondInv
<1>12. CASE LoseAnswer
  BY <1>12, LoseAnswerInv
<1>13. CASE UNCHANGED vars
  BY <1>13 DEF vars, StreamInv, TypeOK, LogTypes, ClientTypes, OnlyLiveCardsHaveRows,
               WithinLogs, RequestOK, Polling, NoGap, NoGapOnBoard, NoGapInArtifacts,
               Present, Chosen
<1> QED
  BY <1>1, <1>2, <1>3, <1>4, <1>5, <1>6, <1>7, <1>8, <1>9, <1>10, <1>11, <1>12, <1>13 DEF Next

\* The stream's invariant holds in every reachable state, whatever the boards,
\* the cards, the writers, the limits and the bounds.
THEOREM StreamInvariant == Spec => []StreamInv
<1>1. Init => StreamInv
  BY InitInv
<1>2. StreamInv /\ [Next]_vars => StreamInv'
  BY NextInv
<1> QED
  BY <1>1, <1>2, PTL DEF Spec

\* Type correctness: a deleted card has no rows left and no cursor lies beyond
\* the end of a log.
THEOREM TypeCorrect == Spec => []TypeOK
<1>1. StreamInv => TypeOK
  BY DEF StreamInv
<1> QED
  BY <1>1, StreamInvariant, PTL

\* What a cursor has passed has been delivered: neither the cut at the limit,
\* nor the two-step read, nor a lost answer, nor a handoff of the host-wide log
\* to another board loses a card's row, a deletion or an artifact event.
THEOREM NothingIsSkipped == Spec => []NoGap
<1>1. StreamInv => NoGap
  BY DEF StreamInv
<1> QED
  BY <1>1, StreamInvariant, PTL

-----------------------------------------------------------------------------
(* Order is preserved *)

\* A request in flight keeps its cursor, its page and what was delivered.
LEMMA PageStays ==
  ASSUME StreamInv, OrderInv, [Next]_vars, UNCHANGED <<cur, got, req>>
  PROVE  PageOK'
<1> SUFFICES ASSUME Polling
             PROVE  /\ Cardinality(req.ids) <= req.limit =>
                         \A i \in Present(req.board)' :
                           cur[req.board].k < i /\ i <= req.end => i \in req.ids
                    /\ \A n \in got.d[req.board], i \in req.ids :
                         dlog'[req.board][n].card # klog'[req.board][i].card
  BY DEF PageOK, Polling
<1> DEFINE b == req.board
<1>1. /\ b \in Boards /\ req.end \in 0..Len(klog[b]) /\ req.ids \subseteq 1..req.end
      /\ cur[b].k \in Int
  BY CursorTypes DEF StreamInv, TypeOK, RequestOK
<1>2. LogTypes /\ Len(klog[b]) \in Nat /\ DOMAIN klog[b] = 1..Len(klog[b])
  BY <1>1, SequenceLengths DEF StreamInv, TypeOK
<1>3. got.d[b] \subseteq DOMAIN dlog[b]
  BY <1>1 DEF StreamInv, TypeOK, WithinLogs
<1>4. req.ids \subseteq DOMAIN klog[b]
  BY <1>1, <1>2
<1>5. /\ \A i \in DOMAIN klog[b] : klog'[b][i] = klog[b][i]
      /\ \A n \in DOMAIN dlog[b] : dlog'[b][n] = dlog[b][n]
      /\ \A i \in Present(b)' : i \in DOMAIN klog[b] => i \in Present(b)
  BY <1>1, <1>2, LogsGrow
<1>6. ASSUME NEW i \in Present(b)', i <= req.end PROVE i \in Present(b)
  <2>1. i \in DOMAIN klog'[b]
    BY DEF Present
  <2>2. klog' \in [Boards -> Seq(Row)]
    BY NextInv DEF StreamInv, TypeOK, LogTypes
  <2>3. DOMAIN klog'[b] \subseteq Nat \ {0}
    BY <1>1, <2>2
  <2>4. i \in 1..Len(klog[b])
    BY <1>1, <1>2, <1>6, <2>1, <2>3
  <2> QED
    BY <1>2, <1>5, <2>4
<1> HIDE DEF b
<1>7. /\ Cardinality(req.ids) <= req.limit => \A i \in Present(b) : cur[b].k < i /\ i <= req.end => i \in req.ids
      /\ \A n \in got.d[b], i \in req.ids : dlog[b][n].card # klog[b][i].card
  BY DEF OrderInv, PageOK, b
<1>8. Cardinality(req.ids) <= req.limit => \A i \in Present(b)' : cur[b].k < i /\ i <= req.end => i \in req.ids
  BY <1>6, <1>7
<1>9. \A n \in got.d[b], i \in req.ids : dlog'[b][n].card # klog'[b][i].card
  BY <1>3, <1>4, <1>5, <1>7
<1> QED
  BY <1>8, <1>9 DEF b

\* The page that a poll reads.
LEMMA ReadBoardPage ==
  ASSUME StreamInv, OrderInv, NEW b \in Boards, NEW limit \in Limits, ReadBoard(b, limit)
  PROVE  PageOK'
<1> DEFINE ids == TailOf(Present(b), cur[b].k, limit + 1)
<1>1. /\ UNCHANGED <<klog, kgone, card, dlog, cur, got>>
      /\ req'.board = b /\ req'.limit = limit /\ req'.end = Len(klog[b]) /\ req'.ids = ids
  BY DEF ReadBoard, server
<1>2. limit \in Nat /\ limit + 1 \in Nat
  BY StreamAssumption
<1>3. Len(klog[b]) \in Nat /\ Present(b) \in SUBSET (1..Len(klog[b])) /\ cur[b].k \in Int
  BY SequenceLengths, CursorTypes DEF StreamInv, TypeOK, Present
<1>4. ids \subseteq Present(b) /\ IsFiniteSet(ids)
  <2>1. ids \in SUBSET (1..Len(klog[b])) /\ ids \subseteq Present(b)
    BY <1>3 DEF TailOf
  <2>2. IsFiniteSet(1..Len(klog[b]))
    BY <1>3, FS_Interval
  <2> HIDE DEF ids
  <2> QED
    BY <2>1, <2>2, FS_Subset
<1>5. ASSUME Cardinality(ids) <= limit, NEW i \in Present(b), cur[b].k < i PROVE i \in ids
  <2>1. Cardinality(ids) \in Nat
    BY <1>4, FS_CardinalityType
  <2> HIDE DEF ids
  <2>2. Cardinality(ids) < limit + 1
    BY <1>2, <1>5, <2>1
  <2> USE DEF ids
  <2> QED
    BY <1>2, <1>3, <1>5, <2>2, ShortPageIsAll
<1>6. ASSUME NEW n \in got.d[b], NEW i \in ids PROVE dlog[b][n].card # klog[b][i].card
  <2>1. n \in DOMAIN dlog[b] /\ i \in Present(b)
    BY <1>4 DEF StreamInv, TypeOK, WithinLogs
  <2>2. card[b][dlog[b][n].card] = "logged" /\ card[b][klog[b][i].card] = "live"
    BY <2>1 DEF OrderInv, DeletedStay, StreamInv, TypeOK, OnlyLiveCardsHaveRows
  <2> QED
    BY <2>2
<1> HIDE DEF ids
<1> QED
  BY <1>1, <1>5, <1>6 DEF PageOK, Present

\* What the poll in flight reads when it answers, and what of it the answer carries.
Found == EventsRead(req.board, req.ids, req.pairs, req.limit)
Carried == Emitted(Found, req.limit)

\* An answer, part by part.
LEMMA RespondIs ==
  ASSUME StreamInv, Respond, NEW b, b = req.board
  PROVE  /\ Polling /\ UNCHANGED server /\ UNCHANGED carrier
         /\ b \in Boards /\ req.limit \in Nat \ {0}
         /\ req.ids \subseteq 1..Len(klog[b]) /\ \A i \in req.ids : i \in Int /\ cur[b].k < i
         /\ req'.phase = "answered" /\ req'.board = b /\ req'.events = Carried
         /\ req'.more = HasMore(Found, Carried, req.ids, ArtifactsRead(b, req.limit), req.limit)
         /\ got'.k[b] = got.k[b] \cup PositionsIn("k", Carried)
         /\ got'.d[b] = got.d[b] \cup PositionsIn("d", Carried)
         /\ got'.a = got.a \cup PositionsIn("a", Carried)
         /\ base'[b].k = base[b].k /\ base'[b].d = base[b].d
         /\ base'[b].a = IF cur[b].a = Missing THEN ArtifactsSince(b) ELSE base[b].a
         /\ Advanced(cur'[b].k, cur[b].k, req.ids, Cut("k", Found, Carried))
         /\ Advanced(cur'[b].d, cur[b].d, LinesRead(b), Cut("d", Found, Carried))
         /\ Advanced(cur'[b].a, ArtifactsSince(b), ArtifactsRead(b, req.limit), Cut("a", Found, Carried))
         /\ \A x \in Boards \ {b} : /\ cur'[x] = cur[x] /\ base'[x] = base[x]
                                    /\ got'.k[x] = got.k[x] /\ got'.d[x] = got.d[x]
<1>1. /\ Polling /\ UNCHANGED server /\ UNCHANGED carrier
      /\ Answer(b, req.limit, req.ids, req.pairs, Found, Carried)
  BY DEF Respond, Found, Carried
<1>2. b \in Boards /\ req.limit \in Nat \ {0}
  BY <1>1, StreamAssumption DEF StreamInv, RequestOK
<1>3. req.ids \subseteq 1..Len(klog[b]) /\ \A i \in req.ids : i \in Int /\ cur[b].k < i
  <2>1. req.end \in 0..Len(klog[b]) /\ req.ids \subseteq {i \in 1..req.end : cur[b].k < i}
    BY <1>1 DEF StreamInv, RequestOK
  <2>2. Len(klog[b]) \in Nat
    BY <1>2, SequenceLengths DEF StreamInv, TypeOK
  <2> QED
    BY <2>1, <2>2
<1>4. cur \in [Boards -> Cursor] /\ base \in [Boards -> Cursor]
      /\ got \in [k : [Boards -> SUBSET Nat], d : [Boards -> SUBSET Nat], a : SUBSET Nat]
  BY DEF StreamInv, TypeOK, ClientTypes
<1>5. PICK k \in req.ids \cup {cur[b].k}, d \in LinesRead(b) \cup {cur[b].d},
           a \in ArtifactsRead(b, req.limit) \cup {ArtifactsSince(b)} :
        /\ Advanced(k, cur[b].k, req.ids, Cut("k", Found, Carried))
        /\ Advanced(d, cur[b].d, LinesRead(b), Cut("d", Found, Carried))
        /\ Advanced(a, ArtifactsSince(b), ArtifactsRead(b, req.limit), Cut("a", Found, Carried))
        /\ cur' = [cur EXCEPT ![b] = [k |-> k, d |-> d, a |-> a]]
  BY <1>1 DEF Answer
<1>6. /\ base' = [base EXCEPT ![b].a = IF cur[b].a = Missing THEN ArtifactsSince(b) ELSE @]
      /\ got' = [k |-> [got.k EXCEPT ![b] = @ \cup PositionsIn("k", Carried)],
                 d |-> [got.d EXCEPT ![b] = @ \cup PositionsIn("d", Carried)],
                 a |-> got.a \cup PositionsIn("a", Carried)]
      /\ req' = [phase |-> "answered", board |-> b, events |-> Carried,
                 more |-> HasMore(Found, Carried, req.ids, ArtifactsRead(b, req.limit), req.limit)]
  BY <1>1 DEF Answer
<1>7. /\ cur'[b].k = k /\ cur'[b].d = d /\ cur'[b].a = a
      /\ \A x \in Boards \ {b} : cur'[x] = cur[x]
  BY <1>2, <1>4, <1>5
<1>8. /\ base'[b].k = base[b].k /\ base'[b].d = base[b].d
      /\ base'[b].a = IF cur[b].a = Missing THEN ArtifactsSince(b) ELSE base[b].a
      /\ \A x \in Boards \ {b} : base'[x] = base[x]
  BY <1>2, <1>4, <1>6 DEF Cursor
<1>9. /\ got'.k[b] = got.k[b] \cup PositionsIn("k", Carried)
      /\ got'.d[b] = got.d[b] \cup PositionsIn("d", Carried)
      /\ got'.a = got.a \cup PositionsIn("a", Carried)
      /\ \A x \in Boards \ {b} : got'.k[x] = got.k[x] /\ got'.d[x] = got.d[x]
  BY <1>2, <1>4, <1>6
<1> QED
  BY <1>1, <1>2, <1>3, <1>5, <1>6, <1>7, <1>8, <1>9

\* What a poll finds is a set of events, in the order of their logs.
LEMMA FoundInOrder ==
  ASSUME StreamInv, OrderInv, Respond
  PROVE  /\ EventSet(Found)
         /\ \A e, f \in Found : (e.src = "k" /\ f.src = "k" /\ e.pos <= f.pos) => e.ts <= f.ts
         /\ \A e, f \in Found : (e.src = "d" /\ f.src = "d" /\ e.pos <= f.pos) => e.ts <= f.ts
         /\ \A e \in Found : e.src = "k" => e.pos \in req.ids
         /\ \A e \in Found : e.src = "d" => e.pos \in LinesRead(req.board)
<1> DEFINE b == req.board
<1>1. b \in Boards /\ req.ids \in SUBSET (1..Len(klog[b]))
  BY RespondIs
<1>2. LogTypes /\ ClientTypes
  BY DEF StreamInv, TypeOK
<1>3. EventSet(Found)
  BY <1>1, <1>2, PollsRead DEF Found
<1>4. \A e \in Found :
        /\ e.src = "k" => e.pos \in req.ids /\ e.ts = klog[b][e.pos].ts
        /\ e.src = "d" => e.pos \in LinesRead(b) /\ e.ts = dlog[b][e.pos].ts
  BY EventFields DEF Found
<1>5. /\ DOMAIN klog[b] = 1..Len(klog[b])
      /\ \A n \in LinesRead(b) : n \in DOMAIN dlog[b]
  BY <1>1, <1>2, SequenceLengths DEF LinesRead
<1>6. /\ \A i, j \in DOMAIN klog[b] : i <= j => klog[b][i].ts <= klog[b][j].ts
      /\ \A m, n \in DOMAIN dlog[b] : m <= n => dlog[b][m].ts <= dlog[b][n].ts
  BY <1>1 DEF OrderInv, LogsInOrder
<1> HIDE DEF b
<1>7. \A e \in Found : /\ e.src = "k" => e.pos \in DOMAIN klog[b] /\ e.ts = klog[b][e.pos].ts
                       /\ e.src = "d" => e.pos \in DOMAIN dlog[b] /\ e.ts = dlog[b][e.pos].ts
  BY <1>1, <1>4, <1>5
<1>8. \A e, f \in Found : (e.src = "k" /\ f.src = "k" /\ e.pos <= f.pos) => e.ts <= f.ts
  BY <1>6, <1>7
<1>9. \A e, f \in Found : (e.src = "d" /\ f.src = "d" /\ e.pos <= f.pos) => e.ts <= f.ts
  BY <1>6, <1>7
<1> QED
  BY <1>3, <1>4, <1>8, <1>9 DEF b

\* The new positions are not behind the old, nor before what the answer carries.
LEMMA RespondBehind ==
  ASSUME StreamInv, OrderInv, Respond, NEW x \in Boards
  PROVE  Behind(x)'
<1> DEFINE b == req.board
<1>1. Behind(x) /\ \A y \in Boards : cur[y].k \in Int /\ cur[y].d \in Int /\ base[y].k \in Int /\ base[y].d \in Int
  BY CursorTypes DEF OrderInv, StreamInv, TypeOK
<1>2. CASE x # b
  <2>1. cur'[x] = cur[x] /\ base'[x] = base[x] /\ got'.k[x] = got.k[x] /\ got'.d[x] = got.d[x]
    BY <1>2, RespondIs
  <2> QED
    BY <1>1, <2>1 DEF Behind
<1>3. CASE x = b
  <2>1. /\ b \in Boards /\ req.limit \in Nat \ {0}
        /\ \A i \in req.ids : i \in Int /\ cur[b].k < i
        /\ got'.k[b] = got.k[b] \cup PositionsIn("k", Carried)
        /\ got'.d[b] = got.d[b] \cup PositionsIn("d", Carried)
        /\ base'[b].k = base[b].k /\ base'[b].d = base[b].d
        /\ Advanced(cur'[b].k, cur[b].k, req.ids, Cut("k", Found, Carried))
        /\ Advanced(cur'[b].d, cur[b].d, LinesRead(b), Cut("d", Found, Carried))
    BY RespondIs
  <2>2. /\ EventSet(Found)
        /\ \A e, f \in Found : (e.src = "k" /\ f.src = "k" /\ e.pos <= f.pos) => e.ts <= f.ts
        /\ \A e, f \in Found : (e.src = "d" /\ f.src = "d" /\ e.pos <= f.pos) => e.ts <= f.ts
        /\ \A e \in Found : e.src = "k" => e.pos \in req.ids
        /\ \A e \in Found : e.src = "d" => e.pos \in LinesRead(b)
    BY FoundInOrder
  <2>3. \A n \in LinesRead(b) : n \in Int /\ cur[b].d < n
    BY <2>1, ReadWithin DEF StreamInv, TypeOK
  <2> HIDE DEF b
  <2>4. /\ "k" \in Sources /\ "d" \in Sources
    BY DEF Sources
  <2>5. ASSUME NEW p \in PositionsIn("k", Carried) PROVE p <= cur'[b].k
    BY <2>1, <2>2, <2>4, <2>5, AdvancedCovers DEF Carried
  <2>6. ASSUME NEW p \in PositionsIn("d", Carried) PROVE p <= cur'[b].d
    BY <2>1, <2>2, <2>4, <2>6, AdvancedCovers DEF Carried
  <2>7. /\ cur'[b].k \in Int /\ cur[b].k <= cur'[b].k
        /\ cur'[b].d \in Int /\ cur[b].d <= cur'[b].d
    BY <1>1, <2>1, <2>3 DEF Advanced
  <2>8. /\ \A i \in got.k[b] : i <= cur[b].k /\ i \in Int
        /\ \A n \in got.d[b] : n <= cur[b].d /\ n \in Int
        /\ base[b].k <= cur[b].k /\ base[b].d <= cur[b].d
    <3>1. got.k[b] \subseteq Nat /\ got.d[b] \subseteq Nat
      BY <2>1 DEF StreamInv, TypeOK, ClientTypes
    <3> QED
      BY <1>1, <1>3, <3>1 DEF Behind
  <2>9. cur[b].k \in Int /\ cur[b].d \in Int /\ base[b].k \in Int /\ base[b].d \in Int
    BY <1>1, <2>1
  <2>10. base'[b].k <= cur'[b].k /\ base'[b].d <= cur'[b].d
    BY <2>1, <2>7, <2>8, <2>9
  <2>11. \A i \in got'.k[b] : i <= cur'[b].k
    BY <2>1, <2>5, <2>7, <2>8, <2>9
  <2>12. \A n \in got'.d[b] : n <= cur'[b].d
    BY <2>1, <2>6, <2>7, <2>8, <2>9
  <2> QED
    BY <1>3, <2>10, <2>11, <2>12 DEF Behind
<1> QED
  BY <1>2, <1>3

\* A board that has no cursor has had nothing delivered.
LEMMA NothingYet ==
  ASSUME StreamInv, OrderInv, NEW x \in Boards, cur[x] = NoCursor
  PROVE  got.k[x] = {} /\ got.d[x] = {}
<1>1. cur[x].k = -1 /\ cur[x].d = -1
  BY DEF NoCursor, Missing
<1>2. /\ \A i \in got.k[x] : i \in Nat /\ i <= cur[x].k
      /\ \A n \in got.d[x] : n \in Nat /\ n <= cur[x].d
  BY DEF OrderInv, Behind, StreamInv, TypeOK, ClientTypes
<1> QED
  BY <1>1, <1>2

\* A client that starts, or takes the host-wide log over, is behind nothing.
LEMMA BehindAtStart ==
  ASSUME StreamInv, OrderInv, NEW b \in Boards, Start(b) \/ HandOff(b), NEW x \in Boards
  PROVE  Behind(x)'
<1>0. Behind(x) /\ cur \in [Boards -> Cursor] /\ base \in [Boards -> Cursor] /\ UNCHANGED got
  BY DEF OrderInv, StreamInv, TypeOK, ClientTypes, Start, HandOff
<1>1. CASE x # b
  <2>1. cur'[x] = cur[x] /\ base'[x] = base[x]
    BY <1>0, <1>1 DEF Start, HandOff
  <2> QED
    BY <1>0, <2>1 DEF Behind
<1>2. CASE x = b /\ cur[b] = NoCursor
  <2>1. got'.k[x] = {} /\ got'.d[x] = {}
    BY <1>0, <1>2, NothingYet
  <2>2. cur'[x].k \in Int /\ cur'[x].d \in Int /\ base'[x].k = cur'[x].k /\ base'[x].d = cur'[x].d
    <3>1. cur' \in [Boards -> Cursor]
      BY StartInv, HandOffInv DEF StreamInv, TypeOK, ClientTypes
    <3>2. cur'[x].k \in Int /\ cur'[x].d \in Int
      BY <3>1 DEF Cursor, Position, Missing
    <3>3. CASE Start(b)
      <4>1. base'[x] = cur'[x]
        BY <1>0, <1>2, <3>3 DEF Start
      <4> QED
        BY <3>2, <4>1
    <3>4. CASE HandOff(b)
      <4>1. PICK m \in Present(b) \cup {0} :
              LET merged == Merged([k |-> m, d |-> Len(dlog[b]), a |-> Missing], cur[carrier])
              IN  /\ cur' = [cur EXCEPT ![b] = merged]
                  /\ base' = [base EXCEPT ![b] = [k |-> merged.k, d |-> merged.d, a |-> base[carrier].a]]
        BY <1>2, <3>4 DEF HandOff
      <4>2. base'[b].k = cur'[b].k /\ base'[b].d = cur'[b].d
        BY <1>0, <4>1 DEF Merged
      <4> QED
        BY <1>2, <3>2, <4>2
    <3> QED
      BY <3>2, <3>3, <3>4
  <2> QED
    BY <2>1, <2>2 DEF Behind
<1>3. CASE x = b /\ cur[b] # NoCursor
  <2>1. HandOff(b)
    BY <1>3 DEF Start
  <2>2. cur'[x].k = cur[x].k /\ cur'[x].d = cur[x].d /\ base'[x].k = base[x].k /\ base'[x].d = base[x].d
    BY <1>0, <1>3, <2>1 DEF HandOff, Merged
  <2> QED
    BY <1>0, <2>2 DEF Behind
<1> QED
  BY <1>1, <1>2, <1>3

\* Every step keeps the logs in order and the positions ahead.
LEMMA OrderNext ==
  ASSUME StreamInv, OrderInv, [Next]_vars
  PROVE  OrderInv'
<1>1. \A x \in Boards : LogsInOrder(x)' /\ DeletedStay(x)'
  BY LogsNext DEF StreamInv, TypeOK
<1>2. ASSUME UNCHANGED <<cur, base, got>>
      PROVE  \A x \in Boards : Behind(x)'
  BY <1>2 DEF OrderInv, Behind
<1>3. CASE UNCHANGED <<cur, base, got, req>>
  <2>1. PageOK'
    BY <1>3, PageStays
  <2> QED
    BY <1>1, <1>2, <1>3, <2>1 DEF OrderInv
<1>4. ASSUME NEW b \in Boards, Start(b) \/ HandOff(b)
      PROVE  OrderInv'
  <2>1. ~Polling'
    BY <1>4 DEF Start, HandOff, Polling
  <2> QED
    BY <1>1, <1>4, <2>1, BehindAtStart DEF OrderInv, PageOK
<1>5. ASSUME NEW b \in Boards, NEW limit \in Limits, ReadBoard(b, limit)
      PROVE  OrderInv'
  <2>1. UNCHANGED <<cur, base, got>>
    BY <1>5 DEF ReadBoard
  <2> QED
    BY <1>1, <1>2, <1>5, <2>1, ReadBoardPage DEF OrderInv
<1>6. CASE LoseAnswer
  <2>1. UNCHANGED <<cur, base, got>> /\ ~Polling'
    BY <1>6 DEF LoseAnswer, Polling, Idle
  <2> QED
    BY <1>1, <1>2, <2>1 DEF OrderInv, PageOK
<1>7. CASE Respond
  <2>1. ~Polling'
    BY <1>7, RespondIs DEF Polling
  <2> QED
    BY <1>1, <1>7, <2>1, RespondBehind DEF OrderInv, PageOK
<1>8. \/ UNCHANGED <<cur, base, got, req>>
      \/ \E b \in Boards : Start(b) \/ HandOff(b)
      \/ \E b \in Boards, limit \in Limits : ReadBoard(b, limit)
      \/ LoseAnswer
      \/ Respond
  <2>1. UNCHANGED client => UNCHANGED <<cur, base, got, req>>
    BY DEF client
  <2>2. Tick => UNCHANGED client
    BY DEF Tick
  <2>3. \A b \in Boards, c \in Cards, kind \in RowKinds : AppendRow(b, c, kind) => UNCHANGED client
    BY DEF AppendRow
  <2>4. \A b \in Boards, c \in Cards : EraseCard(b, c) \/ LogDeletion(b, c) => UNCHANGED client
    BY DEF EraseCard, LogDeletion
  <2> QED
    BY <2>1, <2>2, <2>3, <2>4, StepsAre
<1> QED
  BY <1>3, <1>4, <1>5, <1>6, <1>7, <1>8

\* Logs are in the order of their times, cursors are ahead of what has been
\* delivered, and a page that is not full is all there was, in every reachable state.
THEOREM OrderInvariant == Spec => [](StreamInv /\ OrderInv)
<1>1. Init => StreamInv /\ OrderInv
  BY InitInv, InitOrder
<1>2. StreamInv /\ OrderInv /\ [Next]_vars => (StreamInv /\ OrderInv)'
  BY NextInv, OrderNext
<1> QED
  BY <1>1, <1>2, PTL DEF Spec

-----------------------------------------------------------------------------
(* What an answer tells the client *)

\* Only Respond answers.
LEMMA AnswersOnly ==
  ASSUME [Next]_vars, Answered
  PROVE  Respond
<1>1. req.phase = "reading" /\ req'.phase = "answered"
  BY DEF Answered
<1>2. req' # req
  BY <1>1
<1>3. Polling
  BY <1>1 DEF Polling
<1>4. \A b \in Boards : ~Start(b) /\ ~HandOff(b) /\ \A limit \in Limits : ~ReadBoard(b, limit)
  BY <1>3 DEF Start, HandOff, ReadBoard
<1>5. ~LoseAnswer
  BY <1>1 DEF LoseAnswer, Idle
<1>6. UNCHANGED client => UNCHANGED req
  BY DEF client
<1>7. Tick => UNCHANGED client
  BY DEF Tick
<1>8. \A b \in Boards, c \in Cards, kind \in RowKinds : AppendRow(b, c, kind) => UNCHANGED client
  BY DEF AppendRow
<1>9. \A b \in Boards, c \in Cards : EraseCard(b, c) \/ LogDeletion(b, c) => UNCHANGED client
  BY DEF EraseCard, LogDeletion
<1> QED
  BY <1>2, <1>4, <1>5, <1>6, <1>7, <1>8, <1>9, StepsAre

\* No answer carries an event of a board that an earlier answer carried, nor
\* one that lies before the place where the client started: the position has
\* moved over all that was carried, because a log is in the order of its times
\* and the cut never falls within a row (advance_kanban, advance_deleted).
THEOREM NoRepeats == Spec => NoRepeatOnBoard
<1>1. ASSUME StreamInv, OrderInv, [Next]_vars, Answered, NEW b, b = req.board, NEW e \in req'.events
      PROVE  /\ e.src = "k" => e.pos > base[b].k /\ e.pos \notin got.k[b]
             /\ e.src = "d" => e.pos > base[b].d /\ e.pos \notin got.d[b]
  <2>1. Respond
    BY <1>1, AnswersOnly
  <2>2. b \in Boards /\ e \in Found /\ \A i \in req.ids : i \in Int /\ cur[b].k < i
    BY <1>1, <2>1, RespondIs, EmittedIsRead DEF Carried
  <2>3. /\ e.src = "k" => e.pos \in req.ids
        /\ e.src = "d" => e.pos \in LinesRead(b)
    BY <1>1, <2>1, <2>2, FoundInOrder
  <2>4. \A n \in LinesRead(b) : n \in Int /\ cur[b].d < n
    BY <1>1, <2>2, ReadWithin DEF StreamInv, TypeOK
  <2>5. Behind(b) /\ cur[b].k \in Int /\ cur[b].d \in Int /\ base[b].k \in Int /\ base[b].d \in Int
    BY <1>1, <2>2, CursorTypes DEF OrderInv, StreamInv, TypeOK
  <2>6. got.k[b] \subseteq Nat /\ got.d[b] \subseteq Nat
    BY <1>1, <2>2 DEF StreamInv, TypeOK, ClientTypes
  <2>7. ASSUME e.src = "k" PROVE e.pos > base[b].k /\ e.pos \notin got.k[b]
    <3>1. e.pos \in Int /\ cur[b].k < e.pos
      BY <2>2, <2>3, <2>7
    <3> QED
      BY <2>5, <2>6, <3>1 DEF Behind
  <2>8. ASSUME e.src = "d" PROVE e.pos > base[b].d /\ e.pos \notin got.d[b]
    <3>1. e.pos \in Int /\ cur[b].d < e.pos
      BY <2>3, <2>4, <2>8
    <3> QED
      BY <2>5, <2>6, <3>1 DEF Behind
  <2> QED
    BY <2>7, <2>8
<1>2. StreamInv /\ OrderInv /\ [Next]_vars =>
        [Answered => LET b == req.board
                     IN  \A e \in req'.events :
                           /\ e.src = "k" => e.pos > base[b].k /\ e.pos \notin got.k[b]
                           /\ e.src = "d" => e.pos > base[b].d /\ e.pos \notin got.d[b]]_vars
  BY <1>1
<1> QED
  BY <1>2, OrderInvariant, PTL DEF Spec, NoRepeatOnBoard

\* The events of one row that an answer carries: all that the row tells.
LEMMA RowWhole ==
  ASSUME StreamInv, OrderInv, Respond, NEW e \in Carried, e.src = "k"
  PROVE  Cardinality({f \in Carried : f.src = "k" /\ f.pos = e.pos}) = IF e.pos \in req.pairs THEN 2 ELSE 1
<1> DEFINE b == req.board
           p == e.pos
           own == {f \in Carried : f.src = "k" /\ f.pos = p}
           one == RowEvent(b, p, 0)
           two == RowEvent(b, p, 1)
<1>1. e \in Found /\ EventSet(Found) /\ req.limit \in Nat \ {0}
  BY EmittedIsRead, FoundInOrder, RespondIs DEF Carried
<1>2. p \in req.ids /\ klog[b][p].kind # "quiet"
  BY <1>1, EventFields DEF Found
<1>3. one \in Found /\ (p \in req.pairs => two \in Found)
  BY <1>2, EventsAre DEF Found
<1>4. one.src = "k" /\ one.pos = p /\ two.src = "k" /\ two.pos = p /\ one # two
  BY DEF RowEvent
<1>5. one \in own /\ (p \in req.pairs => two \in own)
  BY <1>1, <1>3, <1>4, EmittedIsPrefix DEF Carried
<1>6. ASSUME NEW f \in own PROVE f = one \/ (f = two /\ p \in req.pairs)
  <2>1. f \in Found /\ f.src = "k" /\ f.pos = p
    BY EmittedIsRead DEF Carried
  <2>2. f = RowEvent(b, f.pos, f.sub) /\ f.sub \in {0, 1} /\ (f.sub = 1 => f.pos \in req.pairs)
    BY <2>1, EventFields DEF Found
  <2> QED
    BY <2>1, <2>2
<1> HIDE DEF own, one, two, p
<1>7. CASE p \in req.pairs
  <2>0. one \in own /\ two \in own
    BY <1>5, <1>7
  <2>1. own = {one} \cup {two}
    BY <1>6, <2>0
  <2>2. Cardinality(own) = 2
    BY <1>4, <2>1, TwoOf
  <2> QED
    BY <1>7, <2>2 DEF own, p
<1>8. CASE p \notin req.pairs
  <2>1. own = {one}
    BY <1>5, <1>6, <1>8
  <2>2. Cardinality(own) = 1
    BY <2>1, FS_Singleton
  <2> QED
    BY <1>8, <2>2 DEF own, p
<1> QED
  BY <1>7, <1>8

\* An answer carries at most `limit` events, and one more only when it is the
\* two events of one row; the two events of a row are never in two answers
\* (_cut, events.py).
THEOREM PairsStayWhole == Spec => PairsWhole
<1>1. ASSUME StreamInv, OrderInv, [Next]_vars, Answered
      PROVE  /\ \/ Cardinality(req'.events) <= req.limit
                \/ /\ req.limit = 1 /\ Cardinality(req'.events) = 2
                   /\ \A e, f \in req'.events : e.src = "k" /\ f.src = "k" /\ e.pos = f.pos
             /\ \A e \in {x \in req'.events : x.src = "k"} :
                  Cardinality({f \in req'.events : f.src = "k" /\ f.pos = e.pos})
                    = IF e.pos \in req.pairs THEN 2 ELSE 1
  <2>1. Respond
    BY <1>1, AnswersOnly
  <2>2. req'.events = Carried /\ req.limit \in Nat \ {0} /\ EventSet(Found)
    BY <1>1, <2>1, RespondIs, FoundInOrder
  <2>3. \/ Cardinality(Carried) <= req.limit
        \/ /\ req.limit = 1 /\ Cardinality(Carried) = 2
           /\ \A e, f \in Carried : e.src = "k" /\ f.src = "k" /\ e.pos = f.pos
    BY <2>2, EmittedSize DEF Carried
  <2>4. \A e \in {x \in Carried : x.src = "k"} :
          Cardinality({f \in Carried : f.src = "k" /\ f.pos = e.pos}) = IF e.pos \in req.pairs THEN 2 ELSE 1
    BY <1>1, <2>1, RowWhole
  <2> HIDE DEF Carried
  <2> QED
    BY <2>2, <2>3, <2>4
<1>2. StreamInv /\ OrderInv /\ [Next]_vars =>
        [Answered =>
           /\ \/ Cardinality(req'.events) <= req.limit
              \/ /\ req.limit = 1 /\ Cardinality(req'.events) = 2
                 /\ \A e, f \in req'.events : e.src = "k" /\ f.src = "k" /\ e.pos = f.pos
           /\ \A e \in {x \in req'.events : x.src = "k"} :
                Cardinality({f \in req'.events : f.src = "k" /\ f.pos = e.pos})
                  = IF e.pos \in req.pairs THEN 2 ELSE 1]_vars
  BY <1>1
<1> QED
  BY <1>2, OrderInvariant, PTL DEF Spec, PairsWhole

\* A row of a card sorts before the line that tells of its deletion.
LEMMA RowBeforeLine ==
  ASSUME StreamInv, OrderInv, Respond, NEW e \in Found, NEW f \in Found,
         e.src = "k", f.src = "d", f.card = e.card
  PROVE  Before(e, f)
<1> DEFINE b == req.board
<1>1. b \in Boards /\ req.ids \subseteq 1..Len(klog[b])
  BY RespondIs
<1>2. e.pos \in req.ids /\ e.ts = klog[b][e.pos].ts /\ e.card = klog[b][e.pos].card
  BY EventFields DEF Found
<1>3. f.pos \in LinesRead(b) /\ f.ts = dlog[b][f.pos].ts /\ f.card = dlog[b][f.pos].card
  BY EventFields DEF Found
<1>4. e.pos \in DOMAIN klog[b] /\ f.pos \in DOMAIN dlog[b]
  BY <1>1, <1>2, <1>3, SequenceLengths DEF LinesRead, StreamInv, TypeOK
<1>5. e.ts <= f.ts
  BY <1>1, <1>2, <1>3, <1>4 DEF OrderInv, DeletedStay
<1>6. e.ts \in Nat /\ f.ts \in Nat
  BY FoundInOrder DEF EventSet
<1> QED
  BY <1>5, <1>6, RankOfSource DEF Before

\* Events that are carried are events.
LEMMA CarriedEvents ==
  ASSUME NEW E, EventSet(E), NEW F, F \subseteq E
  PROVE  EventSet(F)
BY FS_Subset DEF EventSet

\* The deletion of a card is the last thing the client hears of it: no answer
\* carries a row of the card later, nor behind the deletion in the same answer,
\* also when the card is deleted between the two reads of a poll.
THEOREM DeletedLast == Spec => DeletionIsLast
<1>1. ASSUME StreamInv, OrderInv, [Next]_vars, Answered, NEW e \in req'.events, e.src = "k"
      PROVE  /\ \A n \in got.d[req.board] : dlog[req.board][n].card # e.card
             /\ \A f \in req'.events : (f.src = "d" /\ f.card = e.card) =>
                  Rank(e, req'.events) < Rank(f, req'.events)
  <2>1. Respond
    BY <1>1, AnswersOnly
  <2>2. req'.events = Carried /\ Polling /\ EventSet(Found) /\ Carried \subseteq Found
    BY <1>1, <2>1, RespondIs, FoundInOrder, EmittedIsRead DEF Carried
  <2>3. e \in Found /\ e.pos \in req.ids /\ e.card = klog[req.board][e.pos].card
    BY <1>1, <2>2, EventFields DEF Found
  <2>4. \A n \in got.d[req.board] : dlog[req.board][n].card # e.card
    BY <1>1, <2>2, <2>3 DEF OrderInv, PageOK
  <2>5. EventSet(Carried)
    BY <2>2, CarriedEvents
  <2>6. ASSUME NEW f \in Carried, f.src = "d", f.card = e.card
        PROVE  Rank(e, Carried) < Rank(f, Carried)
    <3>1. Before(e, f)
      BY <1>1, <2>1, <2>2, <2>3, <2>6, RowBeforeLine
    <3> QED
      BY <1>1, <2>2, <2>5, <3>1, RankOrders
  <2> HIDE DEF Carried
  <2> QED
    BY <2>2, <2>4, <2>6
<1>2. StreamInv /\ OrderInv /\ [Next]_vars =>
        [Answered =>
           \A e \in {x \in req'.events : x.src = "k"} :
             /\ \A n \in got.d[req.board] : dlog[req.board][n].card # e.card
             /\ \A f \in req'.events : (f.src = "d" /\ f.card = e.card) =>
                  Rank(e, req'.events) < Rank(f, req'.events)]_vars
  BY <1>1
<1> QED
  BY <1>2, OrderInvariant, PTL DEF Spec, DeletionIsLast

\* An answer that says there is no more leaves nothing behind: all that was in
\* the logs when they were read is delivered now (has_more, events.py).
THEOREM NoMoreIsAll == Spec => NoMoreMeansAll
<1>1. ASSUME StreamInv, OrderInv, [Next]_vars, Answered, ~req'.more, NEW b, b = req.board
      PROVE  /\ \A i \in Present(b) :
                  (base[b].k < i /\ i <= req.end /\ klog[b][i].kind # "quiet") => i \in got'.k[b]
             /\ \A n \in DOMAIN dlog[b] : base[b].d < n => n \in got'.d[b]
             /\ carrier = b => \A i \in Chosen : base'[b].a < i => i \in got'.a
  <2> DEFINE lines == LinesRead(b)
             since == ArtifactsSince(b)
             as == ArtifactsRead(b, req.limit)
  <2>1. Respond
    BY <1>1, AnswersOnly
  <2>2. /\ Polling /\ b \in Boards /\ req.limit \in Nat \ {0}
        /\ req'.more = HasMore(Found, Carried, req.ids, as, req.limit)
        /\ got'.k[b] = got.k[b] \cup PositionsIn("k", Carried)
        /\ got'.d[b] = got.d[b] \cup PositionsIn("d", Carried)
        /\ got'.a = got.a \cup PositionsIn("a", Carried)
        /\ base'[b].a = IF cur[b].a = Missing THEN since ELSE base[b].a
    BY <1>1, <2>1, RespondIs
  <2>3. Carried = Found /\ ~(Cardinality(req.ids) > req.limit) /\ ~(Cardinality(as) > req.limit)
    BY <1>1, <2>2 DEF HasMore
  <2>4. /\ \A i \in req.ids : klog[b][i].kind # "quiet" => i \in PositionsIn("k", Carried)
        /\ \A n \in lines : n \in PositionsIn("d", Carried)
        /\ \A i \in as : i \in PositionsIn("a", Carried)
    BY <1>1, <2>3, EventsReadSources DEF Found, PositionsIn
  <2>5. LogTypes /\ ClientTypes /\ NoGapOnBoard(b) /\ NoGapInArtifacts(b)
    BY <1>1, <2>2 DEF StreamInv, TypeOK, NoGap
  <2>6. /\ cur[b].k \in Int /\ cur[b].d \in Int /\ cur[b].a \in Int
        /\ Len(alog) \in Nat /\ DOMAIN alog = 1..Len(alog)
    BY <2>2, <2>5, CursorTypes, SequenceLengths
  <2>7. Present(b) \subseteq Int /\ DOMAIN dlog[b] \subseteq Int /\ Chosen \in SUBSET (1..Len(alog))
    BY <2>2, <2>5, <2>6, SequenceLengths DEF Present, Chosen
  <2>8. ASSUME NEW i \in Present(b), base[b].k < i, i <= req.end, klog[b][i].kind # "quiet"
        PROVE  i \in got'.k[b]
    <3>1. CASE i <= cur[b].k
      BY <2>2, <2>5, <2>8, <3>1 DEF NoGapOnBoard
    <3>2. CASE cur[b].k < i
      <4>1. IsFiniteSet(req.ids)
        <5>1. req.ids \in SUBSET (1..Len(klog[b]))
          BY <1>1, <2>1, RespondIs
        <5>2. Len(klog[b]) \in Int
          BY <2>2, <2>5, SequenceLengths
        <5>3. IsFiniteSet(1..Len(klog[b]))
          BY <5>2, FS_Interval
        <5> QED
          BY <5>1, <5>3, FS_Subset
      <4>2. Cardinality(req.ids) <= req.limit
        BY <2>2, <2>3, <4>1, FS_CardinalityType
      <4>3. i \in req.ids
        BY <1>1, <2>2, <2>8, <3>2, <4>2 DEF OrderInv, PageOK
      <4> QED
        BY <2>2, <2>4, <2>8, <4>3
    <3> QED
      BY <2>6, <2>7, <3>1, <3>2
  <2>9. ASSUME NEW n \in DOMAIN dlog[b], base[b].d < n
        PROVE  n \in got'.d[b]
    <3>1. CASE n <= cur[b].d
      BY <2>2, <2>5, <2>9, <3>1 DEF NoGapOnBoard
    <3>2. CASE cur[b].d < n
      <4>1. n \in lines
        BY <2>7, <3>2 DEF LinesRead
      <4> QED
        BY <2>2, <2>4, <4>1
    <3> QED
      BY <2>6, <2>7, <3>1, <3>2
  <2>10. ASSUME carrier = b, NEW i \in Chosen, base'[b].a < i
         PROVE  i \in got'.a
    <3>1. i \in Int /\ since \in Int
      BY <2>6, <2>7 DEF ArtifactsSince
    <3>2. CASE i <= since
      <4>1. cur[b].a # Missing /\ since = cur[b].a
        BY <2>2, <2>10, <3>1, <3>2 DEF ArtifactsSince
      <4> QED
        BY <2>2, <2>5, <2>10, <3>2, <4>1 DEF NoGapInArtifacts
    <3>3. CASE since < i
      <4>1. as = TailOf(Chosen, since, req.limit + 1) /\ req.limit + 1 \in Nat
        BY <2>2, <2>10 DEF ArtifactsRead
      <4>2. IsFiniteSet(as)
        <5>1. as \in SUBSET (1..Len(alog)) /\ IsFiniteSet(1..Len(alog))
          BY <2>2, <2>5, <2>6, ReadWithin, FS_Interval
        <5> QED
          BY <5>1, FS_Subset
      <4>3. Cardinality(as) < req.limit + 1
        BY <2>2, <2>3, <4>2, FS_CardinalityType
      <4> HIDE DEF since, as
      <4>4. i \in as
        BY <2>6, <2>7, <3>1, <3>3, <4>1, <4>3, ShortPageIsAll
      <4> QED
        BY <2>2, <2>4, <4>4
    <3> QED
      BY <3>1, <3>2, <3>3
  <2> QED
    BY <2>8, <2>9, <2>10
<1>2. StreamInv /\ OrderInv /\ [Next]_vars =>
        [(Answered /\ ~req'.more) =>
           LET b == req.board
           IN  /\ \A i \in Present(b) :
                    (base[b].k < i /\ i <= req.end /\ klog[b][i].kind # "quiet") => i \in got'.k[b]
               /\ \A n \in DOMAIN dlog[b] : base[b].d < n => n \in got'.d[b]
               /\ carrier = b => \A i \in Chosen : base'[b].a < i => i \in got'.a]_vars
  BY <1>1
<1> QED
  BY <1>2, OrderInvariant, PTL DEF Spec, NoMoreMeansAll

-----------------------------------------------------------------------------
(* The host-wide log, written by one store *)

\* The artifact events have the times that their store has read, and a store
\* that waits for the lock has read a time that no event is later than.
ArtifactsInOrder ==
  /\ \A i, j \in DOMAIN alog : i <= j => alog[i].ts <= alog[j].ts
  /\ \A i \in DOMAIN alog : alog[i].ts <= now
  /\ \A w \in Writers : writer[w] # Missing =>
       writer[w] <= now /\ \A i \in DOMAIN alog : alog[i].ts <= writer[w]

\* What has been delivered of the host-wide log lies before the position of
\* the board that carries it.
CarrierAhead == \A i \in got.a : carrier # NoBoard /\ i <= cur[carrier].a

StoreInv == ArtifactsInOrder /\ CarrierAhead

\* The steps of Next, by what they do to the host-wide log and its readers.
LEMMA StoreSteps ==
  ASSUME [Next]_vars
  PROVE  /\ \/ Tick
            \/ \E w \in Writers : ReadClock(w) \/ AbandonArtifact(w)
            \/ \E w \in Writers, kind \in Kinds : CommitArtifact(w, kind)
            \/ UNCHANGED <<now, alog, writer>>
         /\ \/ UNCHANGED <<cur, carrier, got>>
            \/ \E b \in Boards : Start(b) \/ OptIn(b) \/ HandOff(b)
            \/ Respond
<1>1. Tick => UNCHANGED <<cur, carrier, got>>
  BY DEF Tick, client
<1>2. \A b \in Boards, c \in Cards, kind \in RowKinds :
        AppendRow(b, c, kind) => UNCHANGED <<now, alog, writer, cur, carrier, got>>
  BY DEF AppendRow, client
<1>3. \A b \in Boards, c \in Cards :
        EraseCard(b, c) \/ LogDeletion(b, c) => UNCHANGED <<now, alog, writer, cur, carrier, got>>
  BY DEF EraseCard, LogDeletion, client
<1>4. \A w \in Writers : ReadClock(w) \/ AbandonArtifact(w) => UNCHANGED <<cur, carrier, got>>
  BY DEF ReadClock, AbandonArtifact, client
<1>5. \A w \in Writers, kind \in Kinds : CommitArtifact(w, kind) => UNCHANGED <<cur, carrier, got>>
  BY DEF CommitArtifact, client
<1>6. \A b \in Boards : Start(b) \/ OptIn(b) \/ HandOff(b) => UNCHANGED <<now, alog, writer>>
  BY DEF Start, OptIn, HandOff, server
<1>7. \A b \in Boards, limit \in Limits : ReadBoard(b, limit) => UNCHANGED <<now, alog, writer, cur, carrier, got>>
  BY DEF ReadBoard, server
<1>8. Respond => UNCHANGED <<now, alog, writer>>
  BY DEF Respond, server
<1>9. LoseAnswer => UNCHANGED <<now, alog, writer, cur, carrier, got>>
  BY DEF LoseAnswer, server
<1>10. UNCHANGED vars => UNCHANGED <<now, alog, writer, cur, carrier, got>>
  BY DEF vars
<1> QED
  BY <1>1, <1>2, <1>3, <1>4, <1>5, <1>6, <1>7, <1>8, <1>9, <1>10, Zenon DEF Next

\* One store alone commits its events in the order in which it reads the clock.
LEMMA StoreInOrder ==
  ASSUME LogTypes, ArtifactsInOrder, [Next]_vars, \A v, w \in Writers : v = w
  PROVE  ArtifactsInOrder'
<1>1. /\ now \in Int /\ alog \in Seq(Artifact)
      /\ \A i \in DOMAIN alog : alog[i].ts \in Int
      /\ writer \in [Writers -> 0..MaxClock \cup {Missing}]
      /\ \A w \in Writers : writer[w] # Missing => writer[w] \in Int
  <2>1. \A i \in DOMAIN alog : alog[i] \in Artifact
    BY DEF LogTypes
  <2> QED
    BY <2>1 DEF LogTypes, Artifact
<1>2. CASE UNCHANGED <<now, alog, writer>>
  BY <1>2 DEF ArtifactsInOrder
<1>3. CASE Tick
  <2>1. now' = now + 1 /\ UNCHANGED <<alog, writer>>
    BY <1>3 DEF Tick
  <2> QED
    BY <1>1, <2>1 DEF ArtifactsInOrder
<1>4. ASSUME NEW w \in Writers, ReadClock(w) \/ AbandonArtifact(w)
      PROVE  ArtifactsInOrder'
  <2>1. /\ UNCHANGED <<now, alog>>
        /\ writer' = [writer EXCEPT ![w] = now] \/ writer' = [writer EXCEPT ![w] = Missing]
    BY <1>4 DEF ReadClock, AbandonArtifact
  <2>2. \A v \in Writers : writer'[v] = writer[v] \/ writer'[v] = now \/ writer'[v] = Missing
    BY <1>1, <2>1
  <2> QED
    BY <1>1, <2>1, <2>2 DEF ArtifactsInOrder
<1>5. ASSUME NEW w \in Writers, NEW kind \in Kinds, CommitArtifact(w, kind)
      PROVE  ArtifactsInOrder'
  <2> DEFINE entry == [ts |-> writer[w], kind |-> kind]
  <2>1. /\ writer[w] # Missing /\ alog' = Append(alog, entry)
        /\ writer' = [writer EXCEPT ![w] = Missing] /\ UNCHANGED now
    BY <1>5 DEF CommitArtifact
  <2>2. entry \in Artifact /\ entry.ts = writer[w]
    BY <1>1, <2>1 DEF Artifact
  <2>3. writer[w] \in Int /\ writer[w] <= now /\ \A i \in DOMAIN alog : alog[i].ts <= writer[w]
    BY <1>1, <2>1 DEF ArtifactsInOrder
  <2> HIDE DEF entry
  <2>4. \A v \in Writers : writer'[v] = Missing
    BY <1>1, <2>1
  <2>5. /\ \A i \in DOMAIN alog' : alog'[i].ts <= writer[w]
        /\ \A i, j \in DOMAIN alog' : i <= j => alog'[i].ts <= alog'[j].ts
    BY <1>1, <2>1, <2>2, <2>3, AppendInOrder DEF ArtifactsInOrder
  <2>6. \A i \in DOMAIN alog' : alog'[i].ts \in Int
    BY <1>1, <2>1, <2>2, <2>3
  <2> QED
    BY <1>1, <2>1, <2>3, <2>4, <2>5, <2>6 DEF ArtifactsInOrder
<1> QED
  BY <1>2, <1>3, <1>4, <1>5, StoreSteps

\* Artifact events of a poll: those of a poll on the carrier, behind the
\* carrier's position, in the order of their times.
LEMMA ArtifactsFound ==
  ASSUME StreamInv, StoreInv, Respond, NEW b, b = req.board
  PROVE  /\ \A e \in Found : e.src = "a" => e.pos \in ArtifactsRead(b, req.limit)
         /\ \A e, f \in Found : (e.src = "a" /\ f.src = "a" /\ e.pos <= f.pos) => e.ts <= f.ts
         /\ \A i \in ArtifactsRead(b, req.limit) : /\ i \in Int /\ carrier = b /\ ArtifactsSince(b) < i
                                                   /\ i \in DOMAIN alog
         /\ ArtifactsSince(b) \in Int /\ cur[b].a \in Int
         /\ carrier = b => cur[b].a <= ArtifactsSince(b)
<1>1. b \in Boards /\ LogTypes /\ ClientTypes
  BY RespondIs DEF StreamInv, TypeOK
<1>2. \A e \in Found : e.src = "a" => e.pos \in ArtifactsRead(b, req.limit) /\ e.ts = alog[e.pos].ts
  BY EventFields DEF Found
<1>3. /\ Len(alog) \in Nat /\ DOMAIN alog = 1..Len(alog)
      /\ ArtifactsRead(b, req.limit) \subseteq 1..Len(alog)
  BY <1>1, SequenceLengths, ReadWithin
<1>4. cur[b].a \in Int /\ (cur[b].a = Missing \/ cur[b].a \in Nat)
  BY <1>1, CursorTypes DEF ClientTypes, Cursor, Position
<1>5. ArtifactsSince(b) \in Int /\ (carrier = b => cur[b].a <= ArtifactsSince(b))
  BY <1>3, <1>4 DEF ArtifactsSince, Missing
<1>6. \A i \in ArtifactsRead(b, req.limit) : carrier = b /\ ArtifactsSince(b) < i
  BY DEF ArtifactsRead, TailOf
<1>7. \A i \in ArtifactsRead(b, req.limit) : i \in Int /\ i \in DOMAIN alog
  BY <1>3
<1>8. \A e, f \in Found : (e.src = "a" /\ f.src = "a" /\ e.pos <= f.pos) => e.ts <= f.ts
  BY <1>2, <1>7 DEF StoreInv, ArtifactsInOrder
<1> QED
  BY <1>2, <1>4, <1>5, <1>6, <1>7, <1>8

\* The carrier's position stays ahead of what has been delivered: it moves over
\* what an answer carries, and goes with the log to the next carrier.
LEMMA CarrierNext ==
  ASSUME StreamInv, OrderInv, StoreInv, [Next]_vars
  PROVE  CarrierAhead'
<1>1. /\ cur \in [Boards -> Cursor] /\ got.a \subseteq Nat /\ CarrierAhead
      /\ carrier \in Boards \cup {NoBoard}
      /\ \A x \in Boards : cur[x].a \in Int
  BY CursorTypes DEF StreamInv, TypeOK, ClientTypes, StoreInv
<1>2. CASE UNCHANGED <<cur, carrier, got>>
  BY <1>1, <1>2 DEF CarrierAhead
<1>3. ASSUME NEW b \in Boards, Start(b)
      PROVE  CarrierAhead'
  <2>1. UNCHANGED <<carrier, got>> /\ cur[b] = NoCursor
    BY <1>3 DEF Start
  <2>2. CASE carrier = b
    <3>1. cur[b].a = -1
      BY <2>1 DEF NoCursor, Missing
    <3>2. got.a = {}
      BY <1>1, <2>2, <3>1 DEF CarrierAhead
    <3> QED
      BY <2>1, <3>2 DEF CarrierAhead
  <2>3. CASE carrier # b
    <3>1. \A x \in Boards \ {b} : cur'[x] = cur[x]
      BY <1>1, <1>3 DEF Start
    <3> QED
      BY <1>1, <2>1, <2>3, <3>1 DEF CarrierAhead
  <2> QED
    BY <2>2, <2>3
<1>4. ASSUME NEW b \in Boards, OptIn(b)
      PROVE  CarrierAhead'
  <2>1. carrier = NoBoard /\ UNCHANGED got
    BY <1>4 DEF OptIn
  <2> QED
    BY <1>1, <2>1 DEF CarrierAhead
<1>5. ASSUME NEW b \in Boards, HandOff(b)
      PROVE  CarrierAhead'
  <2>1. carrier' = b /\ UNCHANGED got /\ carrier \in Boards /\ b # NoBoard
    BY <1>1, <1>5, StreamAssumption DEF HandOff
  <2>2. PICK m \in Present(b) \cup {0} :
          cur' = [cur EXCEPT ![b] = Merged(IF cur[b] # NoCursor THEN cur[b]
                                            ELSE [k |-> m, d |-> Len(dlog[b]), a |-> Missing], cur[carrier])]
    BY <1>5 DEF HandOff
  <2>3. cur'[b].a = cur[carrier].a
    BY <1>1, <2>2 DEF Merged
  <2> QED
    BY <1>1, <2>1, <2>3 DEF CarrierAhead
<1>6. CASE Respond
  <2> DEFINE b == req.board
             as == ArtifactsRead(b, req.limit)
  <2>1. /\ b \in Boards /\ req.limit \in Nat \ {0} /\ carrier' = carrier
        /\ got'.a = got.a \cup PositionsIn("a", Carried)
        /\ Advanced(cur'[b].a, ArtifactsSince(b), as, Cut("a", Found, Carried))
        /\ \A x \in Boards \ {b} : cur'[x] = cur[x]
    BY <1>6, RespondIs
  <2>2. /\ \A e \in Found : e.src = "a" => e.pos \in as
        /\ \A e, f \in Found : (e.src = "a" /\ f.src = "a" /\ e.pos <= f.pos) => e.ts <= f.ts
        /\ \A i \in as : i \in Int /\ carrier = b /\ ArtifactsSince(b) < i
        /\ ArtifactsSince(b) \in Int /\ cur[b].a \in Int
        /\ carrier = b => cur[b].a <= ArtifactsSince(b)
    BY <1>6, ArtifactsFound
  <2>3. EventSet(Found) /\ "a" \in Sources
    BY <1>6, FoundInOrder DEF Sources
  <2> HIDE DEF b, as
  <2>4. \A p \in PositionsIn("a", Carried) : p \in as
    BY <2>2, EmittedIsRead DEF PositionsIn, Carried
  <2>5. ASSUME NEW p \in PositionsIn("a", Carried) PROVE p <= cur'[b].a
    BY <2>1, <2>2, <2>3, <2>5, AdvancedCovers DEF Carried
  <2>6. cur'[b].a \in Int /\ ArtifactsSince(b) <= cur'[b].a
    <3>1. cur'[b].a \in as \/ cur'[b].a = ArtifactsSince(b)
      BY <2>1 DEF Advanced
    <3>2. CASE cur'[b].a \in as
      <4>1. cur'[b].a \in Int /\ ArtifactsSince(b) < cur'[b].a
        BY <2>2, <3>2, Zenon
      <4>2. ArtifactsSince(b) \in Int
        BY <2>2
      <4> QED
        BY <4>1, <4>2
    <3>3. CASE cur'[b].a = ArtifactsSince(b)
      <4>1. ArtifactsSince(b) \in Int
        BY <2>2
      <4> QED
        BY <3>3, <4>1
    <3> QED
      BY <3>1, <3>2, <3>3
  <2>7. CASE carrier = b
    <3>1. b # NoBoard
      BY <2>1, StreamAssumption
    <3>2. \A i \in got.a : i <= cur'[b].a
      BY <1>1, <2>2, <2>6, <2>7 DEF CarrierAhead
    <3> QED
      BY <2>1, <2>5, <2>7, <3>1, <3>2 DEF CarrierAhead
  <2>8. CASE carrier # b
    <3>1. got'.a = got.a
      BY <2>1, <2>2, <2>4, <2>8
    <3> QED
      BY <1>1, <2>1, <2>8, <3>1 DEF CarrierAhead
  <2> QED
    BY <2>7, <2>8
<1> QED
  BY <1>2, <1>3, <1>4, <1>5, <1>6, StoreSteps

\* Where one store writes, no answer carries an artifact event that an earlier
\* answer carried, on whatever board, also across a handoff
\* (advance_artifacts, handoff).  With two stores the times may go back, and
\* an event that was cut off is carried again.
THEOREM ArtifactsOnce ==
  ASSUME \A v, w \in Writers : v = w
  PROVE  Spec => NoRepeatOfArtifacts
<1>1. Init => StoreInv
  BY DEF Init, StoreInv, ArtifactsInOrder, CarrierAhead
<1>2. StreamInv /\ OrderInv /\ StoreInv /\ [Next]_vars => StoreInv'
  BY StoreInOrder, CarrierNext DEF StoreInv, StreamInv, TypeOK
<1>3. ASSUME StreamInv, OrderInv, StoreInv, [Next]_vars, Answered, NEW e \in req'.events, e.src = "a"
      PROVE  e.pos \notin got.a
  <2>1. Respond
    BY <1>3, AnswersOnly
  <2>2. e \in Found
    BY <1>3, <2>1, RespondIs, EmittedIsRead DEF Carried
  <2>3. e.pos \in ArtifactsRead(req.board, req.limit)
    BY <1>3, <2>1, <2>2, ArtifactsFound
  <2>4. /\ carrier = req.board /\ e.pos \in Int
        /\ ArtifactsSince(req.board) \in Int /\ cur[req.board].a \in Int
        /\ cur[req.board].a <= ArtifactsSince(req.board) /\ ArtifactsSince(req.board) < e.pos
    BY <1>3, <2>1, <2>3, ArtifactsFound
  <2> QED
    BY <1>3, <2>4 DEF StoreInv, CarrierAhead
<1>4. StreamInv /\ OrderInv /\ StoreInv /\ [Next]_vars =>
        [Answered => \A e \in req'.events : e.src = "a" => e.pos \notin got.a]_vars
  BY <1>3
<1> QED
  BY <1>1, <1>2, <1>4, OrderInvariant, PTL DEF Spec, NoRepeatOfArtifacts

-----------------------------------------------------------------------------
(* The promise of Delivery *)

\* Of a log whose events are read in order, an answer brings those up to the
\* new position.
LEMMA BroughtUpTo ==
  ASSUME EventSet(Found), NEW s \in Sources, NEW limit \in Nat \ {0}, limit = req.limit,
         \A e, f \in Found : (e.src = s /\ f.src = s /\ e.pos <= f.pos) => e.ts <= f.ts,
         NEW new, NEW old \in Int, NEW read,
         \A i \in read : i \in Int /\ old < i,
         \A e \in Found : e.src = s => e.pos \in read,
         \A i \in read : \E e \in Found : e.src = s /\ e.pos = i,
         Advanced(new, old, read, Cut(s, Found, Carried))
  PROVE  PositionsIn(s, Carried) = {i \in read : i <= new}
<1>1. ASSUME NEW p \in PositionsIn(s, Carried) PROVE p \in read /\ p <= new
  <2>1. PICK e \in Carried : e.src = s /\ e.pos = p
    BY <1>1 DEF PositionsIn
  <2>2. p \in read
    BY <2>1, EmittedIsRead DEF Carried
  <2>3. p <= new
    BY <1>1, AdvancedCovers DEF Carried
  <2> QED
    BY <2>2, <2>3
<1>2. ASSUME NEW i \in read, i <= new PROVE i \in PositionsIn(s, Carried)
  <2>1. new # old
    BY <1>2
  <2>2. i \notin Cut(s, Found, Carried)
    BY <1>2, <2>1, AdvancedStopsAtCut
  <2>3. PICK e \in Found : e.src = s /\ e.pos = i
    BY <1>2
  <2> QED
    BY <2>2, <2>3, NotCutIsCarried
<1> QED
  BY <1>1, <1>2

\* A client that has a cursor has a start in the deletion log.
Started == \A b \in Boards : cur[b] = NoCursor \/ base[b].d # Missing

LEMMA StartedNext ==
  ASSUME StreamInv, Started, [Next]_vars
  PROVE  Started'
<1>1. /\ cur \in [Boards -> Cursor] /\ base \in [Boards -> Cursor]
      /\ \A b \in Boards : Len(dlog[b]) \in Nat
  BY SequenceLengths DEF StreamInv, TypeOK, ClientTypes
<1>2. CASE UNCHANGED <<cur, base>>
  BY <1>2 DEF Started
<1>3. ASSUME NEW b \in Boards, Start(b) PROVE Started'
  <2>1. PICK m \in Present(b) \cup {0} :
          /\ cur' = [cur EXCEPT ![b] = [k |-> m, d |-> Len(dlog[b]), a |-> IF carrier = b THEN Len(alog) ELSE Missing]]
          /\ base' = [base EXCEPT ![b] = cur'[b]]
    BY <1>3 DEF Start
  <2>2. base'[b].d = Len(dlog[b]) /\ \A x \in Boards \ {b} : cur'[x] = cur[x] /\ base'[x] = base[x]
    BY <1>1, <2>1
  <2>3. base'[b].d # Missing
    BY <1>1, <2>2 DEF Missing
  <2> QED
    BY <2>2, <2>3 DEF Started
<1>4. ASSUME NEW b \in Boards, HandOff(b) PROVE Started'
  <2>1. PICK m \in Present(b) \cup {0} :
          LET merged == Merged(IF cur[b] # NoCursor THEN cur[b]
                               ELSE [k |-> m, d |-> Len(dlog[b]), a |-> Missing], cur[carrier])
          IN  /\ cur' = [cur EXCEPT ![b] = merged]
              /\ base' = [base EXCEPT ![b] = [k |-> IF cur[b] = NoCursor THEN merged.k ELSE @.k,
                                              d |-> IF cur[b] = NoCursor THEN merged.d ELSE @.d,
                                              a |-> base[carrier].a]]
    BY <1>4 DEF HandOff
  <2>2. \A x \in Boards \ {b} : cur'[x] = cur[x] /\ base'[x] = base[x]
    BY <1>1, <2>1
  <2>3. base'[b].d = IF cur[b] = NoCursor THEN Len(dlog[b]) ELSE base[b].d
    BY <1>1, <2>1 DEF Merged
  <2>4. base'[b].d # Missing
    BY <1>1, <2>3 DEF Started, Missing
  <2> QED
    BY <2>2, <2>4 DEF Started
<1>5. CASE Respond
  <2> DEFINE b == req.board
  <2>1. /\ b \in Boards /\ base'[b].d = base[b].d
        /\ \A x \in Boards \ {b} : cur'[x] = cur[x] /\ base'[x] = base[x]
    BY <1>5, RespondIs
  <2>2. cur[b] # NoCursor
    BY <1>5 DEF StreamInv, RequestOK, Respond
  <2> HIDE DEF b
  <2> QED
    BY <2>1, <2>2 DEF Started
<1>6. \/ UNCHANGED <<cur, base>>
      \/ \E b \in Boards : Start(b) \/ HandOff(b)
      \/ Respond
  BY StepsAre DEF Tick, AppendRow, EraseCard, LogDeletion, ReadBoard, client
<1> QED
  BY <1>2, <1>3, <1>4, <1>5, <1>6

\* The lines that an answer brings are the next ones the client is owed.
LEMMA LinesDelivered ==
  ASSUME StreamInv, OrderInv, Started, Respond
  PROVE  [DeletionLogs!DeliveryNext]_(DeletionLogs!deliveryVars)
<1> DEFINE b == req.board
           new == PositionsIn("d", Carried)
<1>1. /\ Polling /\ UNCHANGED server /\ b \in Boards /\ req.limit \in Nat \ {0}
      /\ req'.phase = "answered" /\ req'.board = b /\ req'.events = Carried
      /\ got'.d[b] = got.d[b] \cup new
      /\ base'[b].d = base[b].d
      /\ Advanced(cur'[b].d, cur[b].d, LinesRead(b), Cut("d", Found, Carried))
      /\ \A x \in Boards \ {b} : base'[x] = base[x] /\ got'.d[x] = got.d[x]
  BY RespondIs
<1>2. LogTypes /\ ClientTypes /\ StreamInv'
  BY RespondInv DEF StreamInv, TypeOK
<1>3. /\ LinesRead(b) = {n \in 1..Len(dlog[b]) : cur[b].d < n}
      /\ Len(dlog[b]) \in Nat /\ DOMAIN dlog[b] = 1..Len(dlog[b])
      /\ cur[b].d \in Int /\ base[b].d \in Int
      /\ \A n \in DOMAIN dlog[b] : dlog[b][n] \in Line
  <2>1. dlog[b] \in Seq(Line)
    BY <1>1, <1>2 DEF LogTypes
  <2>2. \A n \in DOMAIN dlog[b] : dlog[b][n] \in Line
    BY <2>1
  <2>3. LinesRead(b) = {n \in 1..Len(dlog[b]) : cur[b].d < n}
    BY <1>1, <1>2, ReadWithin
  <2>4. Len(dlog[b]) \in Nat /\ DOMAIN dlog[b] = 1..Len(dlog[b])
    BY <1>1, <1>2, SequenceLengths
  <2>5. cur[b].d \in Int /\ base[b].d \in Int
    BY <1>1, <1>2, CursorTypes
  <2> QED
    BY <2>2, <2>3, <2>4, <2>5
<1>4. /\ got.d \in [Boards -> SUBSET Nat] /\ got'.d \in [Boards -> SUBSET Nat]
      /\ base \in [Boards -> Cursor] /\ base' \in [Boards -> Cursor]
  BY <1>2 DEF ClientTypes, StreamInv, TypeOK
<1>5. new = {n \in LinesRead(b) : n <= cur'[b].d}
  <2>1. /\ EventSet(Found)
        /\ \A e, f \in Found : (e.src = "d" /\ f.src = "d" /\ e.pos <= f.pos) => e.ts <= f.ts
        /\ \A e \in Found : e.src = "d" => e.pos \in LinesRead(b)
    BY FoundInOrder
  <2>2. \A n \in LinesRead(b) : \E e \in Found : e.src = "d" /\ e.pos = n
    BY EventsReadSources DEF Found
  <2>3. "d" \in Sources /\ \A n \in LinesRead(b) : n \in Int /\ cur[b].d < n
    BY <1>3 DEF Sources
  <2> HIDE DEF b
  <2> QED
    BY <1>1, <1>3, <2>1, <2>2, <2>3, BroughtUpTo
<1>6. DeletionLogs!Owed(b) = LinesRead(b)
  <2>1. DeletionLogs!Owed(b) = {i \in DOMAIN dlog[b] : base[b].d < i /\ i \notin got.d[b]}
    BY <1>1, <1>3 DEF DeletionLogs!Owed, LineStart
  <2>2. /\ base[b].d <= cur[b].d /\ \A n \in got.d[b] : n <= cur[b].d /\ n \in Nat
        /\ \A n \in DOMAIN dlog[b] : (base[b].d < n /\ n <= cur[b].d) => n \in got.d[b]
    BY <1>1, <1>4 DEF OrderInv, Behind, StreamInv, NoGap, NoGapOnBoard
  <2> HIDE DEF b
  <2>3. ASSUME NEW i \in 1..Len(dlog[b])
        PROVE  (base[b].d < i /\ i \notin got.d[b]) <=> cur[b].d < i
    BY <1>3, <2>2
  <2> QED
    BY <1>3, <2>1, <2>3
<1>7. /\ LineLatest = [x \in Boards |-> {}]
      /\ LineLatest' = [x \in Boards |-> IF x = b THEN new ELSE {}]
  <2>1. req.phase # "answered"
    BY <1>1 DEF Polling
  <2>2. LineLatest = [x \in Boards |-> {}]
    BY <2>1 DEF LineLatest, LastBrought
  <2>3. \A x : LastBrought("d", {x})' = IF x = b THEN new ELSE {}
    BY <1>1 DEF LastBrought
  <2> QED
    BY <2>2, <2>3 DEF LineLatest
<1>8. /\ UNCHANGED dlog /\ LineStart' = LineStart
      /\ got'.d = [got.d EXCEPT ![b] = @ \cup new]
  <2>1. UNCHANGED dlog
    BY <1>1 DEF server
  <2>2. \A x \in Boards : base'[x].d = base[x].d
    BY <1>1
  <2>3. LineStart' = LineStart
    BY <2>2 DEF LineStart
  <2> HIDE DEF b, new
  <2> QED
    BY <1>1, <1>4, <2>1, <2>3
<1> HIDE DEF b, new
<1>9. CASE new = {}
  <2>1. LineLatest' = LineLatest
    BY <1>7, <1>9
  <2>2. got'.d = got.d
    BY <1>4, <1>8, <1>9
  <2> QED
    BY <1>8, <2>1, <2>2 DEF DeletionLogs!deliveryVars
<1>10. CASE new # {}
  <2>1. cur'[b].d \in DOMAIN dlog[b]
    <3>1. cur'[b].d # cur[b].d
      BY <1>3, <1>5, <1>10
    <3>2. cur'[b].d \in LinesRead(b)
      BY <1>1, <3>1, AdvancedStopsAtCut
    <3> QED
      BY <1>3, <3>2
  <2>2. LineLatest' = [LineLatest EXCEPT ![b] = {i \in DeletionLogs!Owed(b) : i <= cur'[b].d}]
    BY <1>1, <1>5, <1>6, <1>7
  <2>3. LineLatest'[b] = new
    BY <1>1, <1>7
  <2>4. LineStart[b] # Missing
    <3>1. cur[b] # NoCursor
      BY <1>1 DEF b, StreamInv, RequestOK
    <3> QED
      BY <1>1, <3>1 DEF Started, LineStart
  <2>5. DeletionLogs!Deliver(b)
    BY <1>8, <2>1, <2>2, <2>3, <2>4 DEF DeletionLogs!Deliver
  <2> QED
    BY <1>1, <2>5 DEF DeletionLogs!DeliveryNext
<1> QED
  BY <1>9, <1>10

\* A client that starts, or takes over the host-wide log of another board,
\* joins the deletion log at its end.
LEMMA JoinsLines ==
  ASSUME StreamInv, OrderInv, NEW b \in Boards, Start(b) \/ HandOff(b)
  PROVE  [DeletionLogs!DeliveryNext]_(DeletionLogs!deliveryVars)
<1>1. /\ base \in [Boards -> Cursor] /\ cur \in [Boards -> Cursor]
      /\ UNCHANGED <<dlog, got, req>>
  BY DEF StreamInv, TypeOK, ClientTypes, Start, HandOff, server
<1>2. LineLatest' = LineLatest
  BY <1>1 DEF LineLatest, LastBrought
<1>3. CASE cur[b] = NoCursor
  <2>1. LineStart[b] = Missing
    <3>1. base[b].d \in Int /\ (base[b].d = -1 \/ base[b].d \in Nat) /\ cur[b].d = -1 /\ base[b].d <= cur[b].d
      BY <1>1, <1>3 DEF OrderInv, Behind, Cursor, Position, NoCursor, Missing
    <3> QED
      BY <3>1 DEF LineStart, Missing
  <2>2. /\ base'[b].d = Len(dlog[b])
        /\ base' = [base EXCEPT ![b] = base'[b]]
    <3>1. CASE Start(b)
      <4>1. PICK m \in Present(b) \cup {0} :
              cur' = [cur EXCEPT ![b] = [k |-> m, d |-> Len(dlog[b]),
                                         a |-> IF carrier = b THEN Len(alog) ELSE Missing]]
        BY <3>1 DEF Start
      <4>2. base' = [base EXCEPT ![b] = cur'[b]] /\ cur'[b].d = Len(dlog[b])
        BY <1>1, <3>1, <4>1 DEF Start
      <4> QED
        BY <1>1, <4>2
    <3>2. CASE HandOff(b)
      <4>1. PICK m \in Present(b) \cup {0} :
              LET merged == Merged([k |-> m, d |-> Len(dlog[b]), a |-> Missing], cur[carrier])
              IN  base' = [base EXCEPT ![b] = [k |-> merged.k, d |-> merged.d, a |-> base[carrier].a]]
        BY <1>3, <3>2 DEF HandOff
      <4> QED
        BY <1>1, <4>1 DEF Merged
    <3> QED
      BY <3>1, <3>2
  <2>3. LineStart' = [LineStart EXCEPT ![b] = Len(dlog[b])]
    <3>1. \A x \in Boards : base'[x].d = IF x = b THEN Len(dlog[b]) ELSE base[x].d
      BY <1>1, <2>2
    <3> QED
      BY <3>1 DEF LineStart
  <2>4. DeletionLogs!Join(b)
    BY <1>1, <1>2, <2>1, <2>3 DEF DeletionLogs!Join
  <2> QED
    BY <2>4 DEF DeletionLogs!DeliveryNext
<1>4. CASE cur[b] # NoCursor
  <2>1. HandOff(b)
    BY <1>4 DEF Start
  <2>2. \A x \in Boards : base'[x].d = base[x].d
    BY <1>1, <1>4, <2>1 DEF HandOff
  <2>3. LineStart' = LineStart
    BY <2>2 DEF LineStart
  <2> QED
    BY <1>1, <1>2, <2>3 DEF DeletionLogs!deliveryVars
<1> QED
  BY <1>3, <1>4

\* Every step is one of the deletion logs', or nothing that their reader sees.
LEMMA KeepsLines ==
  ASSUME StreamInv, OrderInv, Started, [Next]_vars
  PROVE  [DeletionLogs!DeliveryNext]_(DeletionLogs!deliveryVars)
<1>1. LogTypes
  BY DEF StreamInv, TypeOK
<1>2. ASSUME UNCHANGED <<dlog, base, got>>, LineLatest' = LineLatest
      PROVE  UNCHANGED DeletionLogs!deliveryVars
  BY <1>2 DEF DeletionLogs!deliveryVars, LineStart
<1>3. UNCHANGED req => LineLatest' = LineLatest
  BY DEF LineLatest, LastBrought
<1>4. ASSUME NEW b \in Boards, NEW c \in Cards, LogDeletion(b, c)
      PROVE  DeletionLogs!DeliveryNext
  <2>1. /\ dlog' = [dlog EXCEPT ![b] = Append(@, [ts |-> now, card |-> c])]
        /\ UNCHANGED <<base, got, req>>
    BY <1>4 DEF LogDeletion, client
  <2>2. [ts |-> now, card |-> c] \in Line
    BY <1>1 DEF LogTypes, Line
  <2>3. LineStart' = LineStart
    BY <2>1 DEF LineStart
  <2>4. DeletionLogs!Write(b, [ts |-> now, card |-> c])
    BY <1>3, <2>1, <2>3 DEF DeletionLogs!Write
  <2> QED
    BY <2>2, <2>4 DEF DeletionLogs!DeliveryNext
<1>5. ASSUME NEW x \in Boards, NEW limit \in Limits, UNCHANGED server, ReadBoard(x, limit)
      PROVE  [DeletionLogs!DeliveryNext]_(DeletionLogs!deliveryVars)
  <2>1. UNCHANGED <<dlog, base, got>> /\ req'.phase = "reading"
    BY <1>5 DEF ReadBoard, server
  <2>2. LineLatest' = [b \in Boards |-> {}]
    BY <2>1 DEF LineLatest, LastBrought
  <2>3. CASE LineLatest = [b \in Boards |-> {}]
    BY <1>2, <2>1, <2>2, <2>3
  <2>4. CASE LineLatest # [b \in Boards |-> {}]
    <3>1. PICK b \in Boards : LineLatest[b] # {}
      BY <2>4 DEF LineLatest
    <3>2. \A y \in Boards \ {b} : LineLatest[y] = {}
      BY <3>1 DEF LineLatest, LastBrought
    <3>3. LineLatest' = [LineLatest EXCEPT ![b] = {}]
      BY <2>2, <3>2 DEF LineLatest
    <3>4. LineStart' = LineStart
      BY <2>1 DEF LineStart
    <3>5. DeletionLogs!Ask(b)
      BY <2>1, <3>3, <3>4 DEF DeletionLogs!Ask
    <3> QED
      BY <3>5 DEF DeletionLogs!DeliveryNext
  <2> QED
    BY <2>3, <2>4
<1>6. LoseAnswer => LineLatest' = LineLatest
  BY DEF LoseAnswer, Polling, Idle, LineLatest, LastBrought
<1>7. CASE UNCHANGED dlog /\ UNCHANGED client
  BY <1>2, <1>3, <1>7 DEF client
<1>8. CASE UNCHANGED server /\ UNCHANGED <<cur, base, got>> /\ (UNCHANGED req \/ LoseAnswer)
  BY <1>2, <1>3, <1>6, <1>8 DEF server
<1>9. \/ UNCHANGED dlog /\ UNCHANGED client
      \/ \E b \in Boards, c \in Cards : LogDeletion(b, c)
      \/ \E b \in Boards : Start(b) \/ HandOff(b)
      \/ \E b \in Boards, limit \in Limits : UNCHANGED server /\ ReadBoard(b, limit)
      \/ UNCHANGED server /\ UNCHANGED <<cur, base, got>> /\ (UNCHANGED req \/ LoseAnswer)
      \/ Respond
  BY StepsAre DEF Tick, AppendRow, EraseCard
<1> QED
  BY <1>4, <1>5, <1>7, <1>8, <1>9, JoinsLines, LinesDelivered

\* The stream implements Delivery for the deletion log of every board: each line
\* behind the client's start is delivered in its turn and once (deleted_tail,
\* advance_deleted), whatever else is in the answers, lost, or cut off.
THEOREM KeepsDeletions == Spec => DeletionsDelivered
<1>1. Init => DeletionLogs!DeliveryInit /\ Started
  <2> SUFFICES ASSUME Init PROVE DeletionLogs!DeliveryInit /\ Started
    OBVIOUS
  <2>1. /\ dlog = [b \in Boards |-> <<>>] /\ got.d = [b \in Boards |-> {}]
        /\ cur = [b \in Boards |-> NoCursor] /\ base = [b \in Boards |-> NoCursor]
        /\ req.phase = "idle" /\ NoCursor.d = Missing
    BY DEF Init, Idle, NoCursor
  <2>2. LineStart = [b \in Boards |-> Missing] /\ LineLatest = [b \in Boards |-> {}]
    BY <2>1 DEF LineStart, LineLatest, LastBrought
  <2> QED
    BY <2>1, <2>2 DEF DeletionLogs!DeliveryInit, Started
<1>2. StreamInv /\ Started /\ [Next]_vars => Started'
  BY StartedNext
<1>3. StreamInv /\ OrderInv /\ Started /\ [Next]_vars
        => [DeletionLogs!DeliveryNext]_(DeletionLogs!deliveryVars)
  BY KeepsLines
<1> QED
  BY <1>1, <1>2, <1>3, OrderInvariant, PTL DEF Spec, DeletionsDelivered, DeletionLogs!DeliverySpec

\* The steps of Next, by what they do to the host-wide log, its carrier and the
\* request that reads it.
LEMMA HostSteps ==
  ASSUME [Next]_vars
  PROVE  \/ UNCHANGED <<alog, cur, base, carrier, archived, got, req>>
         \/ \E w \in Writers, kind \in Kinds : CommitArtifact(w, kind)
         \/ \E b \in Boards : Start(b) \/ OptIn(b) \/ HandOff(b)
         \/ \E b \in Boards, limit \in Limits : ReadBoard(b, limit)
         \/ Respond
         \/ LoseAnswer
<1> DEFINE Quiet == UNCHANGED <<alog, cur, base, carrier, archived, got, req>>
<1>1. Tick => Quiet
  BY DEF Tick, client
<1>2. \A b \in Boards, c \in Cards, kind \in RowKinds : AppendRow(b, c, kind) => Quiet
  BY DEF AppendRow, client
<1>3. \A b \in Boards, c \in Cards : EraseCard(b, c) \/ LogDeletion(b, c) => Quiet
  BY DEF EraseCard, LogDeletion, client
<1>4. \A w \in Writers : ReadClock(w) \/ AbandonArtifact(w) => Quiet
  BY DEF ReadClock, AbandonArtifact, client
<1>5. UNCHANGED vars => Quiet
  BY DEF vars
<1> HIDE DEF Quiet
<1>6. \/ Quiet
      \/ \E w \in Writers, kind \in Kinds : CommitArtifact(w, kind)
      \/ \E b \in Boards : Start(b) \/ OptIn(b) \/ HandOff(b)
      \/ \E b \in Boards, limit \in Limits : ReadBoard(b, limit)
      \/ Respond
      \/ LoseAnswer
  BY <1>1, <1>2, <1>3, <1>4, <1>5, Zenon DEF Next
<1> QED
  BY <1>6 DEF Quiet

\* Only the carrier, and the carriers before it, have a position in the
\* host-wide log, which is not before the place where the client started.
Carrying ==
  /\ carrier = NoBoard => archived = {}
  /\ carrier \notin archived
  /\ \A b \in Boards \ archived : b # carrier => base[b].a = Missing /\ cur[b].a = Missing
  /\ carrier \in Boards =>
       /\ base[carrier].a = Missing <=> cur[carrier].a = Missing
       /\ base[carrier].a <= cur[carrier].a

LEMMA CarryingNext ==
  ASSUME StreamInv, StoreInv, Carrying, [Next]_vars
  PROVE  Carrying'
<1>1. /\ cur \in [Boards -> Cursor] /\ base \in [Boards -> Cursor]
      /\ carrier \in Boards \cup {NoBoard} /\ archived \subseteq Boards /\ NoBoard \notin Boards
      /\ Len(alog) \in Nat
      /\ \A x \in Boards : cur[x].a \in Int /\ base[x].a \in Int
  BY SequenceLengths, CursorTypes, StreamAssumption DEF StreamInv, TypeOK, ClientTypes
<1>2. CASE UNCHANGED <<cur, base, carrier, archived>>
  BY <1>2 DEF Carrying
<1>3. ASSUME NEW b \in Boards, Start(b) PROVE Carrying'
  <2>1. /\ b \notin archived /\ cur[b] = NoCursor /\ UNCHANGED <<carrier, archived>>
        /\ base' = [base EXCEPT ![b] = cur'[b]]
    BY <1>3 DEF Start
  <2>2. PICK m \in Present(b) \cup {0} :
          cur' = [cur EXCEPT ![b] = [k |-> m, d |-> Len(dlog[b]), a |-> IF carrier = b THEN Len(alog) ELSE Missing]]
    BY <1>3 DEF Start
  <2>3. /\ cur'[b].a = IF carrier = b THEN Len(alog) ELSE Missing
        /\ base'[b].a = cur'[b].a
        /\ \A x \in Boards \ {b} : cur'[x] = cur[x] /\ base'[x] = base[x]
    BY <1>1, <2>1, <2>2
  <2>4. cur'[b].a \in Int
    BY <1>1, <2>3 DEF Missing
  <2> QED
    BY <1>1, <2>1, <2>3, <2>4 DEF Carrying
<1>4. ASSUME NEW b \in Boards, OptIn(b) PROVE Carrying'
  <2>1. carrier = NoBoard /\ carrier' = b /\ UNCHANGED <<cur, base, archived>>
    BY <1>4 DEF OptIn
  <2> QED
    BY <1>1, <2>1 DEF Carrying
<1>5. ASSUME NEW b \in Boards, HandOff(b) PROVE Carrying'
  <2>1. /\ carrier \in Boards /\ b # carrier /\ b \notin archived
        /\ carrier' = b /\ archived' = archived \cup {carrier}
    BY <1>1, <1>5 DEF HandOff
  <2>2. PICK m \in Present(b) \cup {0} :
          LET merged == Merged(IF cur[b] # NoCursor THEN cur[b]
                               ELSE [k |-> m, d |-> Len(dlog[b]), a |-> Missing], cur[carrier])
          IN  /\ cur' = [cur EXCEPT ![b] = merged]
              /\ base' = [base EXCEPT ![b] = [k |-> IF cur[b] = NoCursor THEN merged.k ELSE @.k,
                                              d |-> IF cur[b] = NoCursor THEN merged.d ELSE @.d,
                                              a |-> base[carrier].a]]
    BY <1>5 DEF HandOff
  <2>3. /\ cur'[b].a = cur[carrier].a /\ base'[b].a = base[carrier].a
        /\ \A x \in Boards \ {b} : cur'[x] = cur[x] /\ base'[x] = base[x]
    BY <1>1, <2>2 DEF Merged
  <2> QED
    BY <1>1, <2>1, <2>3 DEF Carrying
<1>6. CASE Respond
  <2> DEFINE b == req.board
             as == ArtifactsRead(b, req.limit)
  <2>1. /\ b \in Boards /\ UNCHANGED <<carrier, archived>>
        /\ base'[b].a = IF cur[b].a = Missing THEN ArtifactsSince(b) ELSE base[b].a
        /\ Advanced(cur'[b].a, ArtifactsSince(b), as, Cut("a", Found, Carried))
        /\ \A x \in Boards \ {b} : cur'[x] = cur[x] /\ base'[x] = base[x]
    BY <1>6, RespondIs DEF Respond
  <2>2. /\ \A i \in as : i \in Int /\ carrier = b /\ ArtifactsSince(b) < i
        /\ ArtifactsSince(b) \in Int
        /\ ArtifactsSince(b) = IF carrier = b /\ cur[b].a = Missing THEN Len(alog) ELSE cur[b].a
    BY <1>6, ArtifactsFound DEF ArtifactsSince
  <2> HIDE DEF b, as
  <2>3. \/ cur'[b].a = ArtifactsSince(b)
        \/ cur'[b].a \in as /\ carrier = b /\ cur'[b].a \in Int /\ ArtifactsSince(b) < cur'[b].a
    <3>1. cur'[b].a = ArtifactsSince(b) \/ cur'[b].a \in as
      BY <2>1 DEF Advanced
    <3> QED
      BY <2>2, <3>1, Zenon
  <2>4. cur'[b].a \in Int /\ ArtifactsSince(b) <= cur'[b].a
    <3>1. ArtifactsSince(b) \in Int
      BY <2>2
    <3>2. CASE cur'[b].a = ArtifactsSince(b)
      BY <3>1, <3>2
    <3>3. CASE cur'[b].a \in Int /\ ArtifactsSince(b) < cur'[b].a
      BY <3>1, <3>3
    <3> QED
      BY <2>3, <3>2, <3>3
  <2>5. CASE b # carrier
    BY <1>1, <2>1, <2>2, <2>3, <2>5 DEF Carrying
  <2>6. CASE b = carrier
    <3>1. base'[b].a = IF cur[b].a = Missing THEN Len(alog) ELSE base[b].a
      BY <2>1, <2>2, <2>6
    <3>2. base[b].a \in Int /\ cur[b].a \in Int /\ (cur[b].a = Missing \/ cur[b].a >= 0)
      BY <1>1, <2>1 DEF Cursor, Position, Missing
    <3>3. /\ base[b].a = Missing <=> cur[b].a = Missing
          /\ base[b].a <= cur[b].a
      BY <2>1, <2>6 DEF Carrying
    <3>4. /\ base'[b].a = Missing <=> cur'[b].a = Missing
          /\ base'[b].a <= cur'[b].a
      BY <1>1, <2>2, <2>4, <2>6, <3>1, <3>2, <3>3 DEF Missing
    <3> QED
      BY <1>1, <2>1, <2>6, <3>4 DEF Carrying
  <2> QED
    BY <2>5, <2>6
<1>7. \/ UNCHANGED <<cur, base, carrier, archived>>
      \/ \E b \in Boards : Start(b) \/ OptIn(b) \/ HandOff(b)
      \/ Respond
  <2>1. \A w \in Writers, kind \in Kinds :
          CommitArtifact(w, kind) => UNCHANGED <<cur, base, carrier, archived>>
    BY DEF CommitArtifact, client
  <2>2. \A b \in Boards, limit \in Limits :
          ReadBoard(b, limit) => UNCHANGED <<cur, base, carrier, archived>>
    BY DEF ReadBoard
  <2>3. LoseAnswer => UNCHANGED <<cur, base, carrier, archived>>
    BY DEF LoseAnswer
  <2> QED
    BY <2>1, <2>2, <2>3, HostSteps
<1> QED
  BY <1>2, <1>3, <1>4, <1>5, <1>6, <1>7

\* The artifact events that an answer brings are the next ones the client is owed.
LEMMA HostDelivered ==
  ASSUME StreamInv, OrderInv, StoreInv, Carrying, Respond
  PROVE  [HostLog!DeliveryNext]_(HostLog!deliveryVars)
<1> DEFINE b == req.board
           since == ArtifactsSince(b)
           as == ArtifactsRead(b, req.limit)
           new == PositionsIn("a", Carried)
<1>1. /\ Polling /\ UNCHANGED server /\ UNCHANGED carrier /\ b \in Boards /\ req.limit \in Nat \ {0}
      /\ req'.phase = "answered" /\ req'.board = b /\ req'.events = Carried
      /\ got'.a = got.a \cup new
      /\ base'[b].a = IF cur[b].a = Missing THEN since ELSE base[b].a
      /\ Advanced(cur'[b].a, since, as, Cut("a", Found, Carried))
      /\ \A x \in Boards \ {b} : base'[x] = base[x]
  BY RespondIs
<1>2. LogTypes /\ ClientTypes /\ req.limit \in Limits
  BY <1>1 DEF StreamInv, TypeOK, RequestOK
<1>3. /\ \A e \in Found : e.src = "a" => e.pos \in as
      /\ \A e, f \in Found : (e.src = "a" /\ f.src = "a" /\ e.pos <= f.pos) => e.ts <= f.ts
      /\ \A i \in as : i \in Int /\ carrier = b /\ since < i /\ i \in DOMAIN alog
      /\ since \in Int /\ cur[b].a \in Int
  BY ArtifactsFound
<1>4. new = {i \in as : i <= cur'[b].a}
  <2>1. \A i \in as : \E e \in Found : e.src = "a" /\ e.pos = i
    BY EventsReadSources DEF Found
  <2>2. EventSet(Found) /\ "a" \in Sources
    BY FoundInOrder DEF Sources
  <2> HIDE DEF b, since, as
  <2>3. \A i \in as : i \in Int /\ since < i
    BY <1>3
  <2>4. since \in Int /\ (\A e \in Found : e.src = "a" => e.pos \in as)
        /\ (\A e, f \in Found : (e.src = "a" /\ f.src = "a" /\ e.pos <= f.pos) => e.ts <= f.ts)
    BY <1>3
  <2>5. req.limit \in Nat \ {0} /\ Advanced(cur'[b].a, since, as, Cut("a", Found, Carried))
    BY <1>1
  <2> QED
    BY <2>1, <2>2, <2>3, <2>4, <2>5, BroughtUpTo
<1>5. /\ HostLatest = [s \in {"a"} |-> {}]
      /\ HostLatest' = [s \in {"a"} |-> new]
  <2>1. req.phase # "answered"
    BY <1>1 DEF Polling
  <2>2. LastBrought("a", Boards) = {}
    BY <2>1 DEF LastBrought
  <2>3. LastBrought("a", Boards)' = new
    BY <1>1 DEF LastBrought
  <2> QED
    BY <2>2, <2>3 DEF HostLatest
<1>6. UNCHANGED alog /\ Len(alog) \in Nat /\ DOMAIN alog = 1..Len(alog)
  BY <1>1, <1>2, SequenceLengths DEF server
<1>7. /\ carrier = b => HostStart' = [s \in {"a"} |-> base'[b].a] /\ HostStart = [s \in {"a"} |-> base[b].a]
      /\ carrier # b => HostStart' = HostStart
  <2>1. b # NoBoard /\ carrier \in Boards \cup {NoBoard}
    BY <1>1, <1>2, StreamAssumption DEF ClientTypes
  <2> HIDE DEF b
  <2> QED
    BY <1>1, <2>1 DEF HostStart
<1>8. since = IF carrier = b /\ cur[b].a = Missing THEN Len(alog) ELSE cur[b].a
  BY DEF ArtifactsSince
<1>9. \A i \in as, j \in Chosen : (since < j /\ j < i) => j \in as
  BY <1>2, <1>3, ArtifactsReadIsPrefix
<1>10. as \subseteq Chosen
  BY DEF ArtifactsRead, TailOf
<1>11. carrier = b => /\ base[b].a = Missing <=> cur[b].a = Missing
                      /\ base[b].a <= cur[b].a /\ base[b].a \in Int
                      /\ \A i \in got.a : i <= cur[b].a /\ i \in Nat
                      /\ \A i \in Chosen : (base[b].a < i /\ i <= cur[b].a) => i \in got.a
  <2>1. got.a \subseteq Nat /\ base[b].a \in Int
    BY <1>1, <1>2, CursorTypes DEF ClientTypes
  <2>2. NoGapInArtifacts(b)
    BY <1>1 DEF StreamInv, NoGap
  <2> QED
    BY <1>1, <2>1, <2>2 DEF Carrying, StoreInv, CarrierAhead, NoGapInArtifacts
<1> HIDE DEF b, since, as, new
<1>12. CASE new = {} /\ HostStart' = HostStart
  BY <1>1, <1>5, <1>6, <1>12 DEF HostLog!deliveryVars
<1>13. CASE carrier # b
  <2>1. new = {}
    BY <1>3, <1>4, <1>13
  <2> QED
    BY <1>7, <1>12, <1>13, <2>1
<1>14. CASE carrier = b /\ cur[b].a = Missing
  <2>1. new = {}
    <3>1. ASSUME NEW i \in as PROVE FALSE
      <4>1. i \in DOMAIN alog /\ since < i
        BY <1>3, <3>1
      <4>2. since = Len(alog)
        BY <1>8, <1>14
      <4> QED
        BY <1>6, <4>1, <4>2
    <3> QED
      BY <1>4, <3>1
  <2>2. HostStart["a"] = Missing /\ HostStart' = [HostStart EXCEPT !["a"] = Len(alog)]
    BY <1>1, <1>7, <1>8, <1>11, <1>14
  <2>3. HostLog!Join("a")
    BY <1>1, <1>5, <1>6, <2>1, <2>2 DEF HostLog!Join
  <2> QED
    BY <2>3 DEF HostLog!DeliveryNext
<1>15. CASE carrier = b /\ cur[b].a # Missing /\ new # {}
  <2>1. since = cur[b].a /\ base'[b].a = base[b].a
    BY <1>1, <1>8, <1>15
  <2>2. HostStart' = HostStart /\ HostStart["a"] = base[b].a /\ base[b].a # Missing
    BY <1>7, <1>11, <1>15, <2>1
  <2>3. cur'[b].a \in as /\ cur'[b].a \in DOMAIN alog /\ cur'[b].a \in Int
    <3>1. PICK i \in as : i <= cur'[b].a
      BY <1>4, <1>15
    <3>2. i \in Int /\ since < i /\ since \in Int
      BY <1>3, <3>1
    <3>3. cur'[b].a # since
      BY <3>1, <3>2
    <3>4. cur'[b].a \in as
      BY <1>1, <3>3 DEF Advanced
    <3> QED
      BY <1>3, <3>4
  <2>4. {i \in HostLog!Owed("a") : i <= cur'[b].a} = new
    <3>1. HostLog!Owed("a") = {i \in DOMAIN alog : /\ base[b].a < i /\ i \notin got.a
                                                   /\ alog[i] \in {e \in Artifact : e.kind \in Opted}}
      BY <2>2 DEF HostLog!Owed
    <3>2. \A i \in DOMAIN alog : alog[i] \in {e \in Artifact : e.kind \in Opted} <=> i \in Chosen
      <4>1. \A i \in DOMAIN alog : alog[i] \in Artifact
        BY <1>2 DEF LogTypes
      <4> QED
        BY <4>1 DEF Chosen
    <3>3. Chosen \subseteq DOMAIN alog
      BY DEF Chosen
    <3>4. ASSUME NEW i \in Chosen
          PROVE  (base[b].a < i /\ i \notin got.a) <=> since < i
      <4>1. i \in Int
        BY <1>6, <3>3
      <4> QED
        BY <1>3, <1>11, <1>15, <2>1, <4>1
    <3>5. ASSUME NEW i \in Chosen, since < i, i <= cur'[b].a
          PROVE  i \in as
      <4>1. i \in Int
        BY <1>6, <3>3
      <4>2. i < cur'[b].a \/ i = cur'[b].a
        BY <2>3, <3>5, <4>1
      <4> QED
        BY <1>9, <2>3, <3>5, <4>2
    <3>6. HostLog!Owed("a") = {i \in Chosen : since < i}
      BY <3>1, <3>2, <3>3, <3>4
    <3> QED
      BY <1>3, <1>4, <1>10, <3>5, <3>6
  <2>5. HostLatest' = [HostLatest EXCEPT !["a"] = new] /\ HostLatest'["a"] = new
    BY <1>5
  <2>6. [s \in {"a"} |-> got'.a] = [[s \in {"a"} |-> got.a] EXCEPT !["a"] = @ \cup new]
    BY <1>1
  <2>7. HostLog!Deliver("a")
    BY <1>6, <2>2, <2>3, <2>4, <2>5, <2>6 DEF HostLog!Deliver
  <2> QED
    BY <2>7 DEF HostLog!DeliveryNext
<1>16. CASE carrier = b /\ cur[b].a # Missing /\ new = {}
  BY <1>1, <1>7, <1>12, <1>16
<1> QED
  BY <1>13, <1>14, <1>15, <1>16

\* Every step is one of the host-wide log's, or nothing that its reader sees.
LEMMA KeepsHost ==
  ASSUME StreamInv, OrderInv, StoreInv, Carrying, [Next]_vars
  PROVE  [HostLog!DeliveryNext]_(HostLog!deliveryVars)
<1>1. /\ LogTypes /\ base \in [Boards -> Cursor] /\ cur \in [Boards -> Cursor]
      /\ NoBoard \notin Boards
  BY StreamAssumption DEF StreamInv, TypeOK, ClientTypes
<1>2. ASSUME UNCHANGED <<alog, got>>, HostStart' = HostStart, HostLatest' = HostLatest
      PROVE  UNCHANGED HostLog!deliveryVars
  BY <1>2 DEF HostLog!deliveryVars
<1>3. UNCHANGED req => HostLatest' = HostLatest
  BY DEF HostLatest, LastBrought
<1>4. UNCHANGED <<carrier, base>> => HostStart' = HostStart
  BY DEF HostStart
<1>5. ASSUME NEW w \in Writers, NEW kind \in Kinds, CommitArtifact(w, kind)
      PROVE  HostLog!DeliveryNext
  <2> DEFINE entry == [ts |-> writer[w], kind |-> kind]
  <2>1. /\ writer[w] # Missing /\ alog' = Append(alog, entry)
        /\ UNCHANGED <<carrier, base, got, req>>
    BY <1>5 DEF CommitArtifact, client
  <2>2. entry \in Artifact
    BY <1>1, <2>1 DEF LogTypes, Artifact
  <2> HIDE DEF entry
  <2>3. [s \in {"a"} |-> alog'] = [[s \in {"a"} |-> alog] EXCEPT !["a"] = Append(@, entry)]
    BY <2>1
  <2>4. HostLog!Write("a", entry)
    BY <1>3, <1>4, <2>1, <2>3 DEF HostLog!Write
  <2> QED
    BY <2>2, <2>4 DEF HostLog!DeliveryNext
<1>6. ASSUME NEW b \in Boards, Start(b)
      PROVE  [HostLog!DeliveryNext]_(HostLog!deliveryVars)
  <2>1. /\ UNCHANGED <<alog, got, req, carrier>> /\ cur[b] = NoCursor /\ b \notin archived
        /\ base' = [base EXCEPT ![b] = cur'[b]]
    BY <1>6 DEF Start, server
  <2>2. PICK m \in Present(b) \cup {0} :
          cur' = [cur EXCEPT ![b] = [k |-> m, d |-> Len(dlog[b]), a |-> IF carrier = b THEN Len(alog) ELSE Missing]]
    BY <1>6 DEF Start
  <2>3. CASE carrier = b
    <3>1. cur[b].a = Missing
      BY <2>1 DEF NoCursor
    <3>2. base[b].a = Missing
      BY <2>3, <3>1 DEF Carrying
    <3>3. base'[b].a = Len(alog)
      BY <1>1, <2>1, <2>2, <2>3
    <3>4. HostStart["a"] = Missing /\ HostStart' = [HostStart EXCEPT !["a"] = Len(alog)]
      BY <1>1, <2>1, <2>3, <3>2, <3>3 DEF HostStart
    <3>5. HostLog!Join("a")
      BY <1>3, <2>1, <3>4 DEF HostLog!Join
    <3> QED
      BY <3>5 DEF HostLog!DeliveryNext
  <2>4. CASE carrier # b
    <3>1. carrier \in Boards => base'[carrier] = base[carrier]
      BY <1>1, <2>1, <2>4
    <3>2. HostStart' = HostStart
      BY <2>1, <3>1 DEF HostStart, StreamInv, TypeOK, ClientTypes
    <3> QED
      BY <1>2, <1>3, <2>1, <3>2
  <2> QED
    BY <2>3, <2>4
<1>7. ASSUME NEW b \in Boards, OptIn(b)
      PROVE  UNCHANGED HostLog!deliveryVars
  <2>1. /\ carrier = NoBoard /\ carrier' = b /\ UNCHANGED <<alog, got, req, base>>
    BY <1>7 DEF OptIn, server
  <2>2. base[b].a = Missing
    BY <1>1, <2>1 DEF Carrying
  <2>3. HostStart' = HostStart
    BY <1>1, <2>1, <2>2 DEF HostStart
  <2> QED
    BY <1>2, <1>3, <2>1, <2>3
<1>8. ASSUME NEW b \in Boards, HandOff(b)
      PROVE  UNCHANGED HostLog!deliveryVars
  <2>1. carrier # NoBoard /\ carrier' = b /\ UNCHANGED <<alog, got, req>>
    BY <1>8 DEF HandOff, server
  <2>2. base'[b].a = base[carrier].a
    <3>1. PICK k, d : base' = [base EXCEPT ![b] = [k |-> k, d |-> d, a |-> base[carrier].a]]
      BY <1>8, Zenon DEF HandOff
    <3> QED
      BY <1>1, <3>1
  <2>3. HostStart' = HostStart
    BY <1>1, <2>1, <2>2 DEF HostStart
  <2> QED
    BY <1>2, <1>3, <2>1, <2>3
<1>9. ASSUME NEW b \in Boards, NEW limit \in Limits, ReadBoard(b, limit)
      PROVE  [HostLog!DeliveryNext]_(HostLog!deliveryVars)
  <2>1. UNCHANGED <<alog, carrier, base, got>> /\ req'.phase = "reading"
    BY <1>9 DEF ReadBoard, server
  <2>2. HostLatest' = [HostLatest EXCEPT !["a"] = {}]
    BY <2>1 DEF HostLatest, LastBrought
  <2>3. HostLog!Ask("a")
    BY <1>4, <2>1, <2>2 DEF HostLog!Ask
  <2> QED
    BY <2>3 DEF HostLog!DeliveryNext
<1>10. LoseAnswer => UNCHANGED <<alog, carrier, base, got>> /\ HostLatest' = HostLatest
  BY DEF LoseAnswer, Polling, Idle, HostLatest, LastBrought, server
<1>11. \/ UNCHANGED <<alog, carrier, base, got, req>>
       \/ \E w \in Writers, kind \in Kinds : CommitArtifact(w, kind)
       \/ \E b \in Boards : Start(b) \/ OptIn(b) \/ HandOff(b)
       \/ \E b \in Boards, limit \in Limits : ReadBoard(b, limit)
       \/ Respond
       \/ LoseAnswer
  BY HostSteps
<1> QED
  BY <1>2, <1>3, <1>4, <1>5, <1>6, <1>7, <1>8, <1>9, <1>10, <1>11, HostDelivered

\* Where one store writes, the stream implements Delivery for the host-wide log
\* too: each opted artifact event is delivered in its turn and once, whichever
\* board carries the log (read_artifact_events, advance_artifacts, handoff).
THEOREM KeepsArtifacts ==
  ASSUME \A v, w \in Writers : v = w
  PROVE  Spec => ArtifactsDelivered
<1>1. Init => HostLog!DeliveryInit /\ StoreInv /\ Carrying
  <2> SUFFICES ASSUME Init PROVE HostLog!DeliveryInit /\ StoreInv /\ Carrying
    OBVIOUS
  <2>1. /\ alog = <<>> /\ got.a = {} /\ carrier = NoBoard /\ archived = {}
        /\ \A b \in Boards : base[b].a = Missing /\ cur[b].a = Missing
        /\ req.phase = "idle" /\ writer = [w \in Writers |-> Missing]
    BY DEF Init, Idle, NoCursor
  <2>2. HostStart = [s \in {"a"} |-> Missing] /\ HostLatest = [s \in {"a"} |-> {}]
    BY <2>1 DEF HostStart, HostLatest, LastBrought
  <2>3. HostLog!DeliveryInit
    BY <2>1, <2>2 DEF HostLog!DeliveryInit
  <2>4. Carrying
    BY <2>1, StreamAssumption DEF Carrying
  <2> QED
    BY <2>1, <2>3, <2>4 DEF StoreInv, ArtifactsInOrder, CarrierAhead
<1>2. StreamInv /\ OrderInv /\ StoreInv /\ [Next]_vars => StoreInv'
  BY StoreInOrder, CarrierNext DEF StoreInv, StreamInv, TypeOK
<1>3. StreamInv /\ StoreInv /\ Carrying /\ [Next]_vars => Carrying'
  BY CarryingNext
<1>4. StreamInv /\ OrderInv /\ StoreInv /\ Carrying /\ [Next]_vars
        => [HostLog!DeliveryNext]_(HostLog!deliveryVars)
  BY KeepsHost
<1> QED
  BY <1>1, <1>2, <1>3, <1>4, OrderInvariant, PTL DEF Spec, ArtifactsDelivered, HostLog!DeliverySpec

=============================================================================

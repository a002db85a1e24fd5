-------------------------- MODULE SDKWaveformProofs --------------------------
(***************************************************************************)
(* Proofs about SDKWaveform: for every set of channels, every script and   *)
(* every grid, a download plays the levels that the script has asked for.  *)
(***************************************************************************)
EXTENDS SDKWaveform, FiniteSetTheorems, TLAPS

-----------------------------------------------------------------------------
(* Finite sets.                                                            *)

\* A nonempty set of natural numbers has a least element.
LEMMA Minimum ==
  ASSUME NEW T \in SUBSET Nat, T # {}
  PROVE  \E m \in T : \A n \in T : m <= n
<1>1. PICK m \in T : \A n \in T : <<n, m>> \notin OpToRel(<, Nat)
  BY NatLessThanWellFounded, WFMin
<1>2. ASSUME NEW n \in T PROVE m <= n
  <2>1. ~(n < m)
    BY <1>1, Zenon DEF OpToRel
  <2>2. m \in Nat /\ n \in Nat
    OBVIOUS
  <2> QED BY <2>1, <2>2
<1> QED BY <1>2

\* A finite set has an end in every total order: a smallest set that has none would
\* have an element, and without it an end.
LEMMA Extreme ==
  ASSUME NEW T, IsFiniteSet(T), T # {}, NEW R,
         \A x, y \in T : x # y => <<x, y>> \in R \/ <<y, x>> \in R,
         \A x, y, z \in T : <<x, y>> \in R /\ <<y, z>> \in R => <<x, z>> \in R
  PROVE  \E m \in T : \A x \in T \ {m} : <<m, x>> \in R
<1> DEFINE HasEnd(U) == \E m \in U : \A x \in U \ {m} : <<m, x>> \in R
           Sizes == {n \in Nat : \E U \in SUBSET T : U # {} /\ Cardinality(U) = n /\ ~HasEnd(U)}
<1>1. ASSUME ~HasEnd(T) PROVE FALSE
  <2>1. Cardinality(T) \in Sizes
    BY <1>1, FS_CardinalityType
  <2>2. PICK n \in Sizes : \A k \in Sizes : n <= k
    <3> HIDE DEF Sizes
    <3>1. Sizes \in SUBSET Nat
      BY DEF Sizes
    <3> QED BY <2>1, <3>1, Minimum
  <2>3. PICK U \in SUBSET T : U # {} /\ Cardinality(U) = n /\ ~HasEnd(U)
    OBVIOUS
  <2>4. PICK u \in U : TRUE
    BY <2>3
  <2> DEFINE V == U \ {u}
  <2>5. V # {}
    BY <2>3, <2>4
  <2>6. V \in SUBSET T /\ IsFiniteSet(U)
    BY <2>3, FS_Subset
  <2>7. Cardinality(V) = n - 1 /\ Cardinality(V) \in Nat /\ n \in Nat
    <3>1. Cardinality(V) = Cardinality(U) - 1 /\ IsFiniteSet(V)
      BY <2>4, <2>6, FS_RemoveElement
    <3> QED BY <2>3, <3>1, FS_CardinalityType
  <2>8. HasEnd(V)
    <3>1. Cardinality(V) \notin Sizes
      <4>1. ~(n <= Cardinality(V))
        BY <2>7
      <4> QED BY <2>2, <4>1
    <3> QED BY <2>5, <2>6, <2>7, <3>1
  <2>9. PICK m \in V : \A x \in V \ {m} : <<m, x>> \in R
    BY <2>8
  <2>10. CASE <<m, u>> \in R
    <3>1. \A x \in U \ {m} : <<m, x>> \in R
      BY <2>9, <2>10
    <3> QED BY <2>3, <2>9, <3>1
  <2>11. CASE <<u, m>> \in R
    <3>1. \A x \in U \ {u} : <<u, x>> \in R
      <4> SUFFICES ASSUME NEW x \in V PROVE <<u, x>> \in R
        OBVIOUS
      <4>1. CASE x = m
        BY <2>11, <4>1
      <4>2. CASE x # m
        <5>1. <<m, x>> \in R /\ x \in T /\ m \in T /\ u \in T
          BY <2>9, <4>2, <2>3, <2>4
        <5> QED BY <2>11, <5>1
      <4> QED BY <4>1, <4>2
    <3> QED BY <2>3, <2>4, <3>1
  <2> QED BY <2>3, <2>4, <2>9, <2>10, <2>11
<1> QED BY <1>1

\* What a function makes of a finite set is finite.
LEMMA FiniteImage ==
  ASSUME NEW S, IsFiniteSet(S), NEW f
  PROVE  IsFiniteSet({f[x] : x \in S})
<1> DEFINE T == {f[x] : x \in S}
           g == [x \in S |-> f[x]]
<1>1. g \in Surjection(S, T)
  BY DEF Surjection
<1> HIDE DEF T, g
<1>2. IsFiniteSet(T)
  BY <1>1, FS_Surjection
<1> QED BY <1>2 DEF T

\* A function on 1..n is a sequence of length n.
LEMMA FunctionIsSeq ==
  ASSUME NEW S, NEW n \in Nat, NEW f \in [1..n -> S]
  PROVE  f \in Seq(S) /\ Len(f) = n
OBVIOUS

\* The number of elements below each element numbers a finite set of numbers in order.
Rank(S, x) == Cardinality({y \in S : y < x})

\* The ranks of K numbers are 0 to K - 1, in the order of the numbers.
LEMMA Ranks ==
  ASSUME NEW S \in SUBSET Int, IsFiniteSet(S), NEW K, K = Cardinality(S)
  PROVE  /\ K \in Nat
         /\ \A x \in S : Rank(S, x) \in 0..(K - 1)
         /\ \A x, y \in S : x < y => Rank(S, x) < Rank(S, y)
         /\ \A n \in 0..(K - 1) : \E x \in S : Rank(S, x) = n
<1> DEFINE Below(x) == {y \in S : y < x}
           rank == [x \in S |-> Cardinality(Below(x))]
<1>1. K \in Nat
  BY FS_CardinalityType
<1>2. \A x \in S : IsFiniteSet(Below(x)) /\ Cardinality(Below(x)) \in Nat
  BY FS_Subset, FS_CardinalityType
<1>3. \A x \in S : Cardinality(Below(x)) < K
  <2> SUFFICES ASSUME NEW x \in S PROVE Cardinality(Below(x)) < K
    OBVIOUS
  <2>1. x \notin Below(x) /\ Below(x) \in SUBSET S
    OBVIOUS
  <2>2. Cardinality(Below(x)) <= K /\ (K = Cardinality(Below(x)) => S = Below(x))
    BY <2>1, FS_Subset
  <2>3. K # Cardinality(Below(x))
    BY <2>1, <2>2
  <2> QED BY <1>1, <1>2, <2>2, <2>3
<1>4. ASSUME NEW x \in S, NEW y \in S, x < y
      PROVE  Cardinality(Below(x)) < Cardinality(Below(y))
  <2>1. Below(x) \in SUBSET Below(y)
    <3>1. \A z \in S : z < x => z < y
      BY <1>4
    <3> QED BY <3>1
  <2>2. x \in Below(y) /\ x \notin Below(x)
    BY <1>4
  <2>3. /\ Cardinality(Below(x)) <= Cardinality(Below(y))
        /\ Cardinality(Below(y)) = Cardinality(Below(x)) => Below(y) = Below(x)
    BY <1>2, <2>1, FS_Subset
  <2>4. Cardinality(Below(y)) # Cardinality(Below(x))
    BY <2>2, <2>3
  <2> QED BY <1>2, <2>3, <2>4
<1>5. \A x \in S : Cardinality(Below(x)) \in 0..(K - 1)
  BY <1>1, <1>2, <1>3
<1>6. rank \in Injection(S, 0..(K - 1))
  <2>1. rank \in [S -> 0..(K - 1)]
    BY <1>5
  <2>2. ASSUME NEW x \in S, NEW y \in S, rank[x] = rank[y] PROVE x = y
    <3>1. ~(x < y) /\ ~(y < x)
      BY <1>2, <1>4, <2>2
    <3> QED BY <3>1
  <2> QED BY <2>1, <2>2 DEF Injection, IsInjective
<1>7. IsFiniteSet(0..(K - 1)) /\ Cardinality(0..(K - 1)) = K
  <2>1. 0 \in Int /\ K - 1 \in Int
    BY <1>1
  <2>2. /\ IsFiniteSet(0..(K - 1))
        /\ Cardinality(0..(K - 1)) = IF 0 > K - 1 THEN 0 ELSE (K - 1) - 0 + 1
    BY <2>1, FS_Interval
  <2> QED BY <1>1, <2>2
<1>8. rank \in Surjection(S, 0..(K - 1))
  <2> HIDE DEF rank
  <2> QED BY <1>6, <1>7, FS_Injection
<1>9. \A n \in 0..(K - 1) : \E x \in S : rank[x] = n
  BY <1>8, Zenon DEF Surjection
<1> QED BY <1>1, <1>4, <1>5, <1>9 DEF Rank

-----------------------------------------------------------------------------
(* Events in the order of their times.                                     *)

Event == [t : Nat, v : {0, 1}]
Entry == [c : Channels, t : Nat, v : {0, 1}, n : Nat]

\* No two entries of a channel have one number.
IsTimeline(E) ==
  /\ E \in SUBSET Entry /\ IsFiniteSet(E)
  /\ \A e, f \in E : e.c = f.c /\ e.n = f.n => e = f

\* The events of one channel are ordered by time and, at one time, by call.
LEMMA BeforeOrders ==
  ASSUME NEW E, IsTimeline(E), NEW T \in SUBSET E, NEW c, \A e \in T : e.c = c
  PROVE  /\ \A e, f \in T : e # f => Before(e, f) \/ Before(f, e)
         /\ \A e, f, g \in T : Before(e, f) /\ Before(f, g) => Before(e, g)
         /\ \A e \in T : ~Before(e, e)
<1>1. \A e \in T : e.t \in Nat /\ e.n \in Nat
  BY DEF IsTimeline, Entry
<1>2. \A e, f \in T : e # f => e.n # f.n
  BY DEF IsTimeline
<1> QED BY <1>1, <1>2 DEF Before

\* What First chooses exists and comes before the others.
LEMMA FirstFacts ==
  ASSUME NEW E, IsTimeline(E), NEW T \in SUBSET E, T # {}, NEW c, \A e \in T : e.c = c
  PROVE  First(T) \in T /\ \A e \in T \ {First(T)} : Before(First(T), e)
<1> DEFINE R == {p \in T \X T : Before(p[1], p[2])}
<1>1. \A x, y \in T : <<x, y>> \in R <=> Before(x, y)
  OBVIOUS
<1>2. IsFiniteSet(T)
  BY FS_Subset DEF IsTimeline
<1> HIDE DEF R
<1>3. /\ \A x, y \in T : x # y => <<x, y>> \in R \/ <<y, x>> \in R
      /\ \A x, y, z \in T : <<x, y>> \in R /\ <<y, z>> \in R => <<x, z>> \in R
  BY <1>1, BeforeOrders
<1>4. \E m \in T : \A x \in T \ {m} : <<m, x>> \in R
  BY <1>2, <1>3, Extreme
<1>5. \E m \in T : \A x \in T \ {m} : Before(m, x)
  BY <1>1, <1>4
<1> QED BY <1>5 DEF First

\* What Latest chooses exists and comes after the others.
LEMMA LatestFacts ==
  ASSUME NEW E, IsTimeline(E), NEW T \in SUBSET E, T # {}, NEW c, \A e \in T : e.c = c
  PROVE  Latest(T) \in T /\ \A e \in T \ {Latest(T)} : Before(e, Latest(T))
<1> DEFINE R == {p \in T \X T : Before(p[2], p[1])}
<1>1. \A x, y \in T : <<x, y>> \in R <=> Before(y, x)
  OBVIOUS
<1>2. IsFiniteSet(T)
  BY FS_Subset DEF IsTimeline
<1> HIDE DEF R
<1>3. /\ \A x, y \in T : x # y => <<x, y>> \in R \/ <<y, x>> \in R
      /\ \A x, y, z \in T : <<x, y>> \in R /\ <<y, z>> \in R => <<x, z>> \in R
  BY <1>1, BeforeOrders
<1>4. \E m \in T : \A x \in T \ {m} : <<m, x>> \in R
  BY <1>2, <1>3, Extreme
<1>5. \E m \in T : \A x \in T \ {m} : Before(x, m)
  BY <1>1, <1>4
<1> QED BY <1>5 DEF Latest

\* The events of a script are a timeline; the numbers are even.
LEMMA NumberedFacts ==
  ASSUME NEW evts \in [Channels -> Seq(Event)]
  PROVE  /\ IsTimeline(Numbered(evts))
         /\ \A e \in Numbered(evts) :
              \E i \in DOMAIN evts[e.c] : /\ e.n = 2 * i
                                          /\ e.t = evts[e.c][i].t /\ e.v = evts[e.c][i].v
         /\ \A c \in Channels : \A i \in DOMAIN evts[c] :
              [c |-> c, t |-> evts[c][i].t, v |-> evts[c][i].v, n |-> 2 * i] \in Numbered(evts)
<1> DEFINE entry(c, i) == [c |-> c, t |-> evts[c][i].t, v |-> evts[c][i].v, n |-> 2 * i]
           of(c) == {entry(c, i) : i \in DOMAIN evts[c]}
           E == UNION {of(c) : c \in Channels}
<1>1. E = Numbered(evts)
  BY DEF Numbered
<1>2. ASSUME NEW c \in Channels
      PROVE  /\ DOMAIN evts[c] = 1..Len(evts[c]) /\ Len(evts[c]) \in Nat
             /\ \A i \in DOMAIN evts[c] : i \in Nat /\ evts[c][i] \in Event
  <2>1. evts[c] \in Seq(Event)
    OBVIOUS
  <2> QED BY <2>1
<1>3. \A c \in Channels : \A i \in DOMAIN evts[c] : entry(c, i) \in Entry
  <2> SUFFICES ASSUME NEW c \in Channels, NEW i \in DOMAIN evts[c]
               PROVE  entry(c, i) \in Entry
    OBVIOUS
  <2>1. evts[c][i] \in Event /\ i \in Nat
    BY <1>2
  <2> QED BY <2>1 DEF Event, Entry
<1>4. \A c \in Channels : \A i \in DOMAIN evts[c] :
        LET e == entry(c, i)
        IN e.c = c /\ e.n = 2 * i /\ e.t = evts[c][i].t /\ e.v = evts[c][i].v
  OBVIOUS
<1>5. IsFiniteSet(E)
  <2>1. ASSUME NEW c \in Channels PROVE IsFiniteSet(of(c))
    <3> DEFINE f == [i \in DOMAIN evts[c] |-> entry(c, i)]
    <3>1. IsFiniteSet(DOMAIN evts[c])
      BY <1>2, FS_Interval
    <3>2. IsFiniteSet({f[i] : i \in DOMAIN evts[c]})
      <4> HIDE DEF f
      <4> QED BY <3>1, FiniteImage
    <3>3. of(c) = {f[i] : i \in DOMAIN evts[c]}
      OBVIOUS
    <3> QED BY <3>2, <3>3
  <2> DEFINE g == [c \in Channels |-> of(c)]
  <2>2. IsFiniteSet({g[c] : c \in Channels})
    <3> HIDE DEF g
    <3> QED BY WaveformAssumption, FiniteImage
  <2>3. {of(c) : c \in Channels} = {g[c] : c \in Channels}
    OBVIOUS
  <2> HIDE DEF g, of
  <2>4. \A S \in {of(c) : c \in Channels} : IsFiniteSet(S)
    BY <2>1
  <2> QED BY <2>2, <2>3, <2>4, FS_UNION
<1> HIDE DEF entry
<1>6. ASSUME NEW e \in E
      PROVE  \E c \in Channels : \E i \in DOMAIN evts[c] : e = entry(c, i)
  OBVIOUS
<1>7. E \in SUBSET Entry
  BY <1>3, <1>6
<1>8. ASSUME NEW e \in E, NEW f \in E, e.c = f.c, e.n = f.n PROVE e = f
  <2>1. PICK c \in Channels : \E i \in DOMAIN evts[c] : e = entry(c, i)
    BY <1>6
  <2>2. PICK i \in DOMAIN evts[c] : e = entry(c, i)
    BY <2>1
  <2>3. PICK d \in Channels : \E j \in DOMAIN evts[d] : f = entry(d, j)
    BY <1>6
  <2>4. PICK j \in DOMAIN evts[d] : f = entry(d, j)
    BY <2>3
  <2>5. c = d /\ 2 * i = 2 * j
    BY <1>4, <1>8, <2>2, <2>4
  <2>6. i = j
    BY <1>2, <2>2, <2>4, <2>5
  <2> QED BY <2>2, <2>4, <2>5, <2>6
<1>9. \A e \in E :
        \E i \in DOMAIN evts[e.c] : /\ e.n = 2 * i
                                    /\ e.t = evts[e.c][i].t /\ e.v = evts[e.c][i].v
  BY <1>4, <1>6
<1>10. \A c \in Channels : \A i \in DOMAIN evts[c] : entry(c, i) \in E
  OBVIOUS
<1> HIDE DEF E
<1> QED BY <1>1, <1>5, <1>7, <1>8, <1>9, <1>10 DEF IsTimeline, entry

-----------------------------------------------------------------------------
(* Highs and the lows that end them.                                       *)

\* The low between two highs comes not before the first one, and before the second.
LEMMA Midpoint ==
  \A a, b \in Nat : a <= b => /\ (a + b) \div 2 \in Nat /\ a <= (a + b) \div 2
                              /\ (a + b) \div 2 <= b
                              /\ a < b => (a + b) \div 2 < b
OBVIOUS

\* When a high ends: with the next low, halfway to the next high, or after EndPulse.
Until(E, e) ==
  IF Later(E, e) = {} THEN e.t + EndPulse
  ELSE LET f == First(Later(E, e)) IN IF f.v = 0 THEN f.t ELSE (e.t + f.t) \div 2

\* Being before the middle of two even times.
LEMMA Halfway ==
  ASSUME NEW x \in Nat, NEW y \in Nat, NEW t \in Nat, x % 2 = 0, y % 2 = 0
  PROVE  t < (x + y) \div 2 <=> 2 * t < x + y
<1>1. PICK p, q \in Nat : x = 2 * p /\ y = 2 * q
  <2>1. x = 2 * (x \div 2) /\ y = 2 * (y \div 2) /\ x \div 2 \in Nat /\ y \div 2 \in Nat
    OBVIOUS
  <2> QED BY <2>1
<1>2. (x + y) \div 2 = p + q
  BY <1>1
<1> QED BY <1>1, <1>2

\* Three ways to end: no event follows, a high follows, a low follows.
EndsAlone(E, e) ==
  Later(E, e) = {} /\ Until(E, e) = e.t + EndPulse
    /\ AddedLow(E, e) = {LowAfter(e, Until(E, e))}
EndsBefore(E, e, f) ==
  f.v = 1 /\ AddedLow(E, e) = {LowAfter(e, Until(E, e))} /\ Before(LowAfter(e, Until(E, e)), f)
EndsAt(E, e, f) ==
  f.v = 0 /\ AddedLow(E, e) = {} /\ Until(E, e) = f.t

\* Every event ends in one of these ways, and none before it begins.
LEMMA EndsOfHighs ==
  ASSUME NEW evts \in [Channels -> Seq(Event)], NEW E, E = Numbered(evts), NEW e \in E
  PROVE  /\ Until(E, e) \in Nat /\ e.t <= Until(E, e)
         /\ \/ EndsAlone(E, e)
            \/ \E f \in Later(E, e) :
                 /\ \A g \in Later(E, e) : g = f \/ Before(f, g)
                 /\ e.t <= f.t /\ Until(E, e) <= f.t
                 /\ EndsBefore(E, e, f) \/ EndsAt(E, e, f)
<1>1. IsTimeline(E) /\ \A x \in E : \E i : x.n = 2 * i /\ i \in Nat
  <2>1. \A x \in E : \E i \in DOMAIN evts[x.c] : x.n = 2 * i
    BY NumberedFacts
  <2>2. \A x \in E : x.c \in Channels
    BY NumberedFacts DEF IsTimeline, Entry
  <2>3. \A c \in Channels : \A i \in DOMAIN evts[c] : i \in Nat
    <3> SUFFICES ASSUME NEW c \in Channels PROVE \A i \in DOMAIN evts[c] : i \in Nat
      OBVIOUS
    <3>1. evts[c] \in Seq(Event)
      OBVIOUS
    <3> QED BY <3>1
  <2> QED BY <2>1, <2>2, <2>3, NumberedFacts
<1>2. e \in Entry /\ e.t \in Nat /\ e.n \in Nat /\ EndPulse \in Nat
  BY <1>1, WaveformAssumption DEF IsTimeline, Entry
<1>3. CASE Later(E, e) = {}
  <2>1. Until(E, e) = e.t + EndPulse /\ AddedLow(E, e) = {LowAfter(e, Until(E, e))}
    BY <1>3 DEF Until, AddedLow
  <2> QED BY <1>2, <1>3, <2>1 DEF EndsAlone
<1>4. CASE Later(E, e) # {}
  <2> DEFINE f == First(Later(E, e))
  <2>1. /\ Later(E, e) \in SUBSET E /\ f \in Later(E, e)
        /\ \A g \in Later(E, e) : g = f \/ Before(f, g)
    <3>1. Later(E, e) \in SUBSET E /\ \A x \in Later(E, e) : x.c = e.c
      BY DEF Later
    <3> QED BY <1>1, <1>4, <3>1, FirstFacts
  <2>2. /\ Until(E, e) = IF f.v = 0 THEN f.t ELSE (e.t + f.t) \div 2
        /\ AddedLow(E, e) = {LowAfter(e, (e.t + f.t) \div 2) : g \in {f} \cap {h \in E : h.v = 1}}
    BY <1>4 DEF Until, AddedLow
  <2>3. f \in E /\ f.v \in {0, 1} /\ f.t \in Nat /\ f.n \in Nat /\ Before(e, f)
    BY <2>1, <1>1 DEF Later, IsTimeline, Entry
  <2> HIDE DEF f
  <2>4. e.t <= f.t
    BY <2>3, <1>2 DEF Before
  <2>5. CASE f.v = 0
    <3>1. EndsAt(E, e, f)
      BY <2>2, <2>5 DEF EndsAt
    <3> QED BY <2>1, <2>2, <2>3, <2>4, <2>5, <3>1
  <2>6. CASE f.v = 1
    <3> DEFINE u == (e.t + f.t) \div 2
    <3>1. Until(E, e) = u /\ AddedLow(E, e) = {LowAfter(e, u)}
      BY <2>2, <2>3, <2>6
    <3>2. u \in Nat /\ e.t <= u /\ u <= f.t /\ (e.t < f.t => u < f.t)
      BY <1>2, <2>3, <2>4, Midpoint
    <3> HIDE DEF u
    <3>3. LowAfter(e, u).t = u /\ LowAfter(e, u).n = e.n + 1
      BY DEF LowAfter
    <3>4. Before(LowAfter(e, u), f)
      <4>1. CASE e.t < f.t
        BY <3>2, <3>3, <4>1 DEF Before
      <4>2. CASE e.t = f.t
        <5>1. PICK i, j \in Nat : e.n = 2 * i /\ f.n = 2 * j
          BY <1>1, <2>3
        <5>2. e.n < f.n
          BY <4>2, <1>2, <2>3 DEF Before
        <5>3. e.n + 1 < f.n
          BY <5>1, <5>2
        <5>4. u = f.t
          BY <1>2, <2>3, <3>2, <4>2
        <5> QED BY <5>3, <5>4, <3>3 DEF Before
      <4> QED BY <1>2, <2>3, <2>4, <4>1, <4>2
    <3>5. EndsBefore(E, e, f)
      BY <2>6, <3>1, <3>4 DEF EndsBefore
    <3> QED BY <2>1, <2>4, <3>1, <3>2, <3>5
  <2> QED BY <2>3, <2>5, <2>6
<1> QED BY <1>3, <1>4

AddedFor(E, h, x) == h.v = 1 /\ x = LowAfter(h, Until(E, h)) /\ AddedLow(E, h) = {x}

\* What _normalize_pulse_start_events adds are lows; the timeline is still one.
LEMMA NormalizedFacts ==
  ASSUME NEW evts \in [Channels -> Seq(Event)], NEW E, E = Numbered(evts),
         NEW N, N = Normalized(evts)
  PROVE  /\ IsTimeline(N) /\ IsTimeline(E) /\ E \subseteq N
         /\ \A h \in E : h.v = 1 => AddedLow(E, h) \subseteq N
         /\ \A x \in N \ E : \E h \in E : AddedFor(E, h, x)
<1> DEFINE H == {f \in E : f.v = 1}
           lows == UNION {AddedLow(E, e) : e \in H}
<1>1. N = E \cup lows
  BY DEF Normalized
<1>2. IsTimeline(E) /\ \A e \in E : e.c \in Channels
  BY NumberedFacts DEF IsTimeline, Entry
<1>3. \A h \in E : AddedLow(E, h) = {} \/ AddedLow(E, h) = {LowAfter(h, Until(E, h))}
  BY EndsOfHighs DEF EndsAlone, EndsBefore, EndsAt
<1>4. \A x \in lows : \E h \in H : x = LowAfter(h, Until(E, h)) /\ AddedLow(E, h) = {x}
  BY <1>3
<1>5. \A h \in E : LET x == LowAfter(h, Until(E, h))
                   IN x \in Entry /\ x.c = h.c /\ x.n = h.n + 1 /\ x.v = 0
  <2> SUFFICES ASSUME NEW h \in E
               PROVE  LET x == LowAfter(h, Until(E, h))
                      IN x \in Entry /\ x.c = h.c /\ x.n = h.n + 1 /\ x.v = 0
    OBVIOUS
  <2>1. h \in Entry /\ Until(E, h) \in Nat
    BY <1>2, EndsOfHighs DEF IsTimeline
  <2> QED BY <2>1 DEF Entry, LowAfter
<1>6. \A x \in E : \E i \in Int : x.n = 2 * i
  <2> SUFFICES ASSUME NEW x \in E PROVE \E i \in Int : x.n = 2 * i
    OBVIOUS
  <2>1. PICK i \in DOMAIN evts[x.c] : x.n = 2 * i
    BY NumberedFacts
  <2>2. evts[x.c] \in Seq(Event)
    BY <1>2
  <2>3. i \in Int
    BY <2>2
  <2> QED BY <2>1, <2>3
<1>7. IsFiniteSet(lows)
  <2> DEFINE g == [h \in H |-> AddedLow(E, h)]
  <2>1. IsFiniteSet(H)
    BY <1>2, FS_Subset DEF IsTimeline
  <2>2. IsFiniteSet({g[h] : h \in H})
    <3> HIDE DEF g
    <3> QED BY <2>1, FiniteImage
  <2>3. {g[h] : h \in H} = {AddedLow(E, h) : h \in H}
    OBVIOUS
  <2>4. \A S \in {AddedLow(E, h) : h \in H} : IsFiniteSet(S)
    <3> SUFFICES ASSUME NEW h \in H PROVE IsFiniteSet(AddedLow(E, h))
      OBVIOUS
    <3>1. AddedLow(E, h) = {} \/ AddedLow(E, h) = {LowAfter(h, Until(E, h))}
      BY <1>3
    <3>2. IsFiniteSet({LowAfter(h, Until(E, h))})
      BY FS_Singleton
    <3> QED BY <3>1, <3>2, FS_EmptySet
  <2> QED BY <2>2, <2>3, <2>4, FS_UNION
<1> HIDE DEF lows
<1>8. IsTimeline(N)
  <2>1. N \in SUBSET Entry
    BY <1>1, <1>2, <1>4, <1>5 DEF IsTimeline
  <2>2. IsFiniteSet(N)
    <3>1. IsFiniteSet(E)
      BY <1>2 DEF IsTimeline
    <3> QED BY <1>1, <1>7, <3>1, FS_Union
  <2>3. ASSUME NEW x \in lows, NEW y \in E, x.n = y.n PROVE FALSE
    <3>1. PICK h \in H : x = LowAfter(h, Until(E, h))
      BY <1>4, <2>3
    <3>2. PICK i, j \in Int : h.n = 2 * i /\ y.n = 2 * j
      BY <1>6, <2>3
    <3>3. 2 * i + 1 = 2 * j
      BY <1>5, <2>3, <3>1, <3>2
    <3> QED BY <3>3
  <2>4. ASSUME NEW x \in lows, NEW y \in lows, x.c = y.c, x.n = y.n PROVE x = y
    <3>1. PICK g \in H : x = LowAfter(g, Until(E, g))
      BY <1>4, <2>4
    <3>2. PICK h \in H : y = LowAfter(h, Until(E, h))
      BY <1>4, <2>4
    <3>3. g.c = h.c /\ g.n + 1 = h.n + 1 /\ g.n \in Nat /\ h.n \in Nat
      BY <1>2, <1>5, <2>4, <3>1, <3>2 DEF IsTimeline, Entry
    <3>4. g = h
      BY <3>3, <1>2 DEF IsTimeline
    <3> QED BY <3>1, <3>2, <3>4
  <2>5. \A x, y \in N : x.c = y.c /\ x.n = y.n => x = y
    BY <1>1, <1>2, <2>3, <2>4 DEF IsTimeline
  <2> QED BY <2>1, <2>2, <2>5 DEF IsTimeline
<1>9. \A h \in E : h.v = 1 => AddedLow(E, h) \subseteq N
  BY <1>1 DEF lows
<1>10. \A x \in N \ E : \E h \in E : AddedFor(E, h, x)
  BY <1>1, <1>4 DEF AddedFor
<1> QED BY <1>1, <1>2, <1>8, <1>9, <1>10

-----------------------------------------------------------------------------
(* Levels.                                                                 *)

\* A low that is added for a high does not come after the event that follows it.
LEMMA AddedLowBefore ==
  ASSUME NEW evts \in [Channels -> Seq(Event)], NEW E, E = Numbered(evts),
         NEW h \in E, AddedLow(E, h) # {}, NEW e \in Later(E, h)
  PROVE  Before(LowAfter(h, Until(E, h)), e)
<1>1. PICK f \in Later(E, h) :
        (\A g \in Later(E, h) : g = f \/ Before(f, g)) /\ EndsBefore(E, h, f)
  BY EndsOfHighs DEF EndsAlone, EndsAt
<1> DEFINE x == LowAfter(h, Until(E, h))
<1>2. Before(x, f) /\ (e = f \/ Before(f, e))
  BY <1>1 DEF EndsBefore
<1>3. x.t \in Nat /\ x.n \in Nat /\ e.t \in Nat /\ e.n \in Nat /\ f.t \in Nat /\ f.n \in Nat
  <2>1. E \in SUBSET Entry /\ Until(E, h) \in Nat /\ f \in E /\ e \in E
    BY NumberedFacts, EndsOfHighs DEF IsTimeline, Later
  <2> QED BY <2>1 DEF Entry, LowAfter
<1> HIDE DEF x
<1>4. Before(x, e)
  BY <1>2, <1>3 DEF Before
<1> QED BY <1>4 DEF x

\* _build_compressed_waveform finds a channel high where one of its highs has begun and
\* has not ended.
LEMMA Levels ==
  ASSUME NEW evts \in [Channels -> Seq(Event)], NEW E, E = Numbered(evts),
         NEW N, N = Normalized(evts), NEW c, NEW t \in Int
  PROVE  LevelAt(N, c, t)
           <=> \E e \in E : e.c = c /\ e.v = 1 /\ e.t <= t /\ t < Until(E, e)
<1> DEFINE past == {x \in N : x.c = c /\ x.t <= t}
<1>1. /\ IsTimeline(N) /\ E \subseteq N /\ past \in SUBSET N /\ \A x \in past : x.c = c
      /\ \A x \in N : x.t \in Nat /\ x.n \in Nat
  BY NormalizedFacts DEF IsTimeline, Entry
<1>2. past # {} => Latest(past) \in past /\ \A x \in past \ {Latest(past)} : Before(x, Latest(past))
  BY <1>1, LatestFacts
<1>6. \A x \in N \ E : \E h \in E : AddedFor(E, h, x)
  BY NormalizedFacts
<1>3. LevelAt(N, c, t) <=> past # {} /\ Latest(past).v = 1
  BY DEF LevelAt
<1>4. ASSUME NEW e \in E, e.c = c, e.v = 1, e.t <= t, t < Until(E, e)
      PROVE  past # {} /\ Latest(past).v = 1
  <2> DEFINE L == Latest(past)
  <2>1. e \in past /\ L \in past /\ (e = L \/ Before(e, L))
    BY <1>1, <1>2, <1>4
  <2>2. L.t \in Nat /\ L.n \in Nat /\ L.t <= t /\ L.c = c /\ L \in N
    BY <1>1, <2>1
  <2> HIDE DEF L
  <2>3. ASSUME NEW x \in Later(E, e) PROVE ~(x.t <= t)
    <3>1. PICK f \in Later(E, e) :
            (\A g \in Later(E, e) : g = f \/ Before(f, g)) /\ Until(E, e) <= f.t
      BY <2>3, EndsOfHighs DEF EndsAlone
    <3>2. Until(E, e) \in Nat /\ f.t \in Nat /\ x.t \in Nat
      BY <1>1, EndsOfHighs DEF Later
    <3>3. f.t <= x.t
      BY <3>1, <3>2, <2>3 DEF Before
    <3> QED BY <1>4, <3>1, <3>2, <3>3
  <2>4. ASSUME e # L PROVE FALSE
    <3>1. Before(e, L)
      BY <2>1, <2>4
    <3>2. L \notin E
      BY <1>4, <2>2, <2>3, <3>1 DEF Later
    <3>3. PICK h \in E : h.v = 1 /\ L = LowAfter(h, Until(E, h)) /\ AddedLow(E, h) = {L}
      BY <1>6, <2>2, <3>2 DEF AddedFor
    <3>4. L.t = Until(E, h) /\ L.c = h.c /\ h.t <= L.t /\ L.n = h.n + 1
      BY <3>3, EndsOfHighs DEF LowAfter
    <3>5. h # e
      BY <1>4, <2>2, <3>4
    <3>6. h.t <= t /\ h.t \in Nat /\ h.n \in Nat
      BY <1>1, <2>2, <3>4
    <3>7. h \notin Later(E, e)
      BY <2>3, <3>6
    <3>8. Before(h, e)
      <4>1. h \in past /\ e \in past
        BY <1>1, <1>4, <2>2, <3>4, <3>6
      <4>2. Before(h, e) \/ Before(e, h)
        BY <1>1, <3>5, <4>1, BeforeOrders
      <4> QED BY <1>4, <2>2, <3>4, <3>7, <4>2 DEF Later
    <3>9. e \in Later(E, h)
      BY <1>4, <2>2, <3>4, <3>8 DEF Later
    <3>10. Before(L, e)
      BY <3>3, <3>9, AddedLowBefore
    <3> QED BY <1>1, <1>4, <2>2, <3>1, <3>10 DEF Before
  <2> QED BY <1>4, <2>1, <2>4 DEF L
<1>5. ASSUME past # {}, Latest(past).v = 1
      PROVE  \E e \in E : e.c = c /\ e.v = 1 /\ e.t <= t /\ t < Until(E, e)
  <2> DEFINE L == Latest(past)
  <2>1. L \in past /\ \A x \in past : x = L \/ Before(x, L)
    BY <1>2, <1>5
  <2>2. L \in N /\ L.c = c /\ L.t <= t /\ L.v = 1 /\ L.t \in Nat /\ L.n \in Nat
    BY <1>1, <1>5, <2>1
  <2> HIDE DEF L
  <2>3. L \in E
    <3>1. ASSUME L \notin E PROVE FALSE
      <4>1. PICK h \in E : L = LowAfter(h, Until(E, h))
        BY <1>6, <2>2, <3>1 DEF AddedFor
      <4> QED BY <2>2, <4>1 DEF LowAfter
    <3> QED BY <3>1
  <2>4. Until(E, L) \in Nat
    BY <2>3, EndsOfHighs
  <2>5. ASSUME Until(E, L) <= t PROVE FALSE
    <3>1. ASSUME NEW x \in N, x.c = c, x.t <= t, Before(L, x) PROVE FALSE
      <4>1. x = L \/ Before(x, L)
        BY <2>1, <3>1
      <4> QED BY <1>1, <2>2, <3>1, <4>1 DEF Before
    <3>2. CASE AddedLow(E, L) = {LowAfter(L, Until(E, L))}
      <4> DEFINE x == LowAfter(L, Until(E, L))
      <4>1. x \in N
        BY <2>2, <2>3, <3>2, NormalizedFacts
      <4>2. x.c = c /\ x.t = Until(E, L) /\ x.n = L.n + 1
        BY <2>2 DEF LowAfter
      <4>3. L.t <= Until(E, L)
        BY <2>3, EndsOfHighs
      <4> HIDE DEF x
      <4>4. Before(L, x)
        BY <2>2, <2>4, <4>2, <4>3 DEF Before
      <4> QED BY <2>5, <3>1, <4>1, <4>2, <4>4
    <3>3. ASSUME NEW f \in Later(E, L), Until(E, L) = f.t PROVE FALSE
      <4>1. f \in N /\ f.c = c /\ Before(L, f) /\ f.t <= t
        BY <1>1, <2>2, <2>5, <3>3 DEF Later
      <4> QED BY <3>1, <4>1
    <3> QED BY <2>3, <3>2, <3>3, EndsOfHighs DEF EndsAlone, EndsBefore, EndsAt
  <2>6. t < Until(E, L)
    BY <2>4, <2>5
  <2> QED BY <2>2, <2>3, <2>6
<1> QED BY <1>3, <1>4, <1>5

-----------------------------------------------------------------------------
(* The axis.                                                               *)

Ascending(a) == \A i, j \in 1..Len(a) : i < j => a[i] < a[j]
HasTimesOf(a, N) == \A x \in N : \E k \in 1..Len(a) : a[k] = x.t

\* The time axis has the times of the timeline, each once, in ascending order.
LEMMA AxisFacts ==
  ASSUME NEW N, IsTimeline(N), NEW a, a = Axis(N)
  PROVE  Len(a) \in Nat /\ a \in Seq(Nat) /\ Ascending(a) /\ HasTimesOf(a, N)
<1> DEFINE S == {x.t : x \in N}
<1>1. S \in SUBSET Nat /\ IsFiniteSet(S)
  <2>1. S \in SUBSET Nat
    BY DEF IsTimeline, Entry
  <2> DEFINE time == [x \in N |-> x.t]
  <2>2. IsFiniteSet({time[x] : x \in N})
    <3> HIDE DEF time
    <3> QED BY FiniteImage DEF IsTimeline
  <2>3. {time[x] : x \in N} = S
    OBVIOUS
  <2> QED BY <2>1, <2>2, <2>3
<1>4. PICK K : K = Cardinality(S)
  OBVIOUS
<1>2. a = [k \in 1..K |-> CHOOSE u \in S : Rank(S, u) = k - 1]
  BY <1>4 DEF Axis, Rank
<1>3. \A x \in N : x.t \in S
  OBVIOUS
<1> HIDE DEF S
<1>5. /\ K \in Nat
      /\ \A u \in S : Rank(S, u) \in 0..(K - 1)
      /\ \A u, w \in S : u < w => Rank(S, u) < Rank(S, w)
      /\ \A n \in 0..(K - 1) : \E u \in S : Rank(S, u) = n
  <2>1. S \in SUBSET Int
    BY <1>1
  <2> QED BY <1>1, <1>4, <2>1, Ranks
<1>6. \A k \in 1..K : a[k] \in S /\ Rank(S, a[k]) = k - 1
  <2> SUFFICES ASSUME NEW k \in 1..K PROVE a[k] \in S /\ Rank(S, a[k]) = k - 1
    OBVIOUS
  <2>1. k - 1 \in 0..(K - 1)
    BY <1>5
  <2>2. \E u \in S : Rank(S, u) = k - 1
    BY <1>5, <2>1
  <2> QED BY <1>2, <2>2
<1>7. a \in Seq(Nat) /\ Len(a) = K
  <2>1. a \in [1..K -> Nat]
    BY <1>1, <1>2, <1>6
  <2>2. K \in Nat
    BY <1>5
  <2> QED BY <2>1, <2>2, FunctionIsSeq
<1>8. ASSUME NEW i \in 1..K, NEW j \in 1..K, i < j PROVE a[i] < a[j]
  <2>1. Rank(S, a[i]) = i - 1 /\ Rank(S, a[j]) = j - 1 /\ a[i] \in S /\ a[j] \in S
    BY <1>6
  <2>2. a[i] \in Nat /\ a[j] \in Nat
    BY <1>1, <2>1
  <2>3. ~(Rank(S, a[j]) <= Rank(S, a[i]))
    BY <1>8, <2>1
  <2>4. ~(a[j] < a[i]) /\ a[j] # a[i]
    <3>1. Rank(S, a[i]) \in Int /\ Rank(S, a[j]) \in Int
      BY <2>1
    <3> QED BY <1>5, <2>1, <2>3, <3>1
  <2> QED BY <2>2, <2>4
<1>9. ASSUME NEW x \in N PROVE \E k \in 1..K : a[k] = x.t
  <2> DEFINE u == x.t
             k == Rank(S, u) + 1
  <2>1. u \in S /\ Rank(S, u) \in 0..(K - 1)
    BY <1>3, <1>5
  <2>2. k \in 1..K /\ k - 1 = Rank(S, u)
    BY <1>5, <2>1
  <2>3. a[k] \in S /\ Rank(S, a[k]) = Rank(S, u)
    BY <1>6, <2>2
  <2> HIDE DEF u, k
  <2>4. a[k] = u
    <3>1. a[k] \in Nat /\ u \in Nat
      BY <1>1, <2>1, <2>3
    <3>2. ~(a[k] < u) /\ ~(u < a[k])
      <4>1. Rank(S, u) \in Int
        BY <2>1
      <4> QED BY <1>5, <2>1, <2>3, <4>1
    <3> QED BY <3>1, <3>2
  <2> QED BY <2>2, <2>4 DEF u
<1>10. K \in Nat
  BY <1>5
<1> QED BY <1>7, <1>8, <1>9, <1>10 DEF Ascending, HasTimesOf

\* Between two entries of the axis no level changes.
LEMMA LevelKept ==
  ASSUME NEW N, IsTimeline(N), NEW a, a = Axis(N), NEW K \in Nat, K = Len(a),
         NEW k \in 1..(K - 1), NEW t \in Int, a[k] <= t, t < a[k + 1], NEW c
  PROVE  LevelAt(N, c, t) <=> LevelAt(N, c, a[k])
<1>1. /\ a \in Seq(Nat) /\ \A i, j \in 1..K : i < j => a[i] < a[j]
      /\ \A x \in N : \E i \in 1..K : a[i] = x.t
  <2>1. a \in Seq(Nat) /\ Ascending(a) /\ HasTimesOf(a, N)
    BY AxisFacts
  <2> QED BY <2>1 DEF Ascending, HasTimesOf
<1>2. k \in 1..K /\ k + 1 \in 1..K /\ \A i \in 1..K : a[i] \in Nat
  <2>1. k \in 1..K /\ k + 1 \in 1..K
    OBVIOUS
  <2>2. a \in Seq(Nat)
    BY <1>1
  <2> QED BY <2>1, <2>2
<1>3. ASSUME NEW x \in N PROVE x.t <= t <=> x.t <= a[k]
  <2>1. PICK i \in 1..K : a[i] = x.t
    BY <1>1
  <2>2. a[i] \in Nat
    BY <1>2
  <2>3. CASE i <= k
    <3>1. i = k \/ i < k
      BY <2>3
    <3>2. a[i] <= a[k]
      BY <1>1, <1>2, <2>2, <3>1
    <3> QED BY <1>2, <2>1, <2>2, <3>2
  <2>4. CASE i > k
    <3>1. i = k + 1 \/ k + 1 < i
      BY <2>4
    <3>2. a[k + 1] <= a[i]
      BY <1>1, <1>2, <2>2, <3>1
    <3> QED BY <1>2, <2>1, <2>2, <3>2
  <2> QED BY <2>3, <2>4
<1>4. {x \in N : x.c = c /\ x.t <= t} = {x \in N : x.c = c /\ x.t <= a[k]}
  BY <1>3
<1> QED BY <1>4 DEF LevelAt

-----------------------------------------------------------------------------
(* The grid.                                                               *)

\* What SMT knows of multiples of a tick.
LEMMA Multiples ==
  ASSUME NEW T \in Nat \ {0}
  PROVE  /\ \A r \in Int : (T * r) % T = 0
         /\ \A d \in Int : d % T = 0 => T * (d \div T) = d
         /\ \A d \in Nat : d \div T \in Nat
         /\ \A n, r \in Nat : n < r => T * n \in Nat /\ T * n < T * r
OBVIOUS

\* A smaller multiple is one of a smaller number.
LEMMA Quotients ==
  ASSUME NEW T \in Nat \ {0}, NEW r \in Nat, NEW m \in Nat, T * r < T * m
  PROVE  r < m
<1>1. ASSUME m <= r PROVE FALSE
  <2>1. m = r \/ m < r
    BY <1>1
  <2>2. T * m <= T * r /\ T * m \in Nat /\ T * r \in Nat
    BY <2>1, Multiples
  <2> QED BY <2>2
<1> QED BY <1>1

\* Differences of times on the grid are on the grid.
LEMMA DifferenceOnGrid ==
  ASSUME NEW T \in Nat \ {0}, NEW x \in Int, NEW y \in Int, x % T = 0, y % T = 0
  PROVE  (x - y) % T = 0
<1>1. PICK p, q \in Int : x = T * p /\ y = T * q
  <2>1. x \div T \in Int /\ x = T * (x \div T) /\ y \div T \in Int /\ y = T * (y \div T)
    OBVIOUS
  <2> QED BY <2>1
<1>2. PICK r \in Int : r = p - q
  OBVIOUS
<1>3. x - y = T * r
  BY <1>1, <1>2
<1> QED BY <1>3, Multiples

\* A duration is a number of ticks; on the grid it is the exact one.
LEMMA RoundedFacts ==
  ASSUME NEW d \in Nat, NEW half_up
  PROVE  Rounded(d, half_up) \in Nat /\ (d % Tick = 0 => Tick * Rounded(d, half_up) = d)
<1>1. Tick \in Nat \ {0}
  BY WaveformAssumption
<1>2. d \div Tick \in Nat
  BY <1>1, Multiples
<1>3. ASSUME d % Tick = 0 PROVE Tick * Rounded(d, half_up) = d
  <2>1. ~(2 * (d % Tick) > Tick) /\ ~IsHalf(d)
    BY <1>1, <1>3 DEF IsHalf
  <2>2. Rounded(d, half_up) = d \div Tick
    BY <2>1 DEF Rounded
  <2> QED BY <1>1, <1>3, <2>2, Multiples
<1> QED BY <1>2, <1>3 DEF Rounded

-----------------------------------------------------------------------------
(* The rows.                                                               *)

SentRow == [reps : 0..(RepModulus - 1), state : SUBSET Channels]

\* What is left of a number in a field of limited width, and when it is the number.
LEMMA Remainders ==
  ASSUME NEW m \in Nat \ {0}, NEW n \in Nat
  PROVE  n % m \in 0..(m - 1) /\ (n < m => n % m = n)
OBVIOUS

\* There is one row for every interval of the axis.
LEMMA CompressedFacts ==
  ASSUME NEW evts \in [Channels -> Seq(Event)], NEW N, N = Normalized(evts),
         NEW a, a = Axis(N), Len(a) > 1, NEW ups
  PROVE  /\ Len(a) \in Nat /\ Words(Compressed(N, a, ups)) \in Seq(SentRow)
         /\ Len(Words(Compressed(N, a, ups))) = Len(a) - 1
         /\ DOMAIN Compressed(N, a, ups) = 1..(Len(a) - 1)
         /\ Announced(Compressed(N, a, ups)) \in 0..(CountModulus - 1)
<1>1. IsTimeline(N)
  BY NormalizedFacts
<1>2. PICK K \in Nat : K = Len(a)
  BY <1>1, AxisFacts
<1>3. a \in Seq(Nat) /\ \A i, j \in 1..K : i < j => a[i] < a[j]
  BY <1>1, <1>2, AxisFacts DEF Ascending
<1>4. ASSUME NEW k \in 1..(K - 1) PROVE Rounded(a[k + 1] - a[k], k \in ups) \in Nat
  <2>1. k \in 1..K /\ k + 1 \in 1..K /\ k < k + 1
    OBVIOUS
  <2>2. a[k] \in Nat /\ a[k + 1] \in Nat /\ a[k] < a[k + 1]
    BY <1>2, <1>3, <2>1
  <2>3. a[k + 1] - a[k] \in Nat
    BY <2>2
  <2> QED BY <2>3, RoundedFacts
<1>5. ASSUME NEW k \in 1..(K - 1)
      PROVE  [Compressed(N, a, ups)[k] EXCEPT !.reps = Cut(@)] \in SentRow
  <2>1. PICK r \in Nat : r = Rounded(a[k + 1] - a[k], k \in ups)
    BY <1>4
  <2>2. Compressed(N, a, ups)[k] = [reps |-> r, state |-> {c \in Channels : LevelAt(N, c, a[k])}]
    BY <1>2, <2>1 DEF Compressed
  <2>3. Cut(r) \in 0..(RepModulus - 1)
    BY WaveformAssumption, Remainders DEF Cut
  <2> QED BY <2>2, <2>3 DEF SentRow
<1>6. DOMAIN Compressed(N, a, ups) = 1..(K - 1)
  BY <1>2 DEF Compressed
<1>7. Words(Compressed(N, a, ups)) \in [1..(K - 1) -> SentRow]
  BY <1>5, <1>6 DEF Words
<1>8. K - 1 \in Nat
  BY <1>2
<1>9. Announced(Compressed(N, a, ups)) \in 0..(CountModulus - 1)
  <2>1. Len(Compressed(N, a, ups)) = K - 1
    BY <1>6, <1>8
  <2> QED BY <1>8, <2>1, WaveformAssumption, Remainders DEF Announced
<1> QED BY <1>2, <1>6, <1>7, <1>8, <1>9, FunctionIsSeq

\* The rows before row k last as long as the axis until there.
LEMMA StartOfRow ==
  ASSUME NEW a, NEW K \in Nat, \A j \in 1..K : a[j] \in Nat,
         \A j \in 1..(K - 1) : a[j] + Tick * sent[j].reps = a[j + 1],
         NEW k \in 1..K
  PROVE  RowStart(a, k) = a[k]
<1> DEFINE Is(f) == f = [j \in 1..k |->
                          IF j = 1 THEN a[1] ELSE f[j - 1] + Tick * sent[j - 1].reps]
           g == [j \in 1..k |-> a[j]]
<1>1. RowStart(a, k) = (CHOOSE f : Is(f))[k]
  BY Zenon DEF RowStart
<1>2. \A j \in 1..k : j \in 1..K /\ (j # 1 => j - 1 \in 1..k /\ j - 1 \in 1..(K - 1))
  OBVIOUS
<1>3. \A j \in 1..k : j # 1 => a[j - 1] + Tick * sent[j - 1].reps = a[j]
  <2> SUFFICES ASSUME NEW j \in 1..k, j # 1
               PROVE  a[j - 1] + Tick * sent[j - 1].reps = a[j]
    OBVIOUS
  <2>1. j - 1 \in 1..(K - 1) /\ (j - 1) + 1 = j
    BY <1>2
  <2> QED BY <2>1
<1>4. Is(g)
  <2>1. \A j \in 1..k : g[j] = IF j = 1 THEN a[1] ELSE g[j - 1] + Tick * sent[j - 1].reps
    BY <1>2, <1>3
  <2> QED BY <2>1
<1>5. ASSUME NEW f, Is(f) PROVE f = g
  <2> DEFINE Wrong == {j \in 1..k : f[j] # a[j]}
  <2>1. \A j \in 1..k : f[j] = IF j = 1 THEN a[1] ELSE f[j - 1] + Tick * sent[j - 1].reps
    BY <1>5
  <2>2. ASSUME Wrong # {} PROVE FALSE
    <3>1. Wrong \in SUBSET Nat
      OBVIOUS
    <3>2. PICK m \in Wrong : \A j \in Wrong : m <= j
      <4> HIDE DEF Wrong
      <4> QED BY <2>2, <3>1, Minimum
    <3>3. m \in 1..k /\ m # 1 /\ m - 1 \in 1..k /\ ~(m <= m - 1)
      BY <1>2, <2>1
    <3>4. f[m - 1] = a[m - 1]
      BY <3>2, <3>3
    <3>5. f[m] = a[m]
      BY <1>3, <2>1, <3>3, <3>4
    <3> QED BY <3>5
  <2>3. \A j \in 1..k : f[j] = a[j]
    BY <2>2
  <2>4. f = [j \in 1..k |-> f[j]]
    BY <1>5
  <2> HIDE DEF Is
  <2> QED BY <2>3, <2>4
<1> HIDE DEF Is
<1>6. (CHOOSE f : Is(f)) = g
  BY <1>4, <1>5
<1>7. g[k] = a[k]
  OBVIOUS
<1> HIDE DEF g
<1> QED BY <1>1, <1>6, <1>7

-----------------------------------------------------------------------------
(* The inductive invariant.                                                *)

Span == {p \in [from : Nat, to : Nat] : p.from < p.to}

SpanOf(evs, j) == [from |-> evs[2 * j - 1].t, to |-> evs[2 * j].t]

\* The events are a high and a low for each call of pulse().
Pairs(evs, spans) ==
  \E m \in Nat :
    /\ Len(evs) = 2 * m
    /\ \A j \in 1..m : evs[2 * j - 1].v = 1 /\ evs[2 * j].v = 0 /\ SpanOf(evs, j) \in spans
    /\ \A p \in spans : \E j \in 1..m : p = SpanOf(evs, j)

EvenTimes(evts) == \A c \in Channels : \A i \in DOMAIN evts[c] : evts[c][i].t % 2 = 0

\* What a script can have recorded.
IsScript(evts, spans, others) ==
  /\ evts \in [Channels -> Seq(Event)] /\ spans \in [Channels -> SUBSET Span]
  /\ EvenTimes(evts)
  /\ others \subseteq Channels
  /\ \A c \in Channels \ others : Pairs(evts[c], spans[c])

ScriptInv ==
  IsScript(events, pulses, single)
    /\ IsScript(sent_for.events, sent_for.pulses, sent_for.single)

\* The rows are those of the timeline that was sent.
RowsInv ==
  LET N == Normalized(sent_for.events)
      a == Axis(N)
  IN sent # <<>> => Len(a) > 1 /\ \E ups : sent = Words(Compressed(N, a, ups))

IInv == TypeOK /\ ScriptInv /\ RowsInv

\* An empty script is a script.
LEMMA NothingRecorded ==
  /\ IsScript(NoEvents, NoPulses, {}) /\ NoEvents \in [Channels -> Seq(Event)]
  /\ \A c \in Channels : NoPulses[c] = {}
<1>1. Pairs(<<>>, {})
  <2>1. Len(<<>>) = 2 * 0 /\ 0 \in Nat /\ \A j \in 1..0 : FALSE
    OBVIOUS
  <2> QED BY <2>1 DEF Pairs
<1>2. <<>> \in Seq(Event)
  OBVIOUS
<1>3. EvenTimes(NoEvents)
  BY DEF EvenTimes, NoEvents
<1> QED BY <1>1, <1>2, <1>3 DEF IsScript, NoEvents, NoPulses

LEMMA InitIInv == Init => IInv
<1> SUFFICES ASSUME Init PROVE IInv
  OBVIOUS
<1>1. IsScript(NoEvents, NoPulses, {})
  BY NothingRecorded
<1>2. TypeOK
  <2>1. 0 \in 0..MaxCalls
    BY WaveformAssumption
  <2>2. /\ events \in [Channels -> Seq([t : Nat, v : {0, 1}])]
        /\ \A c \in Channels : \A p \in pulses[c] : 0 <= p.from /\ p.from < p.to
        /\ group_count \in 0..(CountModulus - 1)
    BY NothingRecorded, WaveformAssumption DEF Init, Event
  <2>3. sent \in Seq([reps : 0..(RepModulus - 1), state : SUBSET Channels])
    BY DEF Init
  <2>4. /\ frozen \in BOOLEAN /\ calls \in 0..MaxCalls /\ single \subseteq Channels
        /\ LED_mask \subseteq Channels
    BY <2>1 DEF Init
  <2> QED BY <2>2, <2>3, <2>4 DEF TypeOK
<1>3. ScriptInv /\ RowsInv
  BY <1>1 DEF Init, ScriptInv, RowsInv, Recorded
<1> QED BY <1>2, <1>3 DEF IInv

\* A call of pulse() appends a pair.
LEMMA PairsGrow ==
  ASSUME NEW evs \in Seq(Event), NEW spans, Pairs(evs, spans),
         NEW hi \in Event, NEW lo \in Event, hi.v = 1, lo.v = 0
  PROVE  Pairs(evs \o <<hi, lo>>, spans \cup {[from |-> hi.t, to |-> lo.t]})
<1> DEFINE new == evs \o <<hi, lo>>
           span == [from |-> hi.t, to |-> lo.t]
<1>1. PICK m \in Nat :
        /\ Len(evs) = 2 * m
        /\ \A j \in 1..m : evs[2 * j - 1].v = 1 /\ evs[2 * j].v = 0 /\ SpanOf(evs, j) \in spans
        /\ \A p \in spans : \E j \in 1..m : p = SpanOf(evs, j)
  BY DEF Pairs
<1>2. /\ Len(new) = 2 * m + 2 /\ \A i \in 1..(2 * m) : new[i] = evs[i]
      /\ new[2 * m + 1] = hi /\ new[2 * m + 2] = lo
  BY <1>1
<1> HIDE DEF new
<1>3. ASSUME NEW j \in 1..m
      PROVE  new[2 * j - 1] = evs[2 * j - 1] /\ new[2 * j] = evs[2 * j]
  <2>1. 2 * j - 1 \in 1..(2 * m) /\ 2 * j \in 1..(2 * m)
    OBVIOUS
  <2> QED BY <1>2, <2>1
<1>4. \A j \in 1..m : SpanOf(new, j) = SpanOf(evs, j)
  BY <1>3 DEF SpanOf
<1>5. /\ 2 * (m + 1) = 2 * m + 2 /\ 2 * (m + 1) - 1 = 2 * m + 1 /\ m + 1 \in Nat
      /\ \A j \in 1..(m + 1) : j \in 1..m \/ j = m + 1
      /\ \A j \in 1..m : j \in 1..(m + 1)
      /\ m + 1 \in 1..(m + 1)
  OBVIOUS
<1>6. new[2 * (m + 1) - 1] = hi /\ new[2 * (m + 1)] = lo /\ SpanOf(new, m + 1) = span
  BY <1>2, <1>5 DEF SpanOf
<1> HIDE DEF span
<1>7. Len(new) = 2 * (m + 1)
  BY <1>2, <1>5
<1>8. \A j \in 1..(m + 1) : new[2 * j - 1].v = 1 /\ new[2 * j].v = 0
                            /\ SpanOf(new, j) \in spans \cup {span}
  <2>1. ASSUME NEW j \in 1..m
        PROVE  /\ new[2 * j - 1].v = 1 /\ new[2 * j].v = 0
               /\ SpanOf(new, j) \in spans \cup {span}
    <3>1. evs[2 * j - 1].v = 1 /\ evs[2 * j].v = 0 /\ SpanOf(evs, j) \in spans
      BY <1>1
    <3>2. new[2 * j - 1] = evs[2 * j - 1] /\ new[2 * j] = evs[2 * j]
      BY <1>3
    <3>3. SpanOf(new, j) = SpanOf(evs, j)
      BY <1>4
    <3> QED BY <3>1, <3>2, <3>3
  <2> QED BY <1>5, <1>6, <2>1
<1>9. \A p \in spans \cup {span} : \E j \in 1..(m + 1) : p = SpanOf(new, j)
  BY <1>1, <1>4, <1>5, <1>6
<1>10. Pairs(new, spans \cup {span})
  BY <1>5, <1>7, <1>8, <1>9 DEF Pairs
<1> QED BY <1>10 DEF new, span

Requested == {e \in [t : Int, v : Int] : e.t % 2 = 0}

\* add_event appends what it has checked.
LEMMA AddEventsTypes ==
  ASSUME TypeOK, NEW c \in Channels, NEW evts \in Seq(Requested), AddEvents(c, evts)
  PROVE  /\ evts \in Seq(Event) /\ events' \in [Channels -> Seq(Event)]
         /\ events'[c] = events[c] \o evts
         /\ \A d \in Channels \ {c} : events'[d] = events[d]
         /\ calls' \in 0..MaxCalls
         /\ EvenTimes(events) => EvenTimes(events')
<1>1. \A i \in 1..Len(evts) : evts[i] \in Requested
                              /\ evts[i].t >= 0 /\ evts[i].v \in {0, 1}
  <2>1. DOMAIN evts = 1..Len(evts) /\ \A i \in 1..Len(evts) : evts[i] \in Requested
    OBVIOUS
  <2> QED BY <2>1 DEF AddEvents
<1>2. \A i \in 1..Len(evts) : evts[i] \in Event
  <2>1. \A e \in Requested : e.t >= 0 /\ e.v \in {0, 1} => e \in Event
    BY DEF Event, Requested
  <2> QED BY <1>1, <2>1
<1>3. evts \in Seq(Event)
  BY <1>2
<1>4. events \in [Channels -> Seq(Event)]
  BY DEF TypeOK, Event
<1>5. events' = [events EXCEPT ![c] = @ \o evts]
  BY DEF AddEvents
<1>6. events[c] \o evts \in Seq(Event)
  BY <1>3, <1>4
<1>7. calls' \in 0..MaxCalls
  BY WaveformAssumption DEF TypeOK, AddEvents
<1>8. ASSUME EvenTimes(events) PROVE EvenTimes(events')
  <2> SUFFICES ASSUME NEW d \in Channels, NEW i \in DOMAIN events'[d]
               PROVE  events'[d][i].t % 2 = 0
    BY DEF EvenTimes
  <2>1. CASE d # c
    <3>1. events'[d] = events[d]
      BY <1>4, <1>5, <2>1
    <3> QED BY <1>8, <3>1 DEF EvenTimes
  <2>2. CASE d = c
    <3>1. PICK old \in Seq(Event) : old = events[c]
      BY <1>4
    <3>2. events'[d] = old \o evts
      BY <1>4, <1>5, <2>2, <3>1
    <3>3. \/ i \in 1..Len(old) /\ events'[d][i] = old[i]
          \/ i - Len(old) \in 1..Len(evts) /\ events'[d][i] = evts[i - Len(old)]
      BY <1>3, <3>2
    <3>4. \A j \in 1..Len(old) : old[j].t % 2 = 0
      BY <1>8, <3>1 DEF EvenTimes
    <3>5. \A j \in 1..Len(evts) : evts[j].t % 2 = 0
      BY <1>1 DEF Requested
    <3> QED BY <3>3, <3>4, <3>5
  <2> QED BY <2>1, <2>2
<1> QED BY <1>3, <1>4, <1>5, <1>6, <1>7, <1>8

LEMMA SetStep ==
  ASSUME IInv, NEW c \in Channels, NEW t \in Times, NEW v \in 0..2, Set(c, t, v)
  PROVE  IInv'
<1>1. t \in Int /\ v \in Int /\ t % 2 = 0
  BY WaveformAssumption
<1>2. AddEvents(c, <<[t |-> t, v |-> v]>>) /\ single' = single \cup {c} /\ pulses' = pulses
      /\ UNCHANGED <<frozen, sent, group_count, sent_for, LED_mask>>
  BY DEF Set, AddEvents, download
<1>3. /\ events' \in [Channels -> Seq(Event)]
      /\ \A d \in Channels \ {c} : events'[d] = events[d]
      /\ calls' \in 0..MaxCalls /\ EvenTimes(events')
  <2>1. [t |-> t, v |-> v] \in Requested
    BY <1>1 DEF Requested
  <2>2. <<[t |-> t, v |-> v]>> \in Seq(Requested)
    BY <2>1
  <2>3. EvenTimes(events)
    BY DEF IInv, ScriptInv, IsScript
  <2> QED BY <1>2, <2>2, <2>3, AddEventsTypes DEF IInv
<1>4. TypeOK'
  BY <1>2, <1>3 DEF IInv, TypeOK, Event
<1>5. ScriptInv'
  BY <1>2, <1>3 DEF IInv, ScriptInv, IsScript
<1>6. RowsInv'
  BY <1>2 DEF IInv, RowsInv
<1> QED BY <1>4, <1>5, <1>6 DEF IInv

LEMMA PulseStep ==
  ASSUME IInv, NEW c \in Channels, NEW t \in Times, NEW width \in Widths, Pulse(c, t, width)
  PROVE  IInv'
<1> DEFINE hi == [t |-> t, v |-> 1]
           lo == [t |-> t + width, v |-> 0]
           span == [from |-> t, to |-> t + width]
<1>1. /\ t \in Int /\ width \in Int /\ width > 0 /\ t + width \in Int
      /\ t % 2 = 0 /\ (t + width) % 2 = 0
  BY WaveformAssumption DEF Pulse
<1>2. /\ AddEvents(c, <<hi, lo>>) /\ single' = single
      /\ pulses' = [pulses EXCEPT ![c] = @ \cup {span}]
      /\ UNCHANGED <<frozen, sent, group_count, sent_for, LED_mask>>
  BY DEF Pulse, AddEvents, download
<1>3. hi \in Requested /\ lo \in Requested
  BY <1>1 DEF Requested
<1> HIDE DEF hi, lo
<1>4. /\ <<hi, lo>> \in Seq(Event) /\ events' \in [Channels -> Seq(Event)]
      /\ events'[c] = events[c] \o <<hi, lo>>
      /\ \A d \in Channels \ {c} : events'[d] = events[d]
      /\ calls' \in 0..MaxCalls /\ EvenTimes(events')
  <2>1. <<hi, lo>> \in Seq(Requested)
    BY <1>3
  <2>2. EvenTimes(events)
    BY DEF IInv, ScriptInv, IsScript
  <2> QED BY <1>2, <2>1, <2>2, AddEventsTypes DEF IInv
<1>5. hi \in Event /\ lo \in Event
  <2>1. <<hi, lo>>[1] = hi /\ <<hi, lo>>[2] = lo /\ Len(<<hi, lo>>) = 2
    OBVIOUS
  <2> HIDE DEF Event
  <2> QED BY <1>4, <2>1
<1>6. span \in Span /\ hi.t = t /\ lo.t = t + width /\ hi.v = 1 /\ lo.v = 0
  <2>1. hi.t = t /\ lo.t = t + width /\ hi.v = 1 /\ lo.v = 0
    BY DEF hi, lo
  <2>2. t \in Nat /\ t + width \in Nat /\ t < t + width
    BY <1>1, <1>5, <2>1 DEF Event
  <2> QED BY <2>1, <2>2 DEF Span
<1>7. /\ pulses \in [Channels -> SUBSET Span] /\ events \in [Channels -> Seq(Event)]
      /\ \A d \in Channels \ single : Pairs(events[d], pulses[d])
  BY DEF IInv, ScriptInv, IsScript
<1>8. /\ pulses' \in [Channels -> SUBSET Span] /\ pulses'[c] = pulses[c] \cup {span}
      /\ \A d \in Channels \ {c} : pulses'[d] = pulses[d]
  <2> HIDE DEF span
  <2> QED BY <1>2, <1>6, <1>7
<1>9. TypeOK'
  <2>1. \A d \in Channels : \A p \in pulses'[d] : 0 <= p.from /\ p.from < p.to
    <3> SUFFICES ASSUME NEW d \in Channels, NEW p \in pulses'[d]
                 PROVE  0 <= p.from /\ p.from < p.to
      OBVIOUS
    <3>1. p \in Span
      BY <1>8
    <3> QED BY <3>1 DEF Span
  <2> QED BY <1>2, <1>4, <2>1 DEF IInv, TypeOK, Event
<1>10. ASSUME NEW d \in Channels \ single PROVE Pairs(events'[d], pulses'[d])
  <2>1. CASE d # c
    BY <1>4, <1>7, <1>8, <2>1
  <2>2. CASE d = c
    <3>1. Pairs(events[c] \o <<hi, lo>>, pulses[c] \cup {[from |-> hi.t, to |-> lo.t]})
      BY <1>5, <1>6, <1>7, <2>2, PairsGrow
    <3> QED BY <1>4, <1>6, <1>8, <2>2, <3>1
  <2> QED BY <2>1, <2>2
<1>11. ScriptInv'
  BY <1>2, <1>4, <1>8, <1>10 DEF IInv, ScriptInv, IsScript
<1>12. RowsInv'
  BY <1>2 DEF IInv, RowsInv
<1> QED BY <1>9, <1>11, <1>12 DEF IInv

LEMMA SendStep ==
  ASSUME IInv, SendStreambytes
  PROVE  IInv'
<1> DEFINE N == Normalized(events)
           a == Axis(N)
<1>1. events \in [Channels -> Seq(Event)]
  BY DEF IInv, ScriptInv, IsScript
<1>2. Len(a) > 1 /\ sent_for' = Recorded /\ UNCHANGED <<timeline, LED_mask>>
      /\ \E ups : /\ sent' = Words(Compressed(N, a, ups))
                  /\ group_count' = Announced(Compressed(N, a, ups))
  BY DEF SendStreambytes
<1>3. PICK ups : /\ sent' = Words(Compressed(N, a, ups))
                 /\ group_count' = Announced(Compressed(N, a, ups))
  BY <1>2
<1>4. sent' \in Seq(SentRow) /\ group_count' \in 0..(CountModulus - 1)
  BY <1>1, <1>2, <1>3, CompressedFacts
<1> HIDE DEF N, a
<1>5. TypeOK'
  BY <1>2, <1>4 DEF IInv, TypeOK, SentRow, timeline
<1>6. sent_for'.events = events /\ sent_for'.pulses = pulses /\ sent_for'.single = single
  BY <1>2 DEF Recorded
<1>7. ScriptInv'
  BY <1>2, <1>6 DEF IInv, ScriptInv, timeline
<1>8. RowsInv'
  BY <1>2, <1>3, <1>6 DEF RowsInv, N, a
<1> QED BY <1>5, <1>7, <1>8 DEF IInv

\* A cleared timeline is that of a script that has recorded nothing.
LEMMA NextIInv == IInv /\ [Next]_vars => IInv'
<1> SUFFICES ASSUME IInv, [Next]_vars PROVE IInv'
  OBVIOUS
<1>1. ASSUME NEW c \in Channels, NEW t \in Times,
             (\E v \in 0..2 : Set(c, t, v)) \/ \E width \in Widths : Pulse(c, t, width)
      PROVE  IInv'
  BY <1>1, SetStep, PulseStep
<1>2. ASSUME UNCHANGED <<sent, sent_for>> PROVE RowsInv'
  BY <1>2 DEF IInv, RowsInv
<1>3. CASE Freeze
  <2>1. TypeOK'
    BY <1>3 DEF IInv, TypeOK, Freeze, download
  <2>2. ScriptInv' /\ RowsInv'
    BY <1>2, <1>3 DEF IInv, ScriptInv, Freeze, download
  <2> QED BY <2>1, <2>2 DEF IInv
<1>4. CASE Clear
  <2>1. TypeOK'
    BY <1>4, NothingRecorded DEF IInv, TypeOK, Clear, Event, download
  <2>2. ScriptInv' /\ RowsInv'
    BY <1>2, <1>4, NothingRecorded DEF IInv, ScriptInv, Clear, download
  <2> QED BY <2>1, <2>2 DEF IInv
<1>5. CASE SendStreambytes
  BY <1>5, SendStep
<1>6. CASE SetDone
  <2>1. TypeOK'
    BY <1>6 DEF IInv, TypeOK, SetDone, timeline, download
  <2>2. ScriptInv' /\ RowsInv'
    BY <1>2, <1>6 DEF IInv, ScriptInv, SetDone, timeline, download
  <2> QED BY <2>1, <2>2 DEF IInv
<1>7. CASE UNCHANGED vars
  <2>1. TypeOK'
    BY <1>7 DEF IInv, TypeOK, vars, timeline, download
  <2>2. ScriptInv' /\ RowsInv'
    BY <1>2, <1>7 DEF IInv, ScriptInv, vars, timeline, download
  <2> QED BY <2>1, <2>2 DEF IInv
<1> QED BY <1>1, <1>3, <1>4, <1>5, <1>6, <1>7 DEF Next

\* The invariant holds in every reachable state.
THEOREM WaveformInvariant == Spec => []IInv
BY InitIInv, NextIInv, PTL DEF Spec

\* Whatever a script calls, the timeline keeps no negative times and no third level,
\* and a downloaded row has a duration of whole ticks.
THEOREM WaveformTypes == Spec => []TypeOK
BY WaveformInvariant, PTL DEF IInv

-----------------------------------------------------------------------------
(* What follows from the invariant.                                        *)

\* set_done switches on the LED of every channel that the download raises: only a
\* channel with events is ever high.
THEOREM LedsOfProgram == Spec => LedsCoverProgram
<1> DEFINE Covers == LED_mask' # LED_mask /\ sent_for = Recorded
                       => \A k \in DOMAIN sent : sent[k].state \subseteq LED_mask'
<1>1. IInv /\ [Next]_vars => [Covers]_vars
  <2> SUFFICES ASSUME IInv, [Next]_vars, LED_mask' # LED_mask, sent_for = Recorded,
                      NEW k \in DOMAIN sent, NEW c \in sent[k].state
               PROVE  c \in LED_mask'
    OBVIOUS
  <2> DEFINE N == Normalized(events)
             a == Axis(N)
  <2>1. LED_mask' = {d \in Channels : HasEvents(events[d])}
    BY DEF Next, SetDone, Set, Pulse, AddEvents, Freeze, Clear, SendStreambytes, timeline, download, vars
  <2>2. sent_for.events = events /\ events \in [Channels -> Seq(Event)] /\ sent # <<>>
    BY DEF Recorded, IInv, TypeOK, Event
  <2>3. PICK ups : sent = Words(Compressed(N, a, ups))
    BY <2>2 DEF IInv, RowsInv
  <2>4. k \in 1..(Len(a) - 1) /\ sent[k].state = {d \in Channels : LevelAt(N, d, a[k])}
    BY <2>3 DEF Compressed, Words
  <2>5. c \in Channels /\ \E x \in N : x.c = c
    BY <2>4 DEF LevelAt
  <2> HIDE DEF N, a
  <2>6. \E e \in Numbered(events) : e.c = c
    <3>1. PICK x \in N : x.c = c
      BY <2>5
    <3>2. CASE x \in Numbered(events)
      BY <3>1, <3>2
    <3>3. CASE x \notin Numbered(events)
      <4>1. PICK h \in Numbered(events) : AddedFor(Numbered(events), h, x)
        BY <2>2, <3>3, NormalizedFacts DEF N
      <4> QED BY <3>1, <4>1 DEF AddedFor, LowAfter
    <3> QED BY <3>2, <3>3
  <2>7. \E i \in DOMAIN events[c] : TRUE
    BY <2>2, <2>6, NumberedFacts
  <2>8. HasEvents(events[c])
    BY <2>7 DEF HasEvents
  <2> QED BY <2>1, <2>5, <2>8
<1> QED BY <1>1, WaveformInvariant, PTL DEF Spec, LedsCoverProgram

\* On the grid each row that fits lasts until the next entry of the axis.
LEMMA RowsOnGrid ==
  ASSUME IInv, sent # <<>>, Aligned(SentAxis), Fits(SentAxis), NEW K, K = Len(SentAxis)
  PROVE  /\ K \in Nat /\ K > 1 /\ SentAxis \in Seq(Nat) /\ Ascending(SentAxis)
         /\ Len(sent) = K - 1 /\ DOMAIN sent = 1..(K - 1)
         /\ \A k \in 1..(K - 1) :
              /\ sent[k].reps \in Nat
              /\ SentAxis[k] + Tick * sent[k].reps = SentAxis[k + 1]
              /\ \A c \in Channels :
                   c \in sent[k].state
                     <=> LevelAt(Normalized(sent_for.events), c, SentAxis[k])
         /\ \A k \in 1..K : RowStart(SentAxis, k) = SentAxis[k]
<1> DEFINE N == Normalized(sent_for.events)
           a == SentAxis
<1>1. sent_for.events \in [Channels -> Seq(Event)]
  BY DEF IInv, ScriptInv, IsScript
<1>2. a = Axis(N) /\ Len(a) > 1
  BY DEF IInv, RowsInv, SentAxis
<1>3. PICK ups : sent = Words(Compressed(N, a, ups))
  BY DEF IInv, RowsInv, SentAxis
<1>4. IsTimeline(N)
  BY <1>1, NormalizedFacts
<1>5. K \in Nat /\ K > 1 /\ a \in Seq(Nat) /\ Ascending(a)
  BY <1>2, <1>4, AxisFacts
<1>6. Len(sent) = K - 1 /\ sent \in Seq(SentRow)
  BY <1>1, <1>2, <1>3, CompressedFacts
<1>10. DOMAIN sent = 1..(K - 1) /\ DOMAIN Compressed(N, a, ups) = 1..(K - 1)
  BY <1>1, <1>2, <1>3, <1>6, CompressedFacts
<1> HIDE DEF N, a
<1>7. \A j \in 1..K : a[j] \in Nat
  BY <1>5 DEF a
<1>8. ASSUME NEW k \in 1..(K - 1)
      PROVE  /\ sent[k].reps \in Nat /\ a[k] + Tick * sent[k].reps = a[k + 1]
             /\ \A c \in Channels : c \in sent[k].state <=> LevelAt(N, c, a[k])
  <2>1. /\ sent[k].reps = Cut(Rounded(a[k + 1] - a[k], k \in ups))
        /\ sent[k].state = {c \in Channels : LevelAt(N, c, a[k])}
    BY <1>3, <1>10 DEF Compressed, Words, a
  <2>2. k \in 1..K /\ k + 1 \in 1..K /\ 1 \in 1..K /\ k < k + 1
    BY <1>5
  <2>3. a[k] \in Nat /\ a[k + 1] \in Nat /\ a[1] \in Nat /\ a[k] < a[k + 1]
    BY <1>5, <1>7, <2>2 DEF a, Ascending
  <2>4. PICK d \in Nat : d = a[k + 1] - a[k]
    BY <2>3
  <2>5. d % Tick = 0
    <3>1. (a[k] - a[1]) % Tick = 0 /\ (a[k + 1] - a[1]) % Tick = 0
      BY <1>5, <2>2 DEF Aligned, a
    <3>2. a[k] - a[1] \in Int /\ a[k + 1] - a[1] \in Int /\ Tick \in Nat \ {0}
      BY <2>3, WaveformAssumption
    <3>3. ((a[k + 1] - a[1]) - (a[k] - a[1])) % Tick = 0
      BY <3>1, <3>2, DifferenceOnGrid
    <3>4. (a[k + 1] - a[1]) - (a[k] - a[1]) = d
      BY <2>3, <2>4
    <3> QED BY <3>3, <3>4
  <2>6. PICK r \in Nat : r = sent[k].reps /\ Tick * r = d
    <3>1. PICK r \in Nat : r = Rounded(d, k \in ups) /\ Tick * r = d
      BY <2>5, RoundedFacts
    <3>2. d < Tick * RepModulus
      BY <1>10, <2>4 DEF Fits, a
    <3>3. r < RepModulus
      BY <3>1, <3>2, WaveformAssumption, Quotients
    <3>4. Cut(r) = r
      BY <3>3, WaveformAssumption, Remainders DEF Cut
    <3>5. sent[k].reps = r
      BY <2>1, <2>4, <3>1, <3>4
    <3> QED BY <3>1, <3>5
  <2>7. a[k] + Tick * sent[k].reps = a[k + 1]
    BY <2>3, <2>4, <2>6
  <2> QED BY <2>1, <2>6, <2>7
<1>9. \A k \in 1..K : RowStart(a, k) = a[k]
  BY <1>5, <1>7, <1>8, StartOfRow
<1> QED BY <1>5, <1>6, <1>8, <1>9, <1>10 DEF a, N

\* One of the highs of channel c has begun at time t and has not ended.
HighAt(E, c, t) == \E e \in E : e.c = c /\ e.v = 1 /\ e.t <= t /\ t < Until(E, e)

\* At every tick at which a row is played its state is that of the highs that have begun
\* and have not ended.
LEMMA RowsPlayHighs ==
  ASSUME IInv, sent # <<>>, Aligned(SentAxis), Fits(SentAxis), NEW E, E = Numbered(sent_for.events),
         NEW k \in DOMAIN sent, NEW t \in Instants(SentAxis, k)
  PROVE  /\ t \in Nat
         /\ \A c \in Channels : c \in sent[k].state <=> HighAt(E, c, t)
<1> DEFINE N == Normalized(sent_for.events)
           a == SentAxis
<1>1. PICK K \in Nat : K = Len(a)
  BY RowsOnGrid
<1>2. /\ a \in Seq(Nat) /\ k \in 1..(K - 1)
      /\ sent[k].reps \in Nat /\ a[k] + Tick * sent[k].reps = a[k + 1]
      /\ \A c \in Channels : c \in sent[k].state <=> LevelAt(N, c, a[k])
      /\ RowStart(a, k) = a[k]
  <2>1. k \in 1..(K - 1)
    BY <1>1, RowsOnGrid
  <2>2. k \in 1..K
    BY <2>1
  <2> QED BY <1>1, <2>1, <2>2, RowsOnGrid
<1>3. sent_for.events \in [Channels -> Seq(Event)]
  BY DEF IInv, ScriptInv, IsScript
<1>4. a = Axis(N) /\ IsTimeline(N)
  BY <1>3, NormalizedFacts DEF SentAxis
<1> HIDE DEF N, a
<1>5. PICK r \in Nat, n \in Nat : r = sent[k].reps /\ n < r /\ t = a[k] + Tick * n
  <2>1. PICK m \in 0..(sent[k].reps - 1) : t = a[k] + Tick * m
    BY <1>2 DEF Instants, a
  <2>2. m \in Nat /\ m < sent[k].reps
    BY <1>2
  <2> QED BY <1>2, <2>1, <2>2
<1>6. a[k] \in Nat /\ a[k + 1] \in Nat
  <2>1. k \in 1..K /\ k + 1 \in 1..K
    BY <1>2
  <2> QED BY <1>1, <1>2, <2>1
<1>7. t \in Nat /\ a[k] <= t /\ t < a[k + 1]
  <2>1. PICK p \in Nat, q \in Nat : p = Tick * n /\ q = Tick * r /\ p < q
    <3>1. n \in Nat /\ n < r /\ Tick \in Nat \ {0}
      BY <1>5, WaveformAssumption
    <3>2. Tick * n \in Nat /\ Tick * n < Tick * r /\ Tick * r \in Nat
      BY <3>1, Multiples
    <3> QED BY <3>2
  <2>2. t = a[k] + p /\ a[k + 1] = a[k] + q
    BY <1>2, <1>5, <2>1
  <2> QED BY <1>6, <2>1, <2>2
<1>9. t \in Int
  BY <1>7
<1>8. ASSUME NEW c \in Channels PROVE LevelAt(N, c, t) <=> LevelAt(N, c, a[k])
  <2>1. k \in 1..(K - 1)
    BY <1>2
  <2> QED BY <1>1, <1>4, <1>7, <1>9, <2>1, LevelKept
<1>10. \A c \in Channels : LevelAt(N, c, t) <=> HighAt(E, c, t)
  BY <1>3, <1>9, Levels DEF N, HighAt
<1> QED BY <1>2, <1>7, <1>8, <1>10

\* A channel is high by HighAt when the script says so.
LEMMA HighsFollowEvents ==
  ASSUME NEW evts \in [Channels -> Seq(Event)], EvenTimes(evts),
         NEW E, E = Numbered(evts), NEW c \in Channels, NEW t \in Nat
  PROVE  FollowsEvents(E, c, t, HighAt(E, c, t))
<1> DEFINE Own == OfChannel(E, c)
<1>1. IsTimeline(E) /\ Own \in SUBSET E /\ \A e \in Own : e.c = c
  BY NumberedFacts DEF OfChannel
<1>2. ASSUME NEW e \in E PROVE e.t \in Nat /\ e.n \in Nat /\ e.t % 2 = 0
  <2>1. e.t \in Nat /\ e.n \in Nat /\ e.c \in Channels
    BY <1>1 DEF IsTimeline, Entry
  <2>2. PICK i \in DOMAIN evts[e.c] : e.t = evts[e.c][i].t
    BY NumberedFacts
  <2> QED BY <2>1, <2>2 DEF EvenTimes
\* A high that has begun and not ended is in effect.
<1>3. ASSUME NEW e \in Own, e.v = 1, e.t <= t, t < Until(E, e)
      PROVE  InEffect(E, e, t)
  <2>1. e \in E
    BY <1>1
  <2> SUFFICES ASSUME NEW f \in Later(E, e) PROVE t < f.t
    BY <1>3 DEF InEffect
  <2>2. PICK g \in Later(E, e) :
          (\A x \in Later(E, e) : x = g \/ Before(g, x)) /\ Until(E, e) <= g.t
    BY <2>1, EndsOfHighs DEF EndsAlone
  <2>3. f \in E /\ g \in E /\ (f = g \/ Before(g, f))
    BY <2>2 DEF Later
  <2>4. f.t \in Nat /\ g.t \in Nat /\ g.t <= f.t /\ Until(E, e) \in Nat
    BY <1>2, <2>1, <2>3, EndsOfHighs DEF Before
  <2> QED BY <1>3, <2>2, <2>4
\* Only one event is in effect.
<1>4. ASSUME NEW e \in Own, NEW f \in Own, InEffect(E, e, t), InEffect(E, f, t)
      PROVE  e = f
  <2>1. \A x, y \in Own : InEffect(E, x, t) /\ InEffect(E, y, t) => ~Before(x, y)
    <3> SUFFICES ASSUME NEW x \in Own, NEW y \in Own,
                        InEffect(E, x, t), InEffect(E, y, t), Before(x, y)
                 PROVE  FALSE
      OBVIOUS
    <3>1. y \in Later(E, x)
      BY <1>1 DEF Later
    <3>2. t < y.t /\ y.t <= t /\ y.t \in Nat
      BY <1>1, <1>2, <3>1 DEF InEffect
    <3> QED BY <3>2
  <2>2. e # f => Before(e, f) \/ Before(f, e)
    BY <1>1, BeforeOrders
  <2> QED BY <1>4, <2>1, <2>2
<1>5. HighAt(E, c, t) => \E e \in Own : e.v = 1 /\ InEffect(E, e, t)
  <2>1. ASSUME NEW e \in E, e.c = c, e.v = 1, e.t <= t, t < Until(E, e)
        PROVE  \E x \in Own : x.v = 1 /\ InEffect(E, x, t)
    BY <1>3, <2>1 DEF OfChannel
  <2> QED BY <2>1 DEF HighAt
<1>6. ASSUME NEW e \in Own, NEW f \in Own, InEffect(E, e, t), e.v = 1, Follows(E, f, e)
      PROVE  /\ f.v = 0 => HighAt(E, c, t)
             /\ f.v = 1 => (HighAt(E, c, t) <=> 2 * t < e.t + f.t)
  <2>1. e \in E /\ e.c = c /\ f \in Later(E, e) /\ e.t <= t /\ t < f.t
    BY <1>1, <1>6 DEF InEffect, Follows
  <2>2. First(Later(E, e)) = f
    <3> DEFINE L == Later(E, e)
    <3>1. L \in SUBSET E /\ L # {} /\ \A x \in L : x.c = c
      BY <2>1 DEF Later
    <3> DEFINE g == First(L)
    <3>2. g \in L /\ \A x \in L \ {g} : Before(g, x)
      BY <1>1, <3>1, FirstFacts
    <3>3. f \in L /\ \A x \in L \ {f} : Before(f, x)
      BY <1>6 DEF Follows
    <3> HIDE DEF g, L
    <3>4. \A x, y \in L : Before(x, y) => ~Before(y, x)
      BY <1>1, <3>1, BeforeOrders
    <3>5. g = f
      BY <3>2, <3>3, <3>4
    <3> QED BY <3>5 DEF g, L
  <2>3. Until(E, e) = IF f.v = 0 THEN f.t ELSE (e.t + f.t) \div 2
    BY <2>1, <2>2 DEF Until
  <2>4. f \in E
    BY <2>1 DEF Later
  <2>5. f.v = 0 => HighAt(E, c, t)
    BY <1>6, <2>1, <2>3 DEF HighAt
  <2>6. ASSUME f.v = 1 PROVE t < Until(E, e) <=> 2 * t < e.t + f.t
    <3>1. PICK x \in Nat, y \in Nat : x = e.t /\ y = f.t /\ x % 2 = 0 /\ y % 2 = 0
      BY <1>2, <2>1, <2>4
    <3>2. Until(E, e) = (x + y) \div 2
      BY <2>3, <2>6, <3>1
    <3>3. t < (x + y) \div 2 <=> 2 * t < x + y
      BY <3>1, Halfway
    <3> QED BY <3>1, <3>2, <3>3
  <2>7. HighAt(E, c, t) <=> t < Until(E, e)
    <3>1. t < Until(E, e) => HighAt(E, c, t)
      BY <1>6, <2>1 DEF HighAt
    <3>2. ASSUME NEW g \in E, g.c = c, g.v = 1, g.t <= t, t < Until(E, g)
          PROVE  t < Until(E, e)
      <4>1. g \in Own
        BY <3>2 DEF OfChannel
      <4>2. g = e
        BY <1>3, <1>4, <1>6, <3>2, <4>1
      <4> QED BY <3>2, <4>2
    <3> QED BY <3>1, <3>2 DEF HighAt
  <2> QED BY <2>5, <2>6, <2>7
<1> HIDE DEF Own
<1>7. ASSUME NEW e \in Own, NEW f \in Own, InEffect(E, e, t), e.v = 1, Follows(E, f, e)
      PROVE  /\ f.v = 0 => HighAt(E, c, t)
             /\ (\A g \in Own : g.v = 1) => (HighAt(E, c, t) <=> 2 * t < e.t + f.t)
  BY <1>6, <1>7
<1> QED BY <1>5, <1>7 DEF FollowsEvents, Own

\* send_streambytes sends what the script has asked for: from the first event to the
\* last a channel is high at a tick only if its last event is a high, it is high if a
\* low ends that high, and starts of pulses end halfway to the next, in whichever order
\* the calls were made.
THEOREM RowsPlayTimeline == Spec => []PlaysWaveform
<1>1. IInv => PlaysWaveform
  <2> DEFINE axis == SentAxis
             E == Numbered(sent_for.events)
  <2> SUFFICES ASSUME IInv, sent # <<>>, Aligned(axis), Fits(axis)
               PROVE  /\ \A k \in DOMAIN sent : \A t \in Instants(axis, k) : \A c \in Channels :
                           FollowsEvents(E, c, t, c \in sent[k].state)
                      /\ RowStart(axis, Len(sent) + 1) = axis[Len(axis)]
    BY DEF PlaysWaveform
  <2>1. ASSUME NEW k \in DOMAIN sent, NEW t \in Instants(axis, k), NEW c \in Channels
        PROVE  FollowsEvents(E, c, t, c \in sent[k].state)
    <3>1. t \in Nat /\ (c \in sent[k].state <=> HighAt(E, c, t))
      BY <2>1, RowsPlayHighs
    <3>2. sent_for.events \in [Channels -> Seq(Event)] /\ EvenTimes(sent_for.events)
      BY DEF IInv, ScriptInv, IsScript
    <3>3. FollowsEvents(E, c, t, HighAt(E, c, t))
      BY <3>1, <3>2, HighsFollowEvents
    <3> HIDE DEF E
    <3> QED BY <3>1, <3>3 DEF FollowsEvents
  <2>2. RowStart(axis, Len(sent) + 1) = axis[Len(axis)]
    <3>1. PICK K \in Nat : K = Len(axis)
      BY RowsOnGrid
    <3>2. Len(sent) = K - 1 /\ K > 1 /\ \A k \in 1..K : RowStart(axis, k) = axis[k]
      BY <3>1, RowsOnGrid
    <3>3. Len(sent) + 1 = K /\ K \in 1..K
      BY <3>2
    <3> QED BY <3>1, <3>2, <3>3
  <2> QED BY <2>1, <2>2
<1> QED BY <1>1, WaveformInvariant, PTL

\* The events of a channel that only pulse() was called for.
Starts(E, e, p) == e.v = 1 /\ e.t = p.from /\ \E g \in Later(E, e) : g.v = 0 /\ g.t = p.to
Stops(e, p) == e.v = 0 /\ e.t = p.to

\* Every event of a channel with pulses only begins or ends one of them, and every pulse
\* has an event that begins it.
LEMMA PulseEvents ==
  ASSUME NEW evts \in [Channels -> Seq(Event)], NEW E, E = Numbered(evts),
         NEW c \in Channels, NEW spans \in SUBSET Span, Pairs(evts[c], spans)
  PROVE  /\ \A e \in E : e.c = c => \E p \in spans : Starts(E, e, p) \/ Stops(e, p)
         /\ \A p \in spans : \E e \in E : e.c = c /\ e.v = 1 /\ e.t = p.from
<1> DEFINE evs == evts[c]
           entry(i) == [c |-> c, t |-> evs[i].t, v |-> evs[i].v, n |-> 2 * i]
<1>1. PICK m \in Nat :
        /\ Len(evs) = 2 * m
        /\ \A j \in 1..m : evs[2 * j - 1].v = 1 /\ evs[2 * j].v = 0 /\ SpanOf(evs, j) \in spans
        /\ \A p \in spans : \E j \in 1..m : p = SpanOf(evs, j)
  BY DEF Pairs
<1>2. DOMAIN evs = 1..(2 * m) /\ \A i \in 1..(2 * m) : evs[i].t \in Nat
  <2>1. evs \in Seq(Event)
    OBVIOUS
  <2>2. \A i \in 1..(2 * m) : evs[i] \in Event
    BY <1>1, <2>1
  <2> QED BY <1>1, <2>1, <2>2 DEF Event
<1>3. \A i \in 1..(2 * m) : entry(i) \in E
  BY <1>2, NumberedFacts
<1>4. ASSUME NEW e \in E, e.c = c
      PROVE  \E i \in 1..(2 * m) : e.n = 2 * i /\ e.t = evs[i].t /\ e.v = evs[i].v
  <2>1. PICK i \in DOMAIN evts[e.c] :
          e.n = 2 * i /\ e.t = evts[e.c][i].t /\ e.v = evts[e.c][i].v
    BY NumberedFacts
  <2> QED BY <1>2, <1>4, <2>1
<1>5. \A i : entry(i).c = c /\ entry(i).t = evs[i].t /\ entry(i).v = evs[i].v
             /\ entry(i).n = 2 * i
  OBVIOUS
<1> HIDE DEF evs, entry
<1>6. \A j \in 1..m : 2 * j - 1 \in 1..(2 * m) /\ 2 * j \in 1..(2 * m)
  OBVIOUS
<1>7. ASSUME NEW e \in E, e.c = c PROVE \E p \in spans : Starts(E, e, p) \/ Stops(e, p)
  <2>1. PICK i \in 1..(2 * m) : e.n = 2 * i /\ e.t = evs[i].t /\ e.v = evs[i].v
    BY <1>4, <1>7
  <2>2. PICK j \in 1..m : i = 2 * j - 1 \/ i = 2 * j
    <3> DEFINE half == (i + 1) \div 2
    <3>1. half \in 1..m /\ (i = 2 * half - 1 \/ i = 2 * half)
      OBVIOUS
    <3> QED BY <3>1
  <2> DEFINE p == SpanOf(evs, j)
  <2>3. p \in spans /\ evs[2 * j - 1].v = 1 /\ evs[2 * j].v = 0
    BY <1>1
  <2>4. p.from = evs[2 * j - 1].t /\ p.to = evs[2 * j].t
    BY DEF SpanOf
  <2> HIDE DEF p
  <2>5. CASE i = 2 * j
    <3>1. Stops(e, p)
      BY <2>1, <2>3, <2>4, <2>5 DEF Stops
    <3> QED BY <2>3, <3>1
  <2>6. CASE i = 2 * j - 1
    <3> DEFINE g == entry(2 * j)
    <3>1. g \in E /\ g.c = c /\ g.v = 0 /\ g.t = p.to /\ g.n = 2 * (2 * j)
      BY <1>3, <1>5, <1>6, <2>3, <2>4
    <3>2. e.t = p.from /\ e.v = 1 /\ e.n = 2 * (2 * j - 1)
      BY <2>1, <2>3, <2>4, <2>6
    <3> HIDE DEF g
    <3>3. p.from \in Nat /\ p.to \in Nat
      BY <1>2, <1>6, <2>4
    <3>4. e.n < g.n
      BY <3>1, <3>2
    <3>5. p.from <= p.to
      BY <2>3, <3>3 DEF Span
    <3>6. Before(e, g)
      BY <3>1, <3>2, <3>3, <3>4, <3>5 DEF Before
    <3>7. g \in Later(E, e)
      BY <1>7, <3>1, <3>6 DEF Later
    <3>8. Starts(E, e, p)
      BY <3>1, <3>2, <3>7 DEF Starts
    <3> QED BY <2>3, <3>8
  <2> QED BY <2>2, <2>5, <2>6
<1>8. ASSUME NEW p \in spans PROVE \E e \in E : e.c = c /\ e.v = 1 /\ e.t = p.from
  <2>1. PICK j \in 1..m : p = SpanOf(evs, j)
    BY <1>1
  <2>2. p.from = evs[2 * j - 1].t /\ evs[2 * j - 1].v = 1
    BY <1>1, <2>1 DEF SpanOf
  <2>3. entry(2 * j - 1) \in E
    BY <1>3, <1>6
  <2> QED BY <1>5, <2>2, <2>3
<1> QED BY <1>7, <1>8

KeepApart(spans) == \A p, q \in spans : p = q \/ p.to < q.from \/ q.to < p.from

\* What the events of channel c play from p.from to p.to is a high.
PlaysSpan(E, c, p) ==
  \E e \in E : e.c = c /\ e.v = 1 /\ e.t = p.from /\ Until(E, e) = p.to

\* The last high at the beginning of a pulse is ended by a low at the end of the pulse:
\* no event of another pulse is between them.
LEMMA PulseEnds ==
  ASSUME NEW evts \in [Channels -> Seq(Event)], NEW E, E = Numbered(evts),
         NEW c \in Channels, NEW spans \in SUBSET Span, Pairs(evts[c], spans),
         KeepApart(spans), NEW p \in spans
  PROVE  PlaysSpan(E, c, p)
<1> DEFINE Begins == {e \in E : e.c = c /\ e.v = 1 /\ e.t = p.from}
           e == Latest(Begins)
<1>1. IsTimeline(E) /\ \A x \in E : x.t \in Nat /\ x.n \in Nat
  BY NumberedFacts DEF IsTimeline, Entry
<1>2. e \in Begins /\ \A x \in Begins : x = e \/ Before(x, e)
  <2>1. Begins # {} /\ Begins \in SUBSET E /\ \A x \in Begins : x.c = c
    BY PulseEvents
  <2> QED BY <1>1, <2>1, LatestFacts
<1> HIDE DEF e
<1>3. e \in E /\ e.c = c /\ e.v = 1 /\ e.t = p.from
  BY <1>2
<1>4. \A q \in spans : q.from \in Nat /\ q.to \in Nat /\ q.from < q.to
  BY DEF Span
\* A pulse that begins or ends during this one is the same.
<1>5. ASSUME NEW q \in spans,
             (p.from <= q.from /\ q.from <= p.to) \/ (p.from <= q.to /\ q.to <= p.to)
      PROVE  q = p
  <2>1. p.from \in Nat /\ p.to \in Nat /\ q.from \in Nat /\ q.to \in Nat
        /\ p.from < p.to /\ q.from < q.to
    BY <1>4
  <2>2. ~(p.to < q.from) /\ ~(q.to < p.from)
    BY <1>5, <2>1
  <2> QED BY <2>2 DEF KeepApart
<1>6. PICK g \in Later(E, e) : g.v = 0 /\ g.t = p.to
  <2>1. PICK q \in spans : Starts(E, e, q) \/ Stops(e, q)
    BY <1>3, PulseEvents
  <2>2. Starts(E, e, q) /\ q.from = p.from
    BY <1>3, <2>1 DEF Starts, Stops
  <2>3. q = p
    BY <1>4, <1>5, <2>2
  <2> QED BY <2>2, <2>3 DEF Starts
<1>7. PICK f \in Later(E, e) :
        /\ \A x \in Later(E, e) : x = f \/ Before(f, x)
        /\ EndsBefore(E, e, f) \/ EndsAt(E, e, f)
  BY <1>3, <1>6, EndsOfHighs DEF EndsAlone
<1>8. f \in E /\ f.c = c /\ Before(e, f) /\ p.from <= f.t /\ f.t <= p.to
  <2>1. f \in E /\ f.c = c /\ Before(e, f) /\ g \in E
    BY <1>3 DEF Later
  <2>2. f = g \/ Before(f, g)
    BY <1>7
  <2> QED BY <1>1, <1>3, <1>6, <2>1, <2>2 DEF Before
<1>9. PICK q \in spans : Starts(E, f, q) \/ Stops(f, q)
  BY <1>8, PulseEvents
<1>10. q = p
  BY <1>5, <1>8, <1>9 DEF Starts, Stops
<1>11. ~Starts(E, f, q)
  <2> SUFFICES ASSUME Starts(E, f, q) PROVE FALSE
    OBVIOUS
  <2>1. f \in Begins
    BY <1>8, <1>10 DEF Starts
  <2>2. f = e \/ Before(f, e)
    BY <1>2, <2>1
  <2> QED BY <1>1, <1>3, <1>8, <2>2 DEF Before
<1>12. f.v = 0 /\ f.t = p.to
  BY <1>9, <1>10, <1>11 DEF Stops
<1>13. Until(E, e) = p.to
  BY <1>7, <1>12 DEF EndsBefore, EndsAt
<1> QED BY <1>3, <1>13 DEF PlaysSpan

\* pulse() does what it says: a channel that nothing else was called for is high during
\* its pulses and at no other time, as long as they neither overlap nor touch, lie on the
\* grid and fit.
THEOREM PulsesAreSent == Spec => []PulsesPlayed
<1>1. IInv => PulsesPlayed
  <2> DEFINE axis == SentAxis
             E == Numbered(sent_for.events)
  <2> SUFFICES ASSUME IInv, sent # <<>>, Aligned(axis), Fits(axis),
                      NEW c \in Channels \ sent_for.single,
                      \A p, q \in sent_for.pulses[c] : p = q \/ p.to < q.from \/ q.to < p.from,
                      NEW k \in DOMAIN sent, NEW t \in Instants(axis, k)
               PROVE  c \in sent[k].state
                        <=> \E p \in sent_for.pulses[c] : p.from <= t /\ t < p.to
    BY DEF PulsesPlayed
  <2>1. /\ sent_for.events \in [Channels -> Seq(Event)] /\ sent_for.pulses[c] \in SUBSET Span
        /\ Pairs(sent_for.events[c], sent_for.pulses[c])
    BY DEF IInv, ScriptInv, IsScript
  <2>2. t \in Nat /\ (c \in sent[k].state
          <=> \E e \in E : e.c = c /\ e.v = 1 /\ e.t <= t /\ t < Until(E, e))
    BY RowsPlayHighs DEF HighAt
  <2>3. ASSUME NEW p \in sent_for.pulses[c], p.from <= t, t < p.to
        PROVE  \E e \in E : e.c = c /\ e.v = 1 /\ e.t <= t /\ t < Until(E, e)
    <3>1. KeepApart(sent_for.pulses[c]) /\ c \in Channels /\ E = Numbered(sent_for.events)
      BY DEF KeepApart
    <3> HIDE DEF E
    <3>2. PICK e \in E : e.c = c /\ e.v = 1 /\ e.t = p.from /\ Until(E, e) = p.to
      <4>1. PICK spans \in SUBSET Span : spans = sent_for.pulses[c]
        BY <2>1
      <4>2. PICK evts \in [Channels -> Seq(Event)] : evts = sent_for.events
        BY <2>1
      <4>3. Pairs(evts[c], spans) /\ KeepApart(spans) /\ E = Numbered(evts) /\ p \in spans
        BY <2>1, <2>3, <3>1, <4>1, <4>2
      <4>4. PlaysSpan(E, c, p)
        BY <3>1, <4>3, PulseEnds
      <4> QED BY <4>4 DEF PlaysSpan
    <3> QED BY <2>3, <3>2
  <2>4. ASSUME NEW e \in E, e.c = c, e.v = 1, e.t <= t, t < Until(E, e)
        PROVE  \E p \in sent_for.pulses[c] : p.from <= t /\ t < p.to
    <3>1. PICK p \in sent_for.pulses[c] : Starts(E, e, p) \/ Stops(e, p)
      BY <2>1, <2>4, PulseEvents
    <3>2. PICK g \in Later(E, e) : e.t = p.from /\ g.t = p.to
      BY <2>4, <3>1 DEF Starts, Stops
    <3>3. PICK f \in Later(E, e) :
            (\A x \in Later(E, e) : x = f \/ Before(f, x)) /\ Until(E, e) <= f.t
      BY <2>1, <3>2, EndsOfHighs DEF EndsAlone
    <3>4. f.t \in Nat /\ g.t \in Nat /\ Until(E, e) \in Nat
      <4>1. f \in E /\ g \in E
        BY DEF Later
      <4>2. \A x \in E : x.t \in Nat
        BY <2>1, NumberedFacts DEF IsTimeline, Entry
      <4> QED BY <2>1, <4>1, <4>2, EndsOfHighs
    <3>5. f.t <= g.t
      BY <3>3, <3>4 DEF Before
    <3>6. t < p.to
      BY <2>2, <2>4, <3>2, <3>3, <3>4, <3>5
    <3> QED BY <2>4, <3>2, <3>6
  <2> QED BY <2>2, <2>3, <2>4
<1> QED BY <1>1, WaveformInvariant, PTL
=============================================================================

--------------------------- MODULE RoutingProofs ---------------------------
(***************************************************************************)
(* Theorems about Routing, for any engines, handlers and tiers, any queue  *)
(* depths and any counter with at least as many values as there are        *)
(* engines.                                                                *)
(***************************************************************************)
EXTENDS Routing, FunctionTheorems, FiniteSetTheorems, SequenceTheorems,
        WellFoundedInduction, TLAPS

-----------------------------------------------------------------------------
(* Sets of numbers and remainders                                          *)

\* A set of naturals has a least element.
LEMMA LeastNumber ==
  ASSUME NEW S \in SUBSET Nat, S # {}
  PROVE  \E m \in S : \A n \in S : m <= n
<1>1. PICK m \in S : \A n \in S : ~(<<n, m>> \in OpToRel(<, Nat))
  BY NatLessThanWellFounded, WFMin
<1>2. \A n \in S : ~(n < m)
  BY <1>1 DEF OpToRel
<1> QED
  BY <1>2

\* The counter has at least one value: a set has as many subsets.
LEMMA CounterValues == 2^CounterWidth \in Nat \ {0}
<1> DEFINE S == 1..CounterWidth
<1>1. CounterWidth \in Nat
  BY RoutingAssumption
<1>2. IsFiniteSet(S) /\ Cardinality(S) = CounterWidth
  BY <1>1, FS_Interval
<1>3. IsFiniteSet(SUBSET S) /\ Cardinality(SUBSET S) = 2^CounterWidth
  BY <1>2, FS_SUBSET
<1>4. SUBSET S # {}
  OBVIOUS
<1> QED
  BY <1>3, <1>4, FS_CardinalityType, FS_EmptySet

LEMMA AdvanceIs ==
  ASSUME NEW c \in 0..(2^CounterWidth - 1)
  PROVE  Advance(c) = IF c + 1 < 2^CounterWidth THEN c + 1 ELSE 0
<1>1. ASSUME NEW m \in Nat \ {0}, NEW d \in 0..(m - 1)
      PROVE  (d + 1) % m = IF d + 1 < m THEN d + 1 ELSE 0
  <2>1. CASE d + 1 < m
    BY <2>1
  <2>2. CASE d + 1 = m
    BY <2>2
  <2> QED
    BY <2>1, <2>2
<1> QED
  BY <1>1, CounterValues DEF Advance

\* Division has one result.
LEMMA Remainder ==
  ASSUME NEW n \in Nat \ {0}, NEW q \in Nat, NEW r \in 0..(n - 1)
  PROVE  (n * q + r) % n = r
<1> DEFINE x == n * q + r
           d == x \div n
           s == x % n
<1>1. x \in Nat /\ n * q \in Nat
  OBVIOUS
<1> HIDE DEF x
<1>2. d \in Int /\ s \in 0..(n - 1) /\ x = n * d + s
  BY <1>1
<1> HIDE DEF d, s
<1>3. n * q + r = n * d + s
  BY <1>2 DEF x
<1>4. ASSUME d > q PROVE FALSE
  <2>1. n * d >= n * (q + 1)
    BY <1>2, <1>4
  <2>2. n * (q + 1) = n * q + n
    OBVIOUS
  <2> QED
    BY <1>1, <1>2, <1>3, <2>1, <2>2
<1>5. ASSUME d < q PROVE FALSE
  <2>1. n * q >= n * (d + 1)
    BY <1>2, <1>5
  <2>2. n * (d + 1) = n * d + n
    BY <1>2
  <2>3. n * d \in Int
    BY <1>2
  <2> QED
    BY <1>1, <1>2, <1>3, <2>1, <2>2, <2>3
<1>6. d = q
  BY <1>2, <1>4, <1>5
<1>7. s = r
  BY <1>1, <1>2, <1>3, <1>6
<1> QED
  BY <1>7 DEF s, x

\* Among n successive numbers there is one with each remainder.
LEMMA AllRemainders ==
  ASSUME NEW n \in Nat \ {0}, NEW a \in Nat, NEW r \in 0..(n - 1)
  PROVE  \E j \in a..(a + n - 1) : j % n = r
<1>1. PICK q \in Nat, b \in 0..(n - 1) : a = n * q + b
  <2>1. a \div n \in Nat /\ a % n \in 0..(n - 1) /\ a = n * (a \div n) + (a % n)
    OBVIOUS
  <2> QED
    BY <2>1
<1>2. n * q \in Nat /\ n * (q + 1) = n * q + n
  OBVIOUS
<1>3. CASE r >= b
  <2>1. (n * q + r) % n = r
    BY Remainder
  <2>2. n * q + r \in a..(a + n - 1)
    BY <1>1, <1>2, <1>3
  <2> QED
    BY <2>1, <2>2
<1>4. CASE r < b
  <2>1. (n * (q + 1) + r) % n = r
    BY Remainder
  <2>2. n * (q + 1) + r \in a..(a + n - 1)
    BY <1>1, <1>2, <1>4
  <2> QED
    BY <2>1, <2>2
<1> QED
  BY <1>3, <1>4

-----------------------------------------------------------------------------
(* The operators of the policies                                           *)

Rank(S, e) == Cardinality({f \in S : f < e})

\* The engines of a set are numbered from 0 on in the order of their names.
LEMMA Ranks ==
  ASSUME NEW S \in SUBSET Nat, IsFiniteSet(S)
  PROVE  /\ \A e \in S : Rank(S, e) \in 0..(Cardinality(S) - 1)
         /\ \A e, f \in S : Rank(S, e) = Rank(S, f) => e = f
         /\ \A i \in 0..(Cardinality(S) - 1) : \E e \in S : Rank(S, e) = i
<1> DEFINE n == Cardinality(S)
           g == [e \in S |-> Rank(S, e)]
<1>1. n \in Nat
  BY FS_CardinalityType
<1>2. \A e \in S : IsFiniteSet({f \in S : f < e}) /\ Rank(S, e) \in Nat
  BY FS_Subset, FS_CardinalityType DEF Rank
<1>3. ASSUME NEW e \in S PROVE Rank(S, e) < n
  <2>1. IsFiniteSet(S \ {e}) /\ Cardinality(S \ {e}) = n - 1
    BY FS_RemoveElement
  <2>2. {f \in S : f < e} \in SUBSET (S \ {e})
    OBVIOUS
  <2>3. Rank(S, e) <= n - 1
    BY <2>1, <2>2, FS_Subset DEF Rank
  <2>4. Rank(S, e) \in Nat
    BY <1>2
  <2> HIDE DEF n
  <2> QED
    BY <1>1, <2>3, <2>4
<1>4. ASSUME NEW e \in S, NEW f \in S, e < f PROVE Rank(S, e) < Rank(S, f)
  <2> DEFINE A == {x \in S : x < e}
             B == {x \in S : x < f}
  <2>0. (\A x \in S : x < e => x < f) /\ ~(e < e)
    BY <1>4
  <2>1. A \in SUBSET B /\ e \in B /\ e \notin A
    BY <1>4, <2>0
  <2>2. IsFiniteSet(B) /\ Cardinality(A) <= Cardinality(B)
        /\ (Cardinality(A) = Cardinality(B) => A = B)
    BY <1>2, <2>1, FS_Subset
  <2>3. Cardinality(A) \in Nat /\ Cardinality(B) \in Nat
    BY <1>2 DEF Rank
  <2> QED
    BY <2>1, <2>2, <2>3 DEF Rank
<1>5. \A e, f \in S : Rank(S, e) = Rank(S, f) => e = f
  <2> SUFFICES ASSUME NEW e \in S, NEW f \in S, Rank(S, e) = Rank(S, f), e # f
               PROVE  FALSE
    OBVIOUS
  <2>1. e < f \/ f < e
    OBVIOUS
  <2>2. Rank(S, e) < Rank(S, f) \/ Rank(S, f) < Rank(S, e)
    BY <1>4, <2>1
  <2>3. Rank(S, e) \in Nat
    BY <1>2
  <2> QED
    BY <2>2, <2>3
<1>6. \A e \in S : Rank(S, e) \in 0..(n - 1)
  <2>1. \A e \in S : Rank(S, e) \in Nat
    BY <1>2
  <2> HIDE DEF n
  <2> QED
    BY <1>1, <1>3, <2>1
<1> HIDE DEF n
<1>7. g \in Injection(S, 0..(n - 1))
  BY <1>5, <1>6, Zenon DEF Injection, IsInjective
<1>8. IsFiniteSet(0..(n - 1)) /\ Cardinality(0..(n - 1)) = n
  BY <1>1, FS_Interval
<1>9. g \in Surjection(S, 0..(n - 1))
  BY <1>7, <1>8, FS_Injection DEF n
<1>10. \A i \in 0..(n - 1) : \E e \in S : Rank(S, e) = i
  BY <1>9 DEF Surjection
<1> QED
  BY <1>5, <1>6, <1>10 DEF n

\* NthByName is the engine of that number.
LEMMA NthIsRank ==
  ASSUME NEW S \in SUBSET Nat, IsFiniteSet(S)
  PROVE  /\ \A i \in 0..(Cardinality(S) - 1) : NthByName(S, i) \in S
         /\ \A e \in S : NthByName(S, Rank(S, e)) = e
<1>1. ASSUME NEW i \in 0..(Cardinality(S) - 1)
      PROVE  NthByName(S, i) \in S /\ Rank(S, NthByName(S, i)) = i
  <2>1. \E e \in S : Rank(S, e) = i
    BY Ranks
  <2> QED
    BY <2>1 DEF NthByName, Rank
<1>2. ASSUME NEW e \in S PROVE NthByName(S, Rank(S, e)) = e
  <2>1. Rank(S, e) \in 0..(Cardinality(S) - 1)
    BY Ranks
  <2>2. /\ NthByName(S, Rank(S, e)) \in S
        /\ Rank(S, NthByName(S, Rank(S, e))) = Rank(S, e)
    BY <1>1, <2>1
  <2>3. \A f \in S : Rank(S, f) = Rank(S, e) => f = e
    BY Ranks
  <2> QED
    BY <2>2, <2>3
<1> QED
  BY <1>1, <1>2

\* The engines with the shortest queue: there are some.
LEMMA ShortestOfCandidates ==
  ASSUME NEW cand \in SUBSET Engines, cand # {},
         NEW s, \A e \in cand : s[e].depth \in Nat
  PROVE  Shortest(s, cand) # {} /\ Shortest(s, cand) \subseteq cand
<1> DEFINE D == {s[e].depth : e \in cand}
<1>1. D \in SUBSET Nat /\ D # {}
  OBVIOUS
<1>2. PICK m \in D : \A n \in D : m <= n
  BY <1>1, LeastNumber
<1>3. PICK e \in cand : s[e].depth = m
  BY <1>2
<1>4. \A f \in cand : s[e].depth <= s[f].depth
  BY <1>2, <1>3
<1> QED
  BY <1>3, <1>4 DEF Shortest

\* What SelectEngine chooses from a complete snapshot with a candidate.
LEMMA ChosenIsShortest ==
  ASSUME NEW s, NEW reading, Candidates(s, reading) # {},
         DOMAIN s \subseteq Engines, \A e \in DOMAIN s : s[e].depth \in Nat,
         NEW c \in Nat
  PROVE  LET cand == Candidates(s, reading)
             tied == Shortest(s, cand)
             e == NthByName(tied, c % Cardinality(tied))
         IN  /\ cand \subseteq FilterHealthy(s)
             /\ tied \in SUBSET Engines /\ Cardinality(tied) \in Nat \ {0}
             /\ e \in tied /\ e \in cand /\ e \in Engines
             /\ \A f \in cand : s[e].depth <= s[f].depth
<1> DEFINE cand == Candidates(s, reading)
           tied == Shortest(s, cand)
           n == Cardinality(tied)
           e == NthByName(tied, c % n)
<1>1. cand \subseteq FilterHealthy(s) /\ cand \subseteq DOMAIN s
  BY DEF Candidates, FilterHealthy
<1>2. tied # {} /\ tied \subseteq cand
  <2>1. cand \in SUBSET Engines /\ cand # {} /\ \A f \in cand : s[f].depth \in Nat
    BY <1>1
  <2> HIDE DEF cand
  <2> QED
    BY <2>1, ShortestOfCandidates
<1>3. tied \in SUBSET Nat /\ tied \in SUBSET Engines /\ IsFiniteSet(tied)
  <2>1. tied \in SUBSET Engines
    BY <1>1, <1>2
  <2> HIDE DEF tied
  <2> QED
    BY <2>1, RoutingAssumption, FS_Subset
<1>4. n \in Nat \ {0}
  BY <1>2, <1>3, FS_EmptySet, FS_CardinalityType
<1>5. c % n \in 0..(n - 1)
  <2> HIDE DEF n
  <2> QED
    BY <1>4
<1>6. e \in tied
  <2> HIDE DEF tied
  <2> QED
    BY <1>3, <1>5, NthIsRank
<1>7. \A f \in cand : s[e].depth <= s[f].depth
  <2> HIDE DEF e, cand
  <2> QED
    BY <1>6 DEF Shortest
<1>8. e \in cand /\ e \in Engines
  BY <1>1, <1>2, <1>6
<1> HIDE DEF cand, tied, n, e
<1> QED
  BY <1>1, <1>3, <1>4, <1>6, <1>7, <1>8 DEF cand, tied, n, e

\* A healthy engine leaves something to choose from.
LEMMA HealthyMeansCandidates ==
  ASSUME NEW s, NEW reading, FilterHealthy(s) # {}
  PROVE  Candidates(s, reading) # {}
  BY DEF Candidates

-----------------------------------------------------------------------------
(* The history of the picks                                                *)

HistoryOK ==
  /\ streak.tied \subseteq Engines
  /\ streak.picks \in Seq(streak.tied)
  /\ Len(streak.picks) <= Window

\* The k-th last entry of a sequence.
KthLast(picks, k) == picks[Len(picks) - k + 1]

\* What is remembered after e was picked from tied: e is the last pick, and
\* the others are what they were, if the same engines were tied.
LEMMA Remembered ==
  ASSUME HistoryOK, NEW tied \in SUBSET Engines, NEW e \in tied
  PROVE  LET new == Remember(tied, e)
         IN  /\ new.tied \subseteq Engines
             /\ new.picks \in Seq(new.tied)
             /\ Len(new.picks) <= Window
             /\ Len(new.picks) > 0 => new.tied = tied /\ KthLast(new.picks, 1) = e
             /\ \A k \in 2..Len(new.picks) :
                  /\ streak.tied = tied
                  /\ k - 1 \in 1..Len(streak.picks)
                  /\ KthLast(new.picks, k) = KthLast(streak.picks, k - 1)
<1> DEFINE old == IF streak.tied = tied THEN streak.picks ELSE <<>>
           picks == Append(old, e)
           last == IF Len(picks) > Window THEN Tail(picks) ELSE picks
<1>0. Window \in Nat
  BY RoutingAssumption
<1>1. CASE Window = 0
  <2>1. Remember(tied, e) = streak
    BY <1>1 DEF Remember
  <2>2. Len(streak.picks) = 0
    BY <1>1, LenProperties DEF HistoryOK
  <2> QED
    BY <2>1, <2>2 DEF HistoryOK
<1>2. CASE Window # 0
  <2>1. Remember(tied, e).tied = tied /\ Remember(tied, e).picks = last
    BY <1>2 DEF Remember
  <2>2. old \in Seq(tied) /\ Len(old) \in Nat /\ Len(old) <= Window
    <3>1. CASE streak.tied = tied
      BY <3>1, LenProperties DEF HistoryOK
    <3>2. CASE streak.tied # tied
      BY <1>0, <3>2, EmptySeq
    <3> QED
      BY <3>1, <3>2
  <2>3. Len(old) > 0 => streak.tied = tied /\ old = streak.picks
    BY EmptySeq
  <2> HIDE DEF old
  <2>4. /\ picks \in Seq(tied)
        /\ Len(picks) = Len(old) + 1
        /\ \A i \in 1..Len(old) : picks[i] = old[i]
        /\ picks[Len(old) + 1] = e
    BY <2>2, AppendProperties
  <2> HIDE DEF picks
  <2>5. CASE Len(picks) <= Window
    <3>1. last = picks
      BY <1>0, <2>2, <2>4, <2>5
    <3>2. \A k \in 2..Len(picks) :
            Len(picks) - k + 1 \in 1..Len(old) /\ Len(picks) - k + 1 = Len(old) - (k - 1) + 1
            /\ k - 1 \in 1..Len(old)
      BY <2>2, <2>4
    <3>3. Len(picks) - 1 + 1 = Len(old) + 1
      BY <2>2, <2>4
    <3> HIDE DEF last
    <3> QED
      BY <2>1, <2>2, <2>3, <2>4, <2>5, <3>1, <3>2, <3>3 DEF KthLast
  <2>6. CASE Len(picks) > Window
    <3>1. last = Tail(picks) /\ Len(old) = Window /\ Len(old) > 0
      BY <1>0, <1>2, <2>2, <2>4, <2>6
    <3>2. picks # <<>>
      BY <2>2, <2>4, EmptySeq
    <3>3. /\ Tail(picks) \in Seq(tied)
          /\ Len(Tail(picks)) = Len(picks) - 1
          /\ \A i \in 1..(Len(picks) - 1) : Tail(picks)[i] = picks[i + 1]
      BY <2>4, <3>2, HeadTailProperties
    <3> HIDE DEF last
    <3>4. last \in Seq(tied) /\ Len(last) = Len(old)
      BY <2>2, <2>4, <3>1, <3>3
    <3>5. \A i \in 1..Len(old) : last[i] = picks[i + 1]
      BY <2>2, <2>4, <3>1, <3>3
    <3>6. KthLast(last, 1) = e
      <4>1. Len(last) - 1 + 1 = Len(old) /\ Len(old) \in 1..Len(old)
        BY <2>2, <3>1, <3>4
      <4> QED
        BY <2>4, <3>5, <4>1 DEF KthLast
    <3>7. ASSUME NEW k \in 2..Len(last)
          PROVE  k - 1 \in 1..Len(old) /\ KthLast(last, k) = KthLast(old, k - 1)
      <4>1. /\ Len(last) - k + 1 \in 1..Len(old)
            /\ Len(last) - k + 1 + 1 \in 1..Len(old)
            /\ Len(last) - k + 1 + 1 = Len(old) - (k - 1) + 1
            /\ k - 1 \in 1..Len(old)
        BY <2>2, <3>4
      <4>2. last[Len(last) - k + 1] = old[Len(old) - (k - 1) + 1]
        BY <2>4, <3>5, <4>1
      <4> QED
        BY <4>1, <4>2 DEF KthLast
    <3>8. Len(last) <= Window
      BY <3>1, <3>4
    <3> QED
      BY <2>1, <2>3, <3>1, <3>4, <3>6, <3>7, <3>8
  <2> QED
    BY <1>0, <2>2, <2>4, <2>5, <2>6
<1> QED
  BY <1>1, <1>2

-----------------------------------------------------------------------------
(* Types                                                                   *)

\* A handler has a snapshot only while it looks, and an engine only once the
\* policy has answered.
Handling ==
  /\ DOMAIN snap = Handlers
  /\ \A h \in Handlers : pc[h] # "looking" => snap[h] = Empty
  /\ \A h \in Handlers : pc[h] # "selected" => chosen[h] = NoEngine

RInv == TypeOK /\ Handling

LEMMA RoutingInit == Init => RInv
<1> SUFFICES ASSUME Init PROVE RInv
  OBVIOUS
<1>1. 0 \in Depths /\ 0 \in 0..(2^CounterWidth - 1)
  BY RoutingAssumption, CounterValues DEF Depths
<1>2. \A h \in Handlers : snap[h] = Empty /\ DOMAIN snap[h] = {}
  BY DEF Init, Empty
<1>3. streak.tied = {} /\ streak.picks = <<>>
  BY DEF Init
<1>4. streak.picks \in Seq(streak.tied) /\ Len(streak.picks) <= Window
  BY <1>3, RoutingAssumption, EmptySeq
<1>5. \A h \in Handlers : snap[h] \in [DOMAIN snap[h] -> EngineState]
  BY <1>2 DEF Empty
<1> QED
  BY <1>1, <1>2, <1>3, <1>4, <1>5 DEF Init, RInv, TypeOK, Handling

\* One more engine in a snapshot; the others stay as they were seen.
LEMMA LookedAt ==
  ASSUME RInv, NEW h \in Handlers, NEW e \in Engines, LookAt(h, e)
  PROVE  /\ DOMAIN snap' = Handlers
         /\ \A g \in Handlers \ {h} : snap'[g] = snap[g]
         /\ DOMAIN snap'[h] = DOMAIN snap[h] \cup {e}
         /\ snap'[h] \in [DOMAIN snap'[h] -> EngineState]
         /\ snap'[h][e] = [depth |-> depth[e], healthy |-> healthy[e]]
         /\ \A f \in DOMAIN snap[h] : snap'[h][f] = snap[h][f]
         /\ pc[h] = "looking"
<1> DEFINE new == [f \in DOMAIN snap[h] \cup {e} |->
                     IF f = e THEN [depth |-> depth[e], healthy |-> healthy[e]]
                     ELSE snap[h][f]]
<1>1. snap' = [snap EXCEPT ![h] = new] /\ e \notin DOMAIN snap[h] /\ pc[h] = "looking"
  BY DEF LookAt
<1>2. DOMAIN snap = Handlers
  BY DEF RInv, Handling
<1>3. DOMAIN snap[h] \subseteq Engines /\ snap[h] \in [DOMAIN snap[h] -> EngineState]
  BY DEF RInv, TypeOK
<1>4. [depth |-> depth[e], healthy |-> healthy[e]] \in EngineState
  BY DEF RInv, TypeOK, EngineState
<1>5. new \in [DOMAIN snap[h] \cup {e} -> EngineState]
  BY <1>3, <1>4
<1>6. new[e] = [depth |-> depth[e], healthy |-> healthy[e]]
      /\ \A f \in DOMAIN snap[h] : new[f] = snap[h][f]
  BY <1>1
<1> HIDE DEF new
<1>7. /\ DOMAIN snap' = Handlers
      /\ snap'[h] = new
      /\ \A g \in Handlers \ {h} : snap'[g] = snap[g]
  BY <1>1, <1>2
<1> QED
  BY <1>1, <1>5, <1>6, <1>7

\* What a snapshot consists of.
LEMMA SnapshotTypes ==
  ASSUME RInv, NEW h \in Handlers
  PROVE  /\ DOMAIN snap[h] \subseteq Engines
         /\ \A e \in DOMAIN snap[h] : snap[h][e].depth \in Nat
         /\ counter \in Nat
<1>1. DOMAIN snap[h] \subseteq Engines /\ snap[h] \in [DOMAIN snap[h] -> EngineState]
  BY DEF RInv, TypeOK
<1>2. \A e \in DOMAIN snap[h] : snap[h][e].depth \in Depths
  BY <1>1 DEF EngineState
<1>3. Depths \subseteq Nat
  BY RoutingAssumption DEF Depths
<1>4. counter \in Nat
  BY CounterValues DEF RInv, TypeOK
<1> QED
  BY <1>1, <1>2, <1>3, <1>4

\* What a step of SelectEngine does, in the terms of ChosenIsShortest.
LEMMA Selected ==
  ASSUME RInv, NEW h \in Handlers, Select(h)
  PROVE  \E tied \in SUBSET Engines, e \in Engines :
           LET cand == Candidates(snap[h], sysSeen[h])
           IN  /\ tied = Shortest(snap[h], cand) /\ Cardinality(tied) \in Nat \ {0}
               /\ e = NthByName(tied, counter % Cardinality(tied))
               /\ e \in tied /\ e \in cand /\ cand \subseteq FilterHealthy(snap[h])
               /\ \A f \in cand : snap[h][e].depth <= snap[h][f].depth
               /\ chosen' = [chosen EXCEPT ![h] = e]
               /\ streak' = Remember(tied, e)
<1> DEFINE cand == Candidates(snap[h], sysSeen[h])
           tied == Shortest(snap[h], cand)
           e == NthByName(tied, counter % Cardinality(tied))
<1>1. cand # {} /\ chosen' = [chosen EXCEPT ![h] = e] /\ streak' = Remember(tied, e)
  BY DEF Select
<1>2. /\ cand \subseteq FilterHealthy(snap[h])
      /\ tied \in SUBSET Engines /\ Cardinality(tied) \in Nat \ {0}
      /\ e \in tied /\ e \in cand /\ e \in Engines
      /\ \A f \in cand : snap[h][e].depth <= snap[h][f].depth
  BY <1>1, SnapshotTypes, ChosenIsShortest
<1> HIDE DEF tied, e
<1> QED
  BY <1>1, <1>2 DEF tied, e

LEMMA EnvironmentTypes ==
  ASSUME RInv,
         \/ \E e \in Engines : DepthChanges(e)
         \/ \E e \in Flaky : HealthChanges(e)
         \/ SystemChanges
  PROVE  RInv'
<1>1. UNCHANGED handlerVars
  BY DEF DepthChanges, HealthChanges, SystemChanges
<1>2. depth' \in [Engines -> Depths]
  BY DEF RInv, TypeOK, DepthChanges, HealthChanges, SystemChanges
<1>3. healthy' \in [Engines -> BOOLEAN]
  <2>1. ASSUME NEW e \in Flaky, HealthChanges(e) PROVE healthy' \in [Engines -> BOOLEAN]
    <3>1. healthy' = [healthy EXCEPT ![e] = ~healthy[e]] /\ healthy \in [Engines -> BOOLEAN]
      BY <2>1 DEF HealthChanges, RInv, TypeOK
    <3> QED
      BY <3>1
  <2> QED
    BY <2>1 DEF RInv, TypeOK, DepthChanges, SystemChanges
<1>4. sys' \in SystemStates
  BY DEF RInv, TypeOK, DepthChanges, HealthChanges, SystemChanges
<1> QED
  BY <1>1, <1>2, <1>3, <1>4 DEF RInv, TypeOK, Handling, handlerVars

LEMMA RoutingStep == RInv /\ [Next]_vars => RInv'
<1> SUFFICES ASSUME RInv, [Next]_vars PROVE RInv'
  OBVIOUS
<1> USE DEF RInv, TypeOK, Handling
<1>1. CASE UNCHANGED vars
  BY <1>1 DEF vars, envVars
<1>2. ASSUME NEW h \in Handlers, Arrive(h) PROVE RInv'
  BY <1>2 DEF Arrive, envVars
<1>3. ASSUME NEW h \in Handlers, NEW e \in Engines, LookAt(h, e) PROVE RInv'
  <2> DEFINE Good(g) == /\ DOMAIN snap'[g] \subseteq Engines
                        /\ snap'[g] \in [DOMAIN snap'[g] -> EngineState]
  <2>0. /\ DOMAIN snap' = Handlers
        /\ \A g \in Handlers \ {h} : snap'[g] = snap[g]
        /\ DOMAIN snap'[h] = DOMAIN snap[h] \cup {e}
        /\ snap'[h] \in [DOMAIN snap'[h] -> EngineState]
        /\ pc[h] = "looking"
    <3> HIDE DEF RInv, TypeOK, Handling
    <3> QED
      BY <1>3, LookedAt
  <2>1. ASSUME NEW g \in Handlers PROVE Good(g)
    <3>1. CASE g = h
      BY <2>0, <3>1
    <3>2. CASE g # h
      BY <2>0, <3>2
    <3> QED
      BY <3>1, <3>2
  <2>2. DOMAIN snap' = Handlers /\ \A g \in Handlers : pc[g] # "looking" => snap'[g] = Empty
    BY <2>0
  <2>3. UNCHANGED <<depth, healthy, sys, counter, pc, sysSeen, chosen, streak>>
    BY <1>3 DEF LookAt, envVars
  <2> QED
    BY <2>1, <2>2, <2>3
<1>4. ASSUME NEW h \in Handlers, Select(h) PROVE RInv'
  <2>1. PICK tied \in SUBSET Engines, e \in Engines :
          /\ e \in tied
          /\ chosen' = [chosen EXCEPT ![h] = e] /\ streak' = Remember(tied, e)
    BY <1>4, Selected, Zenon
  <2>2. HistoryOK
    BY DEF HistoryOK
  <2>3. /\ streak'.tied \subseteq Engines
        /\ streak'.picks \in Seq(streak'.tied) /\ Len(streak'.picks) <= Window
    BY <2>1, <2>2, Remembered
  <2>4. counter' \in 0..(2^CounterWidth - 1)
    BY <1>4, AdvanceIs, CounterValues DEF Select
  <2>5. chosen' \in [Handlers -> Engines \cup {NoEngine}]
    BY <2>1
  <2>6. \A g \in Handlers : /\ DOMAIN snap'[g] \subseteq Engines
                            /\ snap'[g] \in [DOMAIN snap'[g] -> EngineState]
    BY <1>4 DEF Select, Empty
  <2>7. Handling'
    BY <1>4, <2>1 DEF Select
  <2> QED
    BY <1>4, <2>3, <2>4, <2>5, <2>6, <2>7 DEF Select, envVars
<1>5. ASSUME NEW h \in Handlers, Refuse(h) PROVE RInv'
  <2>1. \A g \in Handlers : /\ DOMAIN snap'[g] \subseteq Engines
                            /\ snap'[g] \in [DOMAIN snap'[g] -> EngineState]
    BY <1>5 DEF Refuse, Empty
  <2> QED
    BY <1>5, <2>1 DEF Refuse, envVars
<1>6. ASSUME NEW h \in Handlers, Finish(h) PROVE RInv'
  BY <1>6 DEF Finish, envVars
<1>7. CASE \/ \E e \in Engines : DepthChanges(e)
           \/ \E e \in Flaky : HealthChanges(e)
           \/ SystemChanges
  BY <1>7, EnvironmentTypes
<1> QED
  BY <1>1, <1>2, <1>3, <1>4, <1>5, <1>6, <1>7 DEF Next

\* The types of engines, handlers and history: the policy returns an engine
\* that exists, whatever the counter has come to, and the counter stays
\* within its bits (policy.go:44-68).
THEOREM RoutingTypes == Spec => []TypeOK
  BY RoutingInit, RoutingStep, PTL DEF Spec, RInv

-----------------------------------------------------------------------------
(* The picks rotate                                                        *)

\* The place a counter of this value gives among the tied engines.
Turn(tied, c) == NthByName(tied, c % Cardinality(tied))

\* The k-th last pick was made when the counter stood k lower; below zero it
\* had not wrapped around yet.
Rotation ==
  \A k \in 1..Len(streak.picks) :
    /\ k <= counter
         => KthLast(streak.picks, k) = Turn(streak.tied, counter - k)
    /\ k > counter /\ k <= counter + 2^CounterWidth
         => KthLast(streak.picks, k) = Turn(streak.tied, counter + 2^CounterWidth - k)

LEMMA RotationInit == Init => Rotation
<1> SUFFICES ASSUME Init PROVE Rotation
  OBVIOUS
<1>1. Len(streak.picks) = 0
  BY EmptySeq DEF Init
<1> QED
  BY <1>1 DEF Rotation

LEMMA RotationStep == RInv /\ Rotation /\ [Next]_vars => Rotation'
<1> SUFFICES ASSUME RInv, Rotation, [Next]_vars PROVE Rotation'
  OBVIOUS
<1> DEFINE m == 2^CounterWidth
<1>1. CASE UNCHANGED <<counter, streak>>
  BY <1>1 DEF Rotation, KthLast, Turn
<1>2. ASSUME NEW h \in Handlers, Select(h) PROVE Rotation'
  <2>1. PICK tied \in SUBSET Engines, e \in Engines :
          /\ e \in tied
          /\ e = Turn(tied, counter)
          /\ streak' = Remember(tied, e)
    BY <1>2, Selected, Zenon DEF Turn
  <2>2. HistoryOK
    BY DEF RInv, TypeOK, HistoryOK
  <2>3. /\ streak'.picks \in Seq(streak'.tied)
        /\ Len(streak'.picks) > 0 => streak'.tied = tied /\ KthLast(streak'.picks, 1) = e
        /\ \A k \in 2..Len(streak'.picks) :
             /\ streak.tied = tied
             /\ k - 1 \in 1..Len(streak.picks)
             /\ KthLast(streak'.picks, k) = KthLast(streak.picks, k - 1)
    BY <2>1, <2>2, Remembered
  <2>4. Len(streak'.picks) \in Nat
    BY <2>3, LenProperties
  <2>5. counter \in 0..(m - 1) /\ m \in Nat \ {0}
    BY CounterValues DEF RInv, TypeOK
  <2>6. counter' = IF counter + 1 < m THEN counter + 1 ELSE 0
    BY <1>2, <2>5, AdvanceIs DEF Select
  <2> DEFINE L == Len(streak'.picks)
             Kth(k) == KthLast(streak'.picks, k)
             Old(k) == KthLast(streak.picks, k)
             T(c) == Turn(tied, c)
  <2>7. ASSUME NEW k \in 1..L
        PROVE  /\ k <= counter' => Kth(k) = T(counter' - k)
               /\ k > counter' /\ k <= counter' + m => Kth(k) = T(counter' + m - k)
    <3>1. CASE k = 1
      <4>1. Kth(k) = T(counter)
        BY <2>1, <2>3, <2>4, <3>1
      <4>2. k <= counter' => counter' - k = counter
        BY <2>5, <2>6, <3>1
      <4>3. k > counter' => counter' + m - k = counter
        BY <2>5, <2>6, <3>1
      <4> HIDE DEF Kth, T, m
      <4> QED
        BY <4>1, <4>2, <4>3
    <3>2. CASE k # 1
      <4>1. k \in 2..L /\ k \in Nat
        BY <2>4, <3>2
      <4>2. Kth(k) = Old(k - 1) /\ k - 1 \in 1..Len(streak.picks) /\ streak.tied = tied
        BY <2>3, <4>1
      <4>3. /\ k - 1 <= counter => Old(k - 1) = T(counter - (k - 1))
            /\ k - 1 > counter /\ k - 1 <= counter + m
                 => Old(k - 1) = T(counter + m - (k - 1))
        BY <4>2 DEF Rotation
      <4> HIDE DEF Kth, Old, T, m, L
      <4>4. CASE counter + 1 < m
        <5>1. counter' - k = counter - (k - 1)
              /\ counter' + m - k = counter + m - (k - 1)
          BY <2>5, <2>6, <4>1, <4>4
        <5>2. (k <= counter' <=> k - 1 <= counter) /\ (k > counter' <=> k - 1 > counter)
              /\ (k <= counter' + m <=> k - 1 <= counter + m)
          BY <2>5, <2>6, <4>1, <4>4
        <5> QED
          BY <4>2, <4>3, <5>1, <5>2
      <4>5. CASE counter + 1 = m
        <5>1. counter' = 0 /\ counter' + m - k = counter - (k - 1)
          BY <2>5, <2>6, <4>1, <4>5
        <5>2. ~(k <= counter') /\ (k <= counter' + m => k - 1 <= counter)
          BY <2>5, <4>1, <4>5, <5>1
        <5> QED
          BY <4>2, <4>3, <5>1, <5>2
      <4> QED
        BY <2>5, <4>4, <4>5
    <3> QED
      BY <3>1, <3>2
  <2>8. \A k \in 1..L : streak'.tied = tied
    BY <2>3, <2>4
  <2> QED
    BY <2>7, <2>8 DEF Rotation
<1> QED
  BY <1>1, <1>2
  DEF Next, vars, Arrive, LookAt, Refuse, Finish, DepthChanges, HealthChanges,
      SystemChanges, handlerVars

\* The picks made when the counter stood at a, a + 1 and so on, n of them, are
\* none older than from, if it has come to high.
InTurn(tied, picks, from, high, a) ==
  \A j \in a..(a + Cardinality(tied) - 1) :
    /\ Len(picks) - (high - j) + 1 \in from..Len(picks)
    /\ KthLast(picks, high - j) = Turn(tied, j)

\* If a stretch of the picks is as long as the tie is wide and the counter
\* went up by one at each of them, all the tied engines are among them.
LEMMA StretchServesAll ==
  ASSUME NEW tied \in SUBSET Engines, NEW n \in Nat \ {0}, n = Cardinality(tied),
         NEW picks \in Seq(tied), NEW len \in Nat, len = Len(picks),
         NEW from \in Nat, 1 <= from, NEW high \in Nat, NEW a \in Nat,
         InTurn(tied, picks, from, high, a)
  PROVE  Served(picks, from, len) = tied
<1>1. tied \in SUBSET Nat /\ IsFiniteSet(tied)
  BY RoutingAssumption, FS_Subset
<1>2. \A i \in from..len : picks[i] \in tied
  <2>1. \A i \in 1..len : picks[i] \in tied
    BY ElementOfSeq
  <2> QED
    BY <2>1
<1>3. ASSUME NEW e \in tied PROVE e \in Served(picks, from, len)
  <2>1. Rank(tied, e) \in 0..(n - 1) /\ NthByName(tied, Rank(tied, e)) = e
    BY <1>1, Ranks, NthIsRank
  <2>2. PICK j \in a..(a + n - 1) : j % n = Rank(tied, e)
    BY <2>1, AllRemainders
  <2>3. KthLast(picks, high - j) = e /\ len - (high - j) + 1 \in from..len
    BY <2>1, <2>2 DEF InTurn, Turn
  <2> QED
    BY <2>3 DEF Served, KthLast
<1> QED
  BY <1>2, <1>3 DEF Served

LEMMA RotationServes == RInv /\ Rotation => TiesRotate
<1> SUFFICES ASSUME RInv, Rotation PROVE TiesRotate
  OBVIOUS
<1> DEFINE tied == streak.tied
           picks == streak.picks
           n == Cardinality(tied)
           len == Len(picks)
           m == 2^CounterWidth
<1>0. n = Cardinality(tied) /\ len = Len(picks)
  OBVIOUS
<1>1. tied \in SUBSET Engines /\ picks \in Seq(tied)
  BY DEF RInv, TypeOK
<1>2. n \in Nat /\ n <= m
  <2>1. IsFiniteSet(Engines) /\ Cardinality(Engines) <= m
    BY RoutingAssumption
  <2>2. n <= Cardinality(Engines) /\ n \in Nat /\ Cardinality(Engines) \in Nat
    BY <1>1, <2>1, FS_Subset, FS_CardinalityType
  <2>3. m \in Nat
    BY CounterValues
  <2> HIDE DEF n, m
  <2> QED
    BY <2>1, <2>2, <2>3
<1>3. len \in Nat
  BY <1>1, LenProperties
<1>4. counter \in 0..(m - 1) /\ m \in Nat
  BY CounterValues DEF RInv, TypeOK
<1>5. \A k \in 1..len :
        /\ k <= counter => KthLast(picks, k) = Turn(tied, counter - k)
        /\ k > counter /\ k <= counter + m
             => KthLast(picks, k) = Turn(tied, counter + m - k)
  BY DEF Rotation
<1> HIDE DEF tied, picks, n, len, m
<1>6. ASSUME NEW from \in Nat, 1 <= from, from <= len - n + 1, n > 0, counter >= n, len >= n
      PROVE  Served(picks, from, len) = tied
  <2> DEFINE a == counter - n
  <2>1. a \in Nat /\ counter \in Nat
    BY <1>2, <1>4, <1>6
  <2>2. ASSUME NEW j \in a..(a + n - 1)
        PROVE  len - (counter - j) + 1 \in from..len
               /\ KthLast(picks, counter - j) = Turn(tied, j)
    <3>1. counter - j \in 1..n /\ counter - j <= counter /\ counter - (counter - j) = j
          /\ j \in Nat
      BY <1>2, <1>4, <1>6
    <3>2. counter - j \in 1..len
      BY <1>2, <1>3, <1>6, <3>1
    <3>3. len - (counter - j) + 1 \in from..len
      BY <1>2, <1>3, <1>6, <3>1
    <3> QED
      BY <1>5, <3>1, <3>2, <3>3
  <2>3. InTurn(tied, picks, from, counter, a)
    BY <1>0, <2>2 DEF InTurn
  <2>4. n \in Nat \ {0}
    BY <1>2, <1>6
  <2> HIDE DEF a
  <2> QED
    BY <1>0, <1>1, <1>3, <1>6, <2>1, <2>3, <2>4, StretchServesAll
<1>7. ASSUME n > 0, counter < n, len >= 2 * n - 1
      PROVE  Served(picks, len - 2 * n + 2, len) = tied
  <2> DEFINE a == m - n
             high == counter + m
             from == len - 2 * n + 2
  <2>1. a \in Nat /\ high \in Nat /\ from \in Nat /\ 1 <= from
    BY <1>2, <1>3, <1>4, <1>7
  <2>2. ASSUME NEW j \in a..(a + n - 1)
        PROVE  len - (high - j) + 1 \in from..len
               /\ KthLast(picks, high - j) = Turn(tied, j)
    <3>1. high - j \in (counter + 1)..(counter + n) /\ high - (high - j) = j /\ j \in Nat
      BY <1>2, <1>4, <1>7
    <3>2. high - j \in 1..len /\ high - j > counter /\ high - j <= counter + m
      BY <1>2, <1>3, <1>4, <1>7, <3>1
    <3>3. len - (high - j) + 1 \in from..len
      BY <1>2, <1>3, <1>4, <1>7, <3>1
    <3> HIDE DEF high, from
    <3>4. KthLast(picks, high - j) = Turn(tied, counter + m - (high - j))
      BY <1>5, <3>2
    <3>5. counter + m - (high - j) = j
      BY <1>2, <1>4, <3>1 DEF high
    <3> QED
      BY <3>1, <3>3, <3>4, <3>5
  <2>3. n \in Nat \ {0}
    BY <1>2, <1>7
  <2>4. Served(picks, from, len) = tied
    <3> HIDE DEF a, high, from
    <3>1. InTurn(tied, picks, from, high, a)
      BY <1>0, <2>2 DEF InTurn
    <3> QED
      BY <1>0, <1>1, <1>3, <2>1, <2>3, <3>1, StretchServesAll
  <2> QED
    BY <2>4
<1>8. n > 0 /\ counter >= n /\ len >= n => Served(picks, len - n + 1, len) = tied
  <2> SUFFICES ASSUME n > 0, counter >= n, len >= n
               PROVE  Served(picks, len - n + 1, len) = tied
    OBVIOUS
  <2>1. len - n + 1 \in Nat /\ 1 <= len - n + 1
    BY <1>2, <1>3
  <2> QED
    BY <1>6, <2>1
<1>9. n > 0 /\ len >= 2 * n - 1 => Served(picks, len - 2 * n + 2, len) = tied
  <2> SUFFICES ASSUME n > 0, len >= 2 * n - 1
               PROVE  Served(picks, len - 2 * n + 2, len) = tied
    OBVIOUS
  <2>1. CASE counter >= n
    <3>1. /\ len - 2 * n + 2 \in Nat /\ 1 <= len - 2 * n + 2
          /\ len - 2 * n + 2 <= len - n + 1 /\ len >= n
      BY <1>2, <1>3
    <3> QED
      BY <1>6, <2>1, <3>1
  <2>2. CASE counter < n
    BY <1>7, <2>2
  <2> QED
    BY <1>2, <1>4, <2>1, <2>2
<1> QED
  BY <1>8, <1>9 DEF TiesRotate, tied, picks, n, len

\* Whatever the handlers pick and in whatever order their snapshots were taken,
\* successive picks among the same tied engines serve each of them, for any
\* number of engines and handlers and any window of history; when the counter
\* wraps around among them, twice as many picks do (policy.go:53-68).
THEOREM PicksRotate == Spec => []TiesRotate
  BY RoutingInit, RoutingStep, RotationInit, RotationStep, RotationServes, PTL DEF Spec

-----------------------------------------------------------------------------
(* What happens to a request while the rest goes on                        *)

\* Nobody else touches a handler's snapshot or its answer.
LEMMA OwnSteps ==
  ASSUME RInv, [Next]_vars, NEW h \in Handlers
  PROVE  \/ UNCHANGED <<pc[h], sysSeen[h], snap[h], chosen[h]>>
         \/ Arrive(h) \/ Select(h) \/ Refuse(h) \/ Finish(h)
         \/ \E e \in Engines : LookAt(h, e)
<1> DEFINE Own(g) == \/ Arrive(g) \/ Select(g) \/ Refuse(g) \/ Finish(g)
                     \/ \E e \in Engines : LookAt(g, e)
<1>1. /\ DOMAIN pc = Handlers /\ DOMAIN sysSeen = Handlers
      /\ DOMAIN snap = Handlers /\ DOMAIN chosen = Handlers
  BY DEF RInv, TypeOK, Handling
<1>2. ASSUME NEW g \in Handlers, g # h, Own(g)
      PROVE  UNCHANGED <<pc[h], sysSeen[h], snap[h], chosen[h]>>
  BY <1>1, <1>2 DEF Arrive, Select, Refuse, Finish, LookAt
<1>3. CASE \E e \in Engines : DepthChanges(e) \/ (e \in Flaky /\ HealthChanges(e))
  BY <1>3 DEF DepthChanges, HealthChanges, handlerVars
<1>4. CASE SystemChanges \/ UNCHANGED vars
  BY <1>4 DEF SystemChanges, handlerVars, vars
<1> QED
  BY <1>2, <1>3, <1>4, RoutingAssumption DEF Next

\* While e is healthy, a handler has not seen it otherwise.
NotRefused(h, e) ==
  /\ pc[h] # "refused"
  /\ e \in DOMAIN snap[h] => snap[h][e].healthy

\* A handler that sees the engine healthy finds it again in its snapshot.
LEMMA NotRefusedStep ==
  ASSUME RInv, NEW h \in Handlers, NEW e \in Engines, NotRefused(h, e), healthy[e],
         [Next]_vars
  PROVE  NotRefused(h, e)'
<1> USE DEF NotRefused
<1>1. DOMAIN pc = Handlers /\ DOMAIN snap = Handlers
  BY DEF RInv, TypeOK, Handling
<1>2. CASE UNCHANGED <<pc[h], snap[h]>>
  BY <1>2
<1>3. CASE Arrive(h) \/ Finish(h)
  BY <1>1, <1>3 DEF Arrive, Finish
<1>4. CASE Select(h)
  BY <1>1, <1>4 DEF Select, Empty
<1>5. CASE Refuse(h)
  <2>1. e \in FilterHealthy(snap[h])
    BY <1>5 DEF Refuse, FilterHealthy
  <2>2. Candidates(snap[h], sysSeen[h]) = {}
    BY <1>5 DEF Refuse
  <2> QED
    BY <2>1, <2>2, HealthyMeansCandidates
<1>6. ASSUME NEW f \in Engines, LookAt(h, f) PROVE NotRefused(h, e)'
  <2>0. /\ DOMAIN snap'[h] = DOMAIN snap[h] \cup {f}
        /\ snap'[h][f] = [depth |-> depth[f], healthy |-> healthy[f]]
        /\ \A x \in DOMAIN snap[h] : snap'[h][x] = snap[h][x]
    BY <1>6, LookedAt
  <2>1. pc'[h] = "looking"
    BY <1>6 DEF LookAt
  <2>2. e \in DOMAIN snap'[h] => snap'[h][e].healthy
    <3>1. CASE e = f
      BY <2>0, <3>1
    <3>2. CASE e # f
      BY <2>0, <3>2
    <3> QED
      BY <3>1, <3>2
  <2> QED
    BY <2>1, <2>2
<1> QED
  BY <1>2, <1>3, <1>4, <1>5, <1>6, OwnSteps

\* An engine that stays up keeps every request that arrives meanwhile from
\* being refused, for any policy, tiers and handlers (policy.go:96-108): no
\* order of reading the pools and of the readings turns it into "no healthy
\* engine".
THEOREM UpMeansServed == Spec => ServedWhileOneIsUp
<1> SUFFICES ASSUME NEW h \in Handlers, NEW e \in Engines
             PROVE  Spec => []((pc[h] = "idle" /\ []healthy[e]) => [](pc[h] # "refused"))
  BY DEF ServedWhileOneIsUp
<1>1. RInv /\ pc[h] = "idle" => NotRefused(h, e)
  BY DEF RInv, Handling, NotRefused, Empty
<1>2. RInv /\ NotRefused(h, e) /\ healthy[e] /\ [Next]_vars => NotRefused(h, e)'
  BY NotRefusedStep
<1>3. NotRefused(h, e) => pc[h] # "refused"
  BY DEF NotRefused
<1> QED
  BY <1>1, <1>2, <1>3, RoutingInit, RoutingStep, PTL DEF Spec

\* Hot from the start of a request on, with an engine c of the cheap tier up.
KeptCheap(h, c) ==
  /\ chosen[h] \in CheapTier \cup {NoEngine}
  /\ pc[h] = "looking" => sysSeen[h] = "hot"
  /\ c \in DOMAIN snap[h] => snap[h][c].healthy

LEMMA KeptCheapStep ==
  ASSUME Policy = "thermal-aware",
         RInv, NEW h \in Handlers, NEW c \in Engines \cap CheapTier,
         KeptCheap(h, c), sys = "hot", healthy[c], [Next]_vars
  PROVE  KeptCheap(h, c)'
<1> USE DEF KeptCheap
<1>1. /\ DOMAIN pc = Handlers /\ DOMAIN snap = Handlers
      /\ DOMAIN sysSeen = Handlers /\ DOMAIN chosen = Handlers
  BY DEF RInv, TypeOK, Handling
<1>2. CASE UNCHANGED <<pc[h], sysSeen[h], snap[h], chosen[h]>>
  BY <1>2
<1>3. CASE Arrive(h) \/ Finish(h)
  BY <1>1, <1>3 DEF Arrive, Finish
<1>4. CASE Select(h)
  <2>1. pc[h] = "looking" /\ c \in FilterHealthy(snap[h])
    BY <1>4 DEF Select, FilterHealthy
  <2>2. Candidates(snap[h], sysSeen[h]) \subseteq CheapTier
    BY <2>1 DEF Candidates
  <2>3. chosen'[h] \in CheapTier
    BY <1>1, <1>4, <2>2, Selected
  <2> QED
    BY <1>1, <1>4, <2>3 DEF Select, Empty
<1>5. CASE Refuse(h)
  BY <1>1, <1>5 DEF Refuse, Empty
<1>6. ASSUME NEW f \in Engines, LookAt(h, f) PROVE KeptCheap(h, c)'
  <2>0. /\ DOMAIN snap'[h] = DOMAIN snap[h] \cup {f}
        /\ snap'[h][f] = [depth |-> depth[f], healthy |-> healthy[f]]
        /\ \A x \in DOMAIN snap[h] : snap'[h][x] = snap[h][x]
    BY <1>6, LookedAt
  <2>1. chosen'[h] = chosen[h] /\ pc'[h] = pc[h] /\ sysSeen'[h] = sysSeen[h]
    BY <1>6 DEF LookAt
  <2>2. c \in DOMAIN snap'[h] => snap'[h][c].healthy
    <3>1. CASE c = f
      BY <2>0, <3>1
    <3>2. CASE c # f
      BY <2>0, <3>2
    <3> QED
      BY <3>1, <3>2
  <2> QED
    BY <2>1, <2>2
<1> QED
  BY <1>2, <1>3, <1>4, <1>5, <1>6, OwnSteps

\* While it is hot and an engine of the cheap tier is up, no request that
\* arrives goes to an engine outside the tier, for any tiers, count and
\* queues (policy.go:85-132); it is thermal-aware routing that promises it.
THEOREM CheapWhileHot ==
  ASSUME Policy = "thermal-aware"
  PROVE  Spec => HotGoesToCheapTier
<1> SUFFICES ASSUME NEW h \in Handlers, NEW c \in Engines \cap CheapTier
             PROVE  Spec => []((pc[h] = "idle" /\ [](sys = "hot" /\ healthy[c]))
                                 => [](chosen[h] \in CheapTier \cup {NoEngine}))
  BY DEF HotGoesToCheapTier
<1>1. RInv /\ pc[h] = "idle" => KeptCheap(h, c)
  BY DEF RInv, Handling, KeptCheap, Empty
<1>2. RInv /\ KeptCheap(h, c) /\ (sys = "hot" /\ healthy[c]) /\ [Next]_vars
        => KeptCheap(h, c)'
  BY KeptCheapStep
<1>3. KeptCheap(h, c) => chosen[h] \in CheapTier \cup {NoEngine}
  BY DEF KeptCheap
<1> QED
  BY <1>1, <1>2, <1>3, RoutingInit, RoutingStep, PTL DEF Spec

\* What a snapshot shows of e and f when the queue of f stayed at d or below
\* and that of e above it.
Outqueued(h, e, f, d) ==
  /\ chosen[h] # e
  /\ f \in DOMAIN snap[h] => snap[h][f].healthy /\ snap[h][f].depth <= d
  /\ e \in DOMAIN snap[h] => snap[h][e].depth > d

LEMMA OutqueuedStep ==
  ASSUME RInv, NEW h \in Handlers, NEW e \in Engines, NEW f \in Engines, NEW d \in Depths,
         e \in CheapTier => f \in CheapTier,
         Outqueued(h, e, f, d), healthy[f], depth[f] <= d, depth[e] > d, [Next]_vars
  PROVE  Outqueued(h, e, f, d)'
<1> USE DEF Outqueued
<1>1. /\ DOMAIN pc = Handlers /\ DOMAIN snap = Handlers
      /\ DOMAIN sysSeen = Handlers /\ DOMAIN chosen = Handlers
  BY DEF RInv, TypeOK, Handling
<1>2. CASE UNCHANGED <<pc[h], sysSeen[h], snap[h], chosen[h]>>
  BY <1>2
<1>3. CASE Arrive(h) \/ Finish(h)
  BY <1>1, <1>3, RoutingAssumption DEF Arrive, Finish
<1>4. CASE Select(h)
  <2> DEFINE cand == Candidates(snap[h], sysSeen[h])
  <2>1. DOMAIN snap[h] = Engines
    BY <1>4 DEF Select
  <2>2. f \in FilterHealthy(snap[h])
    BY <2>1 DEF FilterHealthy
  <2>3. e \in cand => f \in cand
    BY <2>2 DEF Candidates
  <2>4. PICK x \in Engines :
          /\ x \in cand
          /\ \A y \in cand : snap[h][x].depth <= snap[h][y].depth
          /\ chosen' = [chosen EXCEPT ![h] = x]
    BY <1>4, Selected, Zenon
  <2>5. x # e
    <3> SUFFICES ASSUME x = e PROVE FALSE
      OBVIOUS
    <3>1. snap[h][e].depth <= snap[h][f].depth
      BY <2>3, <2>4
    <3>2. snap[h][e].depth \in Nat /\ snap[h][f].depth \in Nat /\ d \in Nat
      BY <2>1, SnapshotTypes, RoutingAssumption DEF Depths
    <3> QED
      BY <2>1, <3>1, <3>2
  <2> QED
    BY <1>1, <1>4, <2>4, <2>5 DEF Select, Empty
<1>5. CASE Refuse(h)
  BY <1>1, <1>5 DEF Refuse, Empty
<1>6. ASSUME NEW k \in Engines, LookAt(h, k) PROVE Outqueued(h, e, f, d)'
  <2>0. /\ DOMAIN snap'[h] = DOMAIN snap[h] \cup {k}
        /\ snap'[h][k] = [depth |-> depth[k], healthy |-> healthy[k]]
        /\ \A x \in DOMAIN snap[h] : snap'[h][x] = snap[h][x]
    BY <1>6, LookedAt
  <2>1. chosen'[h] = chosen[h]
    BY <1>6 DEF LookAt
  <2>2. f \in DOMAIN snap'[h] => snap'[h][f].healthy /\ snap'[h][f].depth <= d
    <3>1. CASE f = k
      BY <2>0, <3>1
    <3>2. CASE f # k
      BY <2>0, <3>2
    <3> QED
      BY <3>1, <3>2
  <2>3. e \in DOMAIN snap'[h] => snap'[h][e].depth > d
    <3>1. CASE e = k
      BY <2>0, <3>1
    <3>2. CASE e # k
      BY <2>0, <3>2
    <3> QED
      BY <3>1, <3>2
  <2> QED
    BY <2>1, <2>2, <2>3
<1> QED
  BY <1>2, <1>3, <1>4, <1>5, <1>6, OwnSteps

\* An engine whose queue stays above a level gets no request while that of a
\* healthy one stays at it or below, for any policy, any number of engines and
\* any order of reading their queues (policy.go:70-83); only the cheap tier
\* comes before.
THEOREM ShorterWins == Spec => ShorterQueueWins
<1> SUFFICES ASSUME NEW h \in Handlers, NEW e \in Engines, NEW f \in Engines,
                    NEW d \in Depths, e \in CheapTier => f \in CheapTier
             PROVE  Spec => []((pc[h] = "idle"
                                 /\ [](healthy[f] /\ depth[f] <= d /\ depth[e] > d))
                                 => [](chosen[h] # e))
  BY DEF ShorterQueueWins
<1>1. RInv /\ pc[h] = "idle" => Outqueued(h, e, f, d)
  BY RoutingAssumption DEF RInv, Handling, Outqueued, Empty
<1>2. RInv /\ Outqueued(h, e, f, d) /\ (healthy[f] /\ depth[f] <= d /\ depth[e] > d)
        /\ [Next]_vars => Outqueued(h, e, f, d)'
  BY OutqueuedStep
<1>3. Outqueued(h, e, f, d) => chosen[h] # e
  BY DEF Outqueued
<1> QED
  BY <1>1, <1>2, <1>3, RoutingInit, RoutingStep, PTL DEF Spec
=============================================================================

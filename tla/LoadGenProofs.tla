--------------------------- MODULE LoadGenProofs ---------------------------
(***************************************************************************)
(* Theorems about LoadGen, for any images, workers and warm-up, with what  *)
(* they need to know about sums and remainders.                            *)
(***************************************************************************)
EXTENDS LoadGen, FiniteSetTheorems, WellFoundedInduction, TLAPS

\* The results stay open until all workers are gone, and who is gone stays so.
LInv ==
  /\ worker \in [Workers -> {"receiving", "busy", "handing", "exited"}]
  /\ open \/ AllGone

LEMMA LInvStart == LoadInit => LInv
  BY DEF LoadInit, LInv

LEMMA LInvStep == LInv /\ [LoadNext]_vars => LInv'
<1> SUFFICES ASSUME LInv, [LoadNext]_vars PROVE LInv'
  OBVIOUS
<1> USE DEF LInv, AllGone
<1>1. CASE UNCHANGED <<worker, open>>
  BY <1>1
<1>2. CASE CloseResults
  BY <1>2 DEF CloseResults
<1>3. ASSUME NEW w \in Workers, WorkerStep(w) PROVE LInv'
  <2>1. PICK place \in {"receiving", "busy", "handing", "exited"} :
          worker' = [worker EXCEPT ![w] = place]
    BY <1>3 DEF WorkerStep, TakePath, SendOne, Leave, Collect
  <2>2. worker[w] # "exited" /\ open' = open
    BY <1>3 DEF WorkerStep, TakePath, SendOne, Leave, Collect
  <2>3. open
    BY <2>2
  <2> QED
    BY <2>1, <2>2, <2>3
<1> QED
  BY <1>1, <1>2, <1>3
  DEF LoadNext, MainStep, WarmUp, Start, Report, ProducerStep, Offer, ProducerEnds,
      Deadline, vars

\* No worker ever sends its result on a closed channel, for any number of
\* images, workers and requests (main.go:217-243).
THEOREM NoPanic == LoadSpec => []NoSendOnClosed
<1>1. LInv => NoSendOnClosed
  BY DEF LInv, AllGone, NoSendOnClosed
<1> QED
  BY <1>1, LInvStart, LInvStep, PTL DEF LoadSpec

-----------------------------------------------------------------------------
(* Types                                                                   *)

LEMMA ImagesAreImages ==
  /\ 0 \in Images
  /\ \A n \in Nat : Image(n) \in Images
  BY LoadGenAssumption DEF Images, Image

LEMMA LoadTypesStart == LoadInit => LoadTypeOK
<1> SUFFICES ASSUME LoadInit PROVE LoadTypeOK
  OBVIOUS
<1>1. fine \in [Workers -> BOOLEAN] /\ expired \in BOOLEAN /\ open \in BOOLEAN
  BY DEF LoadInit
<1>2. results \in [Images -> [Outcomes -> Nat]]
  BY DEF LoadInit
<1> QED
  BY <1>1, <1>2, ImagesAreImages DEF LoadInit, LoadTypeOK

LEMMA LoadTypesStep == LoadTypeOK /\ [LoadNext]_vars => LoadTypeOK'
<1> SUFFICES ASSUME LoadTypeOK, [LoadNext]_vars PROVE LoadTypeOK'
  OBVIOUS
<1> USE DEF LoadTypeOK
<1>1. CASE WarmUp \/ Start
  BY <1>1 DEF WarmUp, Start
<1>2. CASE Report
  <2>1. /\ main' = "reported"
        /\ UNCHANGED <<sustained, warmed, producer, next, expired, worker, doing, fine,
                       open, results>>
    BY <1>2, Zenon DEF Report
  <2> QED
    BY <2>1
<1>3. CASE Offer \/ ProducerEnds \/ Deadline \/ CloseResults
  BY <1>3 DEF Offer, ProducerEnds, CloseAtEnd, Deadline, CloseResults
<1>4. ASSUME NEW w \in Workers, TakePath(w) PROVE LoadTypeOK'
  <2>1. Image(next) \in Images
    BY ImagesAreImages
  <2> QED
    BY <1>4, <2>1 DEF TakePath
<1>5. ASSUME NEW w \in Workers, SendOne(w) PROVE LoadTypeOK'
  BY <1>5 DEF SendOne, Outcomes
<1>6. ASSUME NEW w \in Workers, Leave(w) PROVE LoadTypeOK'
  BY <1>6 DEF Leave
<1>7. ASSUME NEW w \in Workers, Collect(w) PROVE LoadTypeOK'
  <2>1. doing[w] \in Images /\ fine[w] \in Outcomes
    BY DEF Outcomes
  <2>2. results' \in [Images -> [Outcomes -> Nat]]
    BY <1>7, <2>1 DEF Collect
  <2> QED
    BY <1>7, <2>2 DEF Collect
<1>8. CASE UNCHANGED vars
  BY <1>8 DEF vars
<1> QED
  BY <1>1, <1>2, <1>3, <1>4, <1>5, <1>6, <1>7, <1>8
  DEF LoadNext, MainStep, ProducerStep, WorkerStep

\* The types of the load generator, for any images, workers and modes; that an
\* image is taken by a place in the list of them is what needs the modulus of
\* main.go:231.
THEOREM LoadTypes == LoadSpec => []LoadTypeOK
  BY LoadTypesStart, LoadTypesStep, PTL DEF LoadSpec

-----------------------------------------------------------------------------
(* Sums over a finite set                                                  *)

\* Of the sets with a property, all within a finite one, one is smallest.
LEMMA SmallestSet ==
  ASSUME NEW S, IsFiniteSet(S), NEW Bad \in SUBSET (SUBSET S), Bad # {}
  PROVE  \E T \in Bad : \A U \in Bad : ~(U \subseteq T /\ U # T)
<1>1. IsWellFoundedOn(StrictSubsetOrdering(S), SUBSET S)
  BY FS_StrictSubsetOrderingWellFounded, FS_FiniteSubsetsOfFinite
<1>2. PICK T \in Bad : \A U \in Bad : <<U, T>> \notin StrictSubsetOrdering(S)
  BY <1>1, WFMin
<1> QED
  BY <1>2 DEF StrictSubsetOrdering

One(s) == CHOOSE x \in s : TRUE

LEMMA OneOf == ASSUME NEW s, s # {} PROVE One(s) \in s
  BY DEF One

\* What MapThenSumSet makes for g: the sums over the subsets of S, each by the
\* sum over a smaller one.
SumsUp(sums, g, S) ==
  sums = [s \in SUBSET S |->
            IF s = {} THEN 0 ELSE g[One(s)] + sums[s \ {One(s)}]]
SumOf(g, S) == (CHOOSE sums : SumsUp(sums, g, S))[S]

LEMMA SameSums ==
  ASSUME NEW g, NEW S, NEW T, NEW a, NEW b, SumsUp(a, g, S), SumsUp(b, g, T),
         NEW U, U \subseteq S, U \subseteq T, IsFiniteSet(U)
  PROVE  a[U] = b[U]
<1> DEFINE Bad == {V \in SUBSET U : a[V] # b[V]}
<1>1. SUFFICES ASSUME Bad # {} PROVE FALSE
  OBVIOUS
<1>2. PICK V \in Bad : \A W \in Bad : ~(W \subseteq V /\ W # V)
  <2>1. Bad \in SUBSET (SUBSET U)
    OBVIOUS
  <2> HIDE DEF Bad
  <2> QED
    BY <1>1, <2>1, SmallestSet
<1>3. /\ V \in SUBSET S /\ V \in SUBSET T
      /\ a[V] = IF V = {} THEN 0 ELSE g[One(V)] + a[V \ {One(V)}]
      /\ b[V] = IF V = {} THEN 0 ELSE g[One(V)] + b[V \ {One(V)}]
  BY DEF SumsUp
<1>4. V # {}
  BY <1>3
<1>5. a[V \ {One(V)}] = b[V \ {One(V)}]
  BY <1>2, <1>4, OneOf
<1> QED
  BY <1>3, <1>4, <1>5

LEMMA SumsExist ==
  ASSUME NEW g, NEW S, IsFiniteSet(S)
  PROVE  \E sums : SumsUp(sums, g, S)
<1> DEFINE Bad == {T \in SUBSET S : ~\E sums : SumsUp(sums, g, T)}
<1>1. SUFFICES ASSUME Bad # {} PROVE FALSE
  OBVIOUS
<1>2. PICK T \in Bad : \A U \in Bad : ~(U \subseteq T /\ U # T)
  <2>1. Bad \in SUBSET (SUBSET S)
    OBVIOUS
  <2> HIDE DEF Bad
  <2> QED
    BY <1>1, <2>1, SmallestSet
<1> DEFINE For(U) == CHOOSE sums : SumsUp(sums, g, U)
           all == [s \in SUBSET T |->
                     IF s = {} THEN 0
                     ELSE g[One(s)] + For(s \ {One(s)})[s \ {One(s)}]]
<1>3. \A U \in SUBSET T : U # T => SumsUp(For(U), g, U)
  <2>1. \A U \in SUBSET T : U # T => \E sums : SumsUp(sums, g, U)
    BY <1>2
  <2> QED
    BY <2>1
<1>4. ASSUME NEW s \in SUBSET T, s # {}
      PROVE  all[s \ {One(s)}] = For(s \ {One(s)})[s \ {One(s)}]
  <2> DEFINE V == s \ {One(s)}
             W == V \ {One(V)}
  <2>1. V \in SUBSET T /\ V # T /\ SumsUp(For(V), g, V)
    BY <1>3, <1>4, OneOf
  <2>2. For(V)[V] = IF V = {} THEN 0 ELSE g[One(V)] + For(V)[W]
    <3> HIDE DEF For, V
    <3> QED
      BY <2>1 DEF SumsUp
  <2>3. all[V] = IF V = {} THEN 0 ELSE g[One(V)] + For(W)[W]
    BY <2>1
  <2>4. V # {} => For(V)[W] = For(W)[W]
    <3> SUFFICES ASSUME V # {} PROVE For(V)[W] = For(W)[W]
      OBVIOUS
    <3>1. W \in SUBSET T /\ W # T
      BY <2>1, OneOf
    <3>2. SumsUp(For(W), g, W)
      BY <1>3, <3>1
    <3>3. IsFiniteSet(W)
      BY <3>1, FS_Subset
    <3>4. W \subseteq V
      OBVIOUS
    <3> HIDE DEF For, V, W
    <3> QED
      BY <2>1, <3>2, <3>3, <3>4, SameSums
  <2> HIDE DEF For, all, W
  <2> QED
    BY <2>2, <2>3, <2>4
<1>5. SumsUp(all, g, T)
  <2>1. \A s \in SUBSET T : s # {} => all[s \ {One(s)}] = For(s \ {One(s)})[s \ {One(s)}]
    BY <1>4
  <2>2. all = [s \in SUBSET T |->
                 IF s = {} THEN 0
                 ELSE g[One(s)] + For(s \ {One(s)})[s \ {One(s)}]]
    OBVIOUS
  <2> HIDE DEF all, For
  <2> QED
    BY <2>1, <2>2 DEF SumsUp
<1> QED
  BY <1>2, <1>5

\* The sum by the sum over a smaller set.
LEMMA SumEquation ==
  ASSUME NEW g, NEW S, IsFiniteSet(S)
  PROVE  SumOf(g, S) = IF S = {} THEN 0 ELSE g[One(S)] + SumOf(g, S \ {One(S)})
<1> DEFINE For(U) == CHOOSE sums : SumsUp(sums, g, U)
           R == S \ {One(S)}
<1>1. IsFiniteSet(R) /\ R \subseteq S
  BY FS_Subset
<1>2. SumsUp(For(S), g, S) /\ SumsUp(For(R), g, R)
  <2> HIDE DEF R
  <2> QED
    BY <1>1, SumsExist
<1>3. For(S)[R] = For(R)[R]
  <2> HIDE DEF R, For
  <2> QED
    BY <1>1, <1>2, SameSums
<1>4. For(S)[S] = IF S = {} THEN 0 ELSE g[One(S)] + For(S)[R]
  <2> HIDE DEF For
  <2> QED
    BY <1>2 DEF SumsUp
<1>5. SumOf(g, S) = For(S)[S] /\ SumOf(g, R) = For(R)[R]
  BY DEF SumOf
<1> HIDE DEF For
<1> QED
  BY <1>3, <1>4, <1>5

LEMMA SumType ==
  ASSUME NEW g, NEW S, IsFiniteSet(S), \A x \in S : g[x] \in Nat
  PROVE  SumOf(g, S) \in Nat
<1> DEFINE Bad == {T \in SUBSET S : SumOf(g, T) \notin Nat}
<1>1. SUFFICES ASSUME Bad # {} PROVE FALSE
  OBVIOUS
<1>2. PICK T \in Bad : \A U \in Bad : ~(U \subseteq T /\ U # T)
  <2>1. Bad \in SUBSET (SUBSET S)
    OBVIOUS
  <2> HIDE DEF Bad
  <2> QED
    BY <1>1, <2>1, SmallestSet
<1>3. SumOf(g, T) = IF T = {} THEN 0 ELSE g[One(T)] + SumOf(g, T \ {One(T)})
  BY FS_Subset, SumEquation
<1>4. T # {}
  BY <1>3
<1>5. SumOf(g, T \ {One(T)}) \in Nat /\ g[One(T)] \in Nat
  BY <1>2, <1>4, OneOf
<1> QED
  BY <1>3, <1>4, <1>5

\* The elements can be added up in any order.
LEMMA SumAnyOrder ==
  ASSUME NEW g, NEW S, IsFiniteSet(S), \A x \in S : g[x] \in Nat, NEW x \in S
  PROVE  SumOf(g, S) = g[x] + SumOf(g, S \ {x})
<1> DEFINE Bad == {T \in SUBSET S : \E y \in T : SumOf(g, T) # g[y] + SumOf(g, T \ {y})}
<1>1. SUFFICES ASSUME Bad # {} PROVE FALSE
  OBVIOUS
<1>2. PICK T \in Bad : \A U \in Bad : ~(U \subseteq T /\ U # T)
  <2>1. Bad \in SUBSET (SUBSET S)
    OBVIOUS
  <2> HIDE DEF Bad
  <2> QED
    BY <1>1, <2>1, SmallestSet
<1>3. PICK y \in T : SumOf(g, T) # g[y] + SumOf(g, T \ {y})
  OBVIOUS
<1> DEFINE z == One(T)
           R == T \ {y, z}
<1>4. z \in T /\ SumOf(g, T) = g[z] + SumOf(g, T \ {z})
  BY FS_Subset, SumEquation, OneOf
<1>5. y # z
  BY <1>3, <1>4
<1>6. SumOf(g, T \ {z}) = g[y] + SumOf(g, R)
  <2>1. T \ {z} \in SUBSET S /\ T \ {z} \subseteq T /\ T \ {z} # T /\ y \in T \ {z}
        /\ (T \ {z}) \ {y} = R
    BY <1>4, <1>5
  <2> HIDE DEF z, R
  <2> QED
    BY <1>2, <2>1
<1>7. SumOf(g, T \ {y}) = g[z] + SumOf(g, R)
  <2>1. T \ {y} \in SUBSET S /\ T \ {y} \subseteq T /\ T \ {y} # T /\ z \in T \ {y}
        /\ (T \ {y}) \ {z} = R
    BY <1>3, <1>4, <1>5
  <2> HIDE DEF z, R
  <2> QED
    BY <1>2, <2>1
<1>8. g[y] \in Nat /\ g[z] \in Nat /\ SumOf(g, R) \in Nat
  <2>1. IsFiniteSet(R) /\ \A v \in R : g[v] \in Nat
    BY FS_Subset
  <2> HIDE DEF R
  <2> QED
    BY <1>4, <2>1, SumType
<1> HIDE DEF z, R
<1> QED
  BY <1>3, <1>4, <1>6, <1>7, <1>8

LEMMA SumOfSame ==
  ASSUME NEW g, NEW h, NEW S, IsFiniteSet(S), \A x \in S : g[x] = h[x]
  PROVE  SumOf(g, S) = SumOf(h, S)
<1> DEFINE Bad == {T \in SUBSET S : SumOf(g, T) # SumOf(h, T)}
<1>1. SUFFICES ASSUME Bad # {} PROVE FALSE
  OBVIOUS
<1>2. PICK T \in Bad : \A U \in Bad : ~(U \subseteq T /\ U # T)
  <2>1. Bad \in SUBSET (SUBSET S)
    OBVIOUS
  <2> HIDE DEF Bad
  <2> QED
    BY <1>1, <2>1, SmallestSet
<1>3. /\ SumOf(g, T) = IF T = {} THEN 0 ELSE g[One(T)] + SumOf(g, T \ {One(T)})
      /\ SumOf(h, T) = IF T = {} THEN 0 ELSE h[One(T)] + SumOf(h, T \ {One(T)})
  BY FS_Subset, SumEquation
<1>4. T # {}
  BY <1>3
<1>5. SumOf(g, T \ {One(T)}) = SumOf(h, T \ {One(T)}) /\ g[One(T)] = h[One(T)]
  BY <1>2, <1>4, OneOf
<1> QED
  BY <1>3, <1>4, <1>5

\* One more of one thing is one more in all.
LEMMA SumGrows ==
  ASSUME NEW g, NEW h, NEW S, IsFiniteSet(S), \A y \in S : g[y] \in Nat,
         NEW x \in S, h[x] = g[x] + 1, \A y \in S \ {x} : h[y] = g[y]
  PROVE  SumOf(h, S) = SumOf(g, S) + 1
<1>1. IsFiniteSet(S \ {x})
  BY FS_Subset
<1>2. SumOf(h, S \ {x}) = SumOf(g, S \ {x})
  BY <1>1, SumOfSame
<1>3. SumOf(g, S \ {x}) \in Nat
  BY <1>1, SumType
<1>4. \A y \in S : h[y] \in Nat
  OBVIOUS
<1>5. SumOf(g, S) = g[x] + SumOf(g, S \ {x}) /\ SumOf(h, S) = h[x] + SumOf(h, S \ {x})
  BY <1>4, SumAnyOrder
<1> QED
  BY <1>2, <1>3, <1>5

LEMMA SumOfZeros ==
  ASSUME NEW g, NEW S, IsFiniteSet(S), \A x \in S : g[x] = 0
  PROVE  SumOf(g, S) = 0
<1> DEFINE Bad == {T \in SUBSET S : SumOf(g, T) # 0}
<1>1. SUFFICES ASSUME Bad # {} PROVE FALSE
  OBVIOUS
<1>2. PICK T \in Bad : \A U \in Bad : ~(U \subseteq T /\ U # T)
  <2>1. Bad \in SUBSET (SUBSET S)
    OBVIOUS
  <2> HIDE DEF Bad
  <2> QED
    BY <1>1, <2>1, SmallestSet
<1>3. SumOf(g, T) = IF T = {} THEN 0 ELSE g[One(T)] + SumOf(g, T \ {One(T)})
  BY FS_Subset, SumEquation
<1>4. T # {}
  BY <1>3
<1>5. SumOf(g, T \ {One(T)}) = 0 /\ g[One(T)] = 0
  BY <1>2, <1>4, OneOf
<1> QED
  BY <1>3, <1>4, <1>5

\* The sums of the summary.
Col(o) == [i \in Images |-> results[i][o]]

LEMMA ImagesAreFinite == IsFiniteSet(Images)
  BY LoadGenAssumption, FS_Interval DEF Images

Successes == SumOf(Col(TRUE), Images)
Failures == SumOf(Col(FALSE), Images)
ResultsOf(i) == results[i][TRUE] + results[i][FALSE]

LEMMA WithIsASum == ASSUME NEW o PROVE With(o) = SumOf(Col(o), Images)
  BY Zenon DEF With, MapThenSumSet, MapThenFoldSet, SumOf, SumsUp, One, Col

-----------------------------------------------------------------------------
(* Every image is counted                                                  *)

\* The workers that have taken an image and not handed over its result.
Sending == {w \in Workers : worker[w] \in {"busy", "handing"}}
SendingOf(i) == {w \in Sending : doing[w] = i}

\* What was taken and is not being sent has a result.
AllKept ==
  Successes + Failures + Cardinality(Sending) = next

\* After q rounds and r images more, the first r have been taken once more.
InTurns ==
  \E q \in Nat, r \in Images :
    /\ next = NumImages * q + r
    /\ \A i \in Images :
         ResultsOf(i) + Cardinality(SendingOf(i)) = IF i < r THEN q + 1 ELSE q

\* One pass takes each image; workers leave when it is over.
OnePass ==
  /\ ~sustained => /\ next <= NumImages
                   /\ producer = "offering" => next < NumImages
                   /\ producer = "closed" => next = NumImages
  /\ \A w \in Workers : worker[w] = "exited" => producer = "closed"

Reported ==
  main = "reported" =>
    /\ ~open
    /\ summary.total = Successes + Failures

CInv == LoadTypeOK /\ LInv /\ AllKept /\ InTurns /\ OnePass /\ Reported

LEMMA NothingSent ==
  ASSUME Sending = {} PROVE Cardinality(Sending) = 0 /\ \A i \in Images : SendingOf(i) = {}
  BY FS_EmptySet DEF SendingOf

LEMMA CountingStart == LoadInit => CInv
<1> SUFFICES ASSUME LoadInit PROVE CInv
  OBVIOUS
<1>1. Sending = {}
  BY DEF LoadInit, Sending
<1>2. \A o \in Outcomes, i \in Images : results[i][o] = 0
  BY DEF LoadInit
<1>3. TRUE \in Outcomes /\ FALSE \in Outcomes
  BY DEF Outcomes
<1>4. Successes = 0 /\ Failures = 0
  BY <1>2, <1>3, ImagesAreFinite, SumOfZeros DEF Col, Successes, Failures
<1>5. AllKept
  BY <1>1, <1>4, NothingSent DEF AllKept, LoadInit
<1>6. InTurns
  <2>1. next = NumImages * 0 + 0 /\ 0 \in Images
    BY LoadGenAssumption DEF LoadInit, Images
  <2>2. \A i \in Images : SendingOf(i) = {} /\ ~(i < 0)
    BY <1>1, NothingSent, LoadGenAssumption DEF Images
  <2>3. \A i \in Images : ResultsOf(i) = 0
    <3>1. \A i \in Images : results[i][TRUE] = 0 /\ results[i][FALSE] = 0
      BY <1>2, <1>3, Zenon
    <3>2. \A i \in Images : ResultsOf(i) = 0 + 0
      BY <3>1, Zenon DEF ResultsOf
    <3> QED
      BY <3>2
  <2>4. \A i \in Images : ResultsOf(i) + Cardinality(SendingOf(i)) = 0
    BY <2>2, <2>3, FS_EmptySet
  <2> QED
    BY <2>1, <2>2, <2>4 DEF InTurns
<1>7. OnePass /\ Reported
  BY LoadGenAssumption DEF LoadInit, OnePass, Reported
<1> QED
  BY <1>5, <1>6, <1>7, LInvStart, LoadTypesStart DEF CInv

\* Whatever leaves the results, the place in the list and who is sending alone
\* leaves the counts alone.
LEMMA CountsStay ==
  ASSUME AllKept, InTurns, Sending' = Sending, \A w \in Sending : doing'[w] = doing[w],
         UNCHANGED <<results, next>>
  PROVE  AllKept' /\ InTurns'
<1>1. \A i \in Images : SendingOf(i)' = SendingOf(i)
  BY DEF SendingOf
<1>2. UNCHANGED <<Successes, Failures>> /\ \A i \in Images : ResultsOf(i)' = ResultsOf(i)
  BY DEF Col, Successes, Failures, ResultsOf
<1> QED
  BY <1>1, <1>2 DEF AllKept, InTurns

LEMMA CountTypes ==
  ASSUME LoadTypeOK
  PROVE  /\ Successes \in Nat /\ Failures \in Nat
         /\ \A i \in Images : ResultsOf(i) \in Nat
<1>1. \A o \in Outcomes, i \in Images : results[i][o] \in Nat
  BY DEF LoadTypeOK
<1>2. \A o \in Outcomes : SumOf(Col(o), Images) \in Nat
  <2>1. \A o \in Outcomes, i \in Images : Col(o)[i] \in Nat
    BY <1>1 DEF Col
  <2> QED
    BY <2>1, ImagesAreFinite, SumType
<1>3. TRUE \in Outcomes /\ FALSE \in Outcomes
  BY DEF Outcomes
<1>4. Successes \in Nat /\ Failures \in Nat
  BY <1>2, <1>3, Zenon DEF Successes, Failures
<1>5. \A i \in Images : results[i][TRUE] \in Nat /\ results[i][FALSE] \in Nat
  BY <1>1, <1>3, Zenon
<1>6. \A a, b \in Nat : a + b \in Nat
  OBVIOUS
<1> QED
  BY <1>4, <1>5, <1>6, Zenon DEF ResultsOf

LEMMA SendersAreFinite ==
  /\ IsFiniteSet(Sending) /\ Cardinality(Sending) \in Nat
  /\ \A i \in Images : IsFiniteSet(SendingOf(i)) /\ Cardinality(SendingOf(i)) \in Nat
<1>1. IsFiniteSet(Sending)
  BY LoadGenAssumption, FS_Subset DEF Sending
<1>2. \A i \in Images : IsFiniteSet(SendingOf(i))
  BY <1>1, FS_Subset DEF SendingOf
<1> QED
  BY <1>1, <1>2, FS_CardinalityType

\* Division has one result.
LEMMA PlaceInTurn ==
  ASSUME NEW q \in Nat, NEW r \in Images
  PROVE  /\ Image(NumImages * q + r) = r
         /\ NumImages * q + r = NumImages => q = 1 /\ r = 0
<1> DEFINE n == NumImages
           x == n * q + r
           d == x \div n
           s == x % n
<1>0. n \in Nat \ {0} /\ r \in 0..(n - 1)
  BY LoadGenAssumption DEF Images
<1>1. x \in Nat /\ n * q \in Nat
  BY <1>0
<1> HIDE DEF x, n
<1>2. d \in Int /\ s \in 0..(n - 1) /\ x = n * d + s
  BY <1>0, <1>1
<1> HIDE DEF d, s
<1>3. n * q + r = n * d + s
  BY <1>2 DEF x
<1>4. ASSUME NEW a \in Int, NEW b \in Int, a > b PROVE n * a >= n * b + n
  <2>1. n * a >= n * (b + 1)
    BY <1>0, <1>4
  <2>2. n * (b + 1) = n * b + n
    BY <1>0
  <2> QED
    BY <2>1, <2>2
<1>5. n * d \in Int
  BY <1>0, <1>2
<1>6. d = q
  <2>1. CASE d > q
    BY <1>0, <1>1, <1>2, <1>3, <1>4, <1>5, <2>1
  <2>2. CASE d < q
    BY <1>0, <1>1, <1>2, <1>3, <1>4, <1>5, <2>2
  <2> QED
    BY <1>2, <2>1, <2>2
<1>7. s = r
  BY <1>0, <1>1, <1>2, <1>3, <1>6
<1>8. x = n => q = 1 /\ r = 0
  <2>1. n * 0 = 0 /\ n * 1 = n
    BY <1>0
  <2>2. q = 0 => x # n
    BY <1>0, <2>1 DEF x
  <2>3. q > 1 => x # n
    BY <1>0, <1>1, <1>4, <2>1 DEF x
  <2>4. q = 1 /\ x = n => r = 0
    BY <1>0, <2>1 DEF x
  <2> QED
    BY <2>2, <2>3, <2>4
<1> QED
  BY <1>7, <1>8 DEF s, x, n, Image

LEMMA TakenIsCounted ==
  ASSUME CInv, NEW w \in Workers, TakePath(w)
  PROVE  AllKept' /\ InTurns'
<1>1. /\ worker[w] = "receiving" /\ worker' = [worker EXCEPT ![w] = "busy"]
      /\ doing' = [doing EXCEPT ![w] = Image(next)]
      /\ next' = next + 1 /\ results' = results
  BY DEF TakePath
<1>2. DOMAIN worker = Workers /\ DOMAIN doing = Workers /\ next \in Nat
  BY DEF CInv, LoadTypeOK
<1>3. w \notin Sending /\ Sending' = Sending \cup {w}
  BY <1>1, <1>2 DEF Sending
<1>4. Cardinality(Sending') = Cardinality(Sending) + 1
  BY <1>3, SendersAreFinite, FS_AddElement
<1>5. UNCHANGED <<Successes, Failures>> /\ \A i \in Images : ResultsOf(i)' = ResultsOf(i)
  BY <1>1 DEF Col, Successes, Failures, ResultsOf
<1>6. AllKept'
  <2>1. Successes \in Nat /\ Failures \in Nat
    BY CountTypes DEF CInv
  <2>2. Successes + Failures + Cardinality(Sending) = next
    BY DEF CInv, AllKept
  <2> QED
    BY <1>1, <1>4, <1>5, <2>1, <2>2, SendersAreFinite DEF AllKept
<1>7. PICK q \in Nat, r \in Images :
        /\ next = NumImages * q + r
        /\ \A i \in Images :
             ResultsOf(i) + Cardinality(SendingOf(i)) = IF i < r THEN q + 1 ELSE q
  BY DEF CInv, InTurns
<1>8. Image(next) = r
  BY <1>7, PlaceInTurn
<1>9. ASSUME NEW i \in Images
      PROVE  Cardinality(SendingOf(i)') = Cardinality(SendingOf(i)) + IF i = r THEN 1 ELSE 0
  <2>1. SendingOf(i)' = SendingOf(i) \cup IF i = r THEN {w} ELSE {}
    BY <1>1, <1>2, <1>3, <1>8 DEF SendingOf
  <2>2. w \notin SendingOf(i)
    BY <1>3 DEF SendingOf
  <2>3. CASE i = r
    BY <2>1, <2>2, <2>3, SendersAreFinite, FS_AddElement
  <2>4. CASE i # r
    BY <2>1, <2>4, SendersAreFinite
  <2> QED
    BY <2>3, <2>4
<1>10. InTurns'
  <2> DEFINE N(i) == ResultsOf(i) + Cardinality(SendingOf(i))
  <2>1. ASSUME NEW i \in Images PROVE N(i)' = N(i) + IF i = r THEN 1 ELSE 0
    <3>1. ResultsOf(i) \in Nat /\ ResultsOf(i)' = ResultsOf(i)
      BY <1>5, CountTypes DEF CInv
    <3>2. Cardinality(SendingOf(i)) \in Nat
      BY SendersAreFinite
    <3> QED
      BY <1>9, <3>1, <3>2
  <2>2. \A i \in Images : N(i) = IF i < r THEN q + 1 ELSE q
    BY <1>7
  <2>3. \A i \in Images : N(i)' = IF i <= r THEN q + 1 ELSE q
    <3> HIDE DEF N
    <3> QED
      BY <2>1, <2>2, LoadGenAssumption DEF Images
  <2>4. NumImages \in Nat \ {0} /\ NumImages * q \in Nat
    BY LoadGenAssumption
  <2>5. CASE r + 1 < NumImages
    <3>1. r + 1 \in Images /\ next' = NumImages * q + (r + 1)
      BY <1>1, <1>7, <2>4, <2>5 DEF Images
    <3>2. \A i \in Images : N(i)' = IF i < r + 1 THEN q + 1 ELSE q
      <4>1. \A i \in Images : i <= r <=> i < r + 1
        BY <2>4 DEF Images
      <4> HIDE DEF N
      <4> QED
        BY <2>3, <4>1
    <3> QED
      BY <3>1, <3>2 DEF InTurns
  <2>6. CASE r + 1 = NumImages
    <3>1. 0 \in Images /\ next' = NumImages * (q + 1) + 0 /\ q + 1 \in Nat
      <4>1. NumImages * (q + 1) = NumImages * q + NumImages
        BY <2>4
      <4> QED
        BY <1>1, <1>7, <2>4, <2>6, <4>1 DEF Images
    <3>2. \A i \in Images : i <= r /\ ~(i < 0)
      BY <2>4, <2>6 DEF Images
    <3>3. \A i \in Images : N(i)' = IF i < 0 THEN q + 1 + 1 ELSE q + 1
      BY <2>3, <3>2
    <3> QED
      BY <3>1, <3>3 DEF InTurns
  <2> QED
    BY <2>4, <2>5, <2>6 DEF Images
<1> QED
  BY <1>6, <1>10

LEMMA CollectedIsCounted ==
  ASSUME CInv, NEW w \in Workers, Collect(w)
  PROVE  AllKept' /\ InTurns'
<1>0. /\ DOMAIN worker = Workers /\ DOMAIN doing = Workers
      /\ doing[w] \in Images /\ fine[w] \in Outcomes
      /\ results \in [Images -> [Outcomes -> Nat]]
  BY DEF CInv, LoadTypeOK, Outcomes
<1>1. PICK i \in Images, o \in Outcomes : doing[w] = i /\ fine[w] = o
  BY <1>0
<1>2. /\ worker[w] = "handing" /\ worker' = [worker EXCEPT ![w] = "receiving"]
      /\ results' = [results EXCEPT ![i][o] = @ + 1]
      /\ next' = next /\ doing' = doing
  BY <1>1 DEF Collect
<1>3. w \in Sending /\ Sending' = Sending \ {w}
  BY <1>0, <1>2 DEF Sending
<1>4. Cardinality(Sending') = Cardinality(Sending) - 1
  BY <1>3, SendersAreFinite, FS_RemoveElement
<1>5. /\ results'[i][o] = results[i][o] + 1
      /\ \A j \in Images, p \in Outcomes : j # i \/ p # o => results'[j][p] = results[j][p]
  BY <1>0, <1>2
<1>6. SumOf(Col(o), Images)' = SumOf(Col(o), Images) + 1
  <2>1. /\ \A j \in Images : Col(o)[j] \in Nat
        /\ Col(o)'[i] = Col(o)[i] + 1
        /\ \A j \in Images \ {i} : Col(o)'[j] = Col(o)[j]
    BY <1>0, <1>5 DEF Col
  <2> QED
    BY <2>1, ImagesAreFinite, SumGrows
<1>7. ASSUME NEW p \in Outcomes, p # o PROVE Col(p)' = Col(p)
  <2>1. \A j \in Images : results'[j][p] = results[j][p]
    BY <1>5, <1>7
  <2> QED
    BY <2>1 DEF Col
<1>8. Successes' + Failures' = Successes + Failures + 1
  <2>0. Successes \in Nat /\ Failures \in Nat
    BY CountTypes DEF CInv
  <2>1. CASE o = TRUE
    <3>1. FALSE \in Outcomes /\ FALSE # o
      BY <2>1 DEF Outcomes
    <3>2. Failures' = Failures
      BY <1>7, <3>1, Zenon DEF Failures
    <3>3. Successes' = Successes + 1
      BY <1>6, <2>1, Zenon DEF Successes
    <3> QED
      BY <2>0, <3>2, <3>3
  <2>2. CASE o = FALSE
    <3>1. TRUE \in Outcomes /\ TRUE # o
      BY <2>2 DEF Outcomes
    <3>2. Successes' = Successes
      BY <1>7, <3>1, Zenon DEF Successes
    <3>3. Failures' = Failures + 1
      BY <1>6, <2>2, Zenon DEF Failures
    <3> QED
      BY <2>0, <3>2, <3>3
  <2> QED
    BY <2>1, <2>2 DEF Outcomes
<1>9. AllKept'
  <2>1. Successes \in Nat /\ Failures \in Nat
    BY CountTypes DEF CInv
  <2>2. Successes + Failures + Cardinality(Sending) = next
    BY DEF CInv, AllKept
  <2>3. (Successes' + Failures') + Cardinality(Sending)' = next'
    BY <1>2, <1>4, <1>8, <2>1, <2>2, SendersAreFinite
  <2> QED
    BY <2>3 DEF AllKept
<1>10. ASSUME NEW j \in Images
       PROVE  ResultsOf(j)' + Cardinality(SendingOf(j)')
                = ResultsOf(j) + Cardinality(SendingOf(j))
  <2>0. ResultsOf(j) \in Nat /\ Cardinality(SendingOf(j)) \in Nat
    BY CountTypes, SendersAreFinite DEF CInv
  <2>1. CASE j # i
    <3>1. SendingOf(j)' = SendingOf(j)
      BY <1>1, <1>2, <1>3, <2>1 DEF SendingOf
    <3>2. results'[j] = results[j]
      BY <1>0, <1>2, <2>1
    <3> QED
      BY <3>1, <3>2 DEF ResultsOf
  <2>2. CASE j = i
    <3>1. w \in SendingOf(j) /\ SendingOf(j)' = SendingOf(j) \ {w}
      BY <1>1, <1>2, <1>3, <2>2 DEF SendingOf
    <3>2. Cardinality(SendingOf(j)') = Cardinality(SendingOf(j)) - 1
      BY <3>1, SendersAreFinite, FS_RemoveElement
    <3>3. ResultsOf(j)' = ResultsOf(j) + 1
      <4>1. \A p \in Outcomes : results[i][p] \in Nat
        BY <1>0
      <4>2. TRUE \in Outcomes /\ FALSE \in Outcomes
        BY DEF Outcomes
      <4>3. PICK a \in Nat, b \in Nat : results[i][TRUE] = a /\ results[i][FALSE] = b
        BY <4>1, <4>2, Zenon
      <4>4. ResultsOf(j) = a + b
        BY <2>2, <4>3, Zenon DEF ResultsOf
      <4>5. CASE o = TRUE
        <5>1. FALSE # o
          BY <4>5
        <5>2. results'[i][TRUE] = a + 1 /\ results'[i][FALSE] = b
          BY <1>5, <4>2, <4>3, <4>5, <5>1, Zenon
        <5>3. ResultsOf(j)' = (a + 1) + b
          BY <2>2, <5>2, Zenon DEF ResultsOf
        <5> QED
          BY <4>4, <5>3
      <4>6. CASE o = FALSE
        <5>1. TRUE # o
          BY <4>6
        <5>2. results'[i][TRUE] = a /\ results'[i][FALSE] = b + 1
          BY <1>5, <4>2, <4>3, <4>6, <5>1, Zenon
        <5>3. ResultsOf(j)' = a + (b + 1)
          BY <2>2, <5>2, Zenon DEF ResultsOf
        <5> QED
          BY <4>4, <5>3
      <4> QED
        BY <4>5, <4>6 DEF Outcomes
    <3> QED
      BY <2>0, <3>2, <3>3
  <2> QED
    BY <2>1, <2>2
<1>11. InTurns'
  BY <1>2, <1>10 DEF CInv, InTurns
<1> QED
  BY <1>9, <1>11

\* The counts of a report do not change any more, nor does what is counted.
LEMMA CountingStep == CInv /\ [LoadNext]_vars => CInv'
<1> SUFFICES ASSUME CInv, [LoadNext]_vars PROVE CInv'
  OBVIOUS
<1>1. LoadTypeOK' /\ LInv'
  BY LoadTypesStep, LInvStep DEF CInv
<1>2. CASE UNCHANGED vars \/ WarmUp \/ Start \/ Offer \/ ProducerEnds \/ Deadline
           \/ CloseResults
  <2>1. UNCHANGED <<results, next, worker, doing, summary, sustained>>
    BY <1>2 DEF vars, WarmUp, Start, Offer, ProducerEnds, Deadline, CloseResults
  <2>2. Sending' = Sending
    BY <2>1 DEF Sending
  <2>3. AllKept' /\ InTurns'
    BY <2>1, <2>2, CountsStay DEF CInv
  <2>4. OnePass'
    BY <1>2, LoadGenAssumption
    DEF CInv, LoadTypeOK, OnePass, vars, WarmUp, Start, Offer, ProducerEnds, CloseAtEnd,
        Deadline, CloseResults, MoreToSend
  <2>5. Reported'
    <3>1. UNCHANGED <<Successes, Failures>>
      BY <2>1 DEF Successes, Failures, Col
    <3> QED
      BY <1>2, <2>1, <3>1
      DEF CInv, Reported, vars, WarmUp, Start, Offer, ProducerEnds, Deadline, CloseResults, Up
  <2> QED
    BY <1>1, <2>3, <2>4, <2>5 DEF CInv
<1>3. CASE Report
  <2>1. /\ ~open /\ UNCHANGED <<sustained, producer, next, worker, doing, open, results>>
        /\ summary'.total = With(TRUE) + With(FALSE)
    BY <1>3, Zenon DEF Report
  <2>2. With(TRUE) = Successes /\ With(FALSE) = Failures
    BY WithIsASum, Zenon DEF Successes, Failures
  <2>3. Sending' = Sending
    BY <2>1 DEF Sending
  <2>4. AllKept' /\ InTurns'
    BY <2>1, <2>3, CountsStay DEF CInv
  <2>5. UNCHANGED <<Successes, Failures>>
    BY <2>1 DEF Successes, Failures, Col
  <2>6. OnePass' /\ Reported'
    BY <2>1, <2>2, <2>5 DEF CInv, OnePass, Reported
  <2> QED
    BY <1>1, <2>4, <2>6 DEF CInv
<1>4. ASSUME NEW w \in Workers, WorkerStep(w) PROVE CInv'
  <2>1. Up /\ UNCHANGED <<main, summary, sustained>>
    BY <1>4 DEF WorkerStep, TakePath, SendOne, Leave, Collect
  <2>2. Reported'
    BY <2>1 DEF Reported, Up
  <2>3. OnePass'
    BY <1>4, LoadGenAssumption
    DEF CInv, LoadTypeOK, OnePass, WorkerStep, TakePath, SendOne, Leave, Collect
  <2>4. AllKept' /\ InTurns'
    <3>1. CASE SendOne(w) \/ Leave(w)
      <4>1. UNCHANGED <<results, next, doing>> /\ DOMAIN worker = Workers
        BY <3>1 DEF SendOne, Leave, CInv, LoadTypeOK
      <4>2. Sending' = Sending
        BY <3>1, <4>1 DEF SendOne, Leave, Sending
      <4> QED
        BY <4>1, <4>2, CountsStay DEF CInv
    <3> QED
      BY <1>4, <3>1, TakenIsCounted, CollectedIsCounted DEF WorkerStep
  <2> QED
    BY <1>1, <2>2, <2>3, <2>4 DEF CInv
<1> QED
  BY <1>2, <1>3, <1>4 DEF LoadNext, MainStep, ProducerStep

\* What the report covers, once all workers are gone.
LEMMA ReportIsComplete == CInv => EveryImageCounted
<1> SUFFICES ASSUME CInv, main = "reported", Workers # {}
             PROVE  /\ summary.total = next
                    /\ \A i, j \in Images :
                         IF sustained THEN ResultsOf(i) - ResultsOf(j) \in -1..1
                         ELSE ResultsOf(i) = 1
  BY Zenon DEF EveryImageCounted, ResultsOf
<1>1. AllGone /\ producer = "closed"
  BY DEF CInv, Reported, LInv, AllGone, OnePass
<1>2. Sending = {} /\ \A i \in Images : SendingOf(i) = {}
  BY <1>1 DEF Sending, SendingOf, AllGone
<1>3. summary.total = next
  BY <1>2, FS_EmptySet, CountTypes DEF CInv, AllKept, Reported
<1>4. PICK q \in Nat, r \in Images :
        /\ next = NumImages * q + r
        /\ \A i \in Images :
             ResultsOf(i) + Cardinality(SendingOf(i)) = IF i < r THEN q + 1 ELSE q
  BY DEF CInv, InTurns
<1>5. ASSUME NEW i \in Images PROVE ResultsOf(i) = IF i < r THEN q + 1 ELSE q
  <2>1. Cardinality(SendingOf(i)) = 0 /\ ResultsOf(i) \in Nat
    BY <1>2, FS_EmptySet, CountTypes DEF CInv
  <2> QED
    BY <1>4, <2>1
<1>6. ASSUME ~sustained PROVE \A i \in Images : ResultsOf(i) = 1
  <2>1. next = NumImages
    BY <1>1, <1>6 DEF CInv, OnePass
  <2>2. q = 1 /\ r = 0
    BY <1>4, <2>1, PlaceInTurn
  <2> QED
    BY <1>5, <2>2, LoadGenAssumption DEF Images
<1> QED
  BY <1>3, <1>5, <1>6

\* Every image is counted, for any images, workers and modes: the report covers
\* what was sent, failures included; one pass has one result of each image and a
\* sustained run has gone through them in turn (main.go:224-269).
THEOREM AllImagesCounted == LoadSpec => []EveryImageCounted
  BY CountingStart, CountingStep, ReportIsComplete, PTL DEF LoadSpec
=============================================================================

------------------------------ MODULE Routing ------------------------------
(***************************************************************************)
(* How a request without ?engine= gets its engine: the handler reads the   *)
(* system state, looks at the pools one by one (engineStates of            *)
(* scheduler/internal/api/handlers.go) and calls the routing policy        *)
(* (scheduler/internal/routing/policy.go), which picks among the healthy   *)
(* engines of that snapshot with a counter all handlers share.             *)
(*                                                                         *)
(* Queue depths, health verdicts and the system state change under the     *)
(* handlers; here they change freely, one engine at a time.                *)
(***************************************************************************)
EXTENDS Integers, Sequences, FiniteSets

CONSTANTS
  Engines,         \* the configured engines, numbered in the order of their names
  NoEngine,        \* no engine has been selected
  Handlers,        \* the goroutines of HandlePredict; each serves many requests
  Policy,          \* the -routing-policy flag
  Tiers,           \* the -cheap-tier flag, cheapest first; any names
  CheapTierCount,  \* the -cheap-tier-count flag, as given
  CounterWidth,    \* bits of tieBreaker.counter (64 in the code)
  MaxDepth,        \* bound: queue depths are 0..MaxDepth
  Flaky,           \* bound: the engines whose health changes
  SystemStates,    \* bound: the readings of the system monitor
  Window           \* bound: how many picks the history remembers

ASSUME RoutingAssumption ==
  /\ Engines \subseteq Nat /\ IsFiniteSet(Engines)
  /\ NoEngine \notin Engines
  /\ Policy \in {"least-queue", "thermal-aware"}
  /\ Tiers \in Seq(Nat) /\ CheapTierCount \in Int
  /\ CounterWidth \in Nat /\ Cardinality(Engines) <= 2^CounterWidth
  /\ MaxDepth \in Nat /\ Window \in Nat
  /\ Flaky \subseteq Engines
  /\ SystemStates \subseteq {"unknown", "cool", "hot"}

VARIABLES
  depth,    \* depth[e]: the queue depth of e's pool
  healthy,  \* healthy[e]: the health monitor's verdict on e
  sys,      \* the reading: not Valid, below or at least the threshold
  counter,  \* tieBreaker.counter
  pc,       \* pc[h]: where handler h is
  sysSeen,  \* sysSeen[h]: sysState
  snap,     \* snap[h]: the snapshot so far, a function on the engines looked at
  chosen,   \* chosen[h]: what the policy returned
  streak    \* history: the last picks, as long as they were among the same tied engines

envVars == <<depth, healthy, sys>>
vars == <<envVars, counter, pc, sysSeen, snap, chosen, streak>>

Depths == 0..MaxDepth
EngineState == [depth : Depths, healthy : BOOLEAN]
Empty == [e \in {} |-> 0]

TypeOK ==
  /\ depth \in [Engines -> Depths]
  /\ healthy \in [Engines -> BOOLEAN]
  /\ sys \in SystemStates
  /\ counter \in 0..(2^CounterWidth - 1)
  /\ pc \in [Handlers -> {"idle", "looking", "selected", "refused"}]
  /\ sysSeen \in [Handlers -> SystemStates]
  /\ \A h \in Handlers : /\ DOMAIN snap[h] \subseteq Engines
                         /\ snap[h] \in [DOMAIN snap[h] -> EngineState]
  /\ chosen \in [Handlers -> Engines \cup {NoEngine}]
  /\ streak.tied \subseteq Engines
  /\ streak.picks \in Seq(streak.tied) /\ Len(streak.picks) <= Window

Init ==
  /\ depth = [e \in Engines |-> 0]
  /\ healthy = [e \in Engines |-> TRUE]
  /\ sys \in SystemStates
  /\ counter = 0
  /\ pc = [h \in Handlers |-> "idle"]
  /\ sysSeen = [h \in Handlers |-> sys]
  /\ snap = [h \in Handlers |-> Empty]
  /\ chosen = [h \in Handlers |-> NoEngine]
  /\ streak = [tied |-> {}, picks |-> <<>>]

-----------------------------------------------------------------------------
(* policy.go                                                               *)

FilterHealthy(s) == {e \in DOMAIN s : s[e].healthy}

\* filterToCheapTier clamps the count first to 1, then to what there is.
TierCount ==
  LET atLeast1 == IF CheapTierCount < 1 THEN 1 ELSE CheapTierCount
  IN  IF atLeast1 > Len(Tiers) THEN Len(Tiers) ELSE atLeast1
CheapTier == {Tiers[i] : i \in 1..TierCount}

\* A slip: no way out of an empty cheap tier.
Candidates_NoFallback(s, reading) ==
  FilterHealthy(s)
    \cap IF Policy = "thermal-aware" /\ reading = "hot" THEN CheapTier ELSE Engines

\* A slip: the tier is used only when all of it is up.
Candidates_WholeTier(s, reading) ==
  LET up == FilterHealthy(s)
  IN  IF Policy = "thermal-aware" /\ reading = "hot" /\ CheapTier \subseteq up
      THEN CheapTier ELSE up

\* The healthy engines; of these the cheap tier when it is hot, unless none
\* of the tier is among them.
Candidates(s, reading) ==
  LET up == FilterHealthy(s)
      cheap == up \cap CheapTier
  IN  IF Policy = "thermal-aware" /\ reading = "hot" /\ cheap # {} THEN cheap ELSE up

\* A slip: the comparison is turned around.
Shortest_Longest(s, cand) == {e \in cand : \A f \in cand : s[f].depth <= s[e].depth}

\* The candidates with the shortest queue: "tied" in pick.
Shortest(s, cand) == {e \in cand : \A f \in cand : s[e].depth <= s[f].depth}

\* tied[idx] of the engines sorted by name.
NthByName(tied, idx) ==
  CHOOSE e \in tied : Cardinality({f \in tied : f < e}) = idx

\* Slips: a policy with a value receiver counts on a copy; a counter that is
\* not an unsigned integer does not wrap.
Advance_Copy(c) == c
Advance_NoWrap(c) == c + 1

\* counter.Add(1) on an unsigned integer; the old value is used.
Advance(c) == (c + 1) % 2^CounterWidth

-----------------------------------------------------------------------------
(* The handlers                                                            *)

\* The request arrives and the system state is read.
Arrive(h) ==
  /\ pc[h] = "idle"
  /\ pc' = [pc EXCEPT ![h] = "looking"]
  /\ sysSeen' = [sysSeen EXCEPT ![h] = sys]
  /\ UNCHANGED <<envVars, counter, snap, chosen, streak>>

\* engineStates reads the depth and the health of the next pool of the map.
LookAt(h, e) ==
  /\ pc[h] = "looking"
  /\ e \notin DOMAIN snap[h]
  /\ snap' = [snap EXCEPT ![h] =
       [f \in DOMAIN @ \cup {e} |->
          IF f = e THEN [depth |-> depth[e], healthy |-> healthy[e]] ELSE @[f]]]
  /\ UNCHANGED <<envVars, counter, pc, sysSeen, chosen, streak>>

\* What the history holds after e was picked from tied; nothing without a Window.
Remember(tied, e) ==
  IF Window = 0 THEN streak ELSE
  LET picks == Append(IF streak.tied = tied THEN streak.picks ELSE <<>>, e)
      last == IF Len(picks) > Window THEN Tail(picks) ELSE picks
  IN  [tied |-> tied, picks |-> last]

\* SelectEngine on the complete snapshot: one counter step picks an engine.
Select(h) ==
  /\ pc[h] = "looking"
  /\ DOMAIN snap[h] = Engines
  /\ LET cand == Candidates(snap[h], sysSeen[h])
         tied == Shortest(snap[h], cand)
         e == NthByName(tied, counter % Cardinality(tied))
     IN  /\ cand # {}
         /\ chosen' = [chosen EXCEPT ![h] = e]
         /\ counter' = Advance(counter)
         /\ streak' = Remember(tied, e)
  /\ pc' = [pc EXCEPT ![h] = "selected"]
  /\ snap' = [snap EXCEPT ![h] = Empty]
  /\ UNCHANGED <<envVars, sysSeen>>

\* SelectEngine returns an error and the counter stays.
Refuse(h) ==
  /\ pc[h] = "looking"
  /\ DOMAIN snap[h] = Engines
  /\ Candidates(snap[h], sysSeen[h]) = {}
  /\ pc' = [pc EXCEPT ![h] = "refused"]
  /\ snap' = [snap EXCEPT ![h] = Empty]
  /\ UNCHANGED <<envVars, counter, sysSeen, chosen, streak>>

\* The request is over; the goroutine stands for that of a later one.
Finish(h) ==
  /\ pc[h] \in {"selected", "refused"}
  /\ pc' = [pc EXCEPT ![h] = "idle"]
  /\ chosen' = [chosen EXCEPT ![h] = NoEngine]
  /\ sysSeen' = [sysSeen EXCEPT ![h] = sys]
  /\ UNCHANGED <<envVars, counter, snap, streak>>

-----------------------------------------------------------------------------
(* The rest of the scheduler                                               *)

handlerVars == <<counter, pc, sysSeen, snap, chosen, streak>>

\* A queue grows or shrinks by one.
DepthChanges(e) ==
  /\ \E d \in {depth[e] - 1, depth[e] + 1} \cap Depths :
       depth' = [depth EXCEPT ![e] = d]
  /\ UNCHANGED <<healthy, sys, handlerVars>>

HealthChanges(e) ==
  /\ healthy' = [healthy EXCEPT ![e] = ~@]
  /\ UNCHANGED <<depth, sys, handlerVars>>

SystemChanges ==
  /\ sys' \in SystemStates \ {sys}
  /\ UNCHANGED <<depth, healthy, handlerVars>>

Next ==
  \/ \E h \in Handlers :
       \/ Arrive(h) \/ Select(h) \/ Refuse(h) \/ Finish(h)
       \/ \E e \in Engines : LookAt(h, e)
  \/ \E e \in Engines : DepthChanges(e)
  \/ \E e \in Flaky : HealthChanges(e)
  \/ SystemChanges

Spec == Init /\ [][Next]_vars

-----------------------------------------------------------------------------
(* Properties                                                              *)

\* As long as the same engines are tied, whatever handlers pick and in
\* whatever order they took their snapshots, the picks rotate: any n
\* successive ones among n tied engines serve each engine once, and when the
\* counter wraps around among them, 2n-1 still serve each at least once
\* (policy.go:66-67). Window is at least 2n-1.
Served(picks, from, to) == {picks[i] : i \in from..to}
TiesRotate ==
  LET n == Cardinality(streak.tied)
      len == Len(streak.picks)
  IN  /\ n > 0 /\ counter >= n /\ len >= n
         => Served(streak.picks, len - n + 1, len) = streak.tied
      /\ n > 0 /\ len >= 2 * n - 1
         => Served(streak.picks, len - 2 * n + 2, len) = streak.tied

\* A request is refused only if every engine was unhealthy at some moment
\* after it arrived: one that stays healthy keeps the service up, also when
\* it is hot and the cheap tier is gone (policy.go:96-108).
ServedWhileOneIsUp ==
  \A h \in Handlers, e \in Engines :
    []((pc[h] = "idle" /\ []healthy[e]) => [](pc[h] # "refused"))

\* While it stays hot and an engine of the cheap tier stays healthy, no
\* request that arrives goes to an engine outside the tier, in spite of its
\* queues (policy.go:85-87).
HotGoesToCheapTier ==
  \A h \in Handlers, c \in Engines \cap CheapTier :
    []((pc[h] = "idle" /\ [](sys = "hot" /\ healthy[c]))
         => [](chosen[h] \in CheapTier \cup {NoEngine}))

\* While the queue of f stays at d or below, that of e above d, and f stays
\* healthy, no request that arrives goes to e, unless e and not f is in the
\* cheap tier. It takes the level d: the snapshot is read engine by engine,
\* so that a queue which is always the shorter one, but rises before it is
\* read while the other falls, may lose (policy.go:70-83, handlers.go:142-152).
ShorterQueueWins ==
  \A h \in Handlers, e, f \in Engines, d \in Depths :
    (e \in CheapTier => f \in CheapTier) =>
      []((pc[h] = "idle" /\ [](healthy[f] /\ depth[f] <= d /\ depth[e] > d))
           => [](chosen[h] # e))
=============================================================================

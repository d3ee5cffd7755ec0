-------------------------- MODULE SysMonitorProofs --------------------------
(***************************************************************************)
(* Theorems about SysMonitor, for any temperatures and power modes.        *)
(***************************************************************************)
EXTENDS SysMonitor, SequenceTheorems, TLAPS

\* Only the end of runTegrastats sends on errCh, and it comes once; Run waits
\* for it.
OneEnd ==
  /\ run # "running" => tpc = "ended"
  /\ errCh # <<>> => tpc = "ended" /\ run = "running" /\ Len(errCh) = 1

MInv == TypeOK /\ OneEnd

LEMMA MonitorInit == Init => MInv
<1> SUFFICES ASSUME Init PROVE MInv
  OBVIOUS
<1>1. Zero \in State
  BY DEF Zero, State
<1>2. errCh = <<>> /\ errCh \in Seq({"nil", "error"}) /\ Len(errCh) = 0
  BY EmptySeq DEF Init
<1> QED
  BY <1>1, <1>2 DEF Init, MInv, TypeOK, OneEnd

\* A copy with one field changed is a state.
LEMMA StatesStay ==
  /\ \A s \in State, t \in Temps \cup {NoReading} : Merged(s, t) \in State
  /\ \A s \in State, m \in Modes \cup {NoReading} : [s EXCEPT !.mode = m] \in State
  BY DEF State, Merged

LEMMA MonitorStep == MInv /\ [Next]_vars => MInv'
<1> SUFFICES ASSUME MInv, [Next]_vars PROVE MInv'
  OBVIOUS
<1> USE DEF MInv, TypeOK, OneEnd
<1>1. board.temp \in Temps /\ board.mode \in Modes
  OBVIOUS
<1>2. CASE Tegra
  <2>1. CASE Scan
    BY <1>1, <2>1 DEF Scan, tegraVars, nvpVars
  <2>2. CASE TegraLoad
    BY <2>2 DEF TegraLoad, nvpVars
  <2>3. CASE TegraStore
    <3>1. state' \in State
      BY <2>3, StatesStay DEF TegraStore
    <3> QED
      BY <2>3, <3>1 DEF TegraStore, nvpVars
  <2> QED
    BY <1>2, <2>1, <2>2, <2>3 DEF Tegra
<1>3. ASSUME NEW result \in {"nil", "error"}, End(result) PROVE MInv'
  <2>1. errCh = <<>> /\ run = "running" /\ tpc' = "ended" /\ errCh' = Append(errCh, result)
    BY <1>3 DEF End
  <2>2. errCh' \in Seq({"nil", "error"}) /\ Len(errCh') = 1
    BY <2>1, AppendProperties, EmptySeq
  <2> QED
    BY <1>3, <2>1, <2>2 DEF End, nvpVars
<1>4. CASE Nvp
  <2>1. CASE Query
    BY <1>1, <2>1 DEF Query, tegraVars
  <2>2. CASE NvpLoad
    BY <2>2 DEF NvpLoad, tegraVars
  <2>3. CASE NvpStore
    <3>1. state' \in State
      BY <2>3, StatesStay DEF NvpStore
    <3> QED
      BY <2>3, <3>1 DEF NvpStore, tegraVars
  <2>4. CASE Tick
    BY <2>4 DEF Tick, tegraVars
  <2> QED
    BY <1>4, <2>1, <2>2, <2>3, <2>4 DEF Nvp
<1>5. CASE RunReturns
  <2>1. /\ errCh # <<>> /\ Len(errCh) = 1 /\ tpc = "ended"
        /\ run' = Head(errCh) /\ errCh' = Tail(errCh)
    BY <1>5 DEF RunReturns
  <2>2. /\ Head(errCh) \in {"nil", "error"}
        /\ Tail(errCh) \in Seq({"nil", "error"}) /\ Len(Tail(errCh)) = 0
    BY <2>1, HeadTailProperties
  <2>3. errCh' = <<>> /\ errCh' \in Seq({"nil", "error"}) /\ Len(errCh') = 0
    BY <2>1, <2>2, EmptySeq
  <2>4. run' \in {"nil", "error"} /\ tpc = "ended"
    BY <2>1, <2>2
  <2>5. UNCHANGED <<board, state, tegraVars, nvpVars>>
    BY <1>5 DEF RunReturns
  <2> QED
    BY <2>3, <2>4, <2>5 DEF tegraVars, nvpVars
<1>6. CASE BoardChanges
  BY <1>6 DEF BoardChanges, tegraVars, nvpVars
<1>7. CASE UNCHANGED vars
  BY <1>7 DEF vars, tegraVars, nvpVars
<1> QED
  BY <1>2, <1>3, <1>4, <1>5, <1>6, <1>7 DEF Next

\* The types of the system monitor; that errCh never holds more than it has
\* room for, so that no goroutine blocks on it, follows from the end of
\* tegrastats being the only result and coming once: of the two places one is
\* used (monitor.go:52-61).
THEOREM MonitorTypes == Spec => []TypeOK
<1>1. MInv => TypeOK
  BY DEF MInv
<1> QED
  BY <1>1, MonitorInit, MonitorStep, PTL DEF Spec

-----------------------------------------------------------------------------
(* What one goroutine does to the fields of the other                      *)

\* A store of runNvpmodel takes nothing back once its copy is not older than
\* the last line of tegrastats, for the temperature, or than the first, for
\* Valid: the copies that it loads later are not older either
\* (monitor.go:155-176, 202-218).
THEOREM UndoingEnds == Spec => NothingUndoneLater
<1>1. MInv /\ Frozen /\ [Next]_vars => Frozen' /\ state'.temp = state.temp
  <2> SUFFICES ASSUME MInv, Frozen, [Next]_vars
               PROVE  Frozen' /\ state'.temp = state.temp
    OBVIOUS
  <2>1. CASE NvpStore
    <3>1. state' = [nprev EXCEPT !.mode = mode] /\ npc = "store" /\ npc' = "ticking"
          /\ tpc' = tpc
      BY <2>1 DEF NvpStore, tegraVars
    <3>2. nprev \in State
      BY DEF MInv, TypeOK
    <3>3. state'.temp = nprev.temp
      BY <3>1, <3>2 DEF State
    <3> QED
      BY <3>1, <3>3 DEF Frozen
  <2>2. CASE NvpLoad
    BY <2>2 DEF NvpLoad, tegraVars, Frozen
  <2>3. CASE Query \/ Tick \/ RunReturns \/ BoardChanges \/ UNCHANGED vars
    BY <2>3 DEF Query, Tick, RunReturns, BoardChanges, vars, tegraVars, nvpVars, Frozen
  <2>4. ~Tegra /\ \A result \in {"nil", "error"} : ~End(result)
    BY DEF Frozen, Tegra, Scan, TegraLoad, TegraStore, End, MInv, TypeOK
  <2> QED
    BY <2>1, <2>2, <2>3, <2>4 DEF Next, Nvp
<1>2. MInv /\ FirstLineKept /\ [Next]_vars => FirstLineKept'
  <2> SUFFICES ASSUME MInv, FirstLineKept, [Next]_vars
               PROVE  FirstLineKept'
    OBVIOUS
  <2>1. state \in State /\ tprev \in State /\ nprev \in State
    BY DEF MInv, TypeOK
  <2>2. CASE TegraStore
    BY <2>1, <2>2 DEF TegraStore, Merged, State, nvpVars, FirstLineKept
  <2>3. CASE NvpStore
    <3>1. state'.valid = nprev.valid
      BY <2>1, <2>3 DEF NvpStore, State
    <3> QED
      BY <2>3, <3>1 DEF NvpStore, FirstLineKept
  <2>4. CASE NvpLoad
    BY <2>4 DEF NvpLoad, FirstLineKept
  <2>5. CASE Scan \/ TegraLoad \/ \E result \in {"nil", "error"} : End(result)
    BY <2>5 DEF Scan, TegraLoad, End, nvpVars, FirstLineKept
  <2>6. CASE Query \/ Tick \/ RunReturns \/ BoardChanges \/ UNCHANGED vars
    BY <2>6 DEF Query, Tick, RunReturns, BoardChanges, vars, nvpVars, FirstLineKept
  <2> QED
    BY <2>2, <2>3, <2>4, <2>5, <2>6 DEF Next, Tegra, Nvp
<1>3. FirstLineKept => state.valid
  BY DEF FirstLineKept
<1>4. Spec => [](FirstLineKept => []state.valid)
  BY <1>2, <1>3, MonitorInit, MonitorStep, PTL DEF Spec
<1>5. ASSUME NEW t \in Temps \cup {NoReading}
      PROVE  Spec => [](Frozen /\ state.temp = t => [](state.temp = t))
  <2>1. MInv /\ (Frozen /\ state.temp = t) /\ [Next]_vars => (Frozen /\ state.temp = t)'
    BY <1>1
  <2> QED
    BY <2>1, MonitorInit, MonitorStep, PTL DEF Spec
<1> QED
  BY <1>4, <1>5 DEF NothingUndoneLater
=============================================================================

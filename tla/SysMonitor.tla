----------------------------- MODULE SysMonitor -----------------------------
(***************************************************************************)
(* The system monitor of scheduler/internal/sysmonitor/monitor.go: two     *)
(* goroutines, one that scans the lines of tegrastats and one that polls   *)
(* nvpmodel, each of which loads the one state pointer, changes its own    *)
(* fields in a copy and stores the copy. Load and store are atomic, the    *)
(* two together are not.                                                   *)
(*                                                                         *)
(* Of the fields of State, temp stands for all that tegrastats reports.    *)
(***************************************************************************)
EXTENDS Sequences, Naturals

CONSTANTS
  Temps,      \* the temperatures of the board
  Modes,      \* its power modes
  NoReading   \* a field never set, or not in the line

ASSUME MonitorAssumption == NoReading \notin Temps \cup Modes

VARIABLES
  board,   \* the board itself: its temperature and its power mode
  state,   \* what Current returns
  tpc,     \* where runTegrastats is
  line,    \* the temperature in the line it has read
  tprev,   \* the state it has loaded
  npc,     \* where runNvpmodel is
  mode,    \* the mode nvpmodel has reported
  nprev,   \* the state it has loaded
  errCh,   \* the channel of that name in Run
  run      \* whether Run has returned, and what

tegraVars == <<tpc, line, tprev>>
nvpVars == <<npc, mode, nprev>>
vars == <<board, state, tegraVars, nvpVars, errCh, run>>

State == [valid : BOOLEAN, temp : Temps \cup {NoReading}, mode : Modes \cup {NoReading}]
Zero == [valid |-> FALSE, temp |-> NoReading, mode |-> NoReading]

\* errCh has room for both goroutines.
TypeOK ==
  /\ board \in [temp : Temps, mode : Modes]
  /\ state \in State /\ tprev \in State /\ nprev \in State
  /\ tpc \in {"scanning", "load", "store", "ended"}
  /\ line \in Temps \cup {NoReading}
  /\ npc \in {"query", "load", "store", "ticking"}
  /\ mode \in Modes \cup {NoReading}
  /\ errCh \in Seq({"nil", "error"}) /\ Len(errCh) <= 2
  /\ run \in {"running", "nil", "error"}

Init ==
  /\ board \in [temp : Temps, mode : Modes]
  /\ state = Zero /\ tprev = Zero /\ nprev = Zero
  /\ tpc = "scanning" /\ line = NoReading
  /\ npc = "query" /\ mode = NoReading
  /\ errCh = <<>>
  /\ run = "running"

-----------------------------------------------------------------------------
(* Slips that the properties must catch; no specification uses them.       *)

\* The state is loaded once, before the loop, and each poll goes on with that
\* copy and what it has stored itself.
NvpLoad_Once ==
  /\ npc = "load"
  /\ nprev' = IF nprev = Zero THEN state ELSE nprev
  /\ npc' = "store"
  /\ UNCHANGED <<board, state, tegraVars, mode, errCh, run>>

\* The goroutine reports the end and scans on.
End_GoesOn(result) ==
  /\ tpc = "scanning"
  /\ errCh' = Append(errCh, result)
  /\ UNCHANGED <<board, state, tegraVars, nvpVars, run>>

\* Valid says of the last line that it had a reading.
Merged_LastLine(prev, t) ==
  [prev EXCEPT !.valid = (t # NoReading), !.temp = IF t = NoReading THEN @ ELSE t]

-----------------------------------------------------------------------------
(* runTegrastats                                                           *)

\* A line is scanned; it need not hold a temperature that parses.
Scan ==
  /\ tpc = "scanning"
  /\ line' \in {board.temp, NoReading}
  /\ tpc' = "load"
  /\ UNCHANGED <<board, state, tprev, nvpVars, errCh, run>>

\* applyTegrastatsLine: prev := m.Current()
TegraLoad ==
  /\ tpc = "load"
  /\ tprev' = state
  /\ tpc' = "store"
  /\ UNCHANGED <<board, state, line, nvpVars, errCh, run>>

\* Any line makes the state valid; a field that is not in it stays.
Merged(prev, t) ==
  [prev EXCEPT !.valid = TRUE, !.temp = IF t = NoReading THEN @ ELSE t]

TegraStore ==
  /\ tpc = "store"
  /\ state' = Merged(tprev, line)
  /\ tpc' = "scanning"
  /\ UNCHANGED <<board, line, tprev, nvpVars, errCh, run>>

\* tegrastats does not start or exits: with an error, or nil on status 0.
End(result) ==
  /\ tpc = "scanning"
  /\ tpc' = "ended"
  /\ errCh' = Append(errCh, result)
  /\ UNCHANGED <<board, state, line, tprev, nvpVars, run>>

-----------------------------------------------------------------------------
(* runNvpmodel, which ends only with its context: that is never canceled   *)

Query ==
  /\ npc = "query"
  /\ \/ mode' = board.mode /\ npc' = "load"
     \/ npc' = "ticking" /\ UNCHANGED mode      \* failed, or not parsed
  /\ UNCHANGED <<board, state, tegraVars, nprev, errCh, run>>

\* pollNvpmodel: prev := m.Current()
NvpLoad ==
  /\ npc = "load"
  /\ nprev' = state
  /\ npc' = "store"
  /\ UNCHANGED <<board, state, tegraVars, mode, errCh, run>>

NvpStore ==
  /\ npc = "store"
  /\ state' = [nprev EXCEPT !.mode = mode]
  /\ npc' = "ticking"
  /\ UNCHANGED <<board, tegraVars, mode, nprev, errCh, run>>

Tick ==
  /\ npc = "ticking"
  /\ npc' = "query"
  /\ UNCHANGED <<board, state, tegraVars, mode, nprev, errCh, run>>

-----------------------------------------------------------------------------
\* Run takes the first result and returns it; the other goroutine goes on.
RunReturns ==
  /\ run = "running"
  /\ errCh # <<>>
  /\ run' = Head(errCh)
  /\ errCh' = Tail(errCh)
  /\ UNCHANGED <<board, state, tegraVars, nvpVars>>

BoardChanges ==
  /\ board' \in [temp : Temps, mode : Modes]
  /\ board' # board
  /\ UNCHANGED <<state, tegraVars, nvpVars, errCh, run>>

Tegra == Scan \/ TegraLoad \/ TegraStore
Nvp == Query \/ NvpLoad \/ NvpStore \/ Tick

Next ==
  \/ Tegra \/ (\E result \in {"nil", "error"} : End(result))
  \/ Nvp \/ RunReturns \/ BoardChanges

\* The goroutines run, the ticker ticks and tegrastats prints lines, until
\* it ends; nothing makes a line or a query good.
Fairness ==
  /\ WF_vars(Tegra) /\ WF_vars(Nvp) /\ WF_vars(RunReturns)

Spec == Init /\ [][Next]_vars /\ Fairness

-----------------------------------------------------------------------------
(* Properties                                                              *)

\* tegrastats has ended, and a store of the other goroutine that is still to
\* come has the temperature that is shown.
Frozen == tpc = "ended" /\ (npc = "store" => nprev.temp = state.temp)

\* The state is valid, and a store that is still to come leaves it so.
FirstLineKept == state.valid /\ (npc = "store" => nprev.valid)

\* What the store of runNvpmodel undoes is bounded by the one copy that it
\* holds at the moment. Once that copy is not older than the last line of
\* tegrastats, the temperature shown at the end is never taken back; once it
\* is not older than the first line, the state is never invalid again, however
\* loads and stores fall and although every poll stores a whole state
\* (monitor.go:155-176, 202-218).
NothingUndoneLater ==
  /\ \A t \in Temps \cup {NoReading} :
       [](Frozen /\ state.temp = t => [](state.temp = t))
  /\ [](FirstLineKept => []state.valid)

\* What the two undo of each other's is over once one of them stores no more:
\* when nvpmodel cannot be queried any longer, the temperature settles on the
\* board's and the state stays valid; when tegrastats has ended, Run returns
\* although the other goroutine goes on, the power mode settles, and the last
\* temperature stays for good (monitor.go:52-61, 147, 175, 217).
LoneWriterSettles ==
  /\ \A t \in Temps :
       (/\ <>[](board.temp = t) /\ []<><<TegraStore /\ line # NoReading>>_vars
        /\ <>[][~NvpStore]_vars)
         => <>[](state.valid /\ state.temp = t)
  /\ \A m \in Modes :
       (<>[](board.mode = m) /\ <>(tpc = "ended") /\ []<><<NvpStore>>_vars)
         => /\ <>[](state.mode = m) /\ <>[](run # "running")
            /\ <>[][UNCHANGED state.temp]_vars
=============================================================================

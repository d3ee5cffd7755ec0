-------------------------- MODULE SchedulerProcess --------------------------
(***************************************************************************)
(* The start of a scheduler, scheduler/cmd/scheduler/main.go: the command  *)
(* line becomes the engines and the policy of a server, or the process     *)
(* ends; and its end, since nothing of it is kept. Engines are numbered in *)
(* the order of their names, addresses are left out.                       *)
(***************************************************************************)
EXTENDS Integers, Sequences, SequencesExt

CONSTANT CommandLines   \* bound: the command lines that are tried

\* One part of -engines between commas: nothing, no pair, or a pair.
Blank == 0
NoPair == -1
EnginePairs == {Blank, NoPair} \cup (Nat \ {0})

ASSUME CommandLineAssumption ==
  \A c \in CommandLines : /\ DOMAIN c = {"engines", "policyName", "cheapTier"}
                          /\ c.engines \in Seq(EnginePairs)

VARIABLE engines   \* the engines of the running scheduler; none while it is down

\* parseEngines: what is not blank has to be a pair, and one pair is needed;
\* of two with one name the last counts.
ParseEngines(spec) ==
  LET pairs == {p \in ToSet(spec) : p # Blank}
  IN  IF NoPair \in pairs THEN {} ELSE pairs

\* buildPolicy: thermal-aware needs tiers, which may be any names.
BuildsPolicy(c) ==
  \/ c.policyName = "least-queue"
  \/ c.policyName = "thermal-aware" /\ c.cheapTier # <<>>

SchedulerInit == engines = {}

\* main. With a command line that is refused, log.Fatal ends the process.
SchedulerStarts(c) ==
  /\ engines = {}
  /\ BuildsPolicy(c)
  /\ engines' = ParseEngines(c.engines)

SchedulerStops == engines # {} /\ engines' = {}
=============================================================================

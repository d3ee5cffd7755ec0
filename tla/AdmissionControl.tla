-------------------------- MODULE AdmissionControl --------------------------
(***************************************************************************)
(* What a worker pool promises, without goroutines, channels or callers: a *)
(* queueing system with NumWorkers servers and room for Capacity requests  *)
(* more. A request is refused only when the waiting room is full or the    *)
(* system is shut; an admitted one starts after those admitted before it,  *)
(* is served once, and is always served.                                   *)
(***************************************************************************)
EXTENDS Integers, Sequences, FiniteSets

CONSTANTS Engines, Requests, Capacity, NumWorkers

VARIABLES
  line,     \* line[e]: the requests admitted and not yet started, in order
  busy,     \* busy[e]: the requests being served
  done,     \* the requests served
  refused,  \* the requests refused
  open,     \* open[e]: new requests are welcome
  empty     \* empty[e]: Close has told its caller that e has drained

avars == <<line, busy, done, refused, open, empty>>

Fresh(r) ==
  /\ r \notin done \cup refused
  /\ \A e \in Engines :
       r \notin busy[e] /\ \A i \in 1..Len(line[e]) : line[e][i] # r

Init ==
  /\ line = [e \in Engines |-> <<>>]
  /\ busy = [e \in Engines |-> {}]
  /\ done = {}
  /\ refused = {}
  /\ open = [e \in Engines |-> TRUE]
  /\ empty = [e \in Engines |-> FALSE]

\* A request joins the line.
Admit(e, r) ==
  /\ Fresh(r) /\ open[e]
  /\ Len(line[e]) < Capacity
  /\ line' = [line EXCEPT ![e] = Append(@, r)]
  /\ UNCHANGED <<busy, done, refused, open, empty>>

\* With nobody in line and a server free, it is started at once.
AdmitAndStart(e, r) ==
  /\ Fresh(r) /\ open[e]
  /\ line[e] = <<>>
  /\ Cardinality(busy[e]) < NumWorkers
  /\ busy' = [busy EXCEPT ![e] = @ \cup {r}]
  /\ UNCHANGED <<line, done, refused, open, empty>>

Refuse(e, r) ==
  /\ Fresh(r)
  /\ open[e] => Len(line[e]) >= Capacity
  /\ refused' = refused \cup {r}
  /\ UNCHANGED <<line, busy, done, open, empty>>

\* The head of the line gets a free server.
Start(e) ==
  /\ line[e] # <<>>
  /\ Cardinality(busy[e]) < NumWorkers
  /\ line' = [line EXCEPT ![e] = Tail(@)]
  /\ busy' = [busy EXCEPT ![e] = @ \cup {Head(line[e])}]
  /\ UNCHANGED <<done, refused, open, empty>>

Serve(e, r) ==
  /\ r \in busy[e]
  /\ busy' = [busy EXCEPT ![e] = @ \ {r}]
  /\ done' = done \cup {r}
  /\ UNCHANGED <<line, refused, open, empty>>

Shut(e) ==
  /\ open[e]
  /\ open' = [open EXCEPT ![e] = FALSE]
  /\ UNCHANGED <<line, busy, done, refused, empty>>

Drained(e) ==
  /\ ~open[e] /\ ~empty[e]
  /\ line[e] = <<>> /\ busy[e] = {}
  /\ empty' = [empty EXCEPT ![e] = TRUE]
  /\ UNCHANGED <<line, busy, done, refused, open>>

Next ==
  \E e \in Engines :
    \/ Start(e) \/ Shut(e) \/ Drained(e)
    \/ \E r \in Requests :
         Admit(e, r) \/ AdmitAndStart(e, r) \/ Refuse(e, r) \/ Serve(e, r)

Safety == Init /\ [][Next]_avars

Fairness ==
  \A e \in Engines :
    /\ WF_avars(Start(e))
    /\ WF_avars(Drained(e))
    /\ \A r \in Requests : WF_avars(Serve(e, r))

Spec == Safety /\ Fairness
=============================================================================

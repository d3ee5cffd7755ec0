---------------------------- MODULE TieFairness ----------------------------
(***************************************************************************)
(* Routing with a memory of every tie: which engine was picked the last    *)
(* time these same engines were tied. It serves one question, whether the  *)
(* ties between the same engines are resolved in turn.                     *)
(***************************************************************************)
EXTENDS Routing

VARIABLE lastOf   \* history: lastOf[S], the engine last picked from the tied set S

TInit == Init /\ lastOf = [S \in SUBSET Engines |-> NoEngine]

TNext ==
  /\ Next
  /\ lastOf' = IF \E h \in Handlers : Select(h)
               THEN [lastOf EXCEPT ![streak'.tied] =
                       streak'.picks[Len(streak'.picks)]]
               ELSE lastOf

TSpec == TInit /\ [][TNext]_<<vars, lastOf>>

\* "Ties are round robined fairly via tieBreaker" (policy.go): of two engines
\* or more that tie again, one is not picked twice in a row. Not what
\* happens: the one counter also advances on the picks between, so that an
\* engine can win all of its ties and another none.
TiesAreFair ==
  [][\A h \in Handlers :
       Select(h) /\ Cardinality(streak'.tied) > 1
         => lastOf[streak'.tied] # streak'.picks[Len(streak'.picks)]]_<<vars, lastOf>>
=============================================================================

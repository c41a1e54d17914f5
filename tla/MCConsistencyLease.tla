-------------------------- MODULE MCConsistencyLease --------------------------
(* ConsistencyLease on small instances: the workers of the agents pool and the *)
(* requests are interchangeable.                                               *)
EXTENDS ConsistencyRefinement, TLC

Interchangeable == Permutations(Worker) \cup Permutations(Requester)

\* An earlier review has ended and a new one is asked for, with all faults; or a review has been
\* dispatched and the next one can follow it, with no worker left to lose.
RecoveryInit ==
  /\ task = [w \in Worker |-> NoTask]
  /\ request = [a \in Requester |-> NoRequest]
  /\ \/ /\ row = [c \in Check |-> IF c = AnyCheck THEN NoRow
                                  ELSE [NoRow EXCEPT !.status = "failed"]]
        /\ queue = [m \in Message |-> 0] /\ crashes = 0
     \/ /\ row = [c \in Check |-> IF c = AnyCheck THEN NewRow ELSE NoRow]
        /\ queue = [m \in Message |-> IF m = FirstMessage(AnyCheck) THEN 1 ELSE 0]
        /\ crashes = MaxCrashes

RecoverySpec ==
  RecoveryInit /\ [][Next]_vars /\ Fairness /\ \A w \in Worker : SF_vars(Succeed(w))
===============================================================================

--------------------------- MODULE MCPlanDelivery ---------------------------
(* Instances of PlanDelivery for TLC.                                      *)
EXTENDS PlanDelivery, TLC

\* Every worker runs in a process of its own.
OwnProcess == [w \in Workers |-> w]

\* Exponential backoff: 1, 2, 4, ... time units.
Exponential == [a \in 1 .. MaximumAttempts |-> 2 ^ (a - 1)]

NoPlanDigested == [p \in Plans |-> NoDigest]
EveryPlanDigested == [p \in Plans |-> "daily"]
SecondPlanDigested == [p \in Plans |-> IF p = 2 THEN "daily" ELSE NoDigest]
DueAtOnce == [p \in Plans |-> 0]

WorkerSymmetry == Permutations(Workers)
=============================================================================

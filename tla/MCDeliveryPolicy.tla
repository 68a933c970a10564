-------------------------- MODULE MCDeliveryPolicy --------------------------
(* Instances of DeliveryPolicy for TLC.                                    *)
EXTENDS DeliveryPolicy, TLC

\* Delivery 1 goes to everybody, the others to u1 alone.
OneForAll(u) == [d \in Deliveries |-> IF d = 1 THEN Users ELSE {u}]
FirstForAll == OneForAll(CHOOSE u \in Users : TRUE)
ByEmail == [d \in Deliveries |-> "email"]
\* Deliveries 1 and 2 are about the same matter, others have no dedupe key.
SharedTopic == [d \in Deliveries |-> IF d <= 2 THEN "outage" ELSE NoTopic]

EvaluatorSymmetry == Permutations(Evaluators)
=============================================================================

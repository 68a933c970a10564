----------------------------- MODULE MCPlanWatch -----------------------------
(* An instance of PlanDeliveryWatch for TLC.                               *)
EXTENDS MCPlanDelivery, PlanDeliveryWatch

\* Plan 1 is immediate, the others belong to one digest.
OneAndTwoDigested == [p \in Plans |-> IF p > 1 THEN "daily" ELSE NoDigest]
=============================================================================

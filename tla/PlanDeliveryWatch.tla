------------------------- MODULE PlanDeliveryWatch -------------------------
(***************************************************************************)
(* PlanDelivery with one history variable: whether some claim has been     *)
(* read back only after the lease it wrote had expired.  Up to then the    *)
(* claim's two statements act as one; afterwards the read back may have    *)
(* adopted the lease of the worker that took the plan over.                *)
(***************************************************************************)
EXTENDS PlanDelivery

VARIABLE late

WatchInit == Init /\ late = FALSE
WatchNext == Next /\ late' = (late \/ ~PromptClaims')
WatchSpec == WatchInit /\ [][WatchNext]_<<vars, late>>

\* Two workers never hold the same fence, owner and token of one claim, as
\* long as every claim was read back in time.
PromptFencesAreExclusive == late \/ FencesAreExclusive

\* While a plan is leased, only the worker that claimed it last touches its
\* row: nobody else settles it, and nobody else claims it, as long as every
\* claim was read back in time.
PromptLeaseProtectsClaimant ==
  [][late' \/ \A p \in Plans : ProtectsClaimant(p)]_<<vars, late>>
=============================================================================

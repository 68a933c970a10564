---------------------------- MODULE PlanDelivery ----------------------------
(***************************************************************************)
(* Durable channel-plan delivery: the rows of _notification_channel_plans, *)
(* the delivery processors that list, claim, dispatch and settle them, and *)
(* the dispatch boundary they hand rendered messages to.                   *)
(*                                                                         *)
(* A worker is one call of Processor.Process or Processor.ProcessDue in    *)
(* some process: the polling loop of a service replica, or a wakeup hint   *)
(* handled beside it.  Every store call is one step, so the steps of two   *)
(* workers interleave between any two statements of the code; a worker may *)
(* stop at any of them (crash, cancelled context, database error) and then *)
(* forgets what it had claimed.                                            *)
(*                                                                         *)
(* A plan is named by its rank in (created_at, id), the order in which     *)
(* ListDuePlans returns due plans.  Time is a natural number; 0 stands for *)
(* the empty timestamp.                                                    *)
(***************************************************************************)
EXTENDS Integers, FiniteSets

CONSTANTS
  Plans,             \* the channel plans of one workspace, numbered by age
  Workers,           \* concurrent runs of the delivery processor
  OwnerOf,           \* the WorkerID a worker's process writes into a lease
  NoOwner,           \* the empty lease_owner
  NoClaimant,        \* no worker has claimed the plan yet
  DigestKey,         \* what digestCandidates compares; NoDigest if immediate
  NoDigest,
  FirstAttempt,      \* next_attempt_at given by the compiler, 0 for ""
  ActionBound,       \* the plans with CancelWhenActionTerminal
  LeaseDuration,     \* planLeaseDuration
  MaximumAttempts,   \* maximumAttempts
  RetryDelay,        \* worker.RetryPolicy.Delay of attempt 1, 2, ...
  BatchLimit,        \* limit of ProcessDue
  DigestMaximum,     \* DigestMaximumItems
  MaxPlans,          \* bound: how many of the plans are inserted
  MaxTime,           \* bound: the clock stops here
  MaxAbandons        \* bound: how often a worker may stop half way

ASSUME PlansAssumption == Plans \subseteq Nat \ {0}
ASSUME OwnerAssumption == /\ \A w \in Workers : OwnerOf[w] # NoOwner
                          /\ NoClaimant \notin Workers
ASSUME DigestAssumption == DOMAIN DigestKey = Plans
ASSUME TimingAssumption == /\ FirstAttempt \in [Plans -> Nat]
                           /\ LeaseDuration \in Nat \ {0}
                           /\ MaximumAttempts \in Nat \ {0}
                           /\ RetryDelay \in [1 .. MaximumAttempts -> Nat]
ASSUME BoundAssumption == /\ BatchLimit \in Nat /\ DigestMaximum \in Nat
                          /\ MaxPlans \in Nat
                          /\ MaxTime \in Nat /\ MaxAbandons \in Nat
ASSUME ActionBoundAssumption == ActionBound \subseteq Plans

VARIABLES
  (* the row of each plan *)
  status, attemptCount, nextAttemptAt, leaseOwner, leaseExpiresAt,
  fencingToken,
  (* the local state of each worker *)
  pc,        \* where the worker stands
  now,       \* the clock value ProcessDue read once, at its start
  todo,      \* listed candidates no group has taken yet
  batch,     \* plans of the current group still to be claimed
  claimed,   \* snapshots of the plans claimed for the current group
  (* outside the component *)
  accepted,        \* requests the dispatch boundary has accepted
  actionTerminal,  \* what IsActionTerminal would answer for the plan's event
  clock,
  (* bookkeeping of the model *)
  claimant,  \* the worker whose UPDATE claimed the plan last
  abandons

row == <<status, attemptCount, nextAttemptAt, leaseOwner, leaseExpiresAt,
         fencingToken, claimant>>
local == <<pc, now, todo, batch, claimed>>
outside == <<accepted, actionTerminal, clock>>
vars == <<row, local, outside, abandons>>

Statuses == {"absent", "queued", "processing", "planned", "failed",
             "cancelled"}
Settled == {"planned", "failed", "cancelled"}
Owners == {OwnerOf[w] : w \in Workers} \union {NoOwner}

Candidates == [id : Plans, next : Nat]
Snapshots == [id : Plans, owner : Owners, token : Nat, attempts : Nat,
              next : Nat]

-----------------------------------------------------------------------------
(* The dispatch boundary.                                                  *)

Ids(S) == {s.id : s \in S}
Digested(p) == DigestKey[p] # NoDigest

\* plans[0]: the oldest snapshot of a group.
IsFirst(s, S) == s \in S /\ \A t \in S : s.id <= t.id

\* Faulty: every claim dispatches under an identity of its own.
DedupKeyPerClaim(s) == [digest |-> NoDigest, next |-> s.token]

\* DispatchRequest.DeduplicationKey: the plan's own ID, or for a digest the
\* aggregate ID that digestPlan builds from the first claimed plan.
DedupKey(s) == IF Digested(s.id)
               THEN [digest |-> DigestKey[s.id], next |-> s.next]
               ELSE [digest |-> NoDigest, next |-> s.id]

\* The request for the snapshots S, of which first is plans[0].
Request(first, S) == [key |-> DedupKey(first), items |-> Ids(S)]

-----------------------------------------------------------------------------
(* Due plans and the groups ProcessDue forms from them.                    *)

\* Faulty: expired leases are never taken over.
DueOnlyWhenQueued(p, t) == status[p] = "queued" /\ nextAttemptAt[p] <= t

\* Faulty: the second alternative forgets the status.
DueByLeaseAlone(p, t) ==
  \/ status[p] = "queued" /\ nextAttemptAt[p] <= t
  \/ status[p] # "absent" /\ leaseExpiresAt[p] <= t

Due(p, t) ==
  \/ status[p] = "queued" /\ nextAttemptAt[p] <= t
  \/ status[p] = "processing" /\ leaseExpiresAt[p] <= t

Oldest(S, n) == {p \in S : Cardinality({q \in S : q < p}) < n}

\* The due plans, oldest first, cut at the limit.
ListDuePlans(t) ==
  {[id |-> p, next |-> nextAttemptAt[p]] :
     p \in Oldest({q \in Plans : Due(q, t)}, BatchLimit)}

\* The candidates delivered together with the oldest one, c.
DigestCandidates(c, T) ==
  IF Digested(c.id)
  THEN Oldest({d.id : d \in {e \in T : /\ DigestKey[e.id] = DigestKey[c.id]
                                       /\ e.next = c.next}}, DigestMaximum)
  ELSE {c.id}

-----------------------------------------------------------------------------
(* Control of one worker between its store calls.                          *)

\* Return to the caller: with the batch finished, or early with an error.
Return(w) ==
  /\ pc' = [pc EXCEPT ![w] = "idle"]
  /\ now' = [now EXCEPT ![w] = 0]
  /\ todo' = [todo EXCEPT ![w] = {}]
  /\ batch' = [batch EXCEPT ![w] = {}]
  /\ claimed' = [claimed EXCEPT ![w] = {}]

\* Form the group of the oldest candidate and start claiming it.
FormGroup(w, T) ==
  \E c \in T :
    /\ IsFirst(c, T)
    /\ LET group == DigestCandidates(c, T) IN
         /\ batch' = [batch EXCEPT ![w] = group]
         /\ todo' = [todo EXCEPT ![w] = {d \in T : d.id \notin group}]
    /\ claimed' = [claimed EXCEPT ![w] = {}]
    /\ pc' = [pc EXCEPT ![w] = "claim"]

\* The next turn of ProcessDue's loop over the candidates that remain.
NextGroup(w) ==
  \/ /\ todo[w] = {}
     /\ Return(w)
  \/ /\ FormGroup(w, todo[w])
     /\ UNCHANGED now

\* Go on with the plans B of the group still to claim, holding snapshots S.
ClaimNext(w, B, S) ==
  \/ /\ B # {} \/ S # {}
     /\ pc' = [pc EXCEPT ![w] = IF B # {} THEN "claim" ELSE "dispatch"]
     /\ batch' = [batch EXCEPT ![w] = B]
     /\ claimed' = [claimed EXCEPT ![w] = S]
     /\ UNCHANGED <<now, todo>>
  \/ /\ B = {} /\ S = {}
     /\ NextGroup(w)

-----------------------------------------------------------------------------
(* The fenced update every settling call makes.                            *)

\* Faulty: the update checks neither the owner nor the token.
FencedByStatus(s) == status[s.id] = "processing"

\* WHERE id, status = processing, lease_owner, fencing_token.
Fenced(s) == /\ status[s.id] = "processing"
             /\ leaseOwner[s.id] = s.owner
             /\ fencingToken[s.id] = s.token

\* transitionPlan on the plans P, all with the same outcome.
Transition(P, outcome, increment, next) ==
  /\ status' = [p \in Plans |-> IF p \in P THEN outcome ELSE status[p]]
  /\ attemptCount' = [p \in Plans |-> IF p \in P
                                      THEN attemptCount[p] + increment
                                      ELSE attemptCount[p]]
  /\ nextAttemptAt' = [p \in Plans |-> IF p \in P THEN next
                                       ELSE nextAttemptAt[p]]
  /\ leaseOwner' = [p \in Plans |-> IF p \in P THEN NoOwner
                                    ELSE leaseOwner[p]]
  /\ leaseExpiresAt' = [p \in Plans |-> IF p \in P THEN 0
                                        ELSE leaseExpiresAt[p]]
  /\ UNCHANGED <<fencingToken, claimant>>

-----------------------------------------------------------------------------
(* Actions.                                                                *)

Init ==
  /\ status = [p \in Plans |-> "absent"]
  /\ attemptCount = [p \in Plans |-> 0]
  /\ nextAttemptAt = [p \in Plans |-> 0]
  /\ leaseOwner = [p \in Plans |-> NoOwner]
  /\ leaseExpiresAt = [p \in Plans |-> 0]
  /\ fencingToken = [p \in Plans |-> 0]
  /\ claimant = [p \in Plans |-> NoClaimant]
  /\ pc = [w \in Workers |-> "idle"]
  /\ now = [w \in Workers |-> 0]
  /\ todo = [w \in Workers |-> {}]
  /\ batch = [w \in Workers |-> {}]
  /\ claimed = [w \in Workers |-> {}]
  /\ accepted = {}
  /\ actionTerminal = [p \in Plans |-> FALSE]
  /\ clock = 1
  /\ abandons = 0

\* Materialising the event inserts its plans.
InsertChannelPlan(p) ==
  /\ status[p] = "absent"
  /\ Cardinality({q \in Plans : status[q] # "absent"}) < MaxPlans
  /\ status' = [status EXCEPT ![p] = "queued"]
  /\ nextAttemptAt' = [nextAttemptAt EXCEPT ![p] = FirstAttempt[p]]
  /\ UNCHANGED <<attemptCount, leaseOwner, leaseExpiresAt, fencingToken,
                 claimant, local, outside, abandons>>

\* ProcessDue: read the clock once, list due plans, take the first group.
ProcessDue(w) ==
  /\ pc[w] = "idle"
  /\ FormGroup(w, ListDuePlans(clock))
  /\ now' = [now EXCEPT ![w] = clock]
  /\ UNCHANGED <<row, outside, abandons>>

\* Process: a wakeup hint for one plan; digest plans wait for the poll.
Process(w, p) ==
  /\ pc[w] = "idle"
  /\ status[p] # "absent"
  /\ ~Digested(p)
  /\ now' = [now EXCEPT ![w] = clock]
  /\ batch' = [batch EXCEPT ![w] = {p}]
  /\ pc' = [pc EXCEPT ![w] = "claim"]
  /\ UNCHANGED <<row, todo, claimed, outside, abandons>>

\* Faulty: a claim leaves the token as it was.
SameToken(p) == fencingToken[p]

NextToken(p) == fencingToken[p] + 1

\* ClaimPlan, first statement: the conditional UPDATE, judged by the time
\* the worker read when its batch began.
ClaimPlan(w, p) ==
  /\ pc[w] = "claim"
  /\ p \in batch[w] /\ \A q \in batch[w] : p <= q
  /\ Due(p, now[w])
  /\ status' = [status EXCEPT ![p] = "processing"]
  /\ leaseOwner' = [leaseOwner EXCEPT ![p] = OwnerOf[w]]
  /\ leaseExpiresAt' = [leaseExpiresAt EXCEPT ![p] = now[w] + LeaseDuration]
  /\ fencingToken' = [fencingToken EXCEPT ![p] = NextToken(p)]
  /\ claimant' = [claimant EXCEPT ![p] = w]
  /\ pc' = [pc EXCEPT ![w] = "reread"]
  /\ UNCHANGED <<attemptCount, nextAttemptAt, now, todo, batch, claimed,
                 outside, abandons>>

\* The UPDATE matched no row: the candidate is skipped.
SkipPlan(w, p) ==
  /\ pc[w] = "claim"
  /\ p \in batch[w] /\ \A q \in batch[w] : p <= q
  /\ ~Due(p, now[w])
  /\ ClaimNext(w, batch[w] \ {p}, claimed[w])
  /\ UNCHANGED <<row, outside, abandons>>

Snapshot(p) == [id |-> p, owner |-> leaseOwner[p], token |-> fencingToken[p],
                attempts |-> attemptCount[p], next |-> nextAttemptAt[p]]

\* ClaimPlan, second statement: read the row back, by its ID alone.
RereadPlan(w, p) ==
  /\ pc[w] = "reread"
  /\ p \in batch[w] /\ \A q \in batch[w] : p <= q
  /\ \/ /\ p \notin ActionBound
        /\ ClaimNext(w, batch[w] \ {p}, claimed[w] \union {Snapshot(p)})
     \/ /\ p \in ActionBound
        /\ claimed' = [claimed EXCEPT ![w] = @ \union {Snapshot(p)}]
        /\ pc' = [pc EXCEPT ![w] = "inspect"]
        /\ UNCHANGED <<now, todo, batch>>
  /\ UNCHANGED <<row, outside, abandons>>

\* IsActionTerminal: decide whether the plan is still wanted.
InspectAction(w, p) ==
  /\ pc[w] = "inspect"
  /\ p \in batch[w] /\ \A q \in batch[w] : p <= q
  /\ \/ /\ ~actionTerminal[p]
        /\ ClaimNext(w, batch[w] \ {p}, claimed[w])
     \/ /\ actionTerminal[p]
        /\ pc' = [pc EXCEPT ![w] = "cancel"]
        /\ UNCHANGED <<now, todo, batch, claimed>>
  /\ UNCHANGED <<row, outside, abandons>>

\* CancelPlan; a lost lease ends the whole run with an error.
CancelPlan(w, p) ==
  /\ pc[w] = "cancel"
  /\ p \in batch[w]
  /\ \E s \in claimed[w] :
       /\ s.id = p /\ \A q \in batch[w] : p <= q
       /\ \/ /\ Fenced(s)
             /\ Transition({p}, "cancelled", 0, 0)
             /\ ClaimNext(w, batch[w] \ {p}, claimed[w] \ {s})
          \/ /\ ~Fenced(s)
             /\ Return(w)
             /\ UNCHANGED row
  /\ UNCHANGED <<outside, abandons>>

\* Faulty: the error of a dispatch is dropped.
AfterDispatchIgnoringErrors(answer) == "complete"

\* Any error of policy, renderer or dispatcher is recorded as a failure.
AfterDispatch(answer) == IF answer = "receipt" THEN "complete" ELSE "fail"

\* Policy, rendering and Dispatcher.Dispatch: the boundary accepts the
\* request and answers with a receipt, or with an error because the answer is
\* lost, or the call fails before the boundary accepts anything.
Dispatch(w) ==
  /\ pc[w] = "dispatch"
  /\ \E answer \in {"receipt", "lost", "refused"}, first \in claimed[w] :
       /\ IsFirst(first, claimed[w])
       /\ accepted' = IF answer = "refused" THEN accepted
                      ELSE accepted \union {Request(first, claimed[w])}
       /\ pc' = [pc EXCEPT ![w] = AfterDispatch(answer)]
  /\ UNCHANGED <<row, now, todo, batch, claimed, actionTerminal, clock,
                 abandons>>

\* CompletePlan or CompletePlanBatch: one transaction, all plans or none.
CompletePlans(w) ==
  /\ pc[w] = "complete"
  /\ \/ /\ \A s \in claimed[w] : Fenced(s)
        /\ Transition(Ids(claimed[w]), "planned", 0, 0)
        /\ NextGroup(w)
     \/ /\ \E s \in claimed[w] : ~Fenced(s)
        /\ Return(w)
        /\ UNCHANGED row
  /\ UNCHANGED <<outside, abandons>>

\* Faulty: one attempt too many.
RetryAllowedOnceMore(attempt) == attempt <= MaximumAttempts

\* worker.RetryPolicy.Allows, which belongs to domainry-foundation.
RetryAllowed(attempt) == attempt < MaximumAttempts

\* recordFailure of the next claimed plan: retry later, or give up.
RecordFailure(w, s) ==
  /\ pc[w] = "fail"
  /\ IsFirst(s, claimed[w])
  /\ LET attempt == s.attempts + 1
         rest == claimed[w] \ {s}
     IN \/ /\ Fenced(s)
           /\ \/ /\ RetryAllowed(attempt)
                 /\ Transition({s.id}, "queued", 1,
                               now[w] + RetryDelay[attempt])
              \/ /\ ~RetryAllowed(attempt)
                 /\ Transition({s.id}, "failed", 1, 0)
           /\ \/ /\ rest # {}
                 /\ claimed' = [claimed EXCEPT ![w] = rest]
                 /\ UNCHANGED <<pc, now, todo, batch>>
              \/ /\ rest = {}
                 /\ NextGroup(w)
        \/ /\ ~Fenced(s)
           /\ Return(w)
           /\ UNCHANGED row
  /\ UNCHANGED <<outside, abandons>>

\* A crash, a cancelled context or a database error between two store calls.
Abandon(w) ==
  /\ pc[w] # "idle"
  /\ abandons < MaxAbandons
  /\ abandons' = abandons + 1
  /\ Return(w)
  /\ UNCHANGED <<row, outside>>

\* The inbox items of the plan's event settle, or become active again.
ActionChanges(p) ==
  /\ p \in ActionBound /\ status[p] # "absent"
  /\ actionTerminal' = [actionTerminal EXCEPT ![p] = ~@]
  /\ UNCHANGED <<row, local, accepted, clock, abandons>>

Tick ==
  /\ clock < MaxTime
  /\ clock' = clock + 1
  /\ UNCHANGED <<row, local, accepted, actionTerminal, abandons>>

Work(w) ==
  \/ \E p \in Plans : \/ ClaimPlan(w, p)
                      \/ SkipPlan(w, p)
                      \/ RereadPlan(w, p)
                      \/ InspectAction(w, p)
                      \/ CancelPlan(w, p)
  \/ Dispatch(w)
  \/ CompletePlans(w)
  \/ \E s \in claimed[w] : RecordFailure(w, s)

Next ==
  \/ \E p \in Plans : InsertChannelPlan(p) \/ ActionChanges(p)
  \/ \E w \in Workers : \/ ProcessDue(w)
                        \/ \E p \in Plans : Process(w, p)
                        \/ Work(w)
                        \/ Abandon(w)
  \/ Tick

Spec == Init /\ [][Next]_vars

\* The claim is two statements.  This is the assumption under which they act
\* as one: a worker reads the row back before the lease it wrote expires.
PromptClaims ==
  \A w \in Workers : pc[w] = "reread" => clock < now[w] + LeaseDuration

\* The assumption under which every plan settles: polls and dispatches are
\* fast against leases and retry delays, so time passes only while no worker
\* holds a claim and nothing is due.
Quiet == /\ \A w \in Workers : pc[w] \in {"idle", "claim"} /\ claimed[w] = {}
         /\ \A p \in Plans : status[p] # "absent" /\ ~Due(p, clock)

TimelyTick == Quiet /\ Tick

\* Every replica polls for ever and finishes the run it is in.  Fairness is
\* strong where hints would otherwise keep a worker busy for ever: the code
\* handles a hint beside the polling loop, and time does not wait for it.
LiveSpec == /\ Init
            /\ [][Next /\ (clock' # clock => Quiet)]_vars
            /\ \A p \in Plans : WF_vars(InsertChannelPlan(p))
            /\ \A w \in Workers : SF_vars(ProcessDue(w)) /\ WF_vars(Work(w))
            /\ SF_vars(TimelyTick)

-----------------------------------------------------------------------------
(* Properties.                                                             *)

\* Type invariant: the values the columns, the workers' locals and the
\* boundary can hold; no attempt beyond maximumAttempts is ever counted.
TypeOK ==
  /\ status \in [Plans -> Statuses]
  /\ attemptCount \in [Plans -> 0 .. MaximumAttempts]
  /\ nextAttemptAt \in [Plans -> Nat]
  /\ leaseOwner \in [Plans -> Owners]
  /\ leaseExpiresAt \in [Plans -> Nat]
  /\ fencingToken \in [Plans -> Nat]
  /\ claimant \in [Plans -> Workers \union {NoClaimant}]
  /\ pc \in [Workers -> {"idle", "claim", "reread", "inspect", "cancel",
                         "dispatch", "complete", "fail"}]
  /\ now \in [Workers -> Nat]
  /\ todo \in [Workers -> SUBSET Candidates]
  /\ batch \in [Workers -> SUBSET Plans]
  /\ claimed \in [Workers -> SUBSET Snapshots]
  /\ \A m \in accepted : m.items \subseteq Plans
  /\ actionTerminal \in [Plans -> BOOLEAN]
  /\ clock \in Nat
  /\ abandons \in Nat

\* A plan that was planned, failed or cancelled keeps its status and its
\* attempt count: no expired lease, hint or late worker brings it back.
SettledPlansStay ==
  [][\A p \in Plans : status[p] \in Settled =>
       /\ status'[p] = status[p]
       /\ attemptCount'[p] = attemptCount[p]]_vars

\* Giving up and running out of attempts are the same thing, although
\* recordFailure counts from the snapshot and the update from the row.
FailedIffExhausted ==
  \A p \in Plans : (status[p] = "failed")
                     <=> (attemptCount[p] = MaximumAttempts)

\* A plan is marked planned only if the boundary accepted a request that
\* carries it, whichever worker settled it and however often it was claimed.
PlannedWasAccepted ==
  \A p \in Plans : status[p] = "planned" => \E m \in accepted : p \in m.items

\* However often an immediate plan is dispatched again after a crash, a lost
\* answer or a lost lease, the boundary sees one identity, used for nothing
\* else.
ImmediatePlanHasOneIdentity ==
  \A m, n \in accepted : \A p \in m.items :
    ~Digested(p) => ((p \in n.items) <=> (m.key = n.key))

\* The same for every plan: a retried delivery keeps its identity.
RetryKeepsIdentity ==
  \A m, n \in accepted : m.items \cap n.items # {} => m.key = n.key

\* What a store of durable work promises (DurableWork), kept by the plans.
Phase(p) == CASE status[p] = "absent" -> "absent"
              [] status[p] = "queued" -> "open"
              [] status[p] = "processing" -> "leased"
              [] OTHER -> "closed"

Durable == INSTANCE DurableWork
           WITH Items <- Plans, phase <- [p \in Plans |-> Phase(p)],
                attempts <- attemptCount, fence <- fencingToken
ImplementsDurableWork == Durable!Spec

\* Under the fairness of LiveSpec every plan reaches a settled status, however
\* its runs are interrupted: polling recovers lost hints and expired leases.
EveryPlanSettles ==
  \A p \in Plans : status[p] = "queued" ~> status[p] \in Settled

\* Two workers never hold the same fence: owner and token of one claim.
FencesAreExclusive ==
  \A w, v \in Workers : \A s \in claimed[w], t \in claimed[v] :
    w # v /\ s.id = t.id => s.token # t.token

\* While a plan is leased, only the worker that claimed it last touches its
\* row: nobody else settles it, and nobody else claims it.
ProtectsClaimant(p) ==
  LET w == claimant[p] IN
  /\ status[p] = "processing" /\ clock < leaseExpiresAt[p]
  /\ status'[p] # status[p] \/ claimant'[p] # w
  => \E s \in claimed[w] : s.id = p /\ s \notin claimed'[w]

\* The same for every plan at every step.
LeaseProtectsClaimant == [][\A p \in Plans : ProtectsClaimant(p)]_vars
=============================================================================

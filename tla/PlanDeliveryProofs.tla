------------------------- MODULE PlanDeliveryProofs -------------------------
(***************************************************************************)
(* Theorems about PlanDelivery, for every set of plans and workers, every  *)
(* retry policy, lease duration and limit.                                 *)
(***************************************************************************)
EXTENDS PlanDeliveryWatch, TLAPS

-----------------------------------------------------------------------------
(* The inductive invariant of Spec.                                        *)

RowOK == /\ status \in [Plans -> Statuses]
         /\ attemptCount \in [Plans -> 0 .. MaximumAttempts]
         /\ nextAttemptAt \in [Plans -> Nat]
         /\ leaseOwner \in [Plans -> Owners]
         /\ leaseExpiresAt \in [Plans -> Nat]
         /\ fencingToken \in [Plans -> Nat]
         /\ claimant \in [Plans -> Workers \union {NoClaimant}]

LocalOK == /\ pc \in [Workers -> {"idle", "claim", "reread", "inspect",
                                  "cancel", "dispatch", "complete", "fail"}]
           /\ now \in [Workers -> Nat]
           /\ todo \in [Workers -> SUBSET Candidates]
           /\ batch \in [Workers -> SUBSET Plans]
           /\ claimed \in [Workers -> SUBSET Snapshots]

OutsideOK == /\ \A m \in accepted : m.items \subseteq Plans
             /\ actionTerminal \in [Plans -> BOOLEAN]
             /\ clock \in Nat
             /\ abandons \in Nat

\* The plans a worker has grouped, claimed already or not.
GroupOf(w) == batch[w] \union Ids(claimed[w])

\* An immediate plan is always processed alone.
GroupsUniform ==
  \A w \in Workers : \A p, q \in GroupOf(w) : ~Digested(p) => q = p

\* Between two runs a worker holds nothing.
IdleHoldsNothing ==
  \A w \in Workers : pc[w] = "idle" => GroupOf(w) = {}

ControlOK == LocalOK /\ GroupsUniform /\ IdleHoldsNothing

\* No snapshot is ahead of its row, and one that still holds the fence counts
\* the attempts the row counts.
Fresh(s) == /\ s.token <= fencingToken[s.id]
            /\ Fenced(s) => s.attempts = attemptCount[s.id]

SnapshotsFresh == \A w \in Workers : \A s \in claimed[w] : Fresh(s)

\* What a worker is about to mark planned has been accepted.
CompletesAccepted ==
  \A w \in Workers : pc[w] = "complete" =>
    \A s \in claimed[w] : \E m \in accepted : s.id \in m.items

\* The identity of every accepted request follows from any plan it carries.
RequestsIdentified ==
  \A m \in accepted :
    /\ m.items # {}
    /\ \A p \in m.items :
         IF Digested(p) THEN m.key.digest # NoDigest
         ELSE m.items = {p} /\ m.key = [digest |-> NoDigest, next |-> p]

IInv == /\ RowOK /\ ControlOK /\ OutsideOK
        /\ FailedIffExhausted
        /\ PlannedWasAccepted
        /\ SnapshotsFresh
        /\ CompletesAccepted
        /\ RequestsIdentified

LEMMA TypeParts == TypeOK <=> RowOK /\ LocalOK /\ OutsideOK
  BY DEF TypeOK, RowOK, LocalOK, OutsideOK

-----------------------------------------------------------------------------
(* The steps of one worker's control.                                      *)

\* What every control step of worker w leaves behind when it may keep the
\* snapshots S of its group.
Moved(w, S) ==
  /\ ControlOK'
  /\ claimed'[w] \subseteq S
  /\ pc'[w] \notin {"complete", "reread"}
  /\ now'[w] \in {0, now[w], clock}
  /\ \A v \in Workers \ {w} : /\ claimed'[v] = claimed[v]
                              /\ pc'[v] = pc[v]
                              /\ batch'[v] = batch[v]
                              /\ now'[v] = now[v]

\* Such a step that changes neither rows nor boundary.
Moves(w, S) == Moved(w, S) /\ UNCHANGED <<row, accepted>> /\ OutsideOK'

LEMMA ReturnMoves ==
  ASSUME ControlOK, OutsideOK, NEW w \in Workers, NEW S, Return(w)
  PROVE  Moved(w, S)
  BY DEF ControlOK, LocalOK, GroupsUniform, IdleHoldsNothing, Return, Moved,
         GroupOf, Ids

LEMMA FormGroupMoves ==
  ASSUME ControlOK, OutsideOK, NEW w \in Workers, NEW S,
         NEW T \in SUBSET Candidates, FormGroup(w, T),
         now' = now \/ now' = [now EXCEPT ![w] = clock]
  PROVE  Moved(w, S)
<1>1. PICK c \in T :
        /\ batch' = [batch EXCEPT ![w] = DigestCandidates(c, T)]
        /\ todo' = [todo EXCEPT ![w] = {d \in T : d.id \notin DigestCandidates(c, T)}]
        /\ claimed' = [claimed EXCEPT ![w] = {}]
        /\ pc' = [pc EXCEPT ![w] = "claim"]
  BY DEF FormGroup
<1>2. /\ DigestCandidates(c, T) \subseteq Plans
      /\ \A p, q \in DigestCandidates(c, T) : ~Digested(p) => q = p
  BY DEF DigestCandidates, Oldest, Candidates, Digested
<1>3. LocalOK'
  BY <1>1, <1>2 DEF ControlOK, LocalOK, OutsideOK
<1>4. GroupsUniform'
  BY <1>1, <1>2 DEF ControlOK, GroupsUniform, GroupOf, Ids, LocalOK
<1>5. IdleHoldsNothing'
  BY <1>1 DEF ControlOK, IdleHoldsNothing, GroupOf, Ids, LocalOK
<1>6. QED
  BY <1>1, <1>3, <1>4, <1>5 DEF Moved, ControlOK, LocalOK

LEMMA NextGroupMoves ==
  ASSUME ControlOK, OutsideOK, NEW w \in Workers, NEW S, NextGroup(w)
  PROVE  Moved(w, S)
<1>1. CASE Return(w)
  BY <1>1, ReturnMoves
<1>2. CASE FormGroup(w, todo[w]) /\ UNCHANGED now
  <2>1. todo[w] \in SUBSET Candidates
    BY <1>2 DEF ControlOK, LocalOK
  <2>2. QED
    BY <1>2, <2>1, FormGroupMoves
<1>3. QED
  BY <1>1, <1>2 DEF NextGroup

LEMMA ClaimNextMoves ==
  ASSUME ControlOK, OutsideOK, NEW w \in Workers,
         NEW B \in SUBSET batch[w], NEW S \in SUBSET Snapshots,
         Ids(S) \subseteq GroupOf(w), ClaimNext(w, B, S)
  PROVE  Moved(w, S)
<1>1. CASE NextGroup(w)
  BY <1>1, NextGroupMoves
<1>2. CASE /\ pc' = [pc EXCEPT ![w] = IF B # {} THEN "claim" ELSE "dispatch"]
           /\ batch' = [batch EXCEPT ![w] = B]
           /\ claimed' = [claimed EXCEPT ![w] = S]
           /\ UNCHANGED <<now, todo>>
  <2>1. LocalOK'
    BY <1>2 DEF ControlOK, LocalOK
  <2>2. \A v \in Workers : GroupOf(v)' \subseteq GroupOf(v)
    BY <1>2 DEF GroupOf, ControlOK, LocalOK, Ids
  <2>3. GroupsUniform'
    BY <2>2 DEF ControlOK, GroupsUniform
  <2>4. IdleHoldsNothing'
    BY <1>2, <2>2 DEF ControlOK, IdleHoldsNothing, LocalOK
  <2>5. QED
    BY <1>2, <2>1, <2>3, <2>4 DEF Moved, ControlOK, LocalOK
<1>3. QED
  BY <1>1, <1>2 DEF ClaimNext

-----------------------------------------------------------------------------
(* Initial states and the steps.                                           *)

LEMMA InitInv == Init => IInv
  BY PlansAssumption, OwnerAssumption, TimingAssumption
     DEF Init, IInv, RowOK, ControlOK, LocalOK, OutsideOK, FailedIffExhausted,
         PlannedWasAccepted, GroupsUniform, IdleHoldsNothing, SnapshotsFresh,
         CompletesAccepted, RequestsIdentified, Statuses, Owners, GroupOf, Ids

\* A step that leaves worker w with snapshots from S, and rows and boundary
\* alone.
LEMMA MoveInv ==
  ASSUME IInv, NEW w \in Workers, NEW S, Moves(w, S), \A s \in S : Fresh(s)
  PROVE  IInv'
<1> USE DEF Moves
<1>1. RowOK' /\ FailedIffExhausted' /\ PlannedWasAccepted'
  BY DEF IInv, RowOK, FailedIffExhausted, PlannedWasAccepted, row
<1>2. \A v \in Workers : \A s \in claimed'[v] : Fresh(s)
  BY DEF Moved, IInv, SnapshotsFresh
<1>3. SnapshotsFresh'
  BY <1>2 DEF SnapshotsFresh, Fresh, Fenced, row
<1>4. CompletesAccepted'
  BY DEF IInv, CompletesAccepted, Moved
<1>5. RequestsIdentified'
  BY DEF IInv, RequestsIdentified
<1>6. QED
  BY <1>1, <1>3, <1>4, <1>5 DEF IInv, Moved

\* The same for a worker that claims nothing more.
LEMMA KeepInv ==
  ASSUME IInv, NEW w \in Workers, Moves(w, claimed[w])
  PROVE  IInv'
  BY MoveInv DEF IInv, SnapshotsFresh

\* When a fenced update of the plans P may give them this outcome.
Justified(P, outcome, increment) ==
  /\ P \subseteq Plans
  /\ \A p \in P : status[p] = "processing"
  /\ increment = 1 => \E p \in P : P = {p}
  /\ \/ outcome = "cancelled" /\ increment = 0
     \/ /\ outcome = "planned" /\ increment = 0
        /\ \A p \in P : \E m \in accepted : p \in m.items
     \/ /\ outcome = "queued" /\ increment = 1
        /\ \A p \in P : attemptCount[p] + 1 # MaximumAttempts
     \/ /\ outcome = "failed" /\ increment = 1
        /\ \A p \in P : attemptCount[p] + 1 = MaximumAttempts

\* The fenced update of the plans behind the snapshots Q of worker w, which
\* gives those snapshots up.
Settles(w, Q, outcome, increment) ==
  /\ \A s \in Q : Fenced(s)
  /\ Justified(Ids(Q), outcome, increment)
  /\ \E next \in Nat : Transition(Ids(Q), outcome, increment, next)
  /\ claimed'[w] \cap Q = {}

\* What a settling call of worker w does: update its plans, or lose the lease.
SettleStep(w) ==
  /\ Moved(w, claimed[w])
  /\ UNCHANGED <<outside, abandons>>
  /\ \/ UNCHANGED row
     \/ \E Q \in SUBSET claimed[w], outcome \in Statuses, increment \in {0, 1} :
          Settles(w, Q, outcome, increment)

LEMMA SettleInv ==
  ASSUME IInv, NEW w \in Workers, SettleStep(w)
  PROVE  IInv'
<1>1. CASE UNCHANGED row
  BY <1>1, KeepInv DEF SettleStep, Moves, IInv, OutsideOK, outside
<1>2. ASSUME NEW P, NEW outcome, NEW increment, NEW next \in Nat,
             Justified(P, outcome, increment),
             Transition(P, outcome, increment, next)
      PROVE  IInv'
  <2> USE <1>2 DEF Justified, SettleStep
  <2>1. \A p \in P : attemptCount[p] < MaximumAttempts
    BY TimingAssumption DEF IInv, FailedIffExhausted, RowOK
  <2>2. RowOK'
    BY <2>1, TimingAssumption DEF IInv, RowOK, Transition, Statuses, Owners
  <2>3. FailedIffExhausted'
    BY <2>1, TimingAssumption DEF IInv, FailedIffExhausted, RowOK, Transition
  <2>4. PlannedWasAccepted'
    BY DEF IInv, PlannedWasAccepted, Transition, outside
  <2>5. \A v \in Workers : claimed'[v] \subseteq claimed[v]
    BY DEF Moved
  <2>6. SnapshotsFresh'
    BY <2>5 DEF IInv, SnapshotsFresh, Fresh, Fenced, Transition, ControlOK, LocalOK,
           Snapshots
  <2>7. CompletesAccepted'
    BY DEF IInv, CompletesAccepted, Moved, outside
  <2>8. RequestsIdentified' /\ OutsideOK'
    BY DEF IInv, RequestsIdentified, OutsideOK, outside
  <2>9. QED
    BY <2>2, <2>3, <2>4, <2>6, <2>7, <2>8 DEF IInv, Moved
<1>3. QED
  BY <1>1, <1>2 DEF SettleStep, Settles

LEMMA InsertChannelPlanInv ==
  ASSUME IInv, NEW p \in Plans, InsertChannelPlan(p)
  PROVE  IInv'
<1> USE DEF InsertChannelPlan
<1>1. RowOK'
  BY TimingAssumption DEF IInv, RowOK, Statuses
<1>2. ControlOK' /\ CompletesAccepted'
  BY DEF IInv, ControlOK, LocalOK, GroupsUniform, IdleHoldsNothing,
         CompletesAccepted, GroupOf, Ids, local, outside
<1>3. OutsideOK' /\ RequestsIdentified'
  BY DEF IInv, OutsideOK, RequestsIdentified, outside
<1>4. FailedIffExhausted' /\ PlannedWasAccepted'
  BY DEF IInv, FailedIffExhausted, PlannedWasAccepted, RowOK, outside
<1>5. SnapshotsFresh'
  BY DEF IInv, SnapshotsFresh, Fresh, Fenced, RowOK, ControlOK, LocalOK, Snapshots,
         local
<1>6. QED
  BY <1>1, <1>2, <1>3, <1>4, <1>5 DEF IInv

LEMMA ProcessDueMoves ==
  ASSUME IInv, NEW w \in Workers, ProcessDue(w)
  PROVE  Moves(w, claimed[w])
<1>1. ListDuePlans(clock) \in SUBSET Candidates
  <2>1. \A p \in Plans : [id |-> p, next |-> nextAttemptAt[p]] \in Candidates
    BY DEF Candidates, IInv, RowOK
  <2>2. Oldest({q \in Plans : Due(q, clock)}, BatchLimit) \subseteq Plans
    BY DEF Oldest
  <2>3. QED
    BY <2>1, <2>2 DEF ListDuePlans
<1>2. now' \in [Workers -> Nat]
  BY DEF ProcessDue, IInv, ControlOK, LocalOK, OutsideOK
<1>3. Moved(w, claimed[w])
  BY <1>1, <1>2, FormGroupMoves DEF ProcessDue, IInv
<1>4. UNCHANGED <<row, accepted>> /\ OutsideOK'
  BY DEF ProcessDue, outside, IInv, OutsideOK
<1>5. QED
  BY <1>3, <1>4 DEF Moves

LEMMA ProcessMoves ==
  ASSUME IInv, NEW w \in Workers, NEW p \in Plans, Process(w, p)
  PROVE  Moves(w, claimed[w])
<1> USE DEF Process
<1>1. LocalOK'
  BY DEF IInv, ControlOK, LocalOK, OutsideOK
<1>2. GroupsUniform' /\ IdleHoldsNothing'
  BY DEF IInv, ControlOK, LocalOK, GroupsUniform, IdleHoldsNothing, GroupOf,
         Ids
<1>3. Moved(w, claimed[w])
  BY <1>1, <1>2 DEF IInv, ControlOK, LocalOK, Moved
<1>4. UNCHANGED <<row, accepted>> /\ OutsideOK'
  BY DEF outside, IInv, OutsideOK
<1>5. QED
  BY <1>3, <1>4 DEF Moves

LEMMA ClaimPlanInv ==
  ASSUME IInv, NEW w \in Workers, NEW p \in Plans, ClaimPlan(w, p)
  PROVE  IInv'
<1> USE DEF ClaimPlan
<1>1. status[p] \in {"queued", "processing"}
  BY DEF Due
<1>2. RowOK'
  <2>1. now[w] + LeaseDuration \in Nat /\ NextToken(p) \in Nat
    BY TimingAssumption DEF IInv, RowOK, ControlOK, LocalOK, NextToken
  <2>2. "processing" \in Statuses /\ OwnerOf[w] \in Owners
    BY DEF Statuses, Owners
  <2>3. QED
    BY <2>1, <2>2 DEF IInv, RowOK
<1>3. ControlOK'
  BY DEF IInv, ControlOK, LocalOK, GroupsUniform, IdleHoldsNothing, GroupOf,
         Ids
<1>4. OutsideOK' /\ RequestsIdentified'
  BY DEF IInv, OutsideOK, RequestsIdentified, outside
<1>5. FailedIffExhausted' /\ PlannedWasAccepted'
  BY <1>1 DEF IInv, FailedIffExhausted, PlannedWasAccepted, RowOK, outside
<1>6. SnapshotsFresh'
  <2>1. \A v \in Workers : \A s \in claimed[v] :
          s.id = p => s.token < fencingToken'[p]
    BY DEF IInv, SnapshotsFresh, Fresh, RowOK, ControlOK, LocalOK, Snapshots,
           NextToken
  <2> SUFFICES ASSUME NEW v \in Workers, NEW s \in claimed[v]
               PROVE  Fresh(s)'
    BY DEF SnapshotsFresh
  <2>2. s \in Snapshots /\ Fresh(s)
    BY DEF IInv, SnapshotsFresh, ControlOK, LocalOK
  <2>3. CASE s.id = p
    BY <2>1, <2>2, <2>3 DEF Fresh, Fenced, Snapshots, IInv, RowOK, NextToken
  <2>4. CASE s.id # p
    BY <2>2, <2>4 DEF Fresh, Fenced, Snapshots, IInv, RowOK
  <2>5. QED
    BY <2>3, <2>4
<1>7. CompletesAccepted'
  BY DEF IInv, CompletesAccepted, ControlOK, LocalOK, outside
<1>8. QED
  BY <1>2, <1>3, <1>4, <1>5, <1>6, <1>7 DEF IInv

LEMMA SkipPlanMoves ==
  ASSUME IInv, NEW w \in Workers, NEW p \in Plans, SkipPlan(w, p)
  PROVE  Moves(w, claimed[w])
<1>1. Moved(w, claimed[w])
  BY ClaimNextMoves DEF SkipPlan, IInv, ControlOK, LocalOK, GroupOf
<1>2. UNCHANGED <<row, accepted>> /\ OutsideOK'
  BY DEF SkipPlan, outside, IInv, OutsideOK
<1>3. QED
  BY <1>1, <1>2 DEF Moves

LEMMA RereadPlanMoves ==
  ASSUME IInv, NEW w \in Workers, NEW p \in Plans, RereadPlan(w, p)
  PROVE  /\ Moves(w, claimed[w] \union {Snapshot(p)})
         /\ \A s \in claimed[w] \union {Snapshot(p)} : Fresh(s)
<1> DEFINE S == claimed[w] \union {Snapshot(p)}
<1>1. Snapshot(p) \in Snapshots
  BY DEF Snapshot, Snapshots, IInv, RowOK
<1>2. S \in SUBSET Snapshots /\ Ids(S) \subseteq GroupOf(w)
  BY <1>1 DEF RereadPlan, IInv, ControlOK, LocalOK, GroupOf, Ids, Snapshot
<1>3. Moved(w, S)
  <2>1. CASE ClaimNext(w, batch[w] \ {p}, S)
    BY <1>2, <2>1, ClaimNextMoves DEF IInv, ControlOK, LocalOK
  <2>2. CASE /\ claimed' = [claimed EXCEPT ![w] = S]
             /\ pc' = [pc EXCEPT ![w] = "inspect"]
             /\ UNCHANGED <<now, todo, batch>>
    <3>1. LocalOK'
      BY <1>2, <2>2 DEF IInv, ControlOK, LocalOK
    <3>2. \A v \in Workers : GroupOf(v)' \subseteq GroupOf(v)
      BY <1>2, <2>2 DEF GroupOf, IInv, ControlOK, LocalOK, Ids
    <3>3. GroupsUniform' /\ IdleHoldsNothing'
      BY <2>2, <3>2
         DEF IInv, ControlOK, LocalOK, GroupsUniform, IdleHoldsNothing
    <3>4. QED
      BY <2>2, <3>1, <3>3 DEF Moved, IInv, ControlOK, LocalOK
  <2>3. QED
    BY <2>1, <2>2 DEF RereadPlan
<1>4. Fresh(Snapshot(p))
  BY DEF Fresh, Snapshot, IInv, RowOK
<1>5. UNCHANGED <<row, accepted>> /\ OutsideOK'
  BY DEF RereadPlan, outside, IInv, OutsideOK
<1>6. QED
  BY <1>3, <1>4, <1>5 DEF Moves, IInv, SnapshotsFresh

LEMMA InspectActionMoves ==
  ASSUME IInv, NEW w \in Workers, NEW p \in Plans, InspectAction(w, p)
  PROVE  Moves(w, claimed[w])
<1>2. Moved(w, claimed[w])
  <2>1. CASE ClaimNext(w, batch[w] \ {p}, claimed[w])
    BY <2>1, ClaimNextMoves DEF IInv, ControlOK, LocalOK, GroupOf
  <2>2. CASE /\ pc' = [pc EXCEPT ![w] = "cancel"]
             /\ UNCHANGED <<now, todo, batch, claimed>>
    BY <2>2 DEF Moved, IInv, ControlOK, LocalOK, GroupsUniform,
                IdleHoldsNothing, GroupOf, Ids
  <2>3. QED
    BY <2>1, <2>2 DEF InspectAction
<1>3. UNCHANGED <<row, accepted>> /\ OutsideOK'
  BY DEF InspectAction, outside, IInv, OutsideOK
<1>4. QED
  BY <1>2, <1>3 DEF Moves

LEMMA CancelPlanSettles ==
  ASSUME IInv, NEW w \in Workers, NEW p \in Plans, CancelPlan(w, p)
  PROVE  SettleStep(w)
<1>1. PICK s \in claimed[w] :
        /\ s.id = p
        /\ \/ /\ Fenced(s)
              /\ Transition({p}, "cancelled", 0, 0)
              /\ ClaimNext(w, batch[w] \ {p}, claimed[w] \ {s})
           \/ Return(w) /\ UNCHANGED row
  BY DEF CancelPlan
<1>2. UNCHANGED <<outside, abandons>>
  BY DEF CancelPlan
<1>3. CASE Return(w) /\ UNCHANGED row
  BY <1>2, <1>3, ReturnMoves DEF IInv, SettleStep
<1>4. CASE /\ Fenced(s)
           /\ Transition({p}, "cancelled", 0, 0)
           /\ ClaimNext(w, batch[w] \ {p}, claimed[w] \ {s})
  <2>1. /\ claimed[w] \ {s} \in SUBSET Snapshots
        /\ batch[w] \ {p} \in SUBSET batch[w]
        /\ Ids(claimed[w] \ {s}) \subseteq GroupOf(w)
    BY DEF Ids, GroupOf, IInv, ControlOK, LocalOK
  <2>2. Moved(w, claimed[w] \ {s})
    BY <1>4, <2>1, ClaimNextMoves DEF IInv
  <2>3. Justified({p}, "cancelled", 0)
    BY <1>1, <1>4 DEF Fenced, Justified
  <2>4. Ids({s}) = {p}
    BY <1>1 DEF Ids
  <2>5. Settles(w, {s}, "cancelled", 0)
    BY <1>4, <2>2, <2>3, <2>4 DEF Settles, Moved
  <2>6. QED
    BY <1>2, <2>2, <2>5 DEF SettleStep, Moved, Statuses
<1>5. QED
  BY <1>1, <1>3, <1>4

LEMMA DispatchInv ==
  ASSUME IInv, NEW w \in Workers, Dispatch(w)
  PROVE  IInv'
<1>1. PICK answer \in {"receipt", "lost", "refused"}, first \in claimed[w] :
        /\ accepted' = IF answer = "refused" THEN accepted
                       ELSE accepted \union {Request(first, claimed[w])}
        /\ pc' = [pc EXCEPT ![w] = AfterDispatch(answer)]
  BY DEF Dispatch
<1>2. UNCHANGED <<row, now, todo, batch, claimed, actionTerminal, clock,
                  abandons>>
  BY DEF Dispatch
<1> DEFINE m == Request(first, claimed[w])
<1>3. RowOK' /\ FailedIffExhausted'
  BY <1>2 DEF IInv, RowOK, FailedIffExhausted, row
<1>4. ControlOK'
  BY <1>1, <1>2 DEF IInv, ControlOK, LocalOK, GroupsUniform,
                    IdleHoldsNothing, GroupOf, Ids, AfterDispatch
<1>5. m.items = Ids(claimed[w]) /\ m.key = DedupKey(first)
  BY DEF Request
<1>6. OutsideOK'
  BY <1>1, <1>2, <1>5 DEF IInv, OutsideOK, ControlOK, LocalOK, Ids, Snapshots
<1>7. PlannedWasAccepted'
  BY <1>1, <1>2 DEF IInv, PlannedWasAccepted, row
<1>8. SnapshotsFresh'
  BY <1>2 DEF IInv, SnapshotsFresh, Fresh, Fenced, row
<1>9. CompletesAccepted'
  <2> SUFFICES ASSUME NEW v \in Workers, pc'[v] = "complete",
                      NEW s \in claimed[v]
               PROVE  \E n \in accepted' : s.id \in n.items
    BY <1>2 DEF CompletesAccepted
  <2>1. CASE v = w
    BY <1>1, <1>5, <2>1 DEF AfterDispatch, IInv, ControlOK, LocalOK, Ids
  <2>2. CASE v # w
    BY <1>1, <2>2 DEF IInv, CompletesAccepted, ControlOK, LocalOK
  <2>3. QED
    BY <2>1, <2>2
<1>10. RequestsIdentified'
  <2>1. m.items # {}
    BY <1>5 DEF Ids
  <2>2. ASSUME NEW p \in m.items, Digested(p)
        PROVE  m.key.digest # NoDigest
    <3>1. Digested(first.id)
      BY <1>5, <2>2 DEF IInv, ControlOK, GroupsUniform, GroupOf, Ids
    <3>2. QED
      BY <1>5, <3>1 DEF DedupKey, Digested
  <2>3. ASSUME NEW p \in m.items, ~Digested(p)
        PROVE  m.items = {p} /\ m.key = [digest |-> NoDigest, next |-> p]
    <3>1. \A q \in m.items : q = p
      BY <1>5, <2>3 DEF IInv, ControlOK, GroupsUniform, GroupOf
    <3>2. first.id = p
      BY <1>5, <3>1 DEF Ids
    <3>3. QED
      BY <1>5, <2>3, <3>1, <3>2 DEF DedupKey
  <2>4. QED
    BY <1>1, <2>1, <2>2, <2>3 DEF IInv, RequestsIdentified
<1>11. QED
  BY <1>3, <1>4, <1>6, <1>7, <1>8, <1>9, <1>10 DEF IInv

LEMMA CompletePlansSettles ==
  ASSUME IInv, NEW w \in Workers, CompletePlans(w)
  PROVE  SettleStep(w)
<1>1. UNCHANGED <<outside, abandons>>
  BY DEF CompletePlans
<1>2. CASE Return(w) /\ UNCHANGED row
  BY <1>1, <1>2, ReturnMoves DEF IInv, SettleStep
<1>3. CASE /\ \A s \in claimed[w] : Fenced(s)
           /\ Transition(Ids(claimed[w]), "planned", 0, 0)
           /\ NextGroup(w)
  <2> DEFINE P == Ids(claimed[w])
  <2>1. Moved(w, {})
    BY <1>3, NextGroupMoves DEF IInv
  <2>2. P \subseteq Plans /\ \A p \in P : status[p] = "processing"
    BY <1>3 DEF Ids, Fenced, IInv, ControlOK, LocalOK, Snapshots
  <2>3. \A p \in P : \E m \in accepted : p \in m.items
    BY DEF CompletePlans, IInv, CompletesAccepted, Ids
  <2>4. Justified(P, "planned", 0)
    BY <2>2, <2>3 DEF Justified
  <2>5. Settles(w, claimed[w], "planned", 0)
    BY <1>3, <2>1, <2>4 DEF Settles, Moved
  <2>6. QED
    BY <1>1, <2>1, <2>5 DEF SettleStep, Moved, Statuses
<1>4. QED
  BY <1>2, <1>3 DEF CompletePlans

LEMMA RecordFailureSettles ==
  ASSUME IInv, NEW w \in Workers, NEW s \in claimed[w], RecordFailure(w, s)
  PROVE  SettleStep(w)
<1> DEFINE attempt == s.attempts + 1
           rest == claimed[w] \ {s}
<1>1. UNCHANGED <<outside, abandons>>
  BY DEF RecordFailure
<1>2. s \in Snapshots /\ s.id \in Plans
  BY DEF IInv, ControlOK, LocalOK, Snapshots
<1>3. CASE Return(w) /\ UNCHANGED row
  BY <1>1, <1>3, ReturnMoves DEF IInv, SettleStep
<1>4. CASE /\ Fenced(s)
           /\ \/ /\ RetryAllowed(attempt)
                 /\ Transition({s.id}, "queued", 1,
                               now[w] + RetryDelay[attempt])
              \/ /\ ~RetryAllowed(attempt)
                 /\ Transition({s.id}, "failed", 1, 0)
           /\ \/ /\ claimed' = [claimed EXCEPT ![w] = rest]
                 /\ UNCHANGED <<pc, now, todo, batch>>
              \/ NextGroup(w)
  <2>1. Moved(w, rest)
    <3>1. CASE /\ claimed' = [claimed EXCEPT ![w] = rest]
               /\ UNCHANGED <<pc, now, todo, batch>>
      <4>1. LocalOK'
        BY <3>1 DEF IInv, ControlOK, LocalOK
      <4>2. \A v \in Workers : GroupOf(v)' \subseteq GroupOf(v)
        BY <3>1 DEF GroupOf, IInv, ControlOK, LocalOK, Ids
      <4>3. GroupsUniform' /\ IdleHoldsNothing'
        BY <3>1, <4>2
           DEF IInv, ControlOK, GroupsUniform, IdleHoldsNothing
      <4>4. pc'[w] = "fail"
        BY <3>1 DEF RecordFailure
      <4>5. QED
        BY <3>1, <4>1, <4>3, <4>4 DEF Moved, IInv, ControlOK, LocalOK
    <3>2. CASE NextGroup(w)
      BY <3>2, NextGroupMoves DEF IInv
    <3>3. QED
      BY <1>4, <3>1, <3>2
  <2>2. /\ status[s.id] = "processing"
        /\ s.attempts = attemptCount[s.id]
        /\ attemptCount[s.id] \in 0 .. MaximumAttempts
    BY <1>2, <1>4 DEF IInv, SnapshotsFresh, Fresh, Fenced, RowOK
  <2>3. attemptCount[s.id] # MaximumAttempts
    BY <1>2, <2>2 DEF IInv, FailedIffExhausted
  <2>4. /\ Ids({s}) = {s.id}
        /\ claimed'[w] \cap {s} = {}
        /\ Moved(w, claimed[w])
    BY <2>1 DEF Ids, Moved
  <2>5. CASE /\ RetryAllowed(attempt)
             /\ Transition({s.id}, "queued", 1, now[w] + RetryDelay[attempt])
    <3>1. now[w] + RetryDelay[attempt] \in Nat
      BY <2>2, <2>5, TimingAssumption
         DEF RetryAllowed, IInv, ControlOK, LocalOK
    <3>2. Justified({s.id}, "queued", 1)
      BY <1>2, <2>2, <2>5 DEF Justified, RetryAllowed
    <3> HIDE DEF attempt
    <3>3. Settles(w, {s}, "queued", 1)
      BY <1>4, <2>4, <2>5, <3>1, <3>2 DEF Settles
    <3>4. QED
      BY <1>1, <2>4, <3>3 DEF SettleStep, Statuses
  <2>6. CASE ~RetryAllowed(attempt) /\ Transition({s.id}, "failed", 1, 0)
    <3>1. attemptCount[s.id] + 1 = MaximumAttempts
      BY <2>2, <2>3, <2>6, TimingAssumption DEF RetryAllowed
    <3>2. Justified({s.id}, "failed", 1)
      BY <1>2, <2>2, <3>1 DEF Justified
    <3>3. Settles(w, {s}, "failed", 1)
      BY <1>4, <2>4, <2>6, <3>2 DEF Settles
    <3>4. QED
      BY <1>1, <2>4, <3>3 DEF SettleStep, Statuses
  <2>7. QED
    BY <1>4, <2>5, <2>6
<1>5. QED
  BY <1>3, <1>4 DEF RecordFailure

LEMMA AbandonMoves ==
  ASSUME IInv, NEW w \in Workers, Abandon(w)
  PROVE  Moves(w, claimed[w])
<1>1. Moved(w, claimed[w])
  BY ReturnMoves DEF Abandon, IInv
<1>2. UNCHANGED <<row, accepted>> /\ OutsideOK'
  BY DEF Abandon, outside, IInv, OutsideOK
<1>3. QED
  BY <1>1, <1>2 DEF Moves

\* A step that leaves rows, workers and boundary alone.
LEMMA OutsideInv ==
  ASSUME IInv, UNCHANGED <<row, local, accepted>>, OutsideOK'
  PROVE  IInv'
  BY DEF IInv, RowOK, ControlOK, LocalOK, GroupsUniform, IdleHoldsNothing,
         GroupOf, Ids, FailedIffExhausted, PlannedWasAccepted, SnapshotsFresh,
         Fresh, Fenced, CompletesAccepted, RequestsIdentified, row, local

LEMMA NextInv == IInv /\ [Next]_vars => IInv'
<1> SUFFICES ASSUME IInv, [Next]_vars PROVE IInv'
  OBVIOUS
<1>1. CASE \E p \in Plans : InsertChannelPlan(p)
  BY <1>1, InsertChannelPlanInv
<1>2. CASE \E p \in Plans : ActionChanges(p)
  BY <1>2, OutsideInv DEF ActionChanges, IInv, OutsideOK
<1>3. ASSUME NEW w \in Workers,
             \/ ProcessDue(w)
             \/ \E p \in Plans : Process(w, p)
             \/ Work(w)
             \/ Abandon(w)
      PROVE  IInv'
  <2>1. CASE \E p \in Plans : \/ ClaimPlan(w, p) \/ SkipPlan(w, p)
                              \/ RereadPlan(w, p) \/ InspectAction(w, p)
                              \/ CancelPlan(w, p)
    <3>1. ASSUME NEW p \in Plans, RereadPlan(w, p) PROVE IInv'
      <4> DEFINE S == claimed[w] \union {Snapshot(p)}
      <4>1. Moves(w, S) /\ \A s \in S : Fresh(s)
        BY <3>1, RereadPlanMoves
      <4> HIDE DEF S
      <4>2. QED
        BY <4>1, MoveInv
    <3>2. QED
      BY <2>1, <3>1, ClaimPlanInv, SkipPlanMoves, InspectActionMoves,
         CancelPlanSettles, SettleInv, KeepInv
  <2>2. CASE \/ Dispatch(w) \/ CompletePlans(w)
             \/ \E s \in claimed[w] : RecordFailure(w, s)
    BY <2>2, DispatchInv, CompletePlansSettles, RecordFailureSettles,
       SettleInv
  <2>3. CASE ProcessDue(w) \/ (\E p \in Plans : Process(w, p)) \/ Abandon(w)
    BY <2>3, ProcessDueMoves, ProcessMoves, AbandonMoves, KeepInv
  <2>4. QED
    BY <1>3, <2>1, <2>2, <2>3 DEF Work
<1>4. CASE Tick
  BY <1>4, OutsideInv DEF Tick, IInv, OutsideOK
<1>5. CASE UNCHANGED vars
  BY <1>5, OutsideInv DEF vars, outside, IInv, OutsideOK
<1>6. QED
  BY <1>1, <1>2, <1>3, <1>4, <1>5 DEF Next

-----------------------------------------------------------------------------
(* What Spec guarantees.                                                   *)

\* The invariant holds of every behaviour of the delivery workers, whatever
\* the timing.
THEOREM Inductive == Spec => []IInv
  BY InitInv, NextInv, PTL DEF Spec

\* Columns and locals keep their types; no attempt beyond the last is counted.
THEOREM TypeCorrect == Spec => []TypeOK
<1>1. IInv => TypeOK
  BY TypeParts DEF IInv, ControlOK
<1>2. QED
  BY <1>1, Inductive, PTL

\* A plan has failed exactly when its attempts are used up.
THEOREM FailedExactlyWhenExhausted == Spec => []FailedIffExhausted
<1>1. IInv => FailedIffExhausted
  BY DEF IInv
<1>2. QED
  BY <1>1, Inductive, PTL

\* No plan is recorded as handed over that the boundary never accepted.
THEOREM PlannedOnlyWhenAccepted == Spec => []PlannedWasAccepted
<1>1. IInv => PlannedWasAccepted
  BY DEF IInv
<1>2. QED
  BY <1>1, Inductive, PTL

\* Every dispatch of an immediate plan bears the one identity of that plan.
THEOREM ImmediateIdentity == Spec => []ImmediatePlanHasOneIdentity
<1>1. IInv => ImmediatePlanHasOneIdentity
  <2> SUFFICES ASSUME IInv, NEW m \in accepted, NEW n \in accepted,
                      NEW p \in m.items, ~Digested(p)
               PROVE  (p \in n.items) <=> (m.key = n.key)
    BY DEF ImmediatePlanHasOneIdentity
  <2>1. m.key = [digest |-> NoDigest, next |-> p]
    BY DEF IInv, RequestsIdentified
  <2>2. ASSUME p \in n.items PROVE m.key = n.key
    BY <2>1, <2>2 DEF IInv, RequestsIdentified
  <2>3. ASSUME m.key = n.key PROVE p \in n.items
    <3>1. PICK q \in n.items : TRUE
      BY DEF IInv, RequestsIdentified
    <3>2. ~Digested(q)
      <4>1. n.key.digest = NoDigest
        BY <2>1, <2>3
      <4>2. QED
        BY <4>1 DEF IInv, RequestsIdentified
    <3>3. n.key = [digest |-> NoDigest, next |-> q]
      BY <3>2 DEF IInv, RequestsIdentified
    <3>4. QED
      BY <2>1, <2>3, <3>1, <3>3
  <2>4. QED
    BY <2>2, <2>3
<1>2. QED
  BY <1>1, Inductive, PTL

-----------------------------------------------------------------------------
(* What a step may do to the rows.                                         *)

LEMMA RowSteps ==
  ASSUME IInv, [Next]_vars
  PROVE  \/ UNCHANGED row
         \/ \E p \in Plans : InsertChannelPlan(p)
         \/ \E w \in Workers, p \in Plans : ClaimPlan(w, p)
         \/ \E w \in Workers : SettleStep(w)
<1>1. CASE \E p \in Plans : InsertChannelPlan(p) \/ ActionChanges(p)
  BY <1>1 DEF ActionChanges
<1>2. ASSUME NEW w \in Workers, Work(w)
      PROVE  \/ UNCHANGED row
             \/ \E p \in Plans : ClaimPlan(w, p)
             \/ SettleStep(w)
  <2>1. CASE \E p \in Plans : \/ ClaimPlan(w, p) \/ SkipPlan(w, p)
                              \/ RereadPlan(w, p) \/ InspectAction(w, p)
    BY <2>1 DEF SkipPlan, RereadPlan, InspectAction
  <2>2. CASE \E p \in Plans : CancelPlan(w, p)
    BY <2>2, CancelPlanSettles
  <2>3. CASE Dispatch(w)
    BY <2>3 DEF Dispatch
  <2>4. CASE CompletePlans(w) \/ \E s \in claimed[w] : RecordFailure(w, s)
    BY <2>4, CompletePlansSettles, RecordFailureSettles
  <2>5. QED
    BY <1>2, <2>1, <2>2, <2>3, <2>4 DEF Work
<1>3. CASE \E w \in Workers : \/ ProcessDue(w)
                              \/ \E p \in Plans : Process(w, p)
                              \/ Abandon(w)
  BY <1>3 DEF ProcessDue, Process, Abandon
<1>4. CASE Tick \/ UNCHANGED vars
  BY <1>4 DEF Tick, vars
<1>5. QED
  BY <1>1, <1>2, <1>3, <1>4 DEF Next

\* A settled plan is never touched again.
THEOREM SettledForGood == Spec => SettledPlansStay
<1>1. ASSUME IInv, [Next]_vars, NEW p \in Plans, status[p] \in Settled
      PROVE  status'[p] = status[p] /\ attemptCount'[p] = attemptCount[p]
  <2> USE <1>1
  <2>1. CASE UNCHANGED row
    BY <2>1 DEF row
  <2>2. CASE \E q \in Plans : InsertChannelPlan(q)
    BY <2>2 DEF InsertChannelPlan, Settled, IInv, RowOK
  <2>3. CASE \E w \in Workers, q \in Plans : ClaimPlan(w, q)
    BY <2>3 DEF ClaimPlan, Due, Settled, IInv, RowOK
  <2>4. ASSUME NEW P, NEW outcome, NEW increment, NEW next,
               Justified(P, outcome, increment),
               Transition(P, outcome, increment, next)
        PROVE  status'[p] = status[p] /\ attemptCount'[p] = attemptCount[p]
    BY <2>4 DEF Justified, Transition, Settled
  <2>5. CASE \E w \in Workers : SettleStep(w)
    BY <2>1, <2>4, <2>5 DEF SettleStep, Settles
  <2>6. QED
    BY <2>1, <2>2, <2>3, <2>5, RowSteps
<1>2. IInv /\ [Next]_vars =>
        [\A p \in Plans : status[p] \in Settled =>
           /\ status'[p] = status[p]
           /\ attemptCount'[p] = attemptCount[p]]_vars
  BY <1>1
<1>3. QED
  BY <1>2, Inductive, PTL DEF Spec, SettledPlansStay

-----------------------------------------------------------------------------
(* The plans implement DurableWork.                                        *)

PhaseOf == [p \in Plans |-> Phase(p)]

LEMMA InsertSubmits ==
  ASSUME IInv, NEW p \in Plans, InsertChannelPlan(p)
  PROVE  Durable!Submit(p)
<1>1. Phase(p) = "absent"
  BY DEF InsertChannelPlan, Phase
<1>2. PhaseOf' = [PhaseOf EXCEPT ![p] = "open"]
  <2>1. \A q \in Plans : PhaseOf'[q] = IF q = p THEN "open" ELSE PhaseOf[q]
    BY DEF InsertChannelPlan, PhaseOf, Phase, IInv, RowOK
  <2>2. QED
    BY <2>1 DEF PhaseOf
<1>3. QED
  BY <1>1, <1>2 DEF Durable!Submit, PhaseOf, InsertChannelPlan

LEMMA ClaimLeases ==
  ASSUME IInv, NEW w \in Workers, NEW p \in Plans, ClaimPlan(w, p)
  PROVE  Durable!Lease(p)
<1>1. Phase(p) \in {"open", "leased"}
  BY DEF ClaimPlan, Due, Phase
<1>2. PhaseOf' = [PhaseOf EXCEPT ![p] = "leased"]
  <2>1. \A q \in Plans : PhaseOf'[q] = IF q = p THEN "leased" ELSE PhaseOf[q]
    BY DEF ClaimPlan, PhaseOf, Phase, IInv, RowOK
  <2>2. QED
    BY <2>1 DEF PhaseOf
<1>3. QED
  BY <1>1, <1>2 DEF Durable!Lease, PhaseOf, ClaimPlan, NextToken

LEMMA SettleFinishesOrFails ==
  ASSUME IInv, NEW P, NEW outcome, NEW increment, NEW next,
         Justified(P, outcome, increment),
         Transition(P, outcome, increment, next)
  PROVE  (\E p \in Plans : Durable!Fail(p)) \/ Durable!Finish(P)
<1>1. /\ P \subseteq Plans
      /\ \A p \in P : PhaseOf[p] = "leased"
      /\ \A p \in Plans \ P : PhaseOf'[p] = PhaseOf[p]
  BY DEF Justified, Transition, PhaseOf, Phase
<1>2. CASE increment = 0
  <2>1. \A p \in P : PhaseOf'[p] = "closed"
    BY <1>2 DEF Justified, Transition, PhaseOf, Phase
  <2>2. PhaseOf' = [p \in Plans |-> IF p \in P THEN "closed" ELSE PhaseOf[p]]
    BY <1>1, <2>1 DEF PhaseOf
  <2>3. attemptCount' = attemptCount
    <3>1. \A p \in Plans : attemptCount'[p] = attemptCount[p]
      BY <1>2 DEF Transition, IInv, RowOK
    <3>2. QED
      BY <3>1 DEF Transition, IInv, RowOK
  <2>4. QED
    BY <1>1, <2>2, <2>3 DEF Durable!Finish, PhaseOf, Transition
<1>3. CASE increment = 1
  <2>1. PICK p \in Plans : P = {p}
    BY <1>1, <1>3 DEF Justified
  <2>2. attemptCount[p] \in 0 .. MaximumAttempts - 1
    BY <2>1, TimingAssumption
       DEF Justified, IInv, RowOK, FailedIffExhausted
  <2>3. attemptCount' = [attemptCount EXCEPT ![p] = @ + 1]
    BY <1>3, <2>1 DEF Transition, IInv, RowOK
  <2>4. PhaseOf'[p] = IF attemptCount[p] + 1 < MaximumAttempts
                      THEN "open" ELSE "closed"
    BY <1>3, <2>1, <2>2, TimingAssumption
       DEF Justified, Transition, PhaseOf, Phase
  <2>5. PhaseOf' = [PhaseOf EXCEPT ![p] =
                      IF attemptCount[p] + 1 < MaximumAttempts
                      THEN "open" ELSE "closed"]
    BY <1>1, <2>1, <2>4 DEF PhaseOf
  <2>6. Durable!Fail(p)
    <3>1. /\ PhaseOf[p] = "leased"
          /\ attemptCount[p] < MaximumAttempts
          /\ fencingToken' = fencingToken
      BY <1>1, <2>1, <2>2, TimingAssumption DEF Transition
    <3>2. QED
      BY <2>3, <2>5, <3>1 DEF Durable!Fail, PhaseOf
  <2>7. QED
    BY <2>6
<1>4. QED
  BY <1>2, <1>3 DEF Justified

\* The durable queue of channel plans keeps the promises of DurableWork.
THEOREM Refinement == Spec => ImplementsDurableWork
<1>1. Init => Durable!Init
  BY DEF Init, Durable!Init, Phase
<1>2. IInv /\ [Next]_vars => [Durable!Next]_(Durable!work)
  <2> SUFFICES ASSUME IInv, [Next]_vars
               PROVE  Durable!Next \/ UNCHANGED Durable!work
    OBVIOUS
  <2>1. CASE UNCHANGED row
    BY <2>1 DEF row, Durable!work, Phase
  <2>2. CASE \E p \in Plans : InsertChannelPlan(p)
    BY <2>2, InsertSubmits DEF Durable!Next
  <2>3. CASE \E w \in Workers, p \in Plans : ClaimPlan(w, p)
    BY <2>3, ClaimLeases DEF Durable!Next
  <2>4. ASSUME NEW P, NEW outcome, NEW increment, NEW next,
               Justified(P, outcome, increment),
               Transition(P, outcome, increment, next)
        PROVE  Durable!Next
    <3>1. P \in SUBSET Plans
      BY <2>4 DEF Justified
    <3>2. QED
      BY <2>4, <3>1, SettleFinishesOrFails DEF Durable!Next
  <2>5. CASE \E w \in Workers : SettleStep(w)
    BY <2>1, <2>4, <2>5 DEF SettleStep, Settles
  <2>6. QED
    BY <2>1, <2>2, <2>3, <2>5, RowSteps
<1>3. QED
  BY <1>1, <1>2, Inductive, PTL DEF Spec, ImplementsDurableWork, Durable!Spec

-----------------------------------------------------------------------------
(* Fencing, when claims are prompt.                                        *)

\* The worker between the two statements of a claim owns the row.
ClaimHeld(w, p) ==
  /\ status[p] = "processing"
  /\ claimant[p] = w
  /\ leaseExpiresAt[p] = now[w] + LeaseDuration
  /\ \A v \in Workers : \A s \in claimed[v] :
       s.id = p => s.token < fencingToken[p]

IsNext(w, p) == p \in batch[w] /\ \A q \in batch[w] : p <= q

\* A snapshot bearing the row's token belongs to the last claimant.
SnapshotsOwned ==
  \A w \in Workers : \A s \in claimed[w] :
    status[s.id] = "processing" /\ s.token = fencingToken[s.id]
      => claimant[s.id] = w

NowPast == \A w \in Workers : now[w] <= clock

RereadsHeld == \A w \in Workers : pc[w] = "reread" =>
                 \A p \in Plans : IsNext(w, p) => ClaimHeld(w, p)

PInv == /\ IInv /\ PromptClaims
        /\ NowPast /\ RereadsHeld /\ SnapshotsOwned /\ FencesAreExclusive

\* What any step does to any worker's locals.
LocalStep(v) ==
  /\ now'[v] \in {0, now[v], clock}
  /\ \/ claimed'[v] \subseteq claimed[v]
     \/ \E p \in Plans : RereadPlan(v, p)
  /\ pc'[v] = "reread" =>
       \/ \E p \in Plans : ClaimPlan(v, p)
       \/ /\ pc[v] = "reread"
          /\ batch'[v] = batch[v]
          /\ now'[v] = now[v]

LEMMA WorkerSteps ==
  ASSUME IInv, [Next]_vars, NEW v \in Workers
  PROVE  LocalStep(v)
<1>1. CASE UNCHANGED local
  BY <1>1 DEF local, LocalStep
<1>2. ASSUME NEW w \in Workers, NEW S, Moved(w, S), 
             S = claimed[w] \/ \E p \in Plans : RereadPlan(w, p)
      PROVE  LocalStep(v)
  <2>1. CASE v = w
    BY <1>2, <2>1 DEF Moved, LocalStep
  <2>2. CASE v # w
    BY <1>2, <2>2 DEF Moved, LocalStep
  <2>3. QED
    BY <2>1, <2>2
<1>3. ASSUME NEW w \in Workers, NEW p \in Plans, ClaimPlan(w, p) PROVE LocalStep(v)
  BY <1>3 DEF ClaimPlan, LocalStep, IInv, ControlOK, LocalOK
<1>4. ASSUME NEW w \in Workers, Dispatch(w) PROVE LocalStep(v)
  BY <1>4 DEF Dispatch, AfterDispatch, LocalStep, IInv, ControlOK, LocalOK
<1>5. ASSUME NEW w \in Workers,
             \/ ProcessDue(w)
             \/ \E p \in Plans : Process(w, p)
             \/ Work(w)
             \/ Abandon(w)
      PROVE  LocalStep(v)
  <2>1. ASSUME NEW p \in Plans, RereadPlan(w, p) PROVE LocalStep(v)
    <3>1. PICK S : Moved(w, S)
      BY <2>1, RereadPlanMoves DEF Moves
    <3>2. QED
      BY <1>2, <2>1, <3>1
  <2>2. CASE SettleStep(w)
    BY <1>2, <2>2 DEF SettleStep
  <2>3. CASE Moves(w, claimed[w])
    BY <1>2, <2>3 DEF Moves
  <2>4. CASE \E p \in Plans : SkipPlan(w, p) \/ InspectAction(w, p)
    BY <2>3, <2>4, SkipPlanMoves, InspectActionMoves
  <2>5. CASE \E p \in Plans : CancelPlan(w, p)
    BY <2>2, <2>5, CancelPlanSettles
  <2>6. CASE CompletePlans(w) \/ \E s \in claimed[w] : RecordFailure(w, s)
    BY <2>2, <2>6, CompletePlansSettles, RecordFailureSettles
  <2>7. CASE ProcessDue(w) \/ (\E p \in Plans : Process(w, p)) \/ Abandon(w)
    BY <2>3, <2>7, ProcessDueMoves, ProcessMoves, AbandonMoves
  <2>8. QED
    BY <1>3, <1>4, <1>5, <2>1, <2>4, <2>5, <2>6, <2>7 DEF Work
<1>6. CASE \/ \E p \in Plans : InsertChannelPlan(p) \/ ActionChanges(p)
           \/ Tick
           \/ UNCHANGED vars
  BY <1>1, <1>6 DEF InsertChannelPlan, ActionChanges, Tick, vars
<1>7. CASE \E w \in Workers : \/ ProcessDue(w)
                              \/ \E p \in Plans : Process(w, p)
                              \/ Work(w)
                              \/ Abandon(w)
  BY <1>5, <1>7
<1>8. QED
  BY <1>6, <1>7 DEF Next

\* A claim of plan p, or an update of it by worker w, while its lease runs.
LEMMA ClaimTakesExpired ==
  ASSUME PInv, NEW w \in Workers, NEW p \in Plans, ClaimPlan(w, p),
         status[p] = "processing"
  PROVE  leaseExpiresAt[p] <= clock
  BY DEF PInv, NowPast, ClaimPlan, Due, IInv, ControlOK, LocalOK, RowOK,
         OutsideOK

LEMMA SettlesOwn ==
  ASSUME PInv, NEW w \in Workers, NEW s \in claimed[w], Fenced(s)
  PROVE  claimant[s.id] = w
  BY DEF PInv, SnapshotsOwned, Fenced

LEMMA ClockSteps == [Next]_vars => clock' = clock \/ Tick
<1> SUFFICES ASSUME [Next]_vars PROVE clock' = clock \/ Tick
  OBVIOUS
<1>1. CASE \E p \in Plans : InsertChannelPlan(p) \/ ActionChanges(p)
  BY <1>1 DEF InsertChannelPlan, ActionChanges, outside
<1>2. ASSUME NEW w \in Workers, Work(w) PROVE clock' = clock
  BY <1>2 DEF Work, ClaimPlan, SkipPlan, RereadPlan, InspectAction, CancelPlan,
              Dispatch, CompletePlans, RecordFailure, outside
<1>3. CASE \E w \in Workers : \/ ProcessDue(w)
                              \/ \E p \in Plans : Process(w, p)
                              \/ Abandon(w)
  BY <1>3 DEF ProcessDue, Process, Abandon, outside
<1>4. CASE Tick \/ UNCHANGED vars
  BY <1>4 DEF vars, outside
<1>5. QED
  BY <1>1, <1>2, <1>3, <1>4 DEF Next

\* Tokens of a step: they only grow, and a snapshot is never ahead.
LEMMA TokensGrow ==
  ASSUME IInv, [Next]_vars, NEW p \in Plans
  PROVE  fencingToken'[p] >= fencingToken[p]
<1>1. CASE UNCHANGED row
  BY <1>1 DEF row, IInv, RowOK
<1>2. CASE \E q \in Plans : InsertChannelPlan(q)
  BY <1>2 DEF InsertChannelPlan, IInv, RowOK
<1>3. CASE \E w \in Workers, q \in Plans : ClaimPlan(w, q)
  BY <1>3 DEF ClaimPlan, NextToken, IInv, RowOK
<1>4. CASE \E w \in Workers : SettleStep(w)
  BY <1>1, <1>4 DEF SettleStep, Settles, Transition, IInv, RowOK
<1>5. QED
  BY <1>1, <1>2, <1>3, <1>4, RowSteps

\* Nobody else touches a row between the two statements of its claim.
LEMMA HeldStays ==
  ASSUME PInv, [Next]_vars, NEW v \in Workers, NEW p \in Plans,
         pc[v] = "reread", ClaimHeld(v, p), now'[v] = now[v]
  PROVE  /\ status'[p] = "processing" /\ claimant'[p] = v
         /\ leaseExpiresAt'[p] = now'[v] + LeaseDuration
         /\ fencingToken'[p] = fencingToken[p]
<1>1. IInv /\ clock < leaseExpiresAt[p] /\ clock \in Nat
      /\ leaseExpiresAt[p] \in Nat
  BY DEF PInv, PromptClaims, ClaimHeld, IInv, OutsideOK, RowOK
<1>2. CASE UNCHANGED row
  BY <1>2 DEF row, ClaimHeld
<1>3. CASE \E q \in Plans : InsertChannelPlan(q)
  BY <1>1, <1>3 DEF InsertChannelPlan, ClaimHeld, IInv, RowOK
<1>4. CASE \E w \in Workers, q \in Plans : ClaimPlan(w, q)
  <2>1. PICK w \in Workers, q \in Plans : ClaimPlan(w, q)
    BY <1>4
  <2>2. q # p
    BY <1>1, <2>1, ClaimTakesExpired DEF ClaimHeld
  <2>3. QED
    BY <1>1, <2>1, <2>2 DEF ClaimPlan, ClaimHeld, IInv, RowOK
<1>5. ASSUME NEW w \in Workers, NEW Q \in SUBSET claimed[w], NEW outcome,
             NEW increment, Settles(w, Q, outcome, increment)
      PROVE  UNCHANGED <<status[p], claimant[p], leaseExpiresAt[p],
                         fencingToken[p]>>
  <2>1. \A s \in Q : s.id # p
    BY <1>1, <1>5
       DEF Settles, Fenced, ClaimHeld, IInv, ControlOK, LocalOK, Snapshots,
           RowOK
  <2>2. p \notin Ids(Q)
    BY <2>1 DEF Ids
  <2>3. QED
    BY <1>5, <2>2 DEF Settles, Transition
<1>6. CASE \E w \in Workers : SettleStep(w)
  BY <1>2, <1>5, <1>6 DEF SettleStep, ClaimHeld
<1>7. QED
  BY <1>1, <1>2, <1>3, <1>4, <1>6, RowSteps

\* A row that is leased after a step under the token it had before.
LEMMA LeaseKept ==
  ASSUME IInv, [Next]_vars, NEW p \in Plans, status'[p] = "processing",
         fencingToken'[p] = fencingToken[p]
  PROVE  status[p] = "processing" /\ claimant'[p] = claimant[p]
<1>1. CASE UNCHANGED row
  BY <1>1 DEF row
<1>2. CASE \E q \in Plans : InsertChannelPlan(q)
  BY <1>2 DEF InsertChannelPlan, IInv, RowOK
<1>3. CASE \E w \in Workers, q \in Plans : ClaimPlan(w, q)
  BY <1>3 DEF ClaimPlan, NextToken, IInv, RowOK
<1>4. ASSUME NEW P, NEW outcome, NEW increment, NEW next,
             Justified(P, outcome, increment),
             Transition(P, outcome, increment, next)
      PROVE  status[p] = "processing" /\ claimant'[p] = claimant[p]
  BY <1>4 DEF Justified, Transition
<1>5. CASE \E w \in Workers : SettleStep(w)
  BY <1>1, <1>4, <1>5 DEF SettleStep, Settles
<1>6. QED
  BY <1>1, <1>2, <1>3, <1>5, RowSteps

\* Reading the row back yields the fence of the worker's own claim.
LEMMA RereadAdds ==
  ASSUME PInv, NEW w \in Workers, NEW p \in Plans, RereadPlan(w, p)
  PROVE  /\ ClaimHeld(w, p)
         /\ claimed'[w] \subseteq claimed[w] \union {Snapshot(p)}
         /\ \A v \in Workers \ {w} : claimed'[v] = claimed[v]
         /\ pc'[w] # "reread"
         /\ UNCHANGED row
<1>1. ClaimHeld(w, p) /\ UNCHANGED row
  BY DEF RereadPlan, PInv, RereadsHeld, IsNext
<1>2. Moved(w, claimed[w] \union {Snapshot(p)})
  BY RereadPlanMoves DEF PInv, Moves
<1>3. QED
  BY <1>1, <1>2 DEF Moved

LEMMA PInvNext ==
  ASSUME PInv, [Next /\ PromptClaims']_vars
  PROVE  PInv'
<1> IInv /\ [Next]_vars
  BY DEF PInv
<1>1. IInv'
  BY NextInv
<1>2. PromptClaims'
  BY DEF PInv, PromptClaims, vars, local, outside
<1>3. NowPast'
  <2>1. clock' \in Nat /\ clock \in Nat /\ clock' >= clock
    BY ClockSteps DEF IInv, OutsideOK, Tick
  <2>2. \A w \in Workers : now'[w] \in {0, now[w], clock} /\ now[w] <= clock
    BY WorkerSteps DEF LocalStep, PInv, NowPast
  <2>3. \A w \in Workers : now[w] \in Nat
    BY DEF IInv, ControlOK, LocalOK
  <2>4. QED
    BY <2>1, <2>2, <2>3 DEF NowPast
<1>4. RereadsHeld'
  <2> SUFFICES ASSUME NEW v \in Workers, pc'[v] = "reread",
                      NEW p \in Plans, IsNext(v, p)'
               PROVE  ClaimHeld(v, p)'
    BY DEF RereadsHeld
  <2>1. ASSUME NEW q \in Plans, ClaimPlan(v, q) PROVE ClaimHeld(v, p)'
    <3>1. q = p
      BY <2>1, PlansAssumption DEF ClaimPlan, IsNext
    <3>2. /\ status'[p] = "processing" /\ claimant'[p] = v
          /\ leaseExpiresAt'[p] = now'[v] + LeaseDuration
          /\ fencingToken'[p] = fencingToken[p] + 1
          /\ claimed' = claimed
      BY <2>1, <3>1 DEF ClaimPlan, NextToken, IInv, RowOK
    <3>3. \A u \in Workers : \A s \in claimed[u] :
            s.id = p => s.token < fencingToken[p] + 1
      BY DEF IInv, SnapshotsFresh, Fresh, RowOK, ControlOK, LocalOK,
             Snapshots
    <3>4. QED
      BY <3>2, <3>3 DEF ClaimHeld
  <2>2. CASE /\ pc[v] = "reread"
             /\ batch'[v] = batch[v]
             /\ now'[v] = now[v]
    <3>1. ClaimHeld(v, p)
      BY <2>2 DEF IsNext, PInv, RereadsHeld
    <3>2. /\ status'[p] = "processing" /\ claimant'[p] = v
          /\ leaseExpiresAt'[p] = now'[v] + LeaseDuration
          /\ fencingToken'[p] = fencingToken[p]
      BY <2>2, <3>1, HeldStays
    <3>3. ASSUME NEW u \in Workers, NEW s \in claimed'[u], s.id = p
          PROVE  s.token < fencingToken[p]
      <4>1. CASE s \in claimed[u]
        BY <3>1, <3>3, <4>1 DEF ClaimHeld
      <4>2. ASSUME NEW q \in Plans, RereadPlan(u, q), s = Snapshot(q)
            PROVE  FALSE
        <5>1. q = p
          BY <3>3, <4>2 DEF Snapshot
        <5>2. ClaimHeld(u, p) /\ pc'[u] # "reread"
          BY <4>2, <5>1, RereadAdds
        <5>3. u = v
          BY <3>1, <5>2 DEF ClaimHeld
        <5>4. QED
          BY <5>2, <5>3
      <4>3. \/ s \in claimed[u]
            \/ \E q \in Plans : RereadPlan(u, q) /\ s = Snapshot(q)
        BY <3>3, WorkerSteps, RereadAdds DEF LocalStep
      <4>4. QED
        BY <4>1, <4>2, <4>3
    <3>4. QED
      BY <3>2, <3>3 DEF ClaimHeld
  <2>3. QED
    BY <2>1, <2>2, WorkerSteps DEF LocalStep
<1>5. SnapshotsOwned'
  <2> SUFFICES ASSUME NEW w \in Workers, NEW s \in claimed'[w],
                      status'[s.id] = "processing",
                      s.token = fencingToken'[s.id]
               PROVE  claimant'[s.id] = w
    BY DEF SnapshotsOwned
  <2>1. CASE s \in claimed[w]
    <3>1. s.id \in Plans /\ s.token <= fencingToken[s.id] /\ s.token \in Nat
      BY <2>1 DEF IInv, SnapshotsFresh, Fresh, ControlOK, LocalOK, Snapshots
    <3>2. fencingToken'[s.id] = fencingToken[s.id]
      BY <3>1, TokensGrow DEF IInv, RowOK
    <3>3. status[s.id] = "processing" /\ claimant'[s.id] = claimant[s.id]
      BY <3>1, <3>2, LeaseKept
    <3>4. QED
      BY <2>1, <3>2, <3>3 DEF PInv, SnapshotsOwned
  <2>2. ASSUME NEW p \in Plans, RereadPlan(w, p), s = Snapshot(p)
        PROVE  claimant'[s.id] = w
    BY <2>2, RereadAdds DEF ClaimHeld, Snapshot, row
  <2>3. \/ s \in claimed[w]
        \/ \E p \in Plans : RereadPlan(w, p) /\ s = Snapshot(p)
    BY WorkerSteps, RereadAdds DEF LocalStep
  <2>4. QED
    BY <2>1, <2>2, <2>3
<1>6. FencesAreExclusive'
  <2>1. ASSUME NEW w \in Workers, NEW p \in Plans, RereadPlan(w, p),
               NEW v \in Workers \ {w}, NEW s \in claimed'[w],
               NEW t \in claimed'[v], s.id = t.id
        PROVE  s.token # t.token
    <3>1. /\ ClaimHeld(w, p)
          /\ claimed'[w] \subseteq claimed[w] \union {Snapshot(p)}
          /\ t \in claimed[v]
      BY <2>1, RereadAdds
    <3>2. CASE s \in claimed[w]
      BY <2>1, <3>1, <3>2 DEF PInv, FencesAreExclusive
    <3>3. CASE s = Snapshot(p)
      <4>1. t.token < fencingToken[p] /\ t.token \in Nat
        BY <2>1, <3>1, <3>3
           DEF ClaimHeld, Snapshot, IInv, ControlOK, LocalOK, Snapshots
      <4>2. QED
        BY <3>3, <4>1 DEF Snapshot, IInv, RowOK
    <3>4. QED
      BY <3>1, <3>2, <3>3
  <2>2. CASE \E w \in Workers, p \in Plans : RereadPlan(w, p)
    <3>1. PICK w \in Workers, p \in Plans : RereadPlan(w, p)
      BY <2>2
    <3>2. \A v \in Workers \ {w} : claimed'[v] = claimed[v]
      BY <3>1, RereadAdds
    <3> SUFFICES ASSUME NEW u \in Workers, NEW v \in Workers, u # v,
                        NEW s \in claimed'[u], NEW t \in claimed'[v],
                        s.id = t.id
                 PROVE  s.token # t.token
      BY DEF FencesAreExclusive
    <3>3. CASE u = w
      BY <2>1, <3>1, <3>3
    <3>4. CASE v = w
      BY <2>1, <3>1, <3>4
    <3>5. CASE u # w /\ v # w
      BY <3>2, <3>5 DEF PInv, FencesAreExclusive
    <3>6. QED
      BY <3>3, <3>4, <3>5
  <2>3. CASE \A w \in Workers : claimed'[w] \subseteq claimed[w]
    BY <2>3 DEF PInv, FencesAreExclusive
  <2>4. QED
    BY <2>2, <2>3, WorkerSteps DEF LocalStep
<1>7. QED
  BY <1>1, <1>2, <1>3, <1>4, <1>5, <1>6 DEF PInv

\* The invariant of PlanDeliveryWatch: PInv until a claim was read back late.
WInv == late \in BOOLEAN /\ (late \/ PInv)

LEMMA WatchStep ==
  ASSUME WInv, [WatchNext]_<<vars, late>>
  PROVE  /\ late' \in BOOLEAN
         /\ late' \/ (PInv /\ [Next /\ PromptClaims']_vars)
  BY DEF WInv, WatchNext

LEMMA WatchInductive == WatchSpec => []WInv
<1>1. WatchInit => WInv
  <2>1. Init => PInv
    BY InitInv, PlansAssumption
       DEF Init, PInv, PromptClaims, NowPast, RereadsHeld, SnapshotsOwned,
           FencesAreExclusive
  <2>2. QED
    BY <2>1 DEF WatchInit, WInv
<1>2. WInv /\ [WatchNext]_<<vars, late>> => WInv'
  BY WatchStep, PInvNext DEF WInv
<1>3. QED
  BY <1>1, <1>2, PTL DEF WatchSpec

\* When claims are prompt, no two workers ever hold the same fence.
THEOREM FencingIsExclusive == WatchSpec => []PromptFencesAreExclusive
<1>1. WInv => PromptFencesAreExclusive
  BY DEF WInv, PInv, PromptFencesAreExclusive
<1>2. QED
  BY <1>1, WatchInductive, PTL

\* When claims are prompt, a running lease leaves its row to the worker that
\* claimed it last: no stale writer settles it, nobody else claims it.
THEOREM LeaseProtects == WatchSpec => PromptLeaseProtectsClaimant
<1>1. ASSUME PInv, [Next]_vars, NEW p \in Plans,
             status[p] = "processing", clock < leaseExpiresAt[p],
             status'[p] # status[p] \/ claimant'[p] # claimant[p]
      PROVE  \E s \in claimed[claimant[p]] :
               s.id = p /\ s \notin claimed'[claimant[p]]
  <2> USE <1>1
  <2>1. IInv /\ clock \in Nat /\ leaseExpiresAt[p] \in Nat
    BY DEF PInv, IInv, OutsideOK, RowOK
  <2>2. ~UNCHANGED row
    BY DEF row
  <2>3. ~\E q \in Plans : InsertChannelPlan(q)
    BY <2>1 DEF InsertChannelPlan, IInv, RowOK
  <2>4. ~\E w \in Workers, q \in Plans : ClaimPlan(w, q)
    <3> SUFFICES ASSUME NEW w \in Workers, NEW q \in Plans, ClaimPlan(w, q)
                 PROVE  FALSE
      OBVIOUS
    <3>1. CASE q = p
      BY <2>1, <3>1, ClaimTakesExpired
    <3>2. CASE q # p
      BY <2>1, <3>2 DEF ClaimPlan, IInv, RowOK
    <3>3. QED
      BY <3>1, <3>2
  <2> PICK w \in Workers : SettleStep(w)
    BY <2>1, <2>2, <2>3, <2>4, RowSteps
  <2>5. PICK Q \in SUBSET claimed[w], outcome \in Statuses,
             increment \in {0, 1} : Settles(w, Q, outcome, increment)
    BY <2>2 DEF SettleStep
  <2>6. PICK s \in Q : s.id = p
    BY <2>5 DEF Settles, Transition, Ids
  <2>7. claimant[p] = w
    BY <2>5, <2>6, SettlesOwn DEF Settles
  <2>8. QED
    BY <2>5, <2>6, <2>7 DEF Settles
<1>2. PInv /\ [Next]_vars => \A p \in Plans : ProtectsClaimant(p)
  BY <1>1 DEF ProtectsClaimant
<1>3. WInv /\ [WatchNext]_<<vars, late>> =>
        [late' \/ \A p \in Plans : ProtectsClaimant(p)]_<<vars, late>>
  BY <1>2, WatchStep
<1>4. QED
  BY <1>3, WatchInductive, PTL DEF WatchSpec, PromptLeaseProtectsClaimant
=============================================================================

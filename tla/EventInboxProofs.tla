-------------------------- MODULE EventInboxProofs --------------------------
(***************************************************************************)
(* Theorems about EventInbox, for any events, recipients, groups, workers, *)
(* leases and retry policies.                                              *)
(***************************************************************************)
EXTENDS EventInbox, FiniteSetTheorems, TLAPS

-----------------------------------------------------------------------------
(* The inductive invariant.                                                *)

RowOK ==
  /\ status \in [Events -> {"absent", "queued", "processing", "materialized",
                            "failed"}]
  /\ attemptCount \in [Events -> 0 .. MaximumAttempts]
  /\ nextAttemptAt \in [Events -> Nat]
  /\ leaseOwner \in [Events -> Owners]
  /\ leaseExpiresAt \in [Events -> Nat]
  /\ fencingToken \in [Events -> Nat]
  /\ alertState \in [Events -> AlertStates \union {NoAlert}]

FailuresOK ==
  /\ failures \subseteq [event : Events, token : Nat,
                         attempt : 1 .. MaximumAttempts,
                         disposition : {"retry_scheduled", "dead_letter"}]
  /\ IsFiniteSet(failures)

InboxOK ==
  /\ groups \in [Users \X Groups -> GroupRows \union {NoRow}]
  /\ items \in [Users \X Identities -> ItemRows \union {NoRow}]
  /\ planned \subseteq WithPlans

\* Where a worker stands when it holds a claim.
Held == {"resolve", "materialize", "fail"}

\* A worker past its claim holds the event it has read back.
LocalOK ==
  /\ pc \in [Workers -> {"idle", "claim", "reread", "resolve", "materialize",
                         "fail"}]
  /\ now \in [Workers -> Nat]
  /\ todo \in [Workers -> SUBSET Events]
  /\ claim \in [Workers -> Claims \union {NoClaim}]
  /\ \A w \in Workers : pc[w] \in Held => claim[w] \in Claims

ClockOK == clock \in Nat /\ abandons \in Nat

\* Attempts are left, unless the event has failed.
FailedIffExhausted ==
  \A e \in Events : status[e] = "failed" <=> attemptCount[e] = MaximumAttempts

\* No claim is ahead of its row, and one that still holds the fence counts the
\* attempts the row counts.
FreshClaim(c) == /\ c.token <= fencingToken[c.event]
                 /\ Fenced(c) => c.attempts = attemptCount[c.event]

ClaimsFresh == \A w \in Workers : pc[w] \in Held => FreshClaim(claim[w])

IInv == /\ RowOK /\ FailuresOK /\ InboxOK /\ LocalOK /\ ClockOK
        /\ FailedIffExhausted
        /\ ClaimsFresh
        /\ IsFiniteSet(Materialized)
        /\ EvidenceIsComplete
        /\ EffectsHappenOnce
        /\ RowsShowNewestEvent

LEMMA InvTypes == IInv => TypeOK
  BY DEF IInv, TypeOK, RowOK, FailuresOK, InboxOK, LocalOK, ClockOK

LEMMA InitInv == Init => IInv
<1> SUFFICES ASSUME Init PROVE IInv
  OBVIOUS
<1> USE DEF Init
<1>1. RowOK /\ LocalOK /\ ClockOK
  BY LimitAssumption DEF RowOK, LocalOK, ClockOK, Owners, Held
<1>2. FailuresOK
  BY FS_EmptySet DEF FailuresOK
<1>3. InboxOK
  BY DEF InboxOK
<1>4. Materialized = {}
  BY DEF Materialized
<1>5. FailedIffExhausted /\ ClaimsFresh
  BY LimitAssumption DEF FailedIffExhausted, ClaimsFresh, Held
<1>6. EvidenceIsComplete
  <2>1. \A e \in Events : {f \in failures : f.event = e} = {}
    OBVIOUS
  <2>2. 1 .. 0 = {} /\ Cardinality({}) = 0
    BY FS_EmptySet
  <2>3. QED
    BY <2>1, <2>2 DEF EvidenceIsComplete
<1>7. EffectsHappenOnce
  BY <1>4 DEF EffectsHappenOnce
<1>8. RowsShowNewestEvent
  BY <1>4 DEF RowsShowNewestEvent, Newest
<1>9. QED
  BY <1>1, <1>2, <1>3, <1>4, <1>5, <1>6, <1>7, <1>8, FS_EmptySet DEF IInv

-----------------------------------------------------------------------------
(* The steps of one worker's control.                                      *)

\* What a control step leaves behind: nobody holds a claim he did not hold.
Moved == /\ LocalOK'
         /\ \A w \in Workers : pc'[w] \in Held =>
              pc[w] \in Held /\ claim'[w] = claim[w]

LEMMA ReturnMoves ==
  ASSUME LocalOK, NEW w \in Workers, Return(w)
  PROVE  Moved
  BY DEF LocalOK, Return, Moved, Held

LEMMA NextEventMoves ==
  ASSUME LocalOK, NEW w \in Workers, NEW e, NextEvent(w, e)
  PROVE  Moved
<1>1. CASE Return(w)
  BY <1>1, ReturnMoves
<1>2. CASE /\ todo' = [todo EXCEPT ![w] = @ \ {e}]
           /\ pc' = [pc EXCEPT ![w] = "claim"]
           /\ claim' = [claim EXCEPT ![w] = NoClaim]
           /\ UNCHANGED now
  BY <1>2 DEF LocalOK, Moved, Held
<1>3. QED
  BY <1>1, <1>2 DEF NextEvent

\* A worker goes on with its claim.
LEMMA GoOnMoves ==
  ASSUME LocalOK, NEW w \in Workers, pc[w] \in Held, NEW next \in Held,
         pc' = [pc EXCEPT ![w] = next], UNCHANGED <<now, todo, claim>>
  PROVE  Moved
  BY DEF LocalOK, Moved, Held

\* The start of a run.
LEMMA StartMoves ==
  ASSUME LocalOK, NEW w \in Workers, NEW S \in SUBSET Events, NEW t \in Nat,
         pc' = [pc EXCEPT ![w] = "claim"], todo' = [todo EXCEPT ![w] = S],
         now' = [now EXCEPT ![w] = t], UNCHANGED claim
  PROVE  Moved
  BY DEF LocalOK, Moved, Held

-----------------------------------------------------------------------------
(* The steps and the invariant.                                            *)

\* Which claims are fresh depends on the rows alone.
LEMMA ClaimsStayFresh ==
  ASSUME IInv, Moved,
         \A c \in Claims : FreshClaim(c) => FreshClaim(c)'
  PROVE  ClaimsFresh'
  BY DEF IInv, ClaimsFresh, Moved, LocalOK

\* A step of control alone.
LEMMA KeepData ==
  ASSUME IInv, UNCHANGED <<row, failures, inbox>>
  PROVE  /\ RowOK' /\ FailuresOK' /\ InboxOK'
         /\ FailedIffExhausted'
         /\ IsFiniteSet(Materialized)'
         /\ EvidenceIsComplete' /\ EffectsHappenOnce' /\ RowsShowNewestEvent'
         /\ \A c \in Claims : FreshClaim(c) => FreshClaim(c)'
<1> USE DEF row, inbox, IInv
<1>1. Materialized' = Materialized
  BY DEF Materialized
<1>2. RowOK' /\ FailuresOK' /\ InboxOK' /\ FailedIffExhausted'
  BY DEF RowOK, FailuresOK, InboxOK, FailedIffExhausted
<1>3. EvidenceIsComplete'
  BY DEF EvidenceIsComplete
<1>4. EffectsHappenOnce'
  BY <1>1 DEF EffectsHappenOnce, Fired
<1>5. RowsShowNewestEvent'
  BY <1>1 DEF RowsShowNewestEvent, Newest
<1>6. \A c \in Claims : FreshClaim(c) => FreshClaim(c)'
  BY DEF FreshClaim, Fenced
<1>7. QED
  BY <1>1, <1>2, <1>3, <1>4, <1>5, <1>6

LEMMA KeepInv ==
  ASSUME IInv, UNCHANGED <<row, failures, inbox>>, Moved, ClockOK'
  PROVE  IInv'
<1>1. ClaimsFresh'
  BY KeepData, ClaimsStayFresh
<1>2. QED
  BY <1>1, KeepData DEF IInv, Moved

LEMMA InsertEventInv ==
  ASSUME IInv, NEW e \in Events, InsertEvent(e)
  PROVE  IInv'
<1> USE DEF InsertEvent
<1>1. RowOK'
  BY DEF IInv, RowOK
<1>2. FailuresOK' /\ InboxOK' /\ ClockOK' /\ Moved
  BY DEF IInv, FailuresOK, InboxOK, ClockOK, LocalOK, Moved, inbox, local, Held
<1>3. FailedIffExhausted'
  BY LimitAssumption DEF IInv, FailedIffExhausted, RowOK
<1>4. /\ Materialized' = Materialized /\ e \notin Materialized
      /\ \A d \in Materialized : alertState'[d] = alertState[d]
  BY DEF Materialized, IInv, RowOK
<1>5. ClaimsFresh'
  <2>1. \A c \in Claims : FreshClaim(c) => FreshClaim(c)'
    BY DEF FreshClaim, Fenced, Claims, IInv, RowOK
  <2>2. QED
    BY <1>2, <2>1, ClaimsStayFresh
<1>6. EvidenceIsComplete'
  <2>1. \A d \in Events : status'[d] = "failed" <=> status[d] = "failed"
    BY DEF IInv, RowOK
  <2>2. QED
    BY <2>1 DEF IInv, EvidenceIsComplete
<1>7. EffectsHappenOnce'
  <2>1. \A u \in Users, g \in Groups : Fired(u, g)' = Fired(u, g)
    BY <1>4 DEF Fired
  <2>2. QED
    BY <1>4, <2>1 DEF IInv, EffectsHappenOnce, inbox
<1>8. RowsShowNewestEvent'
  <2>1. ASSUME NEW r, NEW S \in SUBSET Materialized, Newest(r, S)
        PROVE  Newest(r, S)'
    BY <1>4, <2>1 DEF Newest
  <2>2. QED
    BY <1>4, <2>1 DEF IInv, RowsShowNewestEvent, inbox
<1>9. QED
  BY <1>1, <1>2, <1>3, <1>4, <1>5, <1>6, <1>7, <1>8 DEF IInv, Moved

LEMMA ClaimInv ==
  ASSUME IInv, NEW w \in Workers, NEW e \in Events, Claim(w, e)
  PROVE  IInv'
<1> USE DEF Claim
<1>1. status[e] \in {"queued", "processing"}
  BY DEF Due
<1>2. RowOK'
  <2>1. now[w] + LeaseDuration \in Nat /\ OwnerOf[w] \in Owners
    BY LimitAssumption DEF IInv, LocalOK, Owners
  <2>2. QED
    BY <2>1 DEF IInv, RowOK
<1>3. FailuresOK' /\ InboxOK' /\ ClockOK'
  BY DEF IInv, FailuresOK, InboxOK, ClockOK, inbox
<1>4. Moved
  BY DEF IInv, LocalOK, Moved, Held
<1>5. FailedIffExhausted'
  BY <1>1 DEF IInv, FailedIffExhausted, RowOK
<1>6. Materialized' = Materialized
  BY <1>1 DEF Materialized, IInv, RowOK
<1>7. ClaimsFresh'
  <2>1. \A c \in Claims : FreshClaim(c) => FreshClaim(c)'
    BY DEF FreshClaim, Fenced, Claims, IInv, RowOK
  <2>2. QED
    BY <1>4, <2>1, ClaimsStayFresh
<1>8. EvidenceIsComplete'
  <2>1. \A d \in Events : status'[d] = "failed" <=> status[d] = "failed"
    BY <1>1 DEF IInv, RowOK
  <2>2. QED
    BY <2>1 DEF IInv, EvidenceIsComplete
<1>9. EffectsHappenOnce' /\ RowsShowNewestEvent'
  BY <1>6 DEF IInv, EffectsHappenOnce, Fired, RowsShowNewestEvent, Newest, inbox
<1>10. QED
  BY <1>2, <1>3, <1>4, <1>5, <1>6, <1>7, <1>8, <1>9 DEF IInv, Moved

LEMMA RereadEventInv ==
  ASSUME IInv, NEW w \in Workers, NEW e \in Events, RereadEvent(w, e)
  PROVE  IInv'
<1> DEFINE c == [event |-> e, owner |-> leaseOwner[e],
                 token |-> fencingToken[e], attempts |-> attemptCount[e]]
<1>1. /\ claim' = [claim EXCEPT ![w] = c] /\ pc' = [pc EXCEPT ![w] = "resolve"]
      /\ UNCHANGED <<row, failures, inbox, now, todo, clock, abandons>>
  BY DEF RereadEvent
<1>2. c \in Claims /\ FreshClaim(c)
  BY DEF Claims, FreshClaim, IInv, RowOK
<1>3. LocalOK' /\ ClockOK'
  BY <1>1, <1>2 DEF IInv, LocalOK, ClockOK, Held
<1> HIDE DEF c
<1>4. ClaimsFresh'
  <2>1. ASSUME NEW v \in Workers, pc'[v] \in Held PROVE FreshClaim(claim'[v])
    <3>1. CASE v = w
      BY <1>1, <1>2, <3>1 DEF IInv, LocalOK
    <3>2. CASE v # w
      BY <1>1, <2>1, <3>2 DEF IInv, LocalOK, ClaimsFresh
    <3>3. QED
      BY <3>1, <3>2
  <2>2. \A v \in Workers : pc'[v] \in Held => claim'[v] \in Claims
    BY <1>3 DEF LocalOK
  <2>3. QED
    BY <1>1, <2>1, <2>2, KeepData DEF ClaimsFresh
<1>5. QED
  BY <1>1, <1>3, <1>4, KeepData DEF IInv

\* What the transaction of one event changes.
LEMMA Materialisation ==
  ASSUME IInv, NEW c \in Claims, WriteInbox(c), RowOK'
  PROVE  /\ c.event \in Events /\ c.event \notin Materialized
         /\ Materialized' = Materialized \union {c.event}
         /\ \A u \in Users, g \in Groups : groups'[<<u, g>>] =
              IF u \in Recipients[c.event] /\ g = GroupOf[c.event]
              THEN TransitionAlertGroup(groups[<<u, g>>], c.event)
              ELSE groups[<<u, g>>]
         /\ \A u \in Users, i \in Identities : items'[<<u, i>>] =
              IF u \in Recipients[c.event] /\ i = Identity(c.event)
              THEN UpsertInboxItem(items[<<u, i>>], c.event)
              ELSE items[<<u, i>>]
<1>1. c.event \in Events /\ status[c.event] = "processing"
      /\ status' = [status EXCEPT ![c.event] = "materialized"]
  BY DEF Claims, WriteInbox, Fenced
<1>2. /\ c.event \notin Materialized
      /\ Materialized' = Materialized \union {c.event}
  BY <1>1 DEF Materialized, IInv, RowOK
<1>3. QED
  BY <1>1, <1>2 DEF WriteInbox

\* What one event makes of one group and of one item.
LEMMA TransitionType ==
  ASSUME IInv, NEW e \in Events, NEW old \in GroupRows \union {NoRow}
  PROVE  TransitionAlertGroup(old, e) \in GroupRows \union {NoRow}
<1> DEFINE value(n) == [state |-> alertState[e], count |-> n,
                        last |-> OccurredAt[e], event |-> e]
<1>1. alertState[e] = NoAlert
      \/ alertState[e] \in {"firing", "acknowledged", "resolved"}
  BY ContentAssumption DEF IInv, RowOK
<1>2. \A n \in Nat : alertState[e] # NoAlert => value(n) \in GroupRows
  BY <1>1, ContentAssumption DEF GroupRows
<1>3. old # NoRow => old.count \in Nat
  BY DEF GroupRows
<1>4. QED
  BY <1>1, <1>2, <1>3 DEF TransitionAlertGroup

LEMMA UpsertType ==
  ASSUME IInv, NEW e \in Events, NEW old \in ItemRows \union {NoRow}
  PROVE  UpsertInboxItem(old, e) \in ItemRows
<1> DEFINE value(n) == [state |-> alertState[e], count |-> n,
                        last |-> OccurredAt[e], event |-> e]
<1>1. alertState[e] \in {NoAlert, "firing", "acknowledged", "resolved"}
  BY ContentAssumption DEF IInv, RowOK
<1>2. \A n \in Nat : value(n) \in ItemRows
  BY <1>1, ContentAssumption DEF ItemRows
<1>3. old # NoRow => old \in ItemRows /\ old.count \in Nat
  BY DEF ItemRows
<1>4. QED
  BY <1>2, <1>3 DEF UpsertInboxItem

\* The newest of old and new events is shown.
LEMMA TransitionNewest ==
  ASSUME IInv, NEW e \in Events, alertState[e] # NoAlert,
         NEW old \in GroupRows \union {NoRow}, NEW S \in SUBSET Materialized,
         Newest(old, S)
  PROVE  Newest(TransitionAlertGroup(old, e), S \union {e})
<1> DEFINE value(n) == [state |-> alertState[e], count |-> n,
                        last |-> OccurredAt[e], event |-> e]
           new == TransitionAlertGroup(old, e)
<1>1. new \in GroupRows \union {NoRow}
  BY TransitionType
<1>2. OccurredAt[e] \in Nat /\ \A d \in S : OccurredAt[d] \in Nat
  BY ContentAssumption DEF Materialized
<1>3. ASSUME NEW n, \A d \in S : OccurredAt[d] <= OccurredAt[e],
             new = value(n), value(n) # NoRow
      PROVE  Newest(new, S \union {e})
  BY <1>2, <1>3 DEF Newest
<1>4. \A n \in Nat : value(n) # NoRow
  <2>1. alertState[e] \in {"firing", "acknowledged", "resolved"}
    BY ContentAssumption DEF IInv, RowOK
  <2>2. \A n \in Nat : value(n) \in GroupRows
    BY <2>1, <1>2 DEF GroupRows
  <2>3. QED
    BY <2>2, RowAssumption
<1>5. CASE old = NoRow
  <2>1. S = {}
    BY <1>5 DEF Newest
  <2>2. PICK n \in Nat : new = value(n)
    BY <1>5 DEF TransitionAlertGroup
  <2>3. QED
    BY <1>3, <1>4, <2>1, <2>2
<1>6. CASE old # NoRow /\ NotNewer(old.last, e)
  <2>1. S # {} /\ old.count \in Nat /\ old.last \in Nat
    BY <1>6 DEF Newest, GroupRows
  <2>2. \A d \in S : OccurredAt[d] <= OccurredAt[e]
    BY <1>2, <1>6, <2>1 DEF Newest, NotNewer
  <2>3. PICK n \in Nat : new = value(n)
    BY <1>6, <2>1 DEF TransitionAlertGroup
  <2>4. QED
    BY <1>3, <1>4, <2>2, <2>3
<1>7. CASE old # NoRow /\ ~NotNewer(old.last, e)
  <2>1. S # {} /\ old.last \in Nat /\ new = old
    BY <1>7 DEF Newest, GroupRows, TransitionAlertGroup
  <2>2. OccurredAt[e] <= old.last
    BY <1>2, <1>7, <2>1 DEF NotNewer
  <2>3. QED
    BY <1>7, <2>1, <2>2 DEF Newest
<1>8. QED
  BY <1>5, <1>6, <1>7

LEMMA UpsertNewest ==
  ASSUME IInv, NEW e \in Events,
         NEW old \in ItemRows \union {NoRow}, NEW S \in SUBSET Materialized,
         Newest(old, S)
  PROVE  Newest(UpsertInboxItem(old, e), S \union {e})
<1> DEFINE value(n) == [state |-> alertState[e], count |-> n,
                        last |-> OccurredAt[e], event |-> e]
           new == UpsertInboxItem(old, e)
<1>1. new # NoRow
  BY UpsertType, RowAssumption
<1>2. OccurredAt[e] \in Nat /\ \A d \in S : OccurredAt[d] \in Nat
  BY ContentAssumption DEF Materialized
<1>3. ASSUME NEW n, \A d \in S : OccurredAt[d] <= OccurredAt[e],
             new = value(n)
      PROVE  Newest(new, S \union {e})
  BY <1>1, <1>2, <1>3 DEF Newest
<1>4. CASE old = NoRow
  <2>1. S = {} /\ new = value(1)
    BY <1>4 DEF Newest, UpsertInboxItem
  <2>2. QED
    BY <1>3, <2>1
<1>5. CASE old # NoRow /\ NotNewer(old.last, e)
  <2>1. S # {} /\ old.last \in Nat
    BY <1>5 DEF Newest, ItemRows
  <2>2. \A d \in S : OccurredAt[d] <= OccurredAt[e]
    BY <1>2, <1>5, <2>1 DEF Newest, NotNewer
  <2>3. PICK n : new = value(n)
    BY <1>5 DEF UpsertInboxItem
  <2>4. QED
    BY <1>3, <2>2, <2>3
<1>6. CASE old # NoRow /\ ~NotNewer(old.last, e)
  <2>1. S # {} /\ old.last \in Nat /\ new = old
    BY <1>6 DEF Newest, ItemRows, UpsertInboxItem
  <2>2. OccurredAt[e] <= old.last
    BY <1>2, <1>6, <2>1 DEF NotNewer
  <2>3. QED
    BY <1>6, <2>1, <2>2 DEF Newest
<1>7. QED
  BY <1>4, <1>5, <1>6

\* An alert's count grows by one at most, when it fires.
LEMMA TransitionCount ==
  ASSUME IInv, NEW e \in Events, NEW old \in GroupRows \union {NoRow},
         TransitionAlertGroup(old, e) # NoRow
  PROVE  LET new == TransitionAlertGroup(old, e)
             before == IF old = NoRow THEN 0 ELSE old.count
         IN \/ new.count = before
            \/ alertState[e] = "firing" /\ new.count = before + 1
<1>1. old # NoRow => old.count \in Nat
  BY DEF GroupRows
<1>2. CASE alertState[e] = NoAlert
  BY <1>2 DEF TransitionAlertGroup
<1>3. CASE alertState[e] # NoAlert
  BY <1>1, <1>3 DEF TransitionAlertGroup
<1>4. QED
  BY <1>2, <1>3

\* The transaction of Materialize under a fence that still holds.
LEMMA WriteInboxInv ==
  ASSUME IInv, NEW c \in Claims, WriteInbox(c), Moved, ClockOK',
         UNCHANGED <<attemptCount, nextAttemptAt, fencingToken, alertState,
                     failures>>
  PROVE  IInv'
<1> DEFINE e == c.event
<1>1. e \in Events /\ status[e] = "processing"
      /\ status' = [status EXCEPT ![e] = "materialized"]
  BY DEF Claims, WriteInbox, Fenced
<1>2. RowOK'
  BY <1>1 DEF IInv, RowOK, WriteInbox, Owners
<1>3. /\ e \notin Materialized /\ Materialized' = Materialized \union {e}
      /\ \A u \in Users, g \in Groups : groups'[<<u, g>>] =
           IF u \in Recipients[e] /\ g = GroupOf[e]
           THEN TransitionAlertGroup(groups[<<u, g>>], e) ELSE groups[<<u, g>>]
      /\ \A u \in Users, i \in Identities : items'[<<u, i>>] =
           IF u \in Recipients[e] /\ i = Identity(e)
           THEN UpsertInboxItem(items[<<u, i>>], e) ELSE items[<<u, i>>]
  BY <1>2, Materialisation
<1>4. InboxOK'
  <2>1. \A k \in Users \X Groups :
          TransitionAlertGroup(groups[k], e) \in GroupRows \union {NoRow}
    BY <1>1, TransitionType DEF IInv, InboxOK
  <2>2. \A k \in Users \X Identities :
          UpsertInboxItem(items[k], e) \in ItemRows
    BY <1>1, UpsertType DEF IInv, InboxOK
  <2>3. groups' \in [Users \X Groups -> GroupRows \union {NoRow}]
    BY <2>1 DEF WriteInbox, IInv, InboxOK
  <2>4. items' \in [Users \X Identities -> ItemRows \union {NoRow}]
    BY <2>2 DEF WriteInbox, IInv, InboxOK
  <2>5. planned' \subseteq WithPlans
    BY DEF WriteInbox, IInv, InboxOK
  <2>6. QED
    BY <2>3, <2>4, <2>5 DEF InboxOK
<1>5. FailuresOK' /\ FailedIffExhausted' /\ IsFiniteSet(Materialized)'
  <2>1. IsFiniteSet(Materialized \union {e})
    BY FS_AddElement DEF IInv
  <2>2. FailedIffExhausted'
    BY <1>1 DEF IInv, FailedIffExhausted, RowOK
  <2>3. QED
    BY <1>3, <2>1, <2>2 DEF IInv, FailuresOK
<1>6. ClaimsFresh'
  <2>1. \A d \in Claims : FreshClaim(d) => FreshClaim(d)'
    BY <1>1 DEF FreshClaim, Fenced, Claims, IInv, RowOK, WriteInbox
  <2>2. QED
    BY <2>1, ClaimsStayFresh
<1>7. EvidenceIsComplete'
  <2>1. \A d \in Events : status'[d] = "failed" <=> status[d] = "failed"
    BY <1>1 DEF IInv, RowOK
  <2>2. QED
    BY <2>1 DEF IInv, EvidenceIsComplete
<1>8. EffectsHappenOnce'
  <2>1. planned' = Materialized' \intersect WithPlans
    BY <1>3 DEF WriteInbox, IInv, EffectsHappenOnce
  <2>2. ASSUME NEW u \in Users, NEW g \in Groups, groups'[<<u, g>>] # NoRow
        PROVE  groups'[<<u, g>>].count <= Cardinality(Fired(u, g)')
    <3> DEFINE old == groups[<<u, g>>]
               new == groups'[<<u, g>>]
               before == IF old = NoRow THEN 0 ELSE old.count
    <3>1. /\ old \in GroupRows \union {NoRow}
          /\ IsFiniteSet(Fired(u, g))
          /\ Cardinality(Fired(u, g)) \in Nat
      <4>1. Fired(u, g) \in SUBSET Materialized
        BY DEF Fired
      <4>2. IsFiniteSet(Fired(u, g))
        BY <4>1, FS_Subset DEF IInv
      <4>3. QED
        BY <4>2, FS_CardinalityType DEF IInv, InboxOK
    <3>2. before \in Nat /\ before <= Cardinality(Fired(u, g))
      BY <3>1 DEF IInv, EffectsHappenOnce, GroupRows
    <3>3. /\ IsFiniteSet(Fired(u, g) \union {e})
          /\ e \notin Fired(u, g)
          /\ Cardinality(Fired(u, g) \union {e}) = Cardinality(Fired(u, g)) + 1
      <4>1. e \notin Fired(u, g)
        BY <1>3 DEF Fired
      <4> HIDE DEF e
      <4>2. QED
        BY <3>1, <4>1, FS_AddElement
    <3>4. Fired(u, g)' = IF /\ u \in Recipients[e] /\ GroupOf[e] = g
                            /\ alertState[e] = "firing"
                         THEN Fired(u, g) \union {e} ELSE Fired(u, g)
      BY <1>3 DEF Fired
    <3>5. CASE u \in Recipients[e] /\ g = GroupOf[e]
      <4>1. new = TransitionAlertGroup(old, e)
        BY <1>3, <3>5
      <4>2. \/ new.count = before
            \/ alertState[e] = "firing" /\ new.count = before + 1
        BY <1>1, <2>2, <3>1, <4>1, TransitionCount
      <4>3. QED
        BY <3>1, <3>2, <3>3, <3>4, <3>5, <4>2
    <3>6. CASE ~(u \in Recipients[e] /\ g = GroupOf[e])
      BY <1>3, <2>2, <3>2, <3>4, <3>6
    <3>7. QED
      BY <3>5, <3>6
  <2>3. QED
    BY <2>1, <2>2 DEF EffectsHappenOnce
<1>9. RowsShowNewestEvent'
  <2> SUFFICES ASSUME NEW u \in Users
               PROVE  LET mine == {d \in Materialized' : u \in Recipients[d]}
                      IN /\ \A g \in Groups :
                              Newest(groups'[<<u, g>>],
                                {d \in mine : GroupOf[d] = g
                                              /\ alertState[d] # NoAlert})
                         /\ \A i \in Identities :
                              Newest(items'[<<u, i>>],
                                {d \in mine : Identity(d) = i})
    BY DEF RowsShowNewestEvent, Newest
  <2> DEFINE inGroup(M, g) ==
               {d \in {b \in M : u \in Recipients[b]} :
                  GroupOf[d] = g /\ alertState[d] # NoAlert}
             inItem(M, i) ==
               {d \in {b \in M : u \in Recipients[b]} : Identity(d) = i}
  <2>1. ASSUME NEW g \in Groups
        PROVE  Newest(groups'[<<u, g>>], inGroup(Materialized', g))
    <3> DEFINE S == inGroup(Materialized, g)
    <3>1. Newest(groups[<<u, g>>], S) /\ S \in SUBSET Materialized
      BY DEF IInv, RowsShowNewestEvent
    <3>2. groups[<<u, g>>] \in GroupRows \union {NoRow}
      BY DEF IInv, InboxOK
    <3>3. CASE u \in Recipients[e] /\ g = GroupOf[e] /\ alertState[e] # NoAlert
      <4>1. inGroup(Materialized', g) = S \union {e}
        BY <1>3, <3>3
      <4>2. groups'[<<u, g>>] = TransitionAlertGroup(groups[<<u, g>>], e)
        BY <1>3, <3>3
      <4> HIDE DEF S, e
      <4>3. Newest(TransitionAlertGroup(groups[<<u, g>>], e), S \union {e})
        BY <1>1, <3>1, <3>2, <3>3, TransitionNewest
      <4>4. QED
        BY <4>1, <4>2, <4>3
    <3>4. CASE ~(u \in Recipients[e] /\ g = GroupOf[e] /\ alertState[e] # NoAlert)
      <4>1. inGroup(Materialized', g) = S
        BY <1>3, <3>4
      <4>2. groups'[<<u, g>>] = groups[<<u, g>>]
        BY <1>3, <3>4 DEF TransitionAlertGroup
      <4>3. QED
        BY <3>1, <4>1, <4>2
    <3>5. QED
      BY <3>3, <3>4
  <2>2. ASSUME NEW i \in Identities
        PROVE  Newest(items'[<<u, i>>], inItem(Materialized', i))
    <3> DEFINE S == inItem(Materialized, i)
    <3>1. Newest(items[<<u, i>>], S) /\ S \in SUBSET Materialized
      BY DEF IInv, RowsShowNewestEvent
    <3>2. items[<<u, i>>] \in ItemRows \union {NoRow}
      BY DEF IInv, InboxOK
    <3>3. CASE u \in Recipients[e] /\ i = Identity(e)
      <4>1. inItem(Materialized', i) = S \union {e}
        BY <1>3, <3>3
      <4>2. items'[<<u, i>>] = UpsertInboxItem(items[<<u, i>>], e)
        BY <1>3, <3>3
      <4> HIDE DEF S, e
      <4>3. Newest(UpsertInboxItem(items[<<u, i>>], e), S \union {e})
        BY <1>1, <3>1, <3>2, UpsertNewest
      <4>4. QED
        BY <4>1, <4>2, <4>3
    <3>4. CASE ~(u \in Recipients[e] /\ i = Identity(e))
      <4>1. inItem(Materialized', i) = S
        BY <1>3, <3>4
      <4>2. items'[<<u, i>>] = items[<<u, i>>]
        BY <1>3, <3>4
      <4>3. QED
        BY <3>1, <4>1, <4>2
    <3>5. QED
      BY <3>3, <3>4
  <2>3. QED
    BY <2>1, <2>2
<1>10. QED
  BY <1>2, <1>4, <1>5, <1>6, <1>7, <1>8, <1>9 DEF IInv, Moved

\* recordFailure by a worker whose lease still holds.
LEMMA FencedFailureInv ==
  ASSUME IInv, NEW w \in Workers, RecordFailure(w), Fenced(claim[w])
  PROVE  IInv'
<1> DEFINE c == claim[w]
           e == c.event
           n == attemptCount[e]
           retry == RetryAllowed(n + 1)
           new == [event |-> e, token |-> c.token, attempt |-> n + 1,
                   disposition |-> IF retry THEN "retry_scheduled"
                                            ELSE "dead_letter"]
<1>1. /\ c \in Claims /\ e \in Events /\ c.token \in Nat
      /\ status[e] = "processing" /\ c.attempts = n
  BY DEF RecordFailure, Held, IInv, LocalOK, Claims, ClaimsFresh, FreshClaim,
         Fenced
<1>2. /\ status' = [status EXCEPT ![e] = IF retry THEN "queued" ELSE "failed"]
      /\ attemptCount' = [attemptCount EXCEPT ![e] = @ + 1]
      /\ nextAttemptAt' = [nextAttemptAt EXCEPT
           ![e] = IF retry THEN now[w] + RetryDelay[n + 1] ELSE 0]
      /\ leaseOwner' = [leaseOwner EXCEPT ![e] = NoOwner]
      /\ leaseExpiresAt' = [leaseExpiresAt EXCEPT ![e] = 0]
      /\ failures' = failures \union {new}
      /\ NextEvent(w, e)
      /\ UNCHANGED <<fencingToken, alertState, inbox, clock, abandons>>
  BY <1>1 DEF RecordFailure
<1>3. /\ n \in Nat /\ n + 1 \in 1 .. MaximumAttempts
      /\ retry <=> n + 1 < MaximumAttempts
      /\ ~retry <=> n + 1 = MaximumAttempts
  BY <1>1, LimitAssumption
     DEF IInv, RowOK, FailedIffExhausted, RetryAllowed
<1> HIDE DEF c, e, n, retry
<1>4. RowOK'
  <2>1. now[w] + RetryDelay[n + 1] \in Nat
    BY <1>3, LimitAssumption DEF IInv, LocalOK
  <2>2. attemptCount[e] + 1 \in 0 .. MaximumAttempts
    BY <1>3 DEF n
  <2>3. QED
    BY <1>2, <2>1, <2>2 DEF IInv, RowOK, Owners
<1>5. FailuresOK' /\ InboxOK' /\ ClockOK'
  <2>1. IsFiniteSet(failures \union {new})
    BY FS_AddElement DEF IInv, FailuresOK
  <2>2. new \in [event : Events, token : Nat, attempt : 1 .. MaximumAttempts,
                 disposition : {"retry_scheduled", "dead_letter"}]
    BY <1>1, <1>3
  <2>3. QED
    BY <1>2, <2>1, <2>2 DEF IInv, FailuresOK, InboxOK, ClockOK, inbox
<1>6. Moved
  BY <1>2, NextEventMoves DEF IInv
<1>7. FailedIffExhausted'
  BY <1>1, <1>2, <1>3 DEF IInv, RowOK, FailedIffExhausted, n
<1>8. Materialized' = Materialized
  BY <1>1, <1>2 DEF Materialized, IInv, RowOK
<1>9. ClaimsFresh'
  <2>1. \A d \in Claims : FreshClaim(d) => FreshClaim(d)'
    BY <1>1, <1>2, <1>3 DEF FreshClaim, Fenced, Claims, IInv, RowOK
  <2>2. QED
    BY <1>6, <2>1, ClaimsStayFresh
<1>10. EvidenceIsComplete'
  <2> DEFINE evidence(F, d) == {f \in F : f.event = d}
  <2>1. ASSUME NEW d \in Events, d # e
        PROVE  /\ evidence(failures', d) = evidence(failures, d)
               /\ attemptCount'[d] = attemptCount[d] /\ status'[d] = status[d]
    BY <1>2, <2>1 DEF IInv, RowOK
  <2>2. /\ evidence(failures', e) = evidence(failures, e) \union {new}
        /\ attemptCount'[e] = n + 1
        /\ status'[e] = IF retry THEN "queued" ELSE "failed"
    BY <1>1, <1>2 DEF IInv, RowOK, n
  <2>3. /\ {f.attempt : f \in evidence(failures, e)} = 1 .. n
        /\ Cardinality(evidence(failures, e)) = n
        /\ \A f \in evidence(failures, e) : f.disposition # "dead_letter"
    BY <1>1 DEF IInv, EvidenceIsComplete, n
  <2>4. new \notin evidence(failures, e)
    <3>1. new.attempt = n + 1 /\ n + 1 \notin 1 .. n
      BY <1>3
    <3>2. QED
      BY <2>3, <3>1
  <2>5. IsFiniteSet(evidence(failures, e))
    BY FS_Subset DEF IInv, FailuresOK
  <2>6. Cardinality(evidence(failures', e)) = n + 1
    <3> HIDE DEF evidence, new
    <3>1. QED
      BY <2>2, <2>3, <2>4, <2>5, FS_AddElement
  <2>7. {f.attempt : f \in evidence(failures', e)} = 1 .. (n + 1)
    <3>1. ASSUME NEW F, NEW m, NEW a, m.attempt = a
          PROVE  {f.attempt : f \in F \union {m}} =
                   {f.attempt : f \in F} \union {a}
      BY <3>1
    <3>2. (1 .. n) \union {n + 1} = 1 .. (n + 1)
      BY <1>3
    <3>3. new.attempt = n + 1
      OBVIOUS
    <3> HIDE DEF new, evidence
    <3>4. {f.attempt : f \in evidence(failures, e) \union {new}} =
            {f.attempt : f \in evidence(failures, e)} \union {n + 1}
      BY <3>1, <3>3
    <3>5. QED
      BY <2>2, <2>3, <3>2, <3>4
  <2>8. ASSUME NEW f \in evidence(failures', e)
        PROVE  f.disposition = "dead_letter" <=>
                 status'[e] = "failed" /\ f.attempt = attemptCount'[e]
    <3>1. CASE f = new
      BY <2>2, <3>1
    <3>2. CASE f \in evidence(failures, e)
      <4>1. f.attempt \in 1 .. n
        BY <2>3, <3>2
      <4>2. QED
        BY <1>3, <2>2, <2>3, <3>2, <4>1
    <3>3. QED
      BY <2>2, <3>1, <3>2
  <2> HIDE DEF new
  <2>9. ASSUME NEW d \in Events
        PROVE  /\ {f.attempt : f \in evidence(failures', d)} =
                    1 .. attemptCount'[d]
               /\ Cardinality(evidence(failures', d)) = attemptCount'[d]
               /\ \A f \in evidence(failures', d) :
                    f.disposition = "dead_letter" <=>
                      status'[d] = "failed" /\ f.attempt = attemptCount'[d]
    <3>1. CASE d = e
      BY <2>2, <2>6, <2>7, <2>8, <3>1
    <3>2. CASE d # e
      BY <2>1, <3>2 DEF IInv, EvidenceIsComplete
    <3>3. QED
      BY <3>1, <3>2
  <2>10. QED
    BY <2>9 DEF EvidenceIsComplete
<1>11. EffectsHappenOnce' /\ RowsShowNewestEvent'
  BY <1>2, <1>8
     DEF IInv, EffectsHappenOnce, Fired, RowsShowNewestEvent, Newest, inbox
<1>12. QED
  BY <1>4, <1>5, <1>6, <1>7, <1>8, <1>9, <1>10, <1>11 DEF IInv, Moved

LEMMA RecordFailureInv ==
  ASSUME IInv, NEW w \in Workers, RecordFailure(w)
  PROVE  IInv'
<1>1. CASE Fenced(claim[w])
  BY <1>1, FencedFailureInv
<1>2. CASE ~Fenced(claim[w])
  <2>1. Return(w) /\ UNCHANGED <<row, failures, inbox, clock, abandons>>
    BY <1>2 DEF RecordFailure
  <2>2. Moved /\ ClockOK'
    BY <2>1, ReturnMoves DEF IInv, ClockOK
  <2>3. QED
    BY <2>1, <2>2, KeepInv
<1>3. QED
  BY <1>1, <1>2

\* An acknowledgement keeps the newest event on display.
LEMMA AcknowledgedNewest ==
  ASSUME NEW r, NEW S, Newest(r, S), r # NoRow, r.state = "firing",
         NEW a, a = [r EXCEPT !.state = "acknowledged"], a # NoRow,
         a.state = "acknowledged", a.event = r.event, a.last = r.last
  PROVE  Newest(a, S)
  BY DEF Newest

LEMMA AcknowledgeAlertInv ==
  ASSUME IInv, NEW u \in Users, NEW g \in Groups, AcknowledgeAlert(u, g)
  PROVE  IInv'
<1> DEFINE i == <<"group", g>>
           group == groups[<<u, g>>]
           item == items[<<u, i>>]
<1>1. /\ group \in GroupRows /\ i \in Identities /\ item \in ItemRows
      /\ group.state = "firing" /\ item.state = "firing"
  <2>1. i \in Identities
    BY DEF Groups, Identities, Identity
  <2>2. QED
    BY <2>1 DEF AcknowledgeAlert, IInv, InboxOK
<1>2. /\ groups' = [groups EXCEPT ![<<u, g>>].state = "acknowledged"]
      /\ items' = [items EXCEPT ![<<u, i>>].state = "acknowledged"]
      /\ UNCHANGED <<row, failures, planned, local, clock, abandons>>
  BY DEF AcknowledgeAlert
<1>3. /\ groups'[<<u, g>>] = [group EXCEPT !.state = "acknowledged"]
      /\ groups'[<<u, g>>] \in GroupRows
      /\ groups'[<<u, g>>].count = group.count
      /\ groups'[<<u, g>>].last = group.last
      /\ groups'[<<u, g>>].event = group.event
      /\ groups'[<<u, g>>].state = "acknowledged"
      /\ \A k \in Users \X Groups : k # <<u, g>> => groups'[k] = groups[k]
  BY <1>1, <1>2 DEF IInv, InboxOK, GroupRows
<1>4. /\ items'[<<u, i>>] = [item EXCEPT !.state = "acknowledged"]
      /\ items'[<<u, i>>] \in ItemRows
      /\ items'[<<u, i>>].last = item.last
      /\ items'[<<u, i>>].event = item.event
      /\ items'[<<u, i>>].state = "acknowledged"
      /\ \A k \in Users \X Identities : k # <<u, i>> => items'[k] = items[k]
  BY <1>1, <1>2 DEF IInv, InboxOK, ItemRows
<1>5. /\ RowOK' /\ FailuresOK' /\ ClockOK' /\ FailedIffExhausted'
      /\ Materialized' = Materialized
      /\ EvidenceIsComplete' /\ LocalOK' /\ ClaimsFresh'
  BY <1>2
     DEF row, local, IInv, RowOK, FailuresOK, ClockOK, FailedIffExhausted,
         Materialized, EvidenceIsComplete, LocalOK, ClaimsFresh, FreshClaim,
         Fenced, Held
<1>6. InboxOK'
  <2>1. groups' \in [Users \X Groups -> GroupRows \union {NoRow}]
    BY <1>2, <1>3 DEF IInv, InboxOK
  <2>2. items' \in [Users \X Identities -> ItemRows \union {NoRow}]
    BY <1>2, <1>4 DEF IInv, InboxOK
  <2>3. QED
    BY <1>2, <2>1, <2>2 DEF IInv, InboxOK
<1> HIDE DEF i, group, item
<1>7. EffectsHappenOnce'
  <2>1. ASSUME NEW v \in Users, NEW h \in Groups
        PROVE  Fired(v, h)' = Fired(v, h)
    BY <1>2, <1>5 DEF Fired, row
  <2>2. ASSUME NEW v \in Users, NEW h \in Groups, groups'[<<v, h>>] # NoRow
        PROVE  groups'[<<v, h>>].count <= Cardinality(Fired(v, h))
    <3>1. CASE v = u /\ h = g
      BY <1>1, <1>3, <3>1, RowAssumption DEF IInv, EffectsHappenOnce, group
    <3>2. CASE ~(v = u /\ h = g)
      BY <1>3, <2>2, <3>2 DEF IInv, EffectsHappenOnce
    <3>3. QED
      BY <3>1, <3>2
  <2>3. QED
    BY <1>2, <1>5, <2>1, <2>2 DEF IInv, EffectsHappenOnce
<1>8. RowsShowNewestEvent'
  <2>1. ASSUME NEW r, NEW S PROVE Newest(r, S)' = Newest(r, S)
    BY <1>2 DEF Newest, row
  <2>2. ASSUME NEW v \in Users, NEW h \in Groups, NEW S,
               Newest(groups[<<v, h>>], S)
        PROVE  Newest(groups'[<<v, h>>], S)
    <3>1. CASE v = u /\ h = g
      BY <1>1, <1>3, <2>2, <3>1, AcknowledgedNewest, RowAssumption DEF group
    <3>2. CASE ~(v = u /\ h = g)
      BY <1>3, <2>2, <3>2
    <3>3. QED
      BY <3>1, <3>2
  <2>3. ASSUME NEW v \in Users, NEW j \in Identities, NEW S,
               Newest(items[<<v, j>>], S)
        PROVE  Newest(items'[<<v, j>>], S)
    <3>1. CASE v = u /\ j = i
      BY <1>1, <1>4, <2>3, <3>1, AcknowledgedNewest, RowAssumption DEF item
    <3>2. CASE ~(v = u /\ j = i)
      BY <1>4, <2>3, <3>2
    <3>3. QED
      BY <3>1, <3>2
  <2>4. UNCHANGED alertState
    BY <1>2 DEF row
  <2>5. QED
    BY <1>5, <2>1, <2>2, <2>3, <2>4 DEF IInv, RowsShowNewestEvent
<1>9. QED
  BY <1>5, <1>6, <1>7, <1>8 DEF IInv

\* The answer of Materialize may be lost, whether or not it has committed.
LEMMA MaterializeInv ==
  ASSUME IInv, NEW w \in Workers, Materialize(w)
  PROVE  IInv'
<1>1. pc[w] \in Held /\ claim[w] \in Claims
  BY DEF Materialize, Held, IInv, LocalOK
<1>2. UNCHANGED <<failures, clock, abandons>> /\ ClockOK'
  BY DEF Materialize, IInv, ClockOK
<1>3. CASE /\ pc' = [pc EXCEPT ![w] = "fail"]
           /\ UNCHANGED <<now, todo, claim>>
  <2>1. Moved
    BY <1>1, <1>3, GoOnMoves DEF IInv, Held
  <2>2. CASE UNCHANGED <<row, inbox>>
    BY <1>2, <2>1, <2>2, KeepInv
  <2>3. CASE /\ WriteInbox(claim[w])
             /\ UNCHANGED <<attemptCount, nextAttemptAt, fencingToken,
                            alertState>>
    BY <1>1, <1>2, <2>1, <2>3, WriteInboxInv
  <2>4. QED
    BY <2>2, <2>3 DEF Materialize
<1>4. CASE NextEvent(w, claim[w].event)
           /\ WriteInbox(claim[w])
           /\ UNCHANGED <<attemptCount, nextAttemptAt, fencingToken,
                          alertState>>
  <2>1. Moved
    BY <1>4, NextEventMoves DEF IInv
  <2>2. QED
    BY <1>1, <1>2, <1>4, <2>1, WriteInboxInv
<1>5. QED
  BY <1>3, <1>4 DEF Materialize

\* The steps that touch neither rows nor inbox.
Silent == \/ \E w \in Workers :
               \/ ProcessDue(w)
               \/ \E e \in Events : Process(w, e) \/ SkipEvent(w, e)
               \/ ResolveAudience(w)
               \/ Abandon(w)
          \/ Tick
          \/ UNCHANGED vars

LEMMA SilentInv ==
  ASSUME IInv, Silent
  PROVE  IInv' /\ UNCHANGED <<row, failures, inbox>>
<1>1. ASSUME NEW w \in Workers,
             \/ ProcessDue(w)
             \/ \E e \in Events : Process(w, e) \/ SkipEvent(w, e)
             \/ ResolveAudience(w)
             \/ Abandon(w)
      PROVE  UNCHANGED <<row, failures, inbox>> /\ Moved /\ ClockOK'
  <2>1. CASE ProcessDue(w)
    <3>1. ListDue(clock) \in SUBSET Events /\ clock \in Nat
      BY DEF ListDue, IInv, ClockOK
    <3>2. QED
      BY <2>1, <3>1, StartMoves DEF ProcessDue, IInv, ClockOK
  <2>2. ASSUME NEW e \in Events, Process(w, e)
        PROVE  UNCHANGED <<row, failures, inbox>> /\ Moved /\ ClockOK'
    <3>1. {e} \in SUBSET Events /\ clock \in Nat
      BY DEF IInv, ClockOK
    <3>2. QED
      BY <2>2, <3>1, StartMoves DEF Process, IInv, ClockOK
  <2>3. ASSUME NEW e \in Events, SkipEvent(w, e)
        PROVE  UNCHANGED <<row, failures, inbox>> /\ Moved /\ ClockOK'
    BY <2>3, NextEventMoves DEF SkipEvent, IInv, ClockOK
  <2>4. CASE ResolveAudience(w)
    BY <2>4, GoOnMoves DEF ResolveAudience, IInv, ClockOK, Held
  <2>5. CASE Abandon(w)
    BY <2>5, ReturnMoves DEF Abandon, IInv, ClockOK
  <2>6. QED
    BY <1>1, <2>1, <2>2, <2>3, <2>4, <2>5
<1>2. CASE Tick \/ UNCHANGED vars
  <2>1. UNCHANGED <<row, failures, inbox>> /\ UNCHANGED local /\ ClockOK'
    BY <1>2 DEF Tick, vars, IInv, ClockOK
  <2>2. Moved
    BY <2>1 DEF local, IInv, LocalOK, Moved, Held
  <2>3. QED
    BY <2>1, <2>2, KeepInv
<1>3. QED
  BY <1>1, <1>2, KeepInv DEF Silent

LEMMA Steps ==
  ASSUME [Next]_vars
  PROVE  \/ Silent
         \/ \E e \in Events : InsertEvent(e)
         \/ \E w \in Workers, e \in Events : Claim(w, e) \/ RereadEvent(w, e)
         \/ \E w \in Workers : Materialize(w) \/ RecordFailure(w)
         \/ \E u \in Users, g \in Groups : AcknowledgeAlert(u, g)
  BY DEF Next, Silent

LEMMA NextInv == IInv /\ [Next]_vars => IInv'
  BY Steps, SilentInv, InsertEventInv, ClaimInv, RereadEventInv,
     MaterializeInv, RecordFailureInv, AcknowledgeAlertInv

\* The inductive invariant, of which the properties below are parts.
THEOREM Inductive == Spec => []IInv
  BY InitInv, NextInv, PTL DEF Spec

\* Columns and locals keep their types; no attempt beyond the last is counted.
THEOREM TypeCorrect == Spec => []TypeOK
  BY Inductive, InvTypes, PTL

\* The failure rows of an event are exactly its attempts, and a dead letter
\* ends them exactly when the event has failed for good.
THEOREM EvidenceHolds == Spec => []EvidenceIsComplete
<1>1. IInv => EvidenceIsComplete
  BY DEF IInv
<1>2. QED
  BY <1>1, Inductive, PTL

\* However often an event is claimed and retried, it takes effect once.
THEOREM EffectsOnce == Spec => []EffectsHappenOnce
<1>1. IInv => EffectsHappenOnce
  BY DEF IInv
<1>2. QED
  BY <1>1, Inductive, PTL

\* In whatever order the events of an alert are materialised, its group and
\* its items show the newest.
THEOREM NewestIsShown == Spec => []RowsShowNewestEvent
<1>1. IInv => RowsShowNewestEvent
  BY DEF IInv
<1>2. QED
  BY <1>1, Inductive, PTL

-----------------------------------------------------------------------------
(* Acknowledgements.                                                       *)

\* A transition that changes a group is at least as new as the group.
LEMMA TransitionIsNewer ==
  ASSUME NEW e, NEW old, old # NoRow, TransitionAlertGroup(old, e) # old
  PROVE  NotNewer(old.last, e)
  BY DEF TransitionAlertGroup

\* Only a newer event ends an acknowledgement.
THEOREM AcknowledgementsStand == Spec => AcknowledgementStands
<1>1. ASSUME IInv, [Next]_vars, NEW u \in Users, NEW g \in Groups,
             groups[<<u, g>>] # NoRow,
             groups[<<u, g>>].state = "acknowledged",
             groups'[<<u, g>>].state # "acknowledged"
      PROVE  \E e \in Events : /\ status[e] # "materialized"
                               /\ status'[e] = "materialized"
                               /\ OccurredAt[e] >= groups[<<u, g>>].last
  <2> USE <1>1
  <2>1. ~UNCHANGED inbox
    BY DEF inbox
  <2>2. ~\E v \in Users, h \in Groups : AcknowledgeAlert(v, h)
    BY DEF AcknowledgeAlert, IInv, InboxOK
  <2>3. PICK w \in Workers : Materialize(w)
    <3>1. ~Silent
      BY <2>1, SilentInv
    <3>2. QED
      BY <2>1, <2>2, <3>1, Steps
         DEF InsertEvent, Claim, RereadEvent, RecordFailure
  <2> DEFINE e == claim[w].event
  <2>4. WriteInbox(claim[w]) /\ claim[w] \in Claims
    BY <2>1, <2>3 DEF Materialize, Held, IInv, LocalOK
  <2>5. /\ e \in Events /\ status[e] = "processing"
        /\ status'[e] = "materialized"
    BY <2>4 DEF WriteInbox, Fenced, Claims, IInv, RowOK
  <2>6. /\ groups[<<u, g>>] \in GroupRows
        /\ groups'[<<u, g>>] = TransitionAlertGroup(groups[<<u, g>>], e)
    BY <2>4 DEF WriteInbox, IInv, InboxOK
  <2>7. groups[<<u, g>>].last <= OccurredAt[e]
    BY <2>6, TransitionIsNewer DEF NotNewer
  <2>8. OccurredAt[e] \in Nat /\ groups[<<u, g>>].last \in Nat
    BY <2>5, <2>6, ContentAssumption DEF GroupRows
  <2>9. QED
    BY <2>5, <2>7, <2>8
<1>2. IInv /\ [Next]_vars =>
        [\A u \in Users, g \in Groups :
           /\ groups[<<u, g>>] # NoRow
           /\ groups[<<u, g>>].state = "acknowledged"
           /\ groups'[<<u, g>>].state # "acknowledged"
           => \E e \in Events : /\ status[e] # "materialized"
                                /\ status'[e] = "materialized"
                                /\ OccurredAt[e] >= groups[<<u, g>>].last]_vars
  BY <1>1
<1>3. QED
  BY <1>2, Inductive, PTL DEF Spec, AcknowledgementStands

-----------------------------------------------------------------------------
(* Mirroring, when every event that is stored carries an alert.            *)

AlertsOnly == \A e \in Events : status[e] # "absent" => alertState[e] # NoAlert

\* Group and item begin together, and show one state of one time.
Mirrors(group, item) == /\ group = NoRow <=> item = NoRow
                        /\ group # NoRow => /\ item.state = group.state
                                            /\ item.last = group.last

GroupsMirrored == \A u \in Users, g \in Groups :
                    Mirrors(groups[<<u, g>>], items[<<u, <<"group", g>>>>])

MInv == IInv /\ AlertsOnly /\ GroupsMirrored

LEMMA MirrorKept ==
  ASSUME IInv, NEW e \in Events, alertState[e] # NoAlert,
         NEW group \in GroupRows \union {NoRow},
         NEW item \in ItemRows \union {NoRow}, Mirrors(group, item)
  PROVE  Mirrors(TransitionAlertGroup(group, e), UpsertInboxItem(item, e))
<1> DEFINE value(n) == [state |-> alertState[e], count |-> n,
                        last |-> OccurredAt[e], event |-> e]
<1>1. \A n \in Nat : value(n) # NoRow
  <2>1. alertState[e] \in {"firing", "acknowledged", "resolved"}
    BY ContentAssumption DEF IInv, RowOK
  <2>2. \A n \in Nat : value(n) \in GroupRows
    BY <2>1, ContentAssumption DEF GroupRows
  <2>3. QED
    BY <2>2, RowAssumption
<1>2. CASE group = NoRow
  BY <1>1, <1>2 DEF Mirrors, TransitionAlertGroup, UpsertInboxItem
<1>3. CASE group # NoRow /\ ~NotNewer(group.last, e)
  BY <1>3 DEF Mirrors, TransitionAlertGroup, UpsertInboxItem
<1>4. CASE group # NoRow /\ NotNewer(group.last, e)
  <2>1. item # NoRow /\ NotNewer(item.last, e)
        /\ group.count \in Nat /\ item.count \in Nat
    BY <1>4 DEF Mirrors, GroupRows, ItemRows
  <2>2. PICK m \in Nat : TransitionAlertGroup(group, e) = value(m)
    BY <1>4, <2>1 DEF TransitionAlertGroup
  <2>3. PICK n \in Nat : UpsertInboxItem(item, e) = value(n)
    BY <2>1 DEF UpsertInboxItem
  <2>4. QED
    BY <1>1, <2>2, <2>3 DEF Mirrors
<1>5. QED
  BY <1>2, <1>3, <1>4

LEMMA MirroredStep ==
  ASSUME NoAlert \notin AlertStates, MInv, [Next]_vars
  PROVE  MInv'
<1> USE DEF MInv
<1>1. IInv'
  BY NextInv
<1>2. CASE UNCHANGED <<status, alertState, groups, items>>
  BY <1>1, <1>2 DEF AlertsOnly, GroupsMirrored, Mirrors
<1>3. ASSUME NEW e \in Events, InsertEvent(e) PROVE MInv'
  <2>1. AlertsOnly'
    BY <1>3 DEF InsertEvent, AlertsOnly, IInv, RowOK
  <2>2. GroupsMirrored'
    BY <1>3 DEF InsertEvent, inbox, GroupsMirrored, Mirrors
  <2>3. QED
    BY <1>1, <2>1, <2>2
<1>4. ASSUME NEW w \in Workers, NEW e \in Events,
             Claim(w, e) \/ RereadEvent(w, e)
      PROVE  MInv'
  <2>1. AlertsOnly'
    BY <1>4 DEF Claim, RereadEvent, Due, row, AlertsOnly, IInv, RowOK
  <2>2. UNCHANGED <<groups, items>>
    BY <1>4 DEF Claim, RereadEvent, inbox
  <2>3. QED
    BY <1>1, <2>1, <2>2 DEF GroupsMirrored, Mirrors
<1>5. ASSUME NEW w \in Workers, RecordFailure(w) PROVE MInv'
  <2>1. claim[w].event \in Events
    BY <1>5 DEF RecordFailure, Held, IInv, LocalOK, Claims
  <2>2. AlertsOnly'
    BY <1>5, <2>1 DEF RecordFailure, Fenced, row, AlertsOnly, IInv, RowOK
  <2>3. GroupsMirrored'
    BY <1>5 DEF RecordFailure, inbox, GroupsMirrored, Mirrors
  <2>4. QED
    BY <1>1, <2>2, <2>3
<1>6. ASSUME NEW c \in Claims, WriteInbox(c), UNCHANGED alertState PROVE MInv'
  <2> DEFINE e == c.event
  <2>1. /\ e \in Events /\ status[e] = "processing"
        /\ status' = [status EXCEPT ![e] = "materialized"]
        /\ alertState[e] # NoAlert
    BY <1>6 DEF Claims, WriteInbox, Fenced, AlertsOnly
  <2>2. AlertsOnly'
    BY <1>6, <2>1 DEF AlertsOnly, IInv, RowOK
  <2>3. ASSUME NEW u \in Users, NEW g \in Groups
        PROVE  Mirrors(groups'[<<u, g>>], items'[<<u, <<"group", g>>>>])
    <3> DEFINE i == <<"group", g>>
    <3>1. i \in Identities /\ (i = Identity(e) <=> g = GroupOf[e])
      <4>1. g # NoGroup /\ i \in Identities
        BY DEF Groups, Identities, Identity
      <4>2. <<"event", e>> # <<"group", g>>
        OBVIOUS
      <4>3. <<"group", GroupOf[e]>> = <<"group", g>> <=> GroupOf[e] = g
        OBVIOUS
      <4> HIDE DEF e
      <4>4. QED
        BY <4>1, <4>2, <4>3 DEF Identity
    <3>2. /\ groups[<<u, g>>] \in GroupRows \union {NoRow}
          /\ items[<<u, i>>] \in ItemRows \union {NoRow}
          /\ Mirrors(groups[<<u, g>>], items[<<u, i>>])
      BY <3>1 DEF IInv, InboxOK, GroupsMirrored
    <3> HIDE DEF i
    <3>3. CASE u \in Recipients[e] /\ g = GroupOf[e]
      <4>1. /\ groups'[<<u, g>>] = TransitionAlertGroup(groups[<<u, g>>], e)
            /\ items'[<<u, i>>] = UpsertInboxItem(items[<<u, i>>], e)
        BY <1>6, <3>1, <3>3 DEF WriteInbox
      <4> HIDE DEF e
      <4>2. QED
        BY <2>1, <3>2, <4>1, MirrorKept DEF i
    <3>4. CASE ~(u \in Recipients[e] /\ g = GroupOf[e])
      <4>1. /\ groups'[<<u, g>>] = groups[<<u, g>>]
            /\ items'[<<u, i>>] = items[<<u, i>>]
        BY <1>6, <3>1, <3>4 DEF WriteInbox
      <4>2. QED
        BY <3>2, <4>1 DEF i
    <3>5. QED
      BY <3>3, <3>4
  <2>4. QED
    BY <1>1, <2>2, <2>3 DEF GroupsMirrored, Mirrors
<1>7. ASSUME NEW w \in Workers, Materialize(w) PROVE MInv'
  <2>1. claim[w] \in Claims
    BY <1>7 DEF Materialize, Held, IInv, LocalOK
  <2>2. \/ UNCHANGED <<status, alertState, groups, items>>
        \/ WriteInbox(claim[w]) /\ UNCHANGED alertState
    BY <1>7 DEF Materialize, row, inbox
  <2>3. QED
    BY <1>2, <1>6, <2>1, <2>2
<1>8. ASSUME NEW u \in Users, NEW g \in Groups, AcknowledgeAlert(u, g)
      PROVE  MInv'
  <2> DEFINE i == <<"group", g>>
  <2>1. /\ i \in Identities
        /\ groups[<<u, g>>] \in GroupRows /\ items[<<u, i>>] \in ItemRows
    BY <1>8 DEF AcknowledgeAlert, IInv, InboxOK, Groups, Identities, Identity
  <2>2. /\ groups' = [groups EXCEPT ![<<u, g>>].state = "acknowledged"]
        /\ items' = [items EXCEPT ![<<u, i>>].state = "acknowledged"]
        /\ UNCHANGED row
    BY <1>8 DEF AcknowledgeAlert
  <2>3. /\ groups'[<<u, g>>] \in GroupRows
        /\ groups'[<<u, g>>].state = "acknowledged"
        /\ groups'[<<u, g>>].last = groups[<<u, g>>].last
        /\ items'[<<u, i>>] \in ItemRows
        /\ items'[<<u, i>>].state = "acknowledged"
        /\ items'[<<u, i>>].last = items[<<u, i>>].last
    BY <2>1, <2>2 DEF IInv, InboxOK, GroupRows, ItemRows
  <2>4. Mirrors(groups[<<u, g>>], items[<<u, i>>])
    BY DEF GroupsMirrored
  <2>5. Mirrors(groups'[<<u, g>>], items'[<<u, i>>])
    BY <2>1, <2>3, <2>4, RowAssumption DEF Mirrors
  <2>6. ASSUME NEW v \in Users, NEW h \in Groups, ~(v = u /\ h = g)
        PROVE  Mirrors(groups'[<<v, h>>], items'[<<v, <<"group", h>>>>])
    <3>1. <<"group", h>> \in Identities
      BY DEF Groups, Identities, Identity
    <3>2. /\ groups'[<<v, h>>] = groups[<<v, h>>]
          /\ items'[<<v, <<"group", h>>>>] = items[<<v, <<"group", h>>>>]
      BY <2>2, <2>6, <3>1 DEF IInv, InboxOK
    <3>3. QED
      BY <3>2 DEF GroupsMirrored
  <2>7. AlertsOnly'
    BY <2>2 DEF row, AlertsOnly
  <2> HIDE DEF i
  <2>8. \A v \in Users, h \in Groups :
          Mirrors(groups'[<<v, h>>], items'[<<v, <<"group", h>>>>])
    BY <2>5, <2>6 DEF i
  <2>9. QED
    BY <1>1, <2>7, <2>8 DEF GroupsMirrored, Mirrors
<1>9. CASE Silent
  BY <1>2, <1>9, SilentInv DEF row, inbox
<1>10. QED
  BY <1>3, <1>4, <1>5, <1>7, <1>8, <1>9, Steps

\* If every event carries an alert, a recipient's item shows the state of its
\* group; plain events must not share the group key of an alert.
THEOREM AlertsAreMirrored ==
  ASSUME NoAlert \notin AlertStates
  PROVE  Spec => []InboxMirrorsAlert
<1>1. Init => MInv
  <2>1. ASSUME Init, NEW u \in Users, NEW g \in Groups
        PROVE  Mirrors(groups[<<u, g>>], items[<<u, <<"group", g>>>>])
    <3>1. <<"group", g>> \in Identities
      BY DEF Groups, Identities, Identity
    <3>2. groups[<<u, g>>] = NoRow /\ items[<<u, <<"group", g>>>>] = NoRow
      BY <2>1, <3>1 DEF Init
    <3>3. QED
      BY <3>2 DEF Mirrors
  <2>2. Init => AlertsOnly
    BY DEF Init, AlertsOnly
  <2>3. Init => GroupsMirrored
    BY <2>1 DEF GroupsMirrored
  <2>4. QED
    BY <2>2, <2>3, InitInv DEF MInv
<1>2. MInv /\ [Next]_vars => MInv'
  BY MirroredStep
<1>3. MInv => InboxMirrorsAlert
  BY DEF MInv, GroupsMirrored, Mirrors, InboxMirrorsAlert
<1>4. QED
  BY <1>1, <1>2, <1>3, PTL DEF Spec

-----------------------------------------------------------------------------
(* The event queue implements DurableWork.                                 *)

PhaseOf == [e \in Events |-> Phase(e)]

LEMMA InsertSubmits ==
  ASSUME IInv, NEW e \in Events, InsertEvent(e)
  PROVE  Durable!Submit(e)
<1>1. Phase(e) = "absent"
  BY DEF InsertEvent, Phase
<1>2. PhaseOf' = [PhaseOf EXCEPT ![e] = "open"]
  <2>1. \A d \in Events : PhaseOf'[d] = IF d = e THEN "open" ELSE PhaseOf[d]
    BY DEF InsertEvent, PhaseOf, Phase, IInv, RowOK
  <2>2. QED
    BY <2>1 DEF PhaseOf
<1>3. QED
  BY <1>1, <1>2 DEF Durable!Submit, PhaseOf, InsertEvent

LEMMA ClaimLeases ==
  ASSUME IInv, NEW w \in Workers, NEW e \in Events, Claim(w, e)
  PROVE  Durable!Lease(e)
<1>1. Phase(e) \in {"open", "leased"}
  BY DEF Claim, Due, Phase
<1>2. PhaseOf' = [PhaseOf EXCEPT ![e] = "leased"]
  <2>1. \A d \in Events : PhaseOf'[d] = IF d = e THEN "leased" ELSE PhaseOf[d]
    BY DEF Claim, PhaseOf, Phase, IInv, RowOK
  <2>2. QED
    BY <2>1 DEF PhaseOf
<1>3. QED
  BY <1>1, <1>2 DEF Durable!Lease, PhaseOf, Claim

\* A materialised event is finished.
LEMMA WriteInboxFinishes ==
  ASSUME IInv, NEW c \in Claims, WriteInbox(c),
         UNCHANGED <<attemptCount, fencingToken>>
  PROVE  Durable!Finish({c.event})
<1> DEFINE e == c.event
<1>1. /\ e \in Events /\ Phase(e) = "leased"
      /\ status' = [status EXCEPT ![e] = "materialized"]
  BY DEF WriteInbox, Fenced, Claims, Phase
<1>2. PhaseOf' = [d \in Events |-> IF d \in {e} THEN "closed" ELSE PhaseOf[d]]
  BY <1>1 DEF PhaseOf, Phase, IInv, RowOK
<1>3. QED
  BY <1>1, <1>2 DEF Durable!Finish, PhaseOf

\* A recorded failure is one failed attempt of the row.
LEMMA RecordFailureFails ==
  ASSUME IInv, NEW w \in Workers, RecordFailure(w), Fenced(claim[w])
  PROVE  Durable!Fail(claim[w].event)
<1> DEFINE e == claim[w].event
<1>1. /\ e \in Events /\ Phase(e) = "leased" /\ status[e] = "processing"
      /\ claim[w].attempts = attemptCount[e]
  BY DEF RecordFailure, Held, IInv, LocalOK, Claims, ClaimsFresh, FreshClaim,
         Fenced, Phase
<1>2. attemptCount[e] \in 0 .. MaximumAttempts - 1
  BY <1>1, LimitAssumption DEF IInv, RowOK, FailedIffExhausted
<1>3. /\ status' = [status EXCEPT ![e] =
                      IF attemptCount[e] + 1 < MaximumAttempts
                      THEN "queued" ELSE "failed"]
      /\ attemptCount' = [attemptCount EXCEPT ![e] = @ + 1]
      /\ fencingToken' = fencingToken
  BY <1>1 DEF RecordFailure, RetryAllowed
<1>4. PhaseOf' = [PhaseOf EXCEPT ![e] =
                    IF attemptCount[e] + 1 < MaximumAttempts
                    THEN "open" ELSE "closed"]
  BY <1>1, <1>3 DEF PhaseOf, Phase, IInv, RowOK
<1>5. attemptCount[e] < MaximumAttempts
  BY <1>2, LimitAssumption
<1>6. QED
  BY <1>1, <1>3, <1>4, <1>5 DEF Durable!Fail, PhaseOf

\* The event queue keeps the promises of DurableWork.
THEOREM Refinement == Spec => ImplementsDurableWork
<1>1. Init => Durable!Init
  BY DEF Init, Durable!Init, Phase
<1>2. IInv /\ [Next]_vars => [Durable!Next]_(Durable!work)
  <2> SUFFICES ASSUME IInv, [Next]_vars
               PROVE  Durable!Next \/ UNCHANGED Durable!work
    OBVIOUS
  <2>1. CASE UNCHANGED row
    BY <2>1 DEF row, Durable!work, Phase
  <2>2. CASE \E e \in Events : InsertEvent(e)
    BY <2>2, InsertSubmits DEF Durable!Next
  <2>3. CASE \E w \in Workers, e \in Events : Claim(w, e) \/ RereadEvent(w, e)
    BY <2>1, <2>3, ClaimLeases DEF Durable!Next, RereadEvent
  <2>4. ASSUME NEW w \in Workers, Materialize(w)
        PROVE  Durable!Next \/ UNCHANGED Durable!work
    <3>1. claim[w] \in Claims
      BY <2>4 DEF Materialize, Held, IInv, LocalOK
    <3>2. CASE WriteInbox(claim[w]) /\ UNCHANGED <<attemptCount, fencingToken>>
      <4>1. {claim[w].event} \in SUBSET Events
        BY <3>1 DEF Claims
      <4>2. QED
        BY <3>1, <3>2, <4>1, WriteInboxFinishes DEF Durable!Next
    <3>3. QED
      BY <2>1, <2>4, <3>2 DEF Materialize
  <2>5. ASSUME NEW w \in Workers, RecordFailure(w)
        PROVE  Durable!Next \/ UNCHANGED Durable!work
    <3>1. claim[w].event \in Events
      BY <2>5 DEF RecordFailure, Held, IInv, LocalOK, Claims
    <3>2. CASE Fenced(claim[w])
      BY <2>5, <3>1, <3>2, RecordFailureFails DEF Durable!Next
    <3>3. CASE ~Fenced(claim[w])
      BY <2>1, <2>5, <3>3 DEF RecordFailure
    <3>4. QED
      BY <3>2, <3>3
  <2>6. CASE Silent \/ \E u \in Users, g \in Groups : AcknowledgeAlert(u, g)
    BY <2>1, <2>6, SilentInv DEF AcknowledgeAlert
  <2>7. QED
    BY <2>2, <2>3, <2>4, <2>5, <2>6, Steps
<1>3. QED
  BY <1>1, <1>2, Inductive, PTL DEF Spec, ImplementsDurableWork, Durable!Spec
=============================================================================

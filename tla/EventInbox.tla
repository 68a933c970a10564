----------------------------- MODULE EventInbox -----------------------------
(***************************************************************************)
(* The event queue and the inbox it fills: the rows of                     *)
(* _notification_events and _notification_event_failures, the inbox items, *)
(* alert groups and channel plans a materialisation writes, the processors *)
(* that do it, and the recipients who acknowledge alerts meanwhile.        *)
(*                                                                         *)
(* A worker is one call of the inbox Processor.Process or ProcessDue.      *)
(* Every store call is one step; a store call that is a serializable       *)
(* transaction is one step too.  Events are numbered in the order          *)
(* (occurred_at, id) in which ListDue returns them.  Time is a natural     *)
(* number; 0 stands for the empty timestamp.                               *)
(***************************************************************************)
EXTENDS Integers, FiniteSets

CONSTANTS
  Events,            \* the events of one workspace
  Workers,           \* concurrent runs of the inbox processor
  OwnerOf,           \* the WorkerID of a worker's process
  NoOwner,           \* the empty lease_owner
  Users,             \* possible recipients
  Recipients,        \* whom an event's audience resolves to
  GroupOf,           \* the event's GroupKey, NoGroup if it has none
  NoGroup,
  OccurredAt,        \* the event's own time
  AlertStates,       \* the alert states producers publish, NoAlert for ""
  NoAlert,
  WithPlans,         \* the events that carry channel plans
  LeaseDuration,     \* eventLeaseDuration
  MaximumAttempts,   \* maximumAttempts
  RetryDelay,        \* worker.RetryPolicy.Delay of attempt 1, 2, ...
  BatchLimit,        \* limit of ProcessDue
  NoRow,             \* no such group or item yet
  NoClaim,           \* the worker holds no claimed event
  MaxTime,           \* bound: the clock stops here
  MaxAbandons        \* bound: how often a worker may stop half way

ASSUME EventsAssumption == Events \subseteq Nat
ASSUME OwnerAssumption == \A w \in Workers : OwnerOf[w] # NoOwner
ASSUME ContentAssumption ==
  /\ Recipients \in [Events -> SUBSET Users]
  /\ DOMAIN GroupOf = Events
  /\ OccurredAt \in [Events -> Nat]
  /\ \A d, e \in Events : d < e => OccurredAt[d] <= OccurredAt[e]
  /\ AlertStates \subseteq {NoAlert, "firing", "acknowledged", "resolved"}
  /\ NoAlert \notin {"firing", "acknowledged", "resolved"}
  /\ WithPlans \subseteq Events

\* Alert groups and inbox items.
GroupRows == [state : {"firing", "acknowledged", "resolved"}, count : Nat,
              last : Nat, event : Events]
ItemRows == [state : {NoAlert, "firing", "acknowledged", "resolved"},
             count : Nat, last : Nat, event : Events]

ASSUME RowAssumption == NoRow \notin GroupRows \union ItemRows
ASSUME LimitAssumption ==
  /\ LeaseDuration \in Nat \ {0} /\ MaximumAttempts \in Nat \ {0}
  /\ RetryDelay \in [1 .. MaximumAttempts -> Nat]
  /\ BatchLimit \in Nat /\ MaxTime \in Nat /\ MaxAbandons \in Nat

VARIABLES
  (* the row of each event *)
  status, attemptCount, nextAttemptAt, leaseOwner, leaseExpiresAt,
  fencingToken,
  alertState,   \* chosen by the producer, fixed once the event is stored
  failures,     \* rows of _notification_event_failures
  (* what materialisation writes *)
  groups,       \* alert groups by recipient and group key
  items,        \* inbox items by recipient and identity
  planned,      \* events whose channel plans have been inserted
  (* the local state of each worker *)
  pc, now,
  todo,         \* listed events still to be processed, the current one too
  claim,        \* the event as read back after the claim
  (* environment and bookkeeping *)
  clock, abandons

row == <<status, attemptCount, nextAttemptAt, leaseOwner, leaseExpiresAt,
         fencingToken, alertState>>
inbox == <<groups, items, planned>>
local == <<pc, now, todo, claim>>
vars == <<row, failures, inbox, local, clock, abandons>>

Groups == {GroupOf[e] : e \in Events} \ {NoGroup}

\* itemFromEvent: one item per recipient and group, or else per event.
Identity(e) == IF GroupOf[e] = NoGroup THEN <<"event", e>>
                                       ELSE <<"group", GroupOf[e]>>
Identities == {Identity(e) : e \in Events}

Owners == {OwnerOf[w] : w \in Workers} \union {NoOwner}
Claims == [event : Events, owner : Owners, token : Nat, attempts : Nat]

-----------------------------------------------------------------------------
(* What one event writes for one recipient, inside the transaction.        *)

\* Faulty: a late event overwrites what a newer one has written.
AnyTime(last, e) == TRUE

\* WHERE last_occurred_at <= the event's time.
NotNewer(last, e) == last <= OccurredAt[e]

\* transitionAlertGroup: a continuing alert follows its newest event.
TransitionAlertGroup(old, e) ==
  LET increment == IF alertState[e] = "firing" THEN 1 ELSE 0
      value(count) == [state |-> alertState[e], count |-> count,
                       last |-> OccurredAt[e], event |-> e]
  IN CASE alertState[e] = NoAlert -> old
       [] alertState[e] # NoAlert /\ old = NoRow -> value(increment)
       [] OTHER -> IF NotNewer(old.last, e)
                   THEN value(old.count + increment) ELSE old

\* Faulty: the item takes every event, also one the group has ignored.
UpsertEveryTime(old, e) ==
  [state |-> alertState[e], count |-> IF old = NoRow THEN 1 ELSE old.count + 1,
   last |-> OccurredAt[e], event |-> e]

\* upsertInboxItem: the first event inserts the item with a count of one.
UpsertInboxItem(old, e) ==
  LET increment == IF alertState[e] = "resolved" THEN 0 ELSE 1
      value(count) == [state |-> alertState[e], count |-> count,
                       last |-> OccurredAt[e], event |-> e]
  IN IF old = NoRow THEN value(1)
     ELSE IF NotNewer(old.last, e) THEN value(old.count + increment) ELSE old

-----------------------------------------------------------------------------
(* Leases.                                                                 *)

\* Faulty: the second alternative forgets the status.
DueByLeaseAlone(e, t) ==
  \/ status[e] = "queued" /\ nextAttemptAt[e] <= t
  \/ status[e] # "absent" /\ leaseExpiresAt[e] <= t

Due(e, t) ==
  \/ status[e] = "queued" /\ nextAttemptAt[e] <= t
  \/ status[e] = "processing" /\ leaseExpiresAt[e] <= t

ListDue(t) ==
  LET due == {e \in Events : Due(e, t)}
  IN {e \in due : Cardinality({d \in due : d < e}) < BatchLimit}

\* Faulty: the updates select the row by its ID alone.
FencedById(c) == TRUE

\* Faulty: the updates check neither the owner nor the token.
FencedByStatus(c) == status[c.event] = "processing"

\* WHERE id, status = processing, lease_owner, fencing_token.
Fenced(c) == /\ status[c.event] = "processing"
             /\ leaseOwner[c.event] = c.owner
             /\ fencingToken[c.event] = c.token

Return(w) == /\ pc' = [pc EXCEPT ![w] = "idle"]
             /\ now' = [now EXCEPT ![w] = 0]
             /\ todo' = [todo EXCEPT ![w] = {}]
             /\ claim' = [claim EXCEPT ![w] = NoClaim]

Current(w, e) == e \in todo[w] /\ \A d \in todo[w] : e <= d

\* ProcessDue's loop after it is done with event e.
NextEvent(w, e) ==
  \/ /\ todo[w] = {e}
     /\ Return(w)
  \/ /\ todo[w] # {e}
     /\ todo' = [todo EXCEPT ![w] = @ \ {e}]
     /\ pc' = [pc EXCEPT ![w] = "claim"]
     /\ claim' = [claim EXCEPT ![w] = NoClaim]
     /\ UNCHANGED now

-----------------------------------------------------------------------------
(* Actions.                                                                *)

Init ==
  /\ status = [e \in Events |-> "absent"]
  /\ attemptCount = [e \in Events |-> 0]
  /\ nextAttemptAt = [e \in Events |-> 0]
  /\ leaseOwner = [e \in Events |-> NoOwner]
  /\ leaseExpiresAt = [e \in Events |-> 0]
  /\ fencingToken = [e \in Events |-> 0]
  /\ alertState = [e \in Events |-> NoAlert]
  /\ failures = {}
  /\ groups = [k \in Users \X Groups |-> NoRow]
  /\ items = [k \in Users \X Identities |-> NoRow]
  /\ planned = {}
  /\ pc = [w \in Workers |-> "idle"]
  /\ now = [w \in Workers |-> 0]
  /\ todo = [w \in Workers |-> {}]
  /\ claim = [w \in Workers |-> NoClaim]
  /\ clock = 1
  /\ abandons = 0

\* Enqueue, or InsertEvent in a transaction of the producer: the unique keys
\* leave a repeated or a rolled back insertion without effect.  An alert
\* state needs a group key.
InsertEvent(e) ==
  /\ status[e] = "absent"
  /\ \E a \in AlertStates :
       /\ a # NoAlert => GroupOf[e] # NoGroup
       /\ alertState' = [alertState EXCEPT ![e] = a]
  /\ status' = [status EXCEPT ![e] = "queued"]
  /\ UNCHANGED <<attemptCount, nextAttemptAt, leaseOwner, leaseExpiresAt,
                 fencingToken, failures, inbox, local, clock, abandons>>

\* ProcessDue: read the clock once and list the due events.
ProcessDue(w) ==
  /\ pc[w] = "idle"
  /\ ListDue(clock) # {}
  /\ todo' = [todo EXCEPT ![w] = ListDue(clock)]
  /\ now' = [now EXCEPT ![w] = clock]
  /\ pc' = [pc EXCEPT ![w] = "claim"]
  /\ UNCHANGED <<row, failures, inbox, claim, clock, abandons>>

\* Process: a wakeup hint for one event.
Process(w, e) ==
  /\ pc[w] = "idle"
  /\ status[e] # "absent"
  /\ todo' = [todo EXCEPT ![w] = {e}]
  /\ now' = [now EXCEPT ![w] = clock]
  /\ pc' = [pc EXCEPT ![w] = "claim"]
  /\ UNCHANGED <<row, failures, inbox, claim, clock, abandons>>

\* Claim, first statement: the conditional UPDATE.
Claim(w, e) ==
  /\ pc[w] = "claim"
  /\ Current(w, e)
  /\ Due(e, now[w])
  /\ status' = [status EXCEPT ![e] = "processing"]
  /\ leaseOwner' = [leaseOwner EXCEPT ![e] = OwnerOf[w]]
  /\ leaseExpiresAt' = [leaseExpiresAt EXCEPT ![e] = now[w] + LeaseDuration]
  /\ fencingToken' = [fencingToken EXCEPT ![e] = @ + 1]
  /\ pc' = [pc EXCEPT ![w] = "reread"]
  /\ UNCHANGED <<attemptCount, nextAttemptAt, alertState, failures, inbox,
                 now, todo, claim, clock, abandons>>

\* The UPDATE matched no row: not due any more, or somebody else has it.
SkipEvent(w, e) ==
  /\ pc[w] = "claim"
  /\ Current(w, e)
  /\ ~Due(e, now[w])
  /\ NextEvent(w, e)
  /\ UNCHANGED <<row, failures, inbox, clock, abandons>>

\* Claim, second statement: read the row back, by its ID alone.
RereadEvent(w, e) ==
  /\ pc[w] = "reread"
  /\ Current(w, e)
  /\ claim' = [claim EXCEPT ![w] = [event |-> e, owner |-> leaseOwner[e],
                                    token |-> fencingToken[e],
                                    attempts |-> attemptCount[e]]]
  /\ pc' = [pc EXCEPT ![w] = "resolve"]
  /\ UNCHANGED <<row, failures, inbox, now, todo, clock, abandons>>

\* Audience and locale resolution, by services of the host.
ResolveAudience(w) ==
  /\ pc[w] = "resolve"
  /\ \E next \in {"materialize", "fail"} : pc' = [pc EXCEPT ![w] = next]
  /\ UNCHANGED <<row, failures, inbox, now, todo, claim, clock, abandons>>

\* The transaction of Materialize: every recipient's group and item, the
\* plans, and last the fenced update of the event; all of it or nothing.
WriteInbox(c) ==
  LET e == c.event IN
  /\ Fenced(c)
  /\ e \notin planned
  /\ groups' = [k \in Users \X Groups |->
                  IF k[1] \in Recipients[e] /\ k[2] = GroupOf[e]
                  THEN TransitionAlertGroup(groups[k], e) ELSE groups[k]]
  /\ items' = [k \in Users \X Identities |->
                 IF k[1] \in Recipients[e] /\ k[2] = Identity(e)
                 THEN UpsertInboxItem(items[k], e) ELSE items[k]]
  /\ planned' = IF e \in WithPlans THEN planned \union {e} ELSE planned
  /\ status' = [status EXCEPT ![e] = "materialized"]
  /\ leaseOwner' = [leaseOwner EXCEPT ![e] = NoOwner]
  /\ leaseExpiresAt' = [leaseExpiresAt EXCEPT ![e] = 0]

\* Materialize: it commits, it commits and the answer is lost, or it fails.
Materialize(w) ==
  /\ pc[w] = "materialize"
  /\ \/ /\ WriteInbox(claim[w])
        /\ \/ NextEvent(w, claim[w].event)
           \/ /\ pc' = [pc EXCEPT ![w] = "fail"]
              /\ UNCHANGED <<now, todo, claim>>
        /\ UNCHANGED <<attemptCount, nextAttemptAt, fencingToken, alertState>>
     \/ /\ pc' = [pc EXCEPT ![w] = "fail"]
        /\ UNCHANGED <<row, inbox, now, todo, claim>>
  /\ UNCHANGED <<failures, clock, abandons>>

\* Faulty: one attempt too many.
RetryAllowedOnceMore(attempt) == attempt <= MaximumAttempts

\* worker.RetryPolicy.Allows, which belongs to domainry-foundation.
RetryAllowed(attempt) == attempt < MaximumAttempts

\* recordFailure and transitionFailure: the fenced update and the evidence,
\* in one transaction; a lost lease ends the whole run with an error.
RecordFailure(w) ==
  /\ pc[w] = "fail"
  /\ LET c == claim[w]
         e == c.event
         attempt == c.attempts + 1
         retry == RetryAllowed(attempt)
     IN \/ /\ Fenced(c)
           /\ status' = [status EXCEPT
                           ![e] = IF retry THEN "queued" ELSE "failed"]
           /\ attemptCount' = [attemptCount EXCEPT ![e] = @ + 1]
           /\ nextAttemptAt' = [nextAttemptAt EXCEPT
                ![e] = IF retry THEN now[w] + RetryDelay[attempt] ELSE 0]
           /\ leaseOwner' = [leaseOwner EXCEPT ![e] = NoOwner]
           /\ leaseExpiresAt' = [leaseExpiresAt EXCEPT ![e] = 0]
           /\ failures' = failures \union
                {[event |-> e, token |-> c.token, attempt |-> attempt,
                  disposition |-> IF retry THEN "retry_scheduled"
                                           ELSE "dead_letter"]}
           /\ NextEvent(w, e)
           /\ UNCHANGED <<fencingToken, alertState>>
        \/ /\ ~Fenced(c)
           /\ Return(w)
           /\ UNCHANGED <<row, failures>>
  /\ UNCHANGED <<inbox, clock, abandons>>

\* A crash, a cancelled context or a database error between two store calls.
Abandon(w) ==
  /\ pc[w] # "idle"
  /\ abandons < MaxAbandons
  /\ abandons' = abandons + 1
  /\ Return(w)
  /\ UNCHANGED <<row, failures, inbox, clock>>

\* AcknowledgeAlert: the recipient's item says firing, and so must the group;
\* both change in one transaction.
AcknowledgeAlert(u, g) ==
  LET i == <<"group", g>> IN
  /\ items[<<u, i>>] # NoRow /\ groups[<<u, g>>] # NoRow
  /\ items[<<u, i>>].state = "firing"
  /\ groups[<<u, g>>].state = "firing"
  /\ items' = [items EXCEPT ![<<u, i>>].state = "acknowledged"]
  /\ groups' = [groups EXCEPT ![<<u, g>>].state = "acknowledged"]
  /\ UNCHANGED <<row, failures, planned, local, clock, abandons>>

Tick ==
  /\ clock < MaxTime
  /\ clock' = clock + 1
  /\ UNCHANGED <<row, failures, inbox, local, abandons>>

Next ==
  \/ \E e \in Events : InsertEvent(e)
  \/ \E w \in Workers :
       \/ ProcessDue(w)
       \/ \E e \in Events : \/ Process(w, e)
                            \/ Claim(w, e)
                            \/ SkipEvent(w, e)
                            \/ RereadEvent(w, e)
       \/ ResolveAudience(w)
       \/ Materialize(w)
       \/ RecordFailure(w)
       \/ Abandon(w)
  \/ \E u \in Users, g \in Groups : AcknowledgeAlert(u, g)
  \/ Tick

Spec == Init /\ [][Next]_vars

-----------------------------------------------------------------------------
(* Properties.                                                             *)

Materialized == {e \in Events : status[e] = "materialized"}

\* Type invariant: the values the columns and the workers' locals can hold;
\* no attempt beyond maximumAttempts is ever counted or recorded.
TypeOK ==
  /\ status \in [Events -> {"absent", "queued", "processing", "materialized",
                            "failed"}]
  /\ attemptCount \in [Events -> 0 .. MaximumAttempts]
  /\ nextAttemptAt \in [Events -> Nat]
  /\ leaseOwner \in [Events -> Owners]
  /\ leaseExpiresAt \in [Events -> Nat]
  /\ fencingToken \in [Events -> Nat]
  /\ alertState \in [Events -> AlertStates \union {NoAlert}]
  /\ failures \subseteq [event : Events, token : Nat,
                         attempt : 1 .. MaximumAttempts,
                         disposition : {"retry_scheduled", "dead_letter"}]
  /\ groups \in [Users \X Groups -> GroupRows \union {NoRow}]
  /\ items \in [Users \X Identities -> ItemRows \union {NoRow}]
  /\ planned \subseteq WithPlans
  /\ pc \in [Workers -> {"idle", "claim", "reread", "resolve", "materialize",
                         "fail"}]
  /\ now \in [Workers -> Nat]
  /\ todo \in [Workers -> SUBSET Events]
  /\ claim \in [Workers -> Claims \union {NoClaim}]
  /\ clock \in Nat
  /\ abandons \in Nat

\* The failure rows of an event are its attempts 1, 2, ..., each once, and
\* the last one is a dead letter exactly when the event failed for good; the
\* rows are numbered from a snapshot, the counter is incremented in the row.
EvidenceIsComplete ==
  \A e \in Events :
    LET evidence == {f \in failures : f.event = e} IN
    /\ {f.attempt : f \in evidence} = 1 .. attemptCount[e]
    /\ Cardinality(evidence) = attemptCount[e]
    /\ \A f \in evidence : f.disposition = "dead_letter" <=>
         status[e] = "failed" /\ f.attempt = attemptCount[e]

\* The firing events of a group that reached recipient u.
Fired(u, g) == {e \in Materialized : /\ u \in Recipients[e]
                                     /\ GroupOf[e] = g
                                     /\ alertState[e] = "firing"}

\* An event takes effect once, however often it is claimed and retried: its
\* plans exist exactly when it is materialised, and no alert counts more
\* occurrences than events that fired.
EffectsHappenOnce ==
  /\ planned = Materialized \intersect WithPlans
  /\ \A u \in Users, g \in Groups : groups[<<u, g>>] # NoRow =>
       groups[<<u, g>>].count <= Cardinality(Fired(u, g))

\* Groups and items show the newest event that was materialised for them, in
\* whatever order that happened; only an acknowledgement may follow it.
Newest(r, S) ==
  IF S = {} THEN r = NoRow
  ELSE /\ r # NoRow
       /\ r.event \in S
       /\ r.last = OccurredAt[r.event]
       /\ \A e \in S : OccurredAt[e] <= r.last
       /\ \/ r.state = alertState[r.event]
          \/ r.state = "acknowledged" /\ alertState[r.event] = "firing"

RowsShowNewestEvent ==
  \A u \in Users :
    LET mine == {e \in Materialized : u \in Recipients[e]} IN
    /\ \A g \in Groups :
         Newest(groups[<<u, g>>],
                {e \in mine : GroupOf[e] = g /\ alertState[e] # NoAlert})
    /\ \A i \in Identities :
         Newest(items[<<u, i>>], {e \in mine : Identity(e) = i})

\* Only an event at least as new as the acknowledged one ends an
\* acknowledgement.
AcknowledgementStands ==
  [][\A u \in Users, g \in Groups :
       /\ groups[<<u, g>>] # NoRow
       /\ groups[<<u, g>>].state = "acknowledged"
       /\ groups'[<<u, g>>].state # "acknowledged"
       => \E e \in Events : /\ status[e] # "materialized"
                            /\ status'[e] = "materialized"
                            /\ OccurredAt[e] >= groups[<<u, g>>].last]_vars

\* "Inbox rows mirror this state for mailbox queries": the recipient's item
\* shows the state of the alert group.
InboxMirrorsAlert ==
  \A u \in Users, g \in Groups : groups[<<u, g>>] # NoRow =>
    /\ items[<<u, <<"group", g>>>>] # NoRow
    /\ items[<<u, <<"group", g>>>>].state = groups[<<u, g>>].state

\* What a store of durable work promises, kept by the events.
Phase(e) == CASE status[e] = "absent" -> "absent"
              [] status[e] = "queued" -> "open"
              [] status[e] = "processing" -> "leased"
              [] OTHER -> "closed"

Durable == INSTANCE DurableWork
           WITH Items <- Events, phase <- [e \in Events |-> Phase(e)],
                attempts <- attemptCount, fence <- fencingToken
ImplementsDurableWork == Durable!Spec
=============================================================================

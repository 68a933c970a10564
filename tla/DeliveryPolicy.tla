--------------------------- MODULE DeliveryPolicy ---------------------------
(***************************************************************************)
(* The policy that every dispatch passes: recipients may refuse a channel, *)
(* each recipient gets a limited number of deliveries per channel and hour *)
(* and the same matter only once per dedupe window, and quiet hours delay  *)
(* what is delivered.  A delivery that passes has reserved its place.      *)
(*                                                                         *)
(* An evaluator is one call of PolicyManager.EvaluateDelivery.  It reads   *)
(* the policy, then one preference after another, then reserves for all    *)
(* recipients in one serializable transaction, judged by the time and the  *)
(* policy it read at the start; other evaluators, administrators and       *)
(* recipients act in between.  Times are natural numbers, an hour is Hour. *)
(***************************************************************************)
EXTENDS Integers, FiniteSets

CONSTANTS
  Deliveries,        \* channel plans, or digests of several plans
  Evaluators,        \* concurrent calls of EvaluateDelivery
  Users, Channels,
  Recipients,        \* the recipients of a delivery
  ChannelOf,         \* its channel
  TopicOf,           \* its template and dedupe key, NoTopic without a key
  NoTopic,
  Digests,           \* the deliveries that are digests
  Mandatory,         \* the deliveries of channels published as mandatory
  Limits,            \* values administrators give MaxPerRecipientPerHour
  Hour,
  DedupeWindow,      \* DedupeWindowSeconds, 0 for none
  Day, QuietStart, QuietEnd,  \* quiet hours, as times of day
  NoAnswer,          \* the last step answered nobody
  MaxTime,           \* bound: the clock stops here
  MaxRetries,        \* bound: how often a plan is rescheduled
  MaxChanges         \* bound: changes of policy and preferences

ASSUME DeliveryAssumption ==
  /\ Recipients \in [Deliveries -> SUBSET Users]
  /\ ChannelOf \in [Deliveries -> Channels]
  /\ DOMAIN TopicOf = Deliveries
  /\ Digests \subseteq Deliveries /\ Mandatory \subseteq Deliveries
ASSUME FiniteAssumption == IsFiniteSet(Users)   \* recipients are a list
ASSUME PolicyAssumption ==   \* ValidatePolicy
  /\ Limits \subseteq Nat \ {0} /\ Limits # {}
  /\ Hour \in Nat \ {0} /\ DedupeWindow \in Nat
  /\ Day \in Nat \ {0} /\ QuietStart \in 0 .. Day - 1 /\ QuietEnd \in 0 .. Day - 1
ASSUME BoundAssumption ==
  /\ MaxTime \in Nat /\ MaxRetries \in Nat /\ MaxChanges \in Nat

VARIABLES
  enabled, limit,   \* the policy row
  quiet,            \* QuietHoursEnabled
  refuses,          \* channels the recipients have disabled or muted
  reservations,     \* rows of _notification_delivery_reservations, each
                    \* with the limit it was judged by, which is not stored
  retries,          \* how often the plan has been rescheduled
  pc, subject, todo, now, read,  \* the evaluators' locals
  answer,           \* what the last step returned to its caller
  clock, changes

policy == <<enabled, limit, quiet, refuses>>
local == <<pc, subject, todo, now, read>>
vars == <<policy, reservations, retries, local, answer, clock, changes>>

-----------------------------------------------------------------------------
(* Quiet hours.                                                            *)

\* Faulty: quiet hours never extend over midnight.
InQuietOfOneDay(t) == LET m == t % Day IN QuietStart <= m /\ m < QuietEnd

InQuiet(t) ==
  LET m == t % Day
  IN IF QuietStart < QuietEnd THEN QuietStart <= m /\ m < QuietEnd
                              ELSE QuietStart <= m \/ m < QuietEnd

\* NextQuietHoursEnd: 0 if it is not quiet, else today's end or tomorrow's.
NextQuietHoursEnd(t) ==
  LET end == (t - (t % Day)) + QuietEnd
  IN IF ~InQuiet(t) THEN 0 ELSE IF end > t THEN end ELSE end + Day

-----------------------------------------------------------------------------
(* Reservations.                                                           *)

\* Faulty: every attempt reserves under a key of its own.
KeyPerAttempt(d, n) == <<d, n>>

\* ReservationKey: the plan's ID; a digest's ID contains its next attempt.
ReservationKey(d, n) == IF d \in Digests THEN <<d, n>> ELSE <<d, 0>>

Recorded(k, u) == \E r \in reservations : r.key = k /\ r.user = u

\* Faulty: one delivery too many.
BelowOrAtLimit(used, max) == used <= max

BelowLimit(used, max) == used < max

\* The frequency check of ReserveBatch.
WithinLimit(d, u, t, max) ==
  BelowLimit(Cardinality({r \in reservations :
                            /\ r.user = u
                            /\ r.channel = ChannelOf[d]
                            /\ r.created >= t - Hour}), max)

\* Faulty: the window is open at its far end.
WithinOpen(r, t) == r.created > t - DedupeWindow

Within(r, t) == r.created >= t - DedupeWindow

\* The dedupe check of ReserveBatch.
Fresh(d, u, t) ==
  TopicOf[d] # NoTopic /\ DedupeWindow > 0 =>
    ~\E r \in reservations : /\ r.user = u
                             /\ r.channel = ChannelOf[d]
                             /\ r.topic = TopicOf[d]
                             /\ Within(r, t)

Admissible(d, u, t, max) == WithinLimit(d, u, t, max) /\ Fresh(d, u, t)

\* Faulty: the batch keeps what it could reserve before it failed.
PartialBatch(S, T) == T

\* The rows to add when T of the missing rows S are admissible.
Batch(S, T) == IF S = T THEN S ELSE {}

-----------------------------------------------------------------------------
(* Actions.                                                                *)

Init ==
  /\ enabled = TRUE
  /\ limit \in Limits
  /\ quiet = TRUE     \* an administrator has turned quiet hours on
  /\ refuses = [u \in Users |-> {}]
  /\ reservations = {}
  /\ retries = [d \in Deliveries |-> 0]
  /\ pc = [e \in Evaluators |-> "idle"]
  /\ subject = [e \in Evaluators |-> <<>>]
  /\ todo = [e \in Evaluators |-> {}]
  /\ now = [e \in Evaluators |-> 0]
  /\ read = [e \in Evaluators |-> <<>>]
  /\ answer = NoAnswer
  /\ clock = 0
  /\ changes = 0

\* Return the verdict to Processor.dispatch, with the time it was judged at,
\* whether quiet hours were in force, and DeliverAfter.
Answer(e, key, verdict, at, awaits, after) ==
  /\ answer' = [key |-> key, verdict |-> verdict, at |-> at,
                awaits |-> awaits, after |-> after]
  /\ pc' = [pc EXCEPT ![e] = "idle"]
  /\ subject' = [subject EXCEPT ![e] = <<>>]
  /\ todo' = [todo EXCEPT ![e] = {}]
  /\ now' = [now EXCEPT ![e] = 0]
  /\ read' = [read EXCEPT ![e] = <<>>]

\* GetPolicy, and the clock; a disabled policy lets everything pass.
ReadPolicy(e, d) ==
  /\ pc[e] = "idle"
  /\ Recipients[d] # {}
  /\ LET key == ReservationKey(d, retries[d]) IN
       \/ /\ ~enabled
          /\ Answer(e, key, "unchecked", clock, FALSE, 0)
       \/ /\ enabled
          /\ pc' = [pc EXCEPT ![e] = "preferences"]
          /\ subject' = [subject EXCEPT ![e] = key]
          /\ todo' = [todo EXCEPT ![e] = Recipients[d]]
          /\ now' = [now EXCEPT ![e] = clock]
          /\ read' = [read EXCEPT ![e] = <<limit, quiet>>]
          /\ answer' = NoAnswer
  /\ UNCHANGED <<policy, reservations, retries, clock, changes>>

Refuses(u, d) == ChannelOf[d] \in refuses[u]

\* Faulty: the first preference stands for all recipients.
ReadFirstPreference(e, u) ==
  /\ pc[e] = "preferences"
  /\ u \in todo[e]
  /\ \/ /\ Refuses(u, subject[e][1])
        /\ Answer(e, subject[e], "suppressed", now[e], FALSE, 0)
     \/ /\ ~Refuses(u, subject[e][1])
        /\ todo' = [todo EXCEPT ![e] = @ \ {u}]
        /\ pc' = [pc EXCEPT ![e] = "reserve"]
        /\ answer' = NoAnswer
        /\ UNCHANGED <<subject, now, read>>
  /\ UNCHANGED <<policy, reservations, retries, clock, changes>>

\* GetRecipientPreference of the next recipient; the first refusal ends it.
ReadPreference(e, u) ==
  /\ pc[e] = "preferences"
  /\ u \in todo[e]
  /\ \/ /\ Refuses(u, subject[e][1])
        /\ Answer(e, subject[e], "suppressed", now[e], FALSE, 0)
     \/ /\ ~Refuses(u, subject[e][1])
        /\ todo' = [todo EXCEPT ![e] = @ \ {u}]
        /\ pc' = [pc EXCEPT ![e] = IF todo'[e] = {} THEN "reserve" ELSE @]
        /\ answer' = NoAnswer
        /\ UNCHANGED <<subject, now, read>>
  /\ UNCHANGED <<policy, reservations, retries, clock, changes>>

\* ReserveBatch: rows of this identity count as reserved already; the others
\* are all inserted or none.
Reserve(e) ==
  /\ pc[e] = "reserve"
  /\ LET key == subject[e]
         d == key[1]
         missing == {u \in Recipients[d] : ~Recorded(key, u)}
         passed == {u \in missing : Admissible(d, u, now[e], read[e][1])}
     IN /\ reservations' = reservations \union
             {[key |-> key, user |-> u, channel |-> ChannelOf[d],
               topic |-> TopicOf[d], created |-> now[e],
               limit |-> read[e][1]] : u \in Batch(missing, passed)}
        /\ IF passed = missing
           THEN Answer(e, key, "allowed", now[e], read[e][2],
                       IF read[e][2] THEN NextQuietHoursEnd(now[e]) ELSE 0)
           ELSE Answer(e, key, "refused", now[e], FALSE, 0)
  /\ UNCHANGED <<policy, retries, clock, changes>>

\* recordFailure reschedules the plan, whatever had failed.
Reschedule(d) ==
  /\ retries[d] < MaxRetries
  /\ retries' = [retries EXCEPT ![d] = @ + 1]
  /\ answer' = NoAnswer
  /\ UNCHANGED <<policy, reservations, local, clock, changes>>

SavePolicy ==
  /\ changes < MaxChanges
  /\ changes' = changes + 1
  /\ enabled' \in BOOLEAN
  /\ limit' \in Limits
  /\ quiet' \in BOOLEAN
  /\ answer' = NoAnswer
  /\ UNCHANGED <<refuses, reservations, retries, local, clock>>

SaveRecipientPreference(u) ==
  /\ changes < MaxChanges
  /\ changes' = changes + 1
  /\ \E S \in SUBSET Channels : refuses' = [refuses EXCEPT ![u] = S]
  /\ answer' = NoAnswer
  /\ UNCHANGED <<enabled, limit, quiet, reservations, retries, local, clock>>

Tick ==
  /\ clock < MaxTime
  /\ clock' = clock + 1
  /\ answer' = NoAnswer
  /\ UNCHANGED <<policy, reservations, retries, local, changes>>

Next ==
  \/ \E e \in Evaluators : \/ \E d \in Deliveries : ReadPolicy(e, d)
                           \/ \E u \in Users : ReadPreference(e, u)
                           \/ Reserve(e)
  \/ \E d \in Deliveries : Reschedule(d)
  \/ SavePolicy
  \/ \E u \in Users : SaveRecipientPreference(u)
  \/ Tick

Spec == Init /\ [][Next]_vars

-----------------------------------------------------------------------------
(* Properties.                                                             *)

Keys == Deliveries \X (0 .. MaxRetries)
Rows == [key : Keys, user : Users, channel : Channels,
         topic : {TopicOf[d] : d \in Deliveries}, created : Nat,
         limit : Limits]
Answers == [key : Keys, at : Nat, awaits : BOOLEAN, after : Nat,
            verdict : {"unchecked", "suppressed", "refused", "allowed"}]

\* Type invariant: rows, locals and answers have the shape the code gives
\* them; an evaluator that reserves has asked every recipient's preference.
TypeOK ==
  /\ enabled \in BOOLEAN /\ quiet \in BOOLEAN /\ limit \in Limits
  /\ refuses \in [Users -> SUBSET Channels]
  /\ reservations \subseteq Rows
  /\ retries \in [Deliveries -> 0 .. MaxRetries]
  /\ pc \in [Evaluators -> {"idle", "preferences", "reserve"}]
  /\ subject \in [Evaluators -> Keys \union {<<>>}]
  /\ todo \in [Evaluators -> SUBSET Users]
  /\ \A e \in Evaluators : pc[e] = "preferences" <=> todo[e] # {}
  /\ now \in [Evaluators -> Nat]
  /\ read \in [Evaluators -> (Limits \X BOOLEAN) \union {<<>>}]
  /\ answer \in Answers \union {NoAnswer}
  /\ clock \in Nat /\ changes \in Nat

\* The deliveries one recipient got on one channel in the hour up to r.
HourOf(r) == {q \in reservations : /\ q.user = r.user
                                   /\ q.channel = r.channel
                                   /\ r.created - Hour <= q.created
                                   /\ q.created <= r.created}

\* No hour holds more deliveries than the largest limit under which one of
\* them was admitted, although evaluators stamp their rows before they insert
\* them, insert in another order and judge by a policy that has changed.
HourlyLimitIsKept ==
  \A r \in reservations :
    \E q \in HourOf(r) : Cardinality(HourOf(r)) <= q.limit

\* A recipient is not told the same matter twice within the dedupe window,
\* in whatever order the two reservations are inserted.
DedupeWindowIsKept ==
  DedupeWindow > 0 =>
    \A r, q \in reservations :
      /\ r.user = q.user /\ r.channel = q.channel
      /\ r.topic = q.topic /\ r.topic # NoTopic
      /\ r.key # q.key
      => q.created - r.created > DedupeWindow
         \/ r.created - q.created > DedupeWindow

\* A plan that is dispatched again, by its retry or by a second worker, does
\* not use up the recipient's hour again.
RetryReservesOnce ==
  \A r, q \in reservations :
    /\ r.user = q.user /\ r.key[1] = q.key[1] /\ r.key[1] \notin Digests
    => r = q

\* A delivery has reserved for all its recipients or for none, and one that
\* the policy let pass has reserved.
ReservationsAreComplete ==
  /\ \A r \in reservations : \A u \in Recipients[r.key[1]] : Recorded(r.key, u)
  /\ answer # NoAnswer =>
       (answer.verdict = "allowed" =>
          \E r \in reservations : r.key = answer.key)

\* A delivery let through in quiet hours waits until they end, and not an
\* instant longer.  Quiet is the walk from QuietStart to QuietEnd.
QuietTime(t) == (t - QuietStart) % Day < (QuietEnd - QuietStart) % Day

QuietHoursAreKept ==
  answer # NoAnswer =>
    (answer.verdict = "allowed" /\ QuietStart # QuietEnd =>
       IF answer.after = 0 THEN answer.awaits => ~QuietTime(answer.at)
       ELSE /\ answer.awaits /\ answer.after > answer.at
            /\ \A t \in answer.at .. answer.after - 1 : QuietTime(t)
            /\ ~QuietTime(answer.after))

\* "Enforcing a mandatory security channel even when ordinary recipient
\* preferences would suppress it."
MandatoryIsNotSuppressed ==
  answer # NoAnswer =>
    (answer.verdict = "suppressed" => answer.key[1] \notin Mandatory)
=============================================================================

--------------------------- MODULE DataLifecycle ----------------------------
(***************************************************************************)
(* The life of the data of one workspace, over all the tables in which an  *)
(* intent leaves rows: it is accepted and stored, materialised, delivered, *)
(* changed by its recipients, archived and purged by retention batches,    *)
(* and stripped of a person's name when that person is erased.             *)
(*                                                                         *)
(* EventInbox and PlanDelivery look into the workers more closely; here a  *)
(* claim is one step, and what a worker does is reduced to its effects on  *)
(* the tables, so that everything that writes them can run side by side.   *)
(***************************************************************************)
EXTENDS IntentIntake, Sequences

CONSTANTS Users, Anonymous,   \* the users, and the name each is erased to
          Intents,            \* the intents that producers send
          Catalogs,           \* the configurations of successive deployments
          Producers, Workers, Batches,
          PersonalRows,       \* preferences, saved views and delegations
          HoldSets,           \* the holds that a batch may be sent with
          NoOne,
          Retention,          \* DefaultRetentionSeconds
          RepeatFor,          \* how long an intent is sent
          LeaseDuration, MaximumAttempts, BatchLimit

CONSTANTS MaxTime,     \* bound: the last value of the clock
          LastIntent   \* bound: the last time a new intent is sent

Keys == {i.key : i \in Intents}
Names == Users \union {Anonymous[u] : u \in Users}

\* A producer names a fact once, and stops repeating it before its event may
\* be purged.
ASSUME IntentAssumption ==
  /\ \A i, j \in Intents : i.id = j.id => i.key = j.key
  /\ \A i \in Intents : i.recipients \subseteq Users

\* A name in use is never the anonymous form of another.
ASSUME NameAssumption ==
  /\ \A u \in Users : Anonymous[u] \notin Users
  /\ \A u, v \in Users : Anonymous[u] = Anonymous[v] => u = v
  /\ NoOne \notin Names /\ NoOne \notin Workers

\* Catalogs is a sequence.
ASSUME CatalogAssumption == Len(Catalogs) \in Nat

ASSUME TimeAssumption ==
  /\ Retention \in Nat /\ RepeatFor \in Nat /\ RepeatFor < Retention
  /\ LeaseDuration \in Nat \ {0} /\ MaximumAttempts \in Nat \ {0}
  /\ BatchLimit \in Nat \ {0}

ASSUME BoundAssumption == MaxTime \in Nat /\ LastIntent \in 0 .. MaxTime

VARIABLES
  catalog,    \* the position of the running configuration in Catalogs
  db,         \* the rows of each table in Tables
  archive,    \* _notification_retention_archive_entries: table and resource
  personal,   \* the rows of PersonalRows that exist
  call,       \* the call of each producer
  work,       \* what each worker has claimed
  batch,      \* the retention batch each caller has under way
  clock,
  (* history *)
  sent,       \* when each key was first sent
  stored,     \* every event inserted, numbered by source
  accepted,   \* every event for which a producer was told that it is stored
  erased,     \* the users erased
  tainted,    \* by user: the events that may name the user again
  pending     \* by user: the events that had to be materialised at the erasure

intake == <<catalog, call, sent, stored, accepted>>
erasure == <<erased, tainted, pending>>
history == <<sent, stored, accepted, erasure>>
vars == <<catalog, db, archive, personal, call, work, batch, clock, history>>

Never == -1
Tables == {"inbox_items", "alert_groups", "channel_plans", "events",
           "event_failures", "delivery_reservations"}

\* The payload of an event names its recipients, and each plan in it does.
Addressed(e) == e.recipients \union UNION {p.recipients : p \in e.plans}

\* Whom a row names, in its columns or its payload, and the event it is from.
Named(t, r) ==
  CASE t = "inbox_items" -> {r.recipient, r.named}
    [] t = "alert_groups" -> {r.recipient, r.acker}
    [] t = "channel_plans" -> r.recipients
    [] t = "events" -> Addressed(r.value)
    [] t = "event_failures" -> {}
    [] t = "delivery_reservations" -> {r.recipient}

Origin(t, r) == IF t = "events" THEN r.id ELSE r.event

NoCall == [phase |-> "idle"]
NoWork == [kind |-> "none"]
NoBatch == [phase |-> "idle"]

Init ==
  /\ catalog = 0
  /\ db = [t \in Tables |-> {}]
  /\ archive = {} /\ personal = {}
  /\ call = [p \in Producers |-> NoCall]
  /\ work = [w \in Workers |-> NoWork]
  /\ batch = [b \in Batches |-> NoBatch]
  /\ clock = 0
  /\ sent = [k \in Keys |-> Never]
  /\ stored = {} /\ accepted = {} /\ erased = {}
  /\ tainted = [u \in Users |-> {}]
  /\ pending = [u \in Users |-> {}]

-----------------------------------------------------------------------------
(* A process is started with a configuration, and does not start with one  *)
(* that the validation refuses.                                            *)

Deploy ==
  /\ catalog < Len(Catalogs)
  /\ \E n \in catalog + 1 .. Len(Catalogs) :
       ValidCatalog(Catalogs[n]) /\ catalog' = n
  /\ UNCHANGED <<db, archive, personal, call, work, batch, clock, history>>

-----------------------------------------------------------------------------
(* Producers.                                                              *)

\* What the unique index covers.
SameSource(left, right) == left.source = right.source /\ left.key = right.key

\* An event without the fields of the lifecycle, of which only a plan's first
\* attempt is set by the compiler.
Content(event) == [event EXCEPT !.plans = {[p EXCEPT !.first = 0] : p \in @}]

SameIngest(left, right) == Content(left) = Content(right)

\* The primary key and the unique index on the source's identity.
Collides(row, event) ==
  \/ row.id = event.id
  \/ SameSource(row.value, event)

InTime(key) == clock <= sent[key] + RepeatFor

PublishIntent(p) ==
  /\ call[p] = NoCall /\ catalog > 0
  /\ \E i \in Intents :
       /\ Compiles(Catalogs[catalog], i)
       /\ IF sent[i.key] = Never THEN clock <= LastIntent ELSE InTime(i.key)
       /\ sent' = [sent EXCEPT ![i.key] = IF @ = Never THEN clock ELSE @]
       /\ call' = [call EXCEPT ![p] =
            [phase |-> "compiled", created |-> clock,
             event |-> Compile(Catalogs[catalog], i)]]
  /\ UNCHANGED <<catalog, db, archive, personal, work, batch, clock,
                 stored, accepted, erasure>>

Return(p) == call' = [call EXCEPT ![p] = NoCall]

EventRow(event, created) ==
  [id |-> event.id, value |-> event, status |-> "queued", owner |-> NoOne,
   attempts |-> 0, created |-> created, at |-> created]

\* What names an erased user again, by the will of whoever addressed it.
TaintedBy(users, id) ==
  [u \in Users |-> IF u \in erased /\ u \in users
                   THEN tainted[u] \union {id} ELSE tainted[u]]

Stores(p) ==
  LET event == call[p].event
  IN  /\ db' = [db EXCEPT !["events"] =
                  @ \union {EventRow(event, call[p].created)}]
      /\ stored' = stored \union
           {[event |-> event,
             nth |-> Cardinality({s \in stored : SameSource(s.event, event)})]}
      /\ accepted' = accepted \union {event}
      /\ tainted' = TaintedBy(event.recipients, event.id)

\* Enqueue: the insertion in a serializable transaction.  It fails when a row
\* with the same ID or source is there.
Enqueue(p) ==
  /\ call[p].phase = "compiled"
  /\ \/ /\ \A r \in db["events"] : ~Collides(r, call[p].event)
        /\ Stores(p)
        /\ Return(p)
     \/ /\ \E r \in db["events"] : Collides(r, call[p].event)
        /\ call' = [call EXCEPT ![p].phase = "refused"]
        /\ UNCHANGED <<db, stored, accepted, tainted>>
  /\ UNCHANGED <<catalog, archive, personal, work, batch, clock, sent, erased,
                 pending>>

\* After the rollback: who has that source, and is it the same intent?  Any
\* other finding is a conflict or an error.
LookUp(p) ==
  /\ call[p].phase = "refused"
  /\ accepted' = accepted \union
       {e \in {call[p].event} : \E r \in db["events"] :
          SameSource(r.value, e) /\ SameIngest(r.value, e)}
  /\ Return(p)
  /\ UNCHANGED <<catalog, db, archive, personal, work, batch, clock, sent,
                 stored, erasure>>

\* The source's own transaction inserts the event; a violation of an index
\* rolls all of it back, and so may the source.
InsertEvent(p) ==
  /\ call[p].phase = "compiled"
  /\ \/ /\ \A r \in db["events"] : ~Collides(r, call[p].event)
        /\ Stores(p)
     \/ UNCHANGED <<db, stored, accepted, tainted>>
  /\ Return(p)
  /\ UNCHANGED <<catalog, archive, personal, work, batch, clock, sent, erased,
                 pending>>

-----------------------------------------------------------------------------
(* Workers.  An event and a plan are claimed and released alike.  When a   *)
(* queued row is due is left open; a claim runs out with the lease.        *)

Due(r) ==
  \/ r.status = "queued"
  \/ r.status = "processing" /\ r.at + LeaseDuration <= clock

Claimed(r, w) ==
  [r EXCEPT !.status = "processing", !.owner = w, !.at = clock]

Claim(w, t) ==
  /\ work[w] = NoWork
  /\ \E r \in db[t] :
       /\ Due(r)
       /\ db' = [db EXCEPT ![t] = (@ \ {r}) \union {Claimed(r, w)}]
       /\ work' = [work EXCEPT ![w] =
            [kind |-> t, row |-> Claimed(r, w), reserved |-> FALSE]]
  /\ UNCHANGED <<intake, archive, personal, batch, clock, erasure>>

\* The row a worker still holds.
Held(r, w) == r.id = work[w].row.id /\ r.status = "processing" /\ r.owner = w

\* Faulty: the claim is left on the row.
StillOwned(r, status) == [r EXCEPT !.status = status]

Released(r, status) == [r EXCEPT !.status = status, !.owner = NoOne]

\* The lease is lost, the process stops, or a transaction is rolled back.
GiveUp(w) ==
  /\ work[w] # NoWork
  /\ work' = [work EXCEPT ![w] = NoWork]
  /\ UNCHANGED <<intake, db, archive, personal, batch, clock, erasure>>

-----------------------------------------------------------------------------
(* Materialisation.                                                        *)

Identity(e) == IF e.group # "" THEN <<"group", e.group>> ELSE <<"event", e.id>>

ItemOf(e, u, at) ==
  [id |-> <<u, Identity(e)>>, event |-> e.id, recipient |-> u, named |-> u,
   action |-> e.action, alert |-> e.alert, occurred |-> e.occurred,
   text |-> e.text, at |-> at]

\* An older event leaves the item alone; a newer one rewrites all of it but
\* the recipient's column.
UpsertInboxItem(rows, e, u, at) ==
  LET old == {r \in rows : r.id = <<u, Identity(e)>>}
  IN  IF old = {} THEN {ItemOf(e, u, at)}
      ELSE {IF r.occurred <= e.occurred
            THEN [ItemOf(e, u, at) EXCEPT !.recipient = r.recipient] ELSE r
              : r \in old}

UpsertInboxItems(rows, e, users, at) ==
  {r \in rows : \A u \in users : r.id # <<u, Identity(e)>>}
  \union UNION {UpsertInboxItem(rows, e, u, at) : u \in users}

GroupOf(e, u, at) ==
  [recipient |-> u, group |-> e.group, state |-> e.alert, acker |-> NoOne,
   event |-> e.id, occurred |-> e.occurred, at |-> at]

TransitionAlertGroups(rows, e, users, at) ==
  IF e.alert = "" THEN rows
  ELSE LET kept == {r \in rows : \/ r.group # e.group
                                 \/ r.recipient \notin users
                                 \/ r.occurred > e.occurred}
       IN  kept \union
           {GroupOf(e, u, at) : u \in
             {v \in users : \A r \in kept :
                r.group = e.group => r.recipient # v}}

PlanRow(plan, e, users, created) ==
  [id |-> plan.id, event |-> e.id, recipients |-> users, text |-> plan.text,
   status |-> "queued", owner |-> NoOne, attempts |-> 0, at |-> created]

\* The recipients of the snapshot, and those whom the resolvers name now.
Audiences(e) ==
  {users \in SUBSET Names :
     /\ users # {} /\ e.recipients \subseteq users
     /\ users \ e.recipients \subseteq
          IF e.resolvers = {} THEN {} ELSE Users}

PlansOf(e, users, created) ==
  {PlanRow(p, e, users, created) : p \in e.plans}

Materialized(r, at) == [Released(r, "materialized") EXCEPT !.at = at]

Materialize(w) ==
  /\ work[w].kind = "events"
  /\ \E r \in db["events"] : Held(r, w) /\
     LET e == work[w].row.value
         at == work[w].row.at
     IN  /\ \A q \in db["channel_plans"] : \A p \in e.plans : q.id # p.id
         /\ \E users \in Audiences(e) :
              /\ db' = [db EXCEPT
                   !["alert_groups"] = TransitionAlertGroups(@, e, users, at),
                   !["inbox_items"] = UpsertInboxItems(@, e, users, at),
                   !["channel_plans"] = @ \union PlansOf(e, users, r.created),
                   !["events"] = (@ \ {r}) \union {Materialized(r, at)}]
              /\ tainted' = TaintedBy(users, e.id)
  /\ work' = [work EXCEPT ![w] = NoWork]
  /\ UNCHANGED <<intake, archive, personal, batch, clock, erased, pending>>

\* The audience could not be resolved, or the transaction was rolled back.
\* The failure is evidence of its own.
FailEvent(w) ==
  /\ work[w].kind = "events"
  /\ \E r \in db["events"] : Held(r, w) /\
     LET attempt == work[w].row.attempts + 1
         status == IF attempt < MaximumAttempts THEN "queued" ELSE "failed"
     IN  db' = [db EXCEPT
           !["events"] = (@ \ {r}) \union
             {[Released(r, status) EXCEPT !.attempts = attempt, !.at = clock]},
           !["event_failures"] = @ \union
             {[id |-> <<r.id, attempt>>, event |-> r.id, at |-> clock]}]
  /\ work' = [work EXCEPT ![w] = NoWork]
  /\ UNCHANGED <<intake, archive, personal, batch, clock, erasure>>

-----------------------------------------------------------------------------
(* Delivery.                                                               *)

\* One reservation for each recipient, or none: a reservation of the same ID
\* that names somebody else is a conflict.  Limits may refuse the batch too.
ReserveBatch(w) ==
  /\ work[w].kind = "channel_plans" /\ ~work[w].reserved
  /\ LET plan == work[w].row
     IN  /\ \A r \in db["delivery_reservations"] : \A u \in plan.recipients :
              r.id = <<plan.id, u>> => r.recipient = u
         /\ db' = [db EXCEPT !["delivery_reservations"] = @ \union
              {[id |-> <<plan.id, u>>, event |-> plan.event,
                recipient |-> u, at |-> clock] : u \in
                  {v \in plan.recipients :
                     \A r \in @ : r.id # <<plan.id, v>>}}]
  /\ work' = [work EXCEPT ![w].reserved = TRUE]
  /\ UNCHANGED <<intake, archive, personal, batch, clock, erasure>>

\* Only what was authorised is dispatched; anything else that becomes of the
\* plan needs no reservation.
SettlePlan(w) ==
  /\ work[w].kind = "channel_plans"
  /\ \E r \in db["channel_plans"] : Held(r, w) /\
     LET attempt == work[w].row.attempts + 1
         Becomes(row) ==
           db' = [db EXCEPT !["channel_plans"] = (@ \ {r}) \union {row}]
     IN  \/ /\ work[w].reserved
            /\ Becomes([Released(r, "planned") EXCEPT !.at = clock])
         \/ Becomes([Released(r, "cancelled") EXCEPT !.at = clock])
         \/ /\ attempt < MaximumAttempts
            /\ Becomes([Released(r, "queued") EXCEPT !.attempts = attempt,
                                                    !.at = clock])
         \/ /\ attempt >= MaximumAttempts
            /\ Becomes([Released(r, "failed") EXCEPT !.attempts = attempt,
                                                    !.at = clock])
  /\ work' = [work EXCEPT ![w] = NoWork]
  /\ UNCHANGED <<intake, archive, personal, batch, clock, erasure>>

-----------------------------------------------------------------------------
(* Recipients.                                                             *)

\* SetRead, SetArchived, MarkAllRead: the owner touches an item.
SetPersonalState(u) ==
  /\ \E r \in db["inbox_items"] :
       /\ r.recipient = u
       /\ db' = [db EXCEPT !["inbox_items"] =
                   (@ \ {r}) \union {[r EXCEPT !.at = clock]}]
  /\ UNCHANGED <<catalog, archive, personal, call, work, batch, clock, history>>

\* The group has to be firing; the item has to say so too.
AcknowledgeAlert(u) ==
  /\ \E r \in db["inbox_items"], g \in db["alert_groups"] :
       /\ r.recipient = u /\ r.alert = "firing"
       /\ r.id[2] = <<"group", g.group>>
       /\ g.recipient = u /\ g.state = "firing"
       /\ db' = [db EXCEPT
            !["inbox_items"] = (@ \ {r}) \union
              {[r EXCEPT !.alert = "acknowledged", !.at = clock]},
            !["alert_groups"] = (@ \ {g}) \union
              {[g EXCEPT !.state = "acknowledged", !.acker = u,
                         !.at = clock]}]
  /\ UNCHANGED <<catalog, archive, personal, call, work, batch, clock, history>>

\* Preferences, saved views and delegations, by upsert and by key.  Whoever is
\* erased is no user any more, and is named by none.
Mentions(row, u) == u \in {row.owner, row.other}

SavePersonal(row) ==
  /\ \A u \in erased : ~Mentions(row, u)
  /\ personal' = personal \union {row}
  /\ UNCHANGED <<catalog, db, archive, call, work, batch, clock, history>>

DeletePersonal(row) ==
  /\ row \in personal
  /\ personal' = personal \ {row}
  /\ UNCHANGED <<catalog, db, archive, call, work, batch, clock, history>>

-----------------------------------------------------------------------------
(* Erasure: one serializable transaction over all tables but the archive.  *)

Rename(S, u) == {IF v = u THEN Anonymous[u] ELSE v : v \in S}
RenameOne(v, u) == IF v = u THEN Anonymous[u] ELSE v

\* Faulty: only what was delivered is rewritten.
EraseSettled(r, u) ==
  IF r.status = "materialized" /\ u \in r.value.recipients
  THEN [r EXCEPT !.value.recipients = Rename(@, u), !.value.text = "erased"]
  ELSE r

\* Faulty: the plans inside the event are forgotten.
EraseEventOnly(r, u) ==
  IF u \in r.value.recipients
  THEN [r EXCEPT !.value.recipients = Rename(@, u),
                 !.value.text = "erased", !.value.variables = {}]
  ELSE r

\* The digest text of the plans inside the event is left as it is.
EraseEvent(r, u) ==
  IF u \in r.value.recipients
  THEN [r EXCEPT !.value.recipients = Rename(@, u),
                 !.value.text = "erased", !.value.variables = {},
                 !.value.plans = {[p EXCEPT !.recipients = Rename(@, u)]
                                    : p \in @}]
  ELSE r

\* Faulty: the plan is renamed only.
RenamePlan(r, u) ==
  IF u \in r.recipients THEN [r EXCEPT !.recipients = Rename(@, u)] ELSE r

ErasePlan(r, u) ==
  IF u \in r.recipients
  THEN [r EXCEPT !.recipients = Rename(@, u), !.text = "erased"] ELSE r

EraseItem(r, u) ==
  IF r.recipient = u
  THEN [r EXCEPT !.recipient = Anonymous[u], !.named = Anonymous[u],
                 !.text = "erased"] ELSE r

EraseGroup(r, u) == [r EXCEPT !.recipient = RenameOne(@, u),
                              !.acker = RenameOne(@, u)]

EraseReservation(r, u) == [r EXCEPT !.recipient = RenameOne(@, u)]

Open == {"queued", "processing"}

\* What a worker has claimed before the erasure is written after it, and the
\* plans of an event become rows when it is materialised.
EraseSubject(u) ==
  /\ u \notin erased
  \* the primary key of the groups
  /\ \A g, h \in db["alert_groups"] :
       ~(/\ g.recipient = u /\ h.recipient = Anonymous[u]
         /\ g.group = h.group)
  /\ db' = [db EXCEPT
       !["inbox_items"] = {EraseItem(r, u) : r \in @},
       !["events"] = {EraseEvent(r, u) : r \in @},
       !["channel_plans"] = {ErasePlan(r, u) : r \in @},
       !["alert_groups"] = {EraseGroup(r, u) : r \in @},
       !["delivery_reservations"] = {EraseReservation(r, u) : r \in @}]
  /\ personal' = {row \in personal : ~Mentions(row, u)}
  /\ erased' = erased \union {u}
  /\ tainted' = [tainted EXCEPT ![u] = @ \union
       {Origin(work[w].kind, work[w].row) : w \in
          {x \in Workers : /\ work[x] # NoWork
                           /\ u \in Named(work[x].kind, work[x].row)}}]
  /\ pending' = [pending EXCEPT ![u] =
       {r.id : r \in {x \in db["events"] : /\ x.status \in Open
                                          /\ u \in x.value.recipients}}]
  /\ UNCHANGED <<intake, archive, work, batch, clock>>

-----------------------------------------------------------------------------
(* Retention: specs in this order, one batch per call.                     *)

Specs == <<"inbox_items", "alert_groups", "channel_plans", "events",
           "event_failures", "delivery_reservations">>

\* What a spec calls the ID: a group goes by its last event, which the groups
\* of several recipients share.
Resource(t, r) == IF t = "alert_groups" THEN r.event ELSE r.id

\* Faulty: whatever no worker holds.
NotInWork(t, r) ==
  /\ t = "inbox_items" => r.action # "open" /\ r.alert # "firing"
  /\ t = "alert_groups" => r.state = "resolved"
  /\ t \in {"channel_plans", "events"} => r.status # "processing"

Final(t, r) ==
  /\ t = "inbox_items" => r.action # "open" /\ r.alert # "firing"
  /\ t = "alert_groups" => r.state = "resolved"
  /\ t = "channel_plans" => r.status \in {"planned", "failed", "cancelled"}
  /\ t = "events" => r.status \in {"materialized", "failed"}

\* Faulty: the cutoff is left out.
AnyAge(t, r, now) == Final(t, r)

\* retentionPredicate
Eligible(t, r, now) == Final(t, r) /\ r.at + Retention <= now

\* A failed statement, or a stop, ends the batch where it stands.
EndBatch(b) ==
  /\ batch[b] # NoBatch
  /\ batch' = [batch EXCEPT ![b] = NoBatch]
  /\ UNCHANGED <<catalog, db, archive, personal, call, work, clock, history>>

Candidates(op, t) ==
  {c \in {[id |-> Resource(t, r), at |-> r.at] :
            r \in {x \in db[t] : Eligible(t, x, clock)}} :
     op = "purge" \/ <<t, c.id>> \notin archive}

\* What a query in the order of age, with a limit, may return of S.
Oldest(S, n) ==
  {L \in SUBSET S :
     /\ Cardinality(L) = IF n < Cardinality(S) THEN n ELSE Cardinality(S)
     /\ \A c \in L, d \in S \ L : c.at <= d.at}

\* retentionHeld: a whole table, or one row.
OnHold(held, t, id) == t \in held.tables \/ <<t, id>> \in held.rows

\* Those on hold take their place in the list and are skipped.
Listings(op, held, t, n) ==
  {{c \in L : ~OnHold(held, t, c.id)} : L \in Oldest(Candidates(op, t), n)}

\* The candidates of a table are listed once, the oldest first, up to what is
\* left of the limit.  A table with nothing to do is passed over.
ListCandidates(b, op, held, done, limit) ==
  LET left[n \in done .. Len(Specs)] ==
        IF n = done THEN limit
        ELSE LET before == left[n - 1]
                 found == Cardinality(Candidates(op, Specs[n]))
             IN  IF found < before THEN before - found ELSE 0
      Todo(n) == Listings(op, held, Specs[n], left[n - 1])
  IN  \E n \in done + 1 .. Len(Specs) : \E todo \in Todo(n) :
        /\ todo # {}
        /\ \A k \in done + 1 .. n - 1 : {} \in Todo(k)
        /\ batch' = [batch EXCEPT ![b] =
             [phase |-> "row", op |-> op, held |-> held, spec |-> n,
              left |-> left[n], todo |-> todo, row |-> NoOne]]

ProcessRetentionBatch(b) ==
  /\ batch[b] = NoBatch
  /\ \E op \in {"archive", "purge"}, held \in HoldSets :
       ListCandidates(b, op, held, 0, BatchLimit)
  /\ UNCHANGED <<catalog, db, archive, personal, call, work, clock, history>>

NextSpec(b) ==
  /\ batch[b].phase = "row" /\ batch[b].todo = {}
  /\ ListCandidates(b, batch[b].op, batch[b].held, batch[b].spec,
                    batch[b].left)
  /\ UNCHANGED <<catalog, db, archive, personal, call, work, clock, history>>

Table(b) == Specs[batch[b].spec]
Entry(b, id) == <<Table(b), id>>

\* The next candidate, an oldest one: it is archived, unless it was before or
\* is gone.  The ID of an entry is a hash of what it is about, so there is
\* never a second one.
ArchiveCandidate(b) ==
  /\ batch[b].phase = "row"
  /\ \E c \in batch[b].todo :
       /\ \A d \in batch[b].todo : c.at <= d.at
       /\ archive' = archive \union
            {e \in {Entry(b, c.id)} : \E r \in db[Table(b)] :
               Resource(Table(b), r) = c.id}
       /\ batch' = [batch EXCEPT ![b].todo = @ \ {c},
            ![b].phase = IF batch[b].op = "purge" THEN "delete" ELSE "row",
            ![b].row = IF batch[b].op = "purge" THEN c ELSE NoOne]
  /\ UNCHANGED <<catalog, db, personal, call, work, clock, history>>

\* The row is deleted by its ID, whatever has become of it.
DeleteCandidate(b) ==
  /\ batch[b].phase = "delete"
  /\ db' = [db EXCEPT ![Table(b)] =
              {r \in @ : Resource(Table(b), r) # batch[b].row.id}]
  /\ batch' = [batch EXCEPT ![b].phase = "row", ![b].row = NoOne]
  /\ UNCHANGED <<catalog, archive, personal, call, work, clock, history>>

BatchStep(b) ==
  \/ ProcessRetentionBatch(b) \/ NextSpec(b) \/ ArchiveCandidate(b)
  \/ DeleteCandidate(b) \/ EndBatch(b)

-----------------------------------------------------------------------------
\* A producer's deadline ends its call in time.
Tick ==
  /\ clock < MaxTime
  /\ \A p \in Producers : call[p] # NoCall =>
       clock < sent[call[p].event.key] + RepeatFor
  /\ clock' = clock + 1
  /\ UNCHANGED <<catalog, db, archive, personal, call, work, batch, history>>

ProducerStep(p) ==
  PublishIntent(p) \/ Enqueue(p) \/ LookUp(p) \/ InsertEvent(p)

WorkerStep(w) ==
  \/ Claim(w, "events") \/ Claim(w, "channel_plans")
  \/ Materialize(w) \/ FailEvent(w) \/ ReserveBatch(w) \/ SettlePlan(w)
  \/ GiveUp(w)

UserStep(u) == SetPersonalState(u) \/ AcknowledgeAlert(u) \/ EraseSubject(u)

Next ==
  \/ Deploy \/ Tick
  \/ \E p \in Producers : ProducerStep(p)
  \/ \E w \in Workers : WorkerStep(w)
  \/ \E u \in Users : UserStep(u)
  \/ \E row \in PersonalRows : SavePersonal(row) \/ DeletePersonal(row)
  \/ \E b \in Batches : BatchStep(b)

Spec == Init /\ [][Next]_vars

-----------------------------------------------------------------------------
(* Properties.                                                             *)

\* Keys and bounds: the indexes of the tables hold, and nothing is dated in
\* the future or tried too often.
KeysOK ==
  /\ \A t \in Tables \ {"alert_groups"} : \A r, s \in db[t] :
       r.id = s.id => r = s
  /\ \A r, s \in db["alert_groups"] :
       r.recipient = s.recipient /\ r.group = s.group => r = s
  /\ \A r, s \in db["events"] : SameSource(r.value, s.value) => r = s

RowsOK ==
  /\ \A t \in Tables : \A r \in db[t] :
       r.at \in 0 .. clock /\ Named(t, r) \subseteq Names \union {NoOne}
  /\ \A t \in {"events", "channel_plans"} : \A r \in db[t] :
       /\ r.attempts \in 0 .. MaximumAttempts
       /\ r.owner # NoOne <=> r.status = "processing"
       /\ r.attempts = MaximumAttempts => r.status = "failed"

TypeOK ==
  /\ catalog \in 0 .. Len(Catalogs) /\ clock \in 0 .. MaxTime
  /\ catalog > 0 => ValidCatalog(Catalogs[catalog])
  /\ personal \subseteq PersonalRows /\ erased \subseteq Users
  /\ KeysOK /\ RowsOK

\* An intent is stored once, however often, by whomever and with whatever
\* content it is sent, through deployments and retention; and every producer
\* that was told that its intent is stored sent what is stored.
IntentsAreIdempotent ==
  /\ \A s, t \in stored : SameSource(s.event, t.event) => s = t
  /\ \A e \in accepted : \E s \in stored : Content(s.event) = Content(e)

SameRow(t, r, s) ==
  IF t = "alert_groups"
  THEN /\ s.group = r.group
       /\ s.recipient \in {r.recipient} \union
            {Anonymous[u] : u \in Users \cap {r.recipient}}
  ELSE s.id = r.id

Ends == [events |-> {"materialized", "failed"},
         channel_plans |-> {"planned", "failed", "cancelled"},
         alert_groups |-> {"resolved"}]

Status(t, r) == IF t = "alert_groups" THEN r.state ELSE r.status

\* A row that vanishes was not on hold, and the archive has an entry of its table
\* and ID.  The groups of several recipients that share a last event share the
\* entry: the payload of one of them is archived (retention.go:251), and all are
\* deleted (:287).  An event, a plan or a group that vanishes was still what
\* retention had listed it for: settled, and old enough.
PurgeLosesNothing ==
  [][\A t \in Tables : \A r \in db[t] :
       (\A s \in db'[t] : ~SameRow(t, r, s)) =>
         /\ <<t, Resource(t, r)>> \in archive
         /\ \E b \in Batches : batch[b].phase = "delete" /\
              ~OnHold(batch[b].held, t, Resource(t, r))
         /\ t \in DOMAIN Ends =>
              Status(t, r) \in Ends[t] /\ r.at + Retention <= clock]_vars

Text(t, r) == IF t = "events" THEN r.value.text ELSE r.text

\* Once a user is erased, no row of the tables names that user, but for rows of
\* an event that a worker held at the time or that was addressed to the user
\* afterwards.  With the same exception, the inbox items and plans under the
\* anonymous name, and the events' own snapshots, have lost their text; but a
\* plan keeps it if its event had yet to be materialised at the erasure, as the
\* digest text of the plans inside an event is kept (subject.go:119-122) and
\* becomes theirs.  Nothing is said of the text inside the events' plans, nor of
\* the archive.
ErasureIsComplete ==
  \A u \in erased :
    /\ \A t \in Tables : \A r \in db[t] :
         u \in Named(t, r) => Origin(t, r) \in tainted[u]
    /\ \A t \in {"inbox_items", "events", "channel_plans"} : \A r \in db[t] :
         Anonymous[u] \in Named(t, r) =>
           \/ Text(t, r) = "erased"
           \/ Origin(t, r) \in tainted[u]
           \/ t = "channel_plans" /\ r.event \in pending[u]
    /\ \A row \in personal : ~Mentions(row, u)
=============================================================================

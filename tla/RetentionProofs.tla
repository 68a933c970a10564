---------------------------- MODULE RetentionProofs ---------------------------
(* The theorems of DataLifecycle about the keys of its tables and about    *)
(* retention.                                                              *)
EXTENDS DataLifecycleProofs

-----------------------------------------------------------------------------
(* The first invariant: keys, dates, leases and attempts, of the rows and  *)
(* of what workers and producers are about to write.                       *)

Unique(S) == \A r, s \in S : r.id = s.id => r = s
Dated(r) == r.at \in Nat /\ r.at <= clock

\* A row of a queue has an owner while it is worked on, and has failed when its
\* attempts are used up.
Leased(r) ==
  /\ r.attempts \in Nat /\ r.attempts <= MaximumAttempts
  /\ r.owner # NoOne <=> r.status = "processing"
  /\ r.attempts = MaximumAttempts => r.status = "failed"

\* The plans of an event have IDs of their own that name the event.
Planned(e) ==
  /\ Unique(e.plans)
  /\ \A p \in e.plans : {"id", "recipients", "text"} \subseteq DOMAIN p /\
                        p.id[1] = e.id

\* The intent with this ID is not sent any more.
Over(id) == \A i \in Intents : i.id = id =>
              sent[i.key] # Never /\ sent[i.key] + RepeatFor < clock

\* No event will be inserted under this ID.
Taken(id) == Over(id) \/ \E r \in db["events"] : r.id = id

ItemsKeyed == /\ Unique(db["inbox_items"])
              /\ \A r \in db["inbox_items"] : Dated(r)

GroupsKeyed ==
  /\ \A r, s \in db["alert_groups"] :
       r.recipient = s.recipient /\ r.group = s.group => r = s
  /\ \A r \in db["alert_groups"] : "group" \in DOMAIN r /\ Dated(r)

PlanTyped(r) == Dated(r) /\ Leased(r) /\ r.id[1] = r.event
PlansKeyed == /\ Unique(db["channel_plans"])
              /\ \A r \in db["channel_plans"] : PlanTyped(r)

EventTyped(r) ==
  /\ Leased(r) /\ Planned(r.value)
  /\ "created" \in DOMAIN r /\ r.created \in Nat /\ r.created <= clock
EventsKeyed ==
  /\ Unique(db["events"])
  /\ \A r, s \in db["events"] : SameSource(r.value, s.value) => r = s
  /\ \A r \in db["events"] : EventTyped(r)

\* A failure is numbered by the attempt that failed.
FailureTyped(f) ==
  /\ {"id", "at"} \subseteq DOMAIN f /\ Dated(f)
  /\ f.id = <<f.id[1], f.id[2]>> /\ f.id[2] \in Nat /\ Taken(f.id[1])
  /\ \A r \in db["events"] : r.id = f.id[1] => f.id[2] <= r.attempts
FailuresKeyed == /\ Unique(db["event_failures"])
                 /\ \A f \in db["event_failures"] : FailureTyped(f)

ReservationTyped(r) == {"id", "at"} \subseteq DOMAIN r /\ Dated(r)
ReservationsKeyed ==
  /\ Unique(db["delivery_reservations"])
  /\ \A r \in db["delivery_reservations"] : ReservationTyped(r)

\* A worker counts the attempts of the row it holds, and has one left.
CopyTyped(v, w, S) ==
  /\ v.kind \in {"events", "channel_plans"}
  /\ v.row.attempts \in Nat /\ v.row.attempts < MaximumAttempts
  /\ v.kind = "events" =>
       Planned(v.row.value) /\ v.row.at \in Nat /\ v.row.at <= clock
  /\ \A r \in S : r.id = v.row.id /\ r.status = "processing" /\ r.owner = w =>
       r.attempts = v.row.attempts
CopiesTyped ==
  \A w \in Workers : work[w] # NoWork =>
    CopyTyped(work[w], w, db[work[w].kind])

CallsTyped ==
  \A p \in Producers : call[p] # NoCall => Planned(call[p].event)

SetupOK ==
  /\ catalog \in 0 .. Len(Catalogs) /\ clock \in 0 .. MaxTime
  /\ catalog > 0 => ValidCatalog(Catalogs[catalog])
  /\ personal \subseteq PersonalRows

TInv == /\ SetupOK /\ ItemsKeyed /\ GroupsKeyed /\ PlansKeyed /\ EventsKeyed
        /\ FailuresKeyed /\ ReservationsKeyed /\ CopiesTyped /\ CallsTyped

-----------------------------------------------------------------------------
(* The second invariant: what becomes of what retention has listed.        *)

\* The event with this ID has been materialised and will not be again.
Done(id) == /\ Taken(id)
            /\ \A r \in db["events"] : r.id = id => r.status = "materialized"

\* Groups that go by one event settled together.
GroupsAgree ==
  \A g, h \in db["alert_groups"] : g.event = h.event /\ g.state = "resolved" =>
    h.state = "resolved" /\ h.at = g.at

\* Plans and groups are what has become of an event.
OriginsOK ==
  /\ \A r \in db["channel_plans"] : Done(r.event)
  /\ \A r \in db["alert_groups"] : Done(r.event)

\* A candidate stays what it was listed for: settled, old enough, and never
\* inserted again.
CandidateOK(t, id) ==
  /\ t = "channel_plans" => Done(id[1])
  /\ t = "alert_groups" => Done(id)
  /\ t \in DOMAIN Ends =>
       \A r \in db[t] : Resource(t, r) = id =>
         Status(t, r) \in Ends[t] /\ r.at + Retention <= clock

\* The row of a candidate is there, or a purge has archived it; and what is
\* about to be deleted has been archived.
BatchOf(v) ==
  LET t == Specs[v.spec]
  IN  /\ "held" \in DOMAIN v
      /\ \A c \in v.todo :
           /\ CandidateOK(t, c.id) /\ ~OnHold(v.held, t, c.id)
           /\ t # "alert_groups" =>
                <<t, c.id>> \in archive \/ \E r \in db[t] : r.id = c.id
      /\ v.phase = "delete" =>
           /\ CandidateOK(t, v.row.id) /\ ~OnHold(v.held, t, v.row.id)
           /\ \/ <<t, v.row.id>> \in archive
              \/ /\ t = "alert_groups"
                 /\ \A r \in db[t] : r.event # v.row.id
CandidatesOK == \A b \in Batches : batch[b] # NoBatch => BatchOf(batch[b])

PInv == GroupsAgree /\ OriginsOK /\ CandidatesOK

-----------------------------------------------------------------------------
(* Frames.                                                                 *)

\* Time passes, and a key that was sent stays sent.
Ages == /\ clock' \in Nat /\ clock <= clock'
        /\ \A k \in Keys : sent[k] # Never => sent'[k] = sent[k]

Settled == {"materialized", "failed"}

\* What every step does to the events: none vanishes that may be sent, none is
\* inserted twice, and what is settled stays.
EventsMove ==
  /\ \A r \in db["events"] : Over(r.id) \/ \E q \in db'["events"] : q.id = r.id
  /\ \A q \in db'["events"] :
       \/ ~Taken(q.id)
       \/ \E r \in db["events"] :
            /\ r.id = q.id /\ r.attempts <= q.attempts
            /\ r.status \in Settled => q.status = r.status /\ q.at = r.at

LEMMA OverStays ==
  ASSUME IInv, Ages, NEW id, Over(id) PROVE Over(id)'
<1> SUFFICES ASSUME NEW i \in Intents, i.id = id
             PROVE  sent'[i.key] # Never /\ sent'[i.key] + RepeatFor < clock'
  BY DEF Over
<1>1. sent[i.key] \in Nat /\ sent[i.key] + RepeatFor < clock /\ i.key \in Keys
  BY DEF Over, IInv, ShapeOK, Keys
<1>2. sent'[i.key] = sent[i.key] /\ clock \in Nat
  BY <1>1 DEF Ages, IInv, ShapeOK, Over
<1> QED
  BY <1>1, <1>2, TimeAssumption DEF Ages, Never

LEMMA TakenStays ==
  ASSUME IInv, Ages, EventsMove, NEW id, Taken(id) PROVE Taken(id)'
BY OverStays DEF Taken, EventsMove

LEMMA DoneStays ==
  ASSUME IInv, Ages, EventsMove, NEW id, Done(id) PROVE Done(id)'
<1>1. Taken(id) /\ Taken(id)'
  BY TakenStays DEF Done
<1>2. ASSUME NEW q \in db'["events"], q.id = id PROVE q.status = "materialized"
  <2>1. PICK r \in db["events"] :
          r.id = id /\ (r.status \in Settled => q.status = r.status)
    BY <1>1, <1>2 DEF EventsMove
  <2> QED
    BY <2>1 DEF Done, Settled
<1> QED
  BY <1>1, <1>2 DEF Done

LEMMA FailureStays ==
  ASSUME IInv, TInv, Ages, EventsMove, EventsKeyed',
         NEW f, FailureTyped(f)
  PROVE  FailureTyped(f)'
<1>1. Taken(f.id[1])'
  BY TakenStays DEF FailureTyped
<1>2. Dated(f)'
  BY DEF FailureTyped, Dated, Ages, IInv, ShapeOK
<1>3. ASSUME NEW q \in db'["events"], q.id = f.id[1] PROVE f.id[2] <= q.attempts
  <2>1. PICK r \in db["events"] : r.id = q.id /\ r.attempts <= q.attempts
    BY <1>3 DEF EventsMove, FailureTyped
  <2>2. r.attempts \in Nat /\ f.id[2] <= r.attempts /\ f.id[2] \in Nat
    BY <1>3, <2>1 DEF FailureTyped, TInv, EventsKeyed, EventTyped, Leased
  <2>3. q.attempts \in Nat
    BY DEF EventsKeyed, EventTyped, Leased
  <2> QED
    BY <2>1, <2>2, <2>3
<1> QED
  BY <1>1, <1>2, <1>3 DEF FailureTyped

\* Whatever x seems to hold is what x held before.
HeldBefore(x) ==
  \A t \in {"events", "channel_plans"} : \A q \in db'[t] :
    q.status = "processing" /\ q.owner = x =>
      \E r \in db[t] : /\ r.id = q.id /\ r.status = "processing"
                       /\ r.owner = x /\ r.attempts = q.attempts

LEMMA CopyKept ==
  ASSUME IInv, TInv, Ages, NEW x \in Workers, NEW v,
         v = work[x], v # NoWork, HeldBefore(x)
  PROVE  CopyTyped(v, x, db[v.kind])'
<1>1. CopyTyped(v, x, db[v.kind])
  BY DEF TInv, CopiesTyped
<1>2. \A q \in db'[v.kind] :
        q.id = v.row.id /\ q.status = "processing" /\ q.owner = x =>
          q.attempts = v.row.attempts
  BY <1>1 DEF CopyTyped, HeldBefore
<1>3. clock \in Nat /\ clock' \in Nat /\ clock <= clock'
  BY DEF Ages, IInv, ShapeOK
<1> QED
  BY <1>1, <1>2, <1>3 DEF CopyTyped

LEMMA CopiesKept ==
  ASSUME IInv, TInv, Ages, NEW w \in Workers,
         \A x \in Workers \ {w} : work'[x] = work[x] /\ HeldBefore(x),
         \/ work'[w] = NoWork
         \/ work'[w] = work[w] /\ HeldBefore(w)
  PROVE  CopiesTyped'
<1> SUFFICES ASSUME NEW x \in Workers, work'[x] # NoWork
             PROVE  CopyTyped(work[x], x, db[work[x].kind])'
  BY DEF CopiesTyped
<1>1. PICK v : v = work[x]
  OBVIOUS
<1>2. v = work'[x] /\ HeldBefore(x)
  BY <1>1
<1>3. CopyTyped(v, x, db[v.kind])'
  BY <1>1, <1>2, CopyKept
<1> QED
  BY <1>2, <1>3 DEF CopyTyped

LEMMA CopiesSame ==
  ASSUME IInv, TInv, Ages, UNCHANGED work, \A x \in Workers : HeldBefore(x)
  PROVE  CopiesTyped'
<1> SUFFICES ASSUME NEW x \in Workers, work'[x] # NoWork
             PROVE  CopyTyped(work[x], x, db[work[x].kind])'
  BY DEF CopiesTyped
<1>1. PICK v : v = work[x] /\ v = work'[x]
  OBVIOUS
<1>2. CopyTyped(v, x, db[v.kind])'
  BY <1>1, CopyKept
<1> QED
  BY <1>1, <1>2 DEF CopyTyped

\* What only loses rows stays as it is.
LEMMA KeysStay ==
  ASSUME IInv, TInv, Ages
  PROVE  /\ db'["inbox_items"] \subseteq db["inbox_items"] => ItemsKeyed'
         /\ db'["alert_groups"] \subseteq db["alert_groups"] => GroupsKeyed'
         /\ db'["channel_plans"] \subseteq db["channel_plans"] => PlansKeyed'
         /\ db'["events"] \subseteq db["events"] => EventsKeyed'
         /\ db'["delivery_reservations"] \subseteq db["delivery_reservations"]
              => ReservationsKeyed'
         /\ UNCHANGED call => CallsTyped'
         /\ UNCHANGED <<catalog, clock, personal>> => SetupOK'
<1>1. \A r : Dated(r) => Dated(r)'
  BY DEF Dated, Ages, IInv, ShapeOK
<1>2. db'["inbox_items"] \subseteq db["inbox_items"] => ItemsKeyed'
  BY <1>1 DEF TInv, ItemsKeyed, Unique
<1>3. db'["alert_groups"] \subseteq db["alert_groups"] => GroupsKeyed'
  BY <1>1 DEF TInv, GroupsKeyed
<1>4. db'["channel_plans"] \subseteq db["channel_plans"] => PlansKeyed'
  BY <1>1 DEF TInv, PlansKeyed, Unique, PlanTyped, Leased
<1>5. db'["events"] \subseteq db["events"] => EventsKeyed'
  <2>1. \A r : EventTyped(r) => EventTyped(r)'
    BY DEF EventTyped, Leased, Planned, Unique, Ages, IInv, ShapeOK
  <2> QED
    BY <2>1 DEF TInv, EventsKeyed, Unique, SameSource
<1>6. db'["delivery_reservations"] \subseteq db["delivery_reservations"]
        => ReservationsKeyed'
  BY <1>1 DEF TInv, ReservationsKeyed, Unique, ReservationTyped
<1>7. UNCHANGED call => CallsTyped'
  BY DEF TInv, CallsTyped, Planned, Unique
<1>8. UNCHANGED <<catalog, clock, personal>> => SetupOK'
  BY DEF TInv, SetupOK
<1> QED
  BY <1>2, <1>3, <1>4, <1>5, <1>6, <1>7, <1>8

LEMMA FailuresStay ==
  ASSUME IInv, TInv, Ages, EventsMove, EventsKeyed',
         db'["event_failures"] \subseteq db["event_failures"]
  PROVE  FailuresKeyed'
BY FailureStays DEF TInv, FailuresKeyed, Unique

\* Events that only vanish when they are not sent any more, or not at all.
LEMMA EventsStill ==
  ASSUME IInv, TInv, db'["events"] \subseteq db["events"],
         \A r \in db["events"] : r \in db'["events"] \/ Over(r.id)
  PROVE  EventsMove
<1>1. \A r \in db["events"] : r.attempts \in Nat
  BY DEF TInv, EventsKeyed, EventTyped, Leased
<1> QED
  BY <1>1 DEF EventsMove

LEMMA NoTime ==
  ASSUME IInv, UNCHANGED <<clock, sent>> PROVE Ages
BY DEF Ages, IInv, ShapeOK

-----------------------------------------------------------------------------
(* Keys and types: producers.                                              *)

LEMMA InitKeys == Init => TInv
<1> SUFFICES ASSUME Init PROVE TInv
  OBVIOUS
<1>1. \A t \in Tables : db[t] = {}
  BY DEF Init
<1>2. ItemsKeyed /\ GroupsKeyed /\ PlansKeyed
  BY <1>1 DEF ItemsKeyed, GroupsKeyed, PlansKeyed, Unique, Tables
<1>3. EventsKeyed /\ FailuresKeyed /\ ReservationsKeyed
  BY <1>1 DEF EventsKeyed, FailuresKeyed, ReservationsKeyed, Unique, Tables
<1>4. CopiesTyped /\ CallsTyped
  BY DEF Init, CopiesTyped, CallsTyped
<1>5. SetupOK
  BY CatalogAssumption, BoundAssumption DEF Init, SetupOK
<1> QED
  BY <1>2, <1>3, <1>4, <1>5 DEF TInv

\* No step writes a row of a table it does not touch.
StillTables == \A t \in Tables : db'[t] = db[t]

LEMMA StillKeys ==
  ASSUME IInv, TInv, Ages, StillTables
  PROVE  /\ ItemsKeyed' /\ GroupsKeyed' /\ PlansKeyed' /\ EventsKeyed'
         /\ FailuresKeyed' /\ ReservationsKeyed' /\ EventsMove
         /\ \A x \in Workers : HeldBefore(x)
<1>1. \A t \in Tables : db'[t] \subseteq db[t]
  BY DEF StillTables
<1>2. EventsMove
  BY EventsStill DEF StillTables, Tables
<1>3. \A x \in Workers : HeldBefore(x)
  BY DEF StillTables, Tables, HeldBefore
<1> QED
  BY <1>1, <1>2, <1>3, KeysStay, FailuresStay DEF Tables

\* Deployments, time, and the mailbox rows of a person.
LEMMA SetupKeys ==
  ASSUME IInv, TInv,
         \/ Deploy \/ Tick \/ UNCHANGED vars
         \/ \E row \in PersonalRows : SavePersonal(row) \/ DeletePersonal(row)
  PROVE  TInv' /\ EventsMove /\ Ages
<1>1. UNCHANGED <<db, call, work, sent>>
  BY DEF Deploy, Tick, vars, SavePersonal, DeletePersonal, history
<1>2. Ages
  BY <1>1 DEF Deploy, Tick, vars, SavePersonal, DeletePersonal, Ages, IInv,
              ShapeOK
<1>3. StillTables
  BY <1>1 DEF StillTables
<1>4. CopiesTyped'
  BY <1>1, <1>2, <1>3, StillKeys, CopiesSame
<1>5. SetupOK'
  <2>1. catalog \in 0 .. Len(Catalogs) /\ clock \in 0 .. MaxTime
        /\ personal \subseteq PersonalRows
        /\ (catalog > 0 => ValidCatalog(Catalogs[catalog]))
    BY DEF TInv, SetupOK
  <2>2. CASE Deploy
    BY <2>1, <2>2, CatalogAssumption DEF Deploy, SetupOK
  <2>3. CASE Tick
    BY <2>1, <2>3, BoundAssumption DEF Tick, SetupOK, history
  <2>4. ASSUME NEW row \in PersonalRows, SavePersonal(row) \/ DeletePersonal(row)
        PROVE  SetupOK'
    BY <2>1, <2>4 DEF SavePersonal, DeletePersonal, SetupOK
  <2>5. CASE UNCHANGED vars
    BY <2>1, <2>5 DEF vars, SetupOK
  <2> QED
    BY <2>2, <2>3, <2>4, <2>5
<1> QED
  BY <1>1, <1>2, <1>3, <1>4, <1>5, StillKeys, KeysStay DEF TInv

\* The channels of a rule differ in channel or step, and so do the IDs of its
\* plans.
LEMMA CompiledPlans ==
  ASSUME NEW c, ValidCatalog(c), NEW i \in Intents, NEW e, e = Compile(c, i)
  PROVE  Planned(e)
<1>1. e.plans = CompilePlans(c, i) /\ e.id = i.id
  BY DEF Compile
<1>2. CASE HasRule(c, i.type) /\ c.rules[i.type].enabled
  <2>1. PICK rule : rule = c.rules[i.type]
    OBVIOUS
  <2>2. \A a, b \in rule.channels :
          a.channel = b.channel /\ a.step = b.step => a = b
    BY <1>2, <2>1 DEF ValidCatalog, ValidRule, HasRule
  <2>3. \A p \in e.plans : \E a \in rule.channels : p = CompilePlan(i, a)
    BY <1>1, <1>2, <2>1 DEF CompilePlans
  <2>4. ASSUME NEW p, NEW a, p = CompilePlan(i, a)
        PROVE  /\ {"id", "recipients", "text"} \subseteq DOMAIN p
               /\ p.id = <<i.id, a.channel, a.connector, a.step>>
               /\ p.id[1] = i.id
    BY <2>4 DEF CompilePlan, PlanID
  <2>5. ASSUME NEW p \in e.plans, NEW q \in e.plans, p.id = q.id PROVE p = q
    <3>1. PICK a \in rule.channels : p = CompilePlan(i, a)
      BY <2>3
    <3>2. PICK b \in rule.channels : q = CompilePlan(i, b)
      BY <2>3
    <3>3. <<i.id, a.channel, a.connector, a.step>> =
          <<i.id, b.channel, b.connector, b.step>>
      BY <2>4, <2>5, <3>1, <3>2
    <3>4. a.channel = b.channel /\ a.step = b.step
      BY <3>3
    <3> QED
      BY <2>2, <3>1, <3>2, <3>4
  <2> QED
    BY <1>1, <2>3, <2>4, <2>5 DEF Planned, Unique
<1>3. CASE ~(HasRule(c, i.type) /\ c.rules[i.type].enabled)
  BY <1>1, <1>3 DEF CompilePlans, Planned, Unique
<1> QED
  BY <1>2, <1>3

LEMMA PublishKeys ==
  ASSUME IInv, TInv, NEW p \in Producers, PublishIntent(p)
  PROVE  TInv' /\ EventsMove /\ Ages
<1>1. PICK i \in Intents :
        /\ sent' = [sent EXCEPT ![i.key] = IF @ = Never THEN clock ELSE @]
        /\ call' = [call EXCEPT ![p] =
             [phase |-> "compiled", created |-> clock,
              event |-> Compile(Catalogs[catalog], i)]]
  BY DEF PublishIntent
<1>2. UNCHANGED <<db, work, clock, personal, catalog>>
  BY DEF PublishIntent
<1>3. Ages
  BY <1>1, <1>2, FirstSending DEF Ages, IInv, ShapeOK
<1>4. StillTables
  BY <1>2 DEF StillTables
<1>5. PICK e : e = Compile(Catalogs[catalog], i)
  OBVIOUS
<1>6. Planned(e)
  <2>1. ValidCatalog(Catalogs[catalog])
    BY DEF PublishIntent, TInv, SetupOK
  <2> QED
    BY <1>5, <2>1, CompiledPlans
<1>7. PICK c : c = [phase |-> "compiled", created |-> clock, event |-> e]
  OBVIOUS
<1>8. \A q \in Producers : call'[q] = IF q = p THEN c ELSE call[q]
  BY <1>1, <1>5, <1>7 DEF IInv, ShapeOK
<1>9. c.event = e
  BY <1>7
<1>10. CallsTyped'
  <2> SUFFICES ASSUME NEW q \in Producers, call'[q] # NoCall
               PROVE  Planned(call'[q].event)
    BY DEF CallsTyped, Planned, Unique
  <2> QED
    BY <1>6, <1>8, <1>9 DEF TInv, CallsTyped
<1>11. CopiesTyped'
  BY <1>2, <1>3, <1>4, StillKeys, CopiesSame
<1> QED
  BY <1>2, <1>3, <1>4, <1>10, <1>11, StillKeys, KeysStay DEF TInv

\* Nobody else inserts the event while its row is there, and once its row is
\* gone, it is not sent any more.
LEMMA StoresKeys ==
  ASSUME IInv, TInv, NEW p \in Producers, call[p].phase = "compiled",
         \A r \in db["events"] : ~Collides(r, call[p].event),
         Stores(p), UNCHANGED <<clock, sent>>
  PROVE  /\ EventsKeyed' /\ EventsMove
         /\ \A t \in Tables \ {"events"} : db'[t] = db[t]
         /\ \A x \in Workers : HeldBefore(x)
         /\ \A r \in db["events"] : r \in db'["events"]
<1>1. PICK e, d : call[p].event = e /\ call[p].created = d
  OBVIOUS
<1>2. call[p] # NoCall
  BY DEF NoCall
<1>3. /\ IsEvent(e) /\ Intended(e) /\ d \in Nat /\ d <= clock /\ Planned(e)
      /\ sent[e.key] # Never /\ clock <= sent[e.key] + RepeatFor
  BY <1>1, <1>2 DEF IInv, CallsOK, CallOK, SentBy, TInv, CallsTyped
<1>4. PICK x : x = EventRow(e, d)
  OBVIOUS
<1>5. db' = [db EXCEPT !["events"] = @ \union {x}]
  BY <1>1, <1>4 DEF Stores
<1>6. /\ db'["events"] = db["events"] \union {x}
      /\ \A t \in Tables \ {"events"} : db'[t] = db[t]
  BY <1>5 DEF IInv, ShapeOK, Tables
<1>7. /\ x.id = e.id /\ x.value = e /\ x.status = "queued"
      /\ x.owner = NoOne /\ x.attempts = 0 /\ x.created = d
      /\ "created" \in DOMAIN x
  BY <1>4 DEF EventRow
<1>8. EventTyped(x)'
  BY <1>3, <1>7, TimeAssumption DEF EventTyped, Leased, Planned, Unique
<1>9. \A r \in db["events"] : r.id # e.id /\ ~SameSource(r.value, e)
  BY <1>1 DEF Collides
<1>10. EventsKeyed'
  <2>1. \A r \in db["events"] : EventTyped(r)'
    BY DEF TInv, EventsKeyed, EventTyped, Leased, Planned, Unique
  <2>2. \A r, s \in db'["events"] : r.id = s.id => r = s
    BY <1>6, <1>7, <1>9 DEF TInv, EventsKeyed, Unique
  <2>3. \A r, s \in db'["events"] : SameSource(r.value, s.value) => r = s
    BY <1>6, <1>7, <1>9 DEF TInv, EventsKeyed, SameSource
  <2> QED
    BY <1>6, <1>8, <2>1, <2>2, <2>3 DEF EventsKeyed, Unique, SameSource
<1>11. ~Taken(x.id)
  <2>1. PICK i \in Intents : i.id = e.id /\ i.key = e.key
    BY <1>3 DEF Intended
  <2>2. sent[i.key] \in Nat /\ clock \in Nat /\ RepeatFor \in Nat
    BY <1>3, <2>1, TimeAssumption DEF IInv, ShapeOK, Keys
  <2>3. ~Over(e.id)
    BY <1>3, <2>1, <2>2 DEF Over
  <2> QED
    BY <1>7, <1>9, <2>3 DEF Taken
<1>12. EventsMove
  <2>1. \A r \in db["events"] : r.attempts \in Nat
    BY DEF TInv, EventsKeyed, EventTyped, Leased
  <2> QED
    BY <1>6, <1>11, <2>1 DEF EventsMove
<1>13. \A w \in Workers : HeldBefore(w)
  BY <1>6, <1>7 DEF HeldBefore, Tables
<1> QED
  BY <1>6, <1>10, <1>12, <1>13

LEMMA StoredKeys ==
  ASSUME IInv, TInv, Ages, EventsKeyed', EventsMove,
         \A t \in Tables \ {"events"} : db'[t] = db[t],
         \A x \in Workers : HeldBefore(x),
         UNCHANGED <<catalog, clock, personal, work>>, CallsTyped'
  PROVE  TInv'
<1>1. CopiesTyped'
  BY CopiesSame
<1> QED
  BY <1>1, KeysStay, FailuresStay DEF TInv, Tables

LEMMA ReturnKeys ==
  ASSUME IInv, TInv, NEW p \in Producers, Return(p) PROVE CallsTyped'
<1>1. \A q \in Producers : call'[q] = IF q = p THEN NoCall ELSE call[q]
  BY DEF Return, IInv, ShapeOK
<1> QED
  BY <1>1 DEF TInv, CallsTyped, Planned, Unique

LEMMA ProducerKeys ==
  ASSUME IInv, TInv, NEW p \in Producers, ProducerStep(p)
  PROVE  TInv' /\ EventsMove /\ Ages
<1>1. CASE PublishIntent(p)
  BY <1>1, PublishKeys
<1>2. ASSUME ~PublishIntent(p)
      PROVE  UNCHANGED <<clock, sent, personal, catalog, work>> /\ Ages
  BY <1>2, NoTime DEF ProducerStep, Enqueue, LookUp, InsertEvent
<1>3. ASSUME UNCHANGED db, ~PublishIntent(p), CallsTyped'
      PROVE  TInv' /\ EventsMove
  <2>1. StillTables /\ Ages
    BY <1>2, <1>3 DEF StillTables
  <2> QED
    BY <1>2, <1>3, <2>1, StillKeys, KeysStay, CopiesSame DEF TInv
<1>4. ASSUME call[p].phase = "compiled", Stores(p), ~PublishIntent(p),
             \A r \in db["events"] : ~Collides(r, call[p].event), CallsTyped'
      PROVE  TInv' /\ EventsMove
  BY <1>2, <1>4, StoresKeys, StoredKeys
<1>5. CASE Enqueue(p) /\ ~PublishIntent(p)
  <2>1. call[p].phase = "compiled"
    BY <1>5 DEF Enqueue
  <2>2. CASE /\ \A r \in db["events"] : ~Collides(r, call[p].event)
             /\ Stores(p) /\ Return(p)
    BY <1>2, <1>4, <1>5, <2>1, <2>2, ReturnKeys
  <2>3. ASSUME call' = [call EXCEPT ![p].phase = "refused"], UNCHANGED db
        PROVE  TInv' /\ EventsMove
    <3>1. PICK d : d = [call[p] EXCEPT !.phase = "refused"]
      OBVIOUS
    <3>2. \A q \in Producers : call'[q] = IF q = p THEN d ELSE call[q]
      BY <2>3, <3>1 DEF IInv, ShapeOK
    <3>3. call[p] # NoCall
      BY <2>1 DEF NoCall
    <3>4. d.event = call[p].event
      BY <3>1, <3>3 DEF IInv, CallsOK, CallOK
    <3>5. CallsTyped'
      BY <3>2, <3>3, <3>4 DEF TInv, CallsTyped, Planned, Unique
    <3> QED
      BY <1>3, <1>5, <2>3, <3>5
  <2> QED
    BY <1>2, <1>5, <2>2, <2>3 DEF Enqueue
<1>6. CASE LookUp(p) /\ ~PublishIntent(p)
  BY <1>2, <1>3, <1>6, ReturnKeys DEF LookUp
<1>7. CASE InsertEvent(p) /\ ~PublishIntent(p)
  <2>1. CallsTyped' /\ call[p].phase = "compiled"
    BY <1>7, ReturnKeys DEF InsertEvent
  <2> QED
    BY <1>2, <1>3, <1>4, <1>7, <2>1 DEF InsertEvent
<1> QED
  BY <1>1, <1>5, <1>6, <1>7 DEF ProducerStep

-----------------------------------------------------------------------------
(* Keys and types: workers.                                                *)

\* One row of a queue is rewritten by the worker that holds it.
LEMMA ReplaceEvent ==
  ASSUME IInv, TInv, Ages, NEW r \in db["events"], NEW q, Leased(q),
         db'["events"] = (db["events"] \ {r}) \union {q},
         q.id = r.id, q.value = r.value, "created" \in DOMAIN q,
         q.created = r.created, r.status \notin Settled,
         r.attempts <= q.attempts
  PROVE  EventsKeyed' /\ EventsMove
<1>1. \A x \in db["events"] : EventTyped(x)
  BY DEF TInv, EventsKeyed
<1>2. \A x : EventTyped(x) => EventTyped(x)'
  BY DEF EventTyped, Leased, Planned, Unique, Ages, IInv, ShapeOK
<1>3. EventTyped(q)
  BY <1>1 DEF EventTyped
<1>4. Unique(db["events"])
  BY DEF TInv, EventsKeyed
<1>5. \A x, y \in db'["events"] : x.id = y.id => x = y
  BY <1>4 DEF Unique
<1>6. \A x, y \in db'["events"] : SameSource(x.value, y.value) => x = y
  BY DEF TInv, EventsKeyed, SameSource
<1>7. EventsMove
  <2>1. \A x \in db["events"] : x.attempts \in Nat
    BY <1>1 DEF EventTyped, Leased
  <2> QED
    BY <2>1 DEF EventsMove
<1> QED
  BY <1>1, <1>2, <1>3, <1>5, <1>6, <1>7
     DEF EventsKeyed, Unique, SameSource

LEMMA ReplacePlan ==
  ASSUME IInv, TInv, Ages, NEW r \in db["channel_plans"], NEW q, Leased(q),
         db'["channel_plans"] = (db["channel_plans"] \ {r}) \union {q},
         q.id = r.id, q.event = r.event, q.at = clock
  PROVE  PlansKeyed'
<1>1. \A x \in db["channel_plans"] : PlanTyped(x)
  BY DEF TInv, PlansKeyed
<1>2. \A x : PlanTyped(x) => PlanTyped(x)'
  BY DEF PlanTyped, Dated, Leased, Ages, IInv, ShapeOK
<1>3. PlanTyped(q)
  BY <1>1 DEF PlanTyped, Dated, IInv, ShapeOK
<1>4. \A x, y \in db'["channel_plans"] : x.id = y.id => x = y
  BY DEF TInv, PlansKeyed, Unique
<1> QED
  BY <1>1, <1>2, <1>3, <1>4 DEF PlansKeyed, Unique

\* What is released, or replaced by what nobody holds, was held by others.
LEMMA Rewritten ==
  ASSUME NEW t \in {"events", "channel_plans"}, NEW r \in db[t], NEW q,
         db'[t] = (db[t] \ {r}) \union {q},
         \A u \in {"events", "channel_plans"} \ {t} : db'[u] = db[u],
         NEW x, q.status # "processing" \/ q.owner # x
  PROVE  HeldBefore(x)
BY DEF HeldBefore

LEMMA ClaimKeys ==
  ASSUME IInv, EInv, TInv, NEW w \in Workers,
         NEW t \in {"events", "channel_plans"}, Claim(w, t)
  PROVE  TInv' /\ EventsMove /\ Ages
<1>1. PICK r \in db[t] :
        /\ Due(r)
        /\ db' = [db EXCEPT ![t] = (@ \ {r}) \union {Claimed(r, w)}]
        /\ work' = [work EXCEPT ![w] =
             [kind |-> t, row |-> Claimed(r, w), reserved |-> FALSE]]
  BY DEF Claim
<1>2. UNCHANGED <<clock, sent, catalog, personal, call>> /\ Ages
  BY NoTime DEF Claim, intake
<1>3. PICK q : q = Claimed(r, w)
  OBVIOUS
<1>4. PICK v : v = [kind |-> t, row |-> q, reserved |-> FALSE]
  OBVIOUS
<1>5. \A x \in Workers : work'[x] = IF x = w THEN v ELSE work[x]
  BY <1>1, <1>3, <1>4 DEF IInv, ShapeOK
<1>6. /\ db'[t] = (db[t] \ {r}) \union {q}
      /\ \A u \in Tables \ {t} : db'[u] = db[u]
  BY <1>1, <1>3 DEF IInv, ShapeOK, Tables
<1>7. /\ Leased(r) /\ {"id", "status", "owner", "attempts", "at"} \subseteq DOMAIN r
      /\ t = "events" => {"value", "created"} \subseteq DOMAIN r
      /\ t = "channel_plans" => "event" \in DOMAIN r
  BY DEF TInv, EventsKeyed, EventTyped, PlansKeyed, PlanTyped, EInv, EventNames,
         EventNamesOK, IsRow, PlansOK, PlanOK
<1>8. /\ q.id = r.id /\ q.status = "processing" /\ q.owner = w
      /\ q.at = clock /\ q.attempts = r.attempts /\ DOMAIN q = DOMAIN r
      /\ t = "events" => q.value = r.value /\ q.created = r.created
      /\ t = "channel_plans" => q.event = r.event
  BY <1>3, <1>7 DEF Claimed
<1>9. r.status \in {"queued", "processing"} /\ r.attempts < MaximumAttempts
      /\ r.attempts \in Nat
  BY <1>1, <1>7, TimeAssumption DEF Due, Leased
<1>10. Leased(q)
  <2>1. w # NoOne
    BY NameAssumption
  <2> QED
    BY <1>8, <1>9, <2>1, TimeAssumption DEF Leased
<1>11. \A x \in Workers \ {w} : HeldBefore(x)
  BY <1>6, <1>8, Rewritten DEF Tables
<1>12. CopyTyped(v, w, db[v.kind])'
  <2>1. v.kind = t /\ v.row = q
    BY <1>4
  <2>2. t = "events" => Planned(q.value) /\ q.at \in Nat /\ q.at <= clock'
    BY <1>2, <1>8 DEF TInv, EventsKeyed, EventTyped, IInv, ShapeOK
  <2>3. Unique(db[t])
    BY DEF TInv, EventsKeyed, PlansKeyed
  <2>4. \A x \in db'[t] : x.id = q.id => x = q
    BY <1>6, <1>8, <2>3 DEF Unique
  <2>5. q.attempts \in Nat /\ q.attempts < MaximumAttempts
    BY <1>8, <1>9
  <2> QED
    BY <2>1, <2>2, <2>4, <2>5 DEF CopyTyped, Planned, Unique
<1>13. CopiesTyped'
  <2> SUFFICES ASSUME NEW x \in Workers, work'[x] # NoWork
               PROVE  CopyTyped(work[x], x, db[work[x].kind])'
    BY DEF CopiesTyped
  <2>1. PICK c : c = work'[x]
    OBVIOUS
  <2>2. CopyTyped(c, x, db[c.kind])'
    <3>1. CASE x = w
      BY <1>5, <1>12, <2>1, <3>1
    <3>2. CASE x # w
      <4>1. c = work[x] /\ HeldBefore(x)
        BY <1>5, <1>11, <2>1, <3>2
      <4> QED
        BY <1>2, <2>1, <4>1, CopyKept
    <3> QED
      BY <3>1, <3>2
  <2> QED
    BY <2>1, <2>2 DEF CopyTyped
<1>14. CASE t = "events"
  <2>1. EventsKeyed' /\ EventsMove
    BY <1>2, <1>6, <1>7, <1>8, <1>9, <1>10, <1>14, ReplaceEvent DEF Settled
  <2> QED
    BY <1>2, <1>6, <1>13, <1>14, <2>1, KeysStay, FailuresStay DEF TInv, Tables
<1>15. CASE t = "channel_plans"
  <2>1. PlansKeyed'
    BY <1>2, <1>6, <1>8, <1>10, <1>15, ReplacePlan
  <2>2. db'["events"] = db["events"]
    BY <1>6, <1>15 DEF Tables
  <2>3. EventsMove
    BY <2>2, EventsStill
  <2>4. EventsKeyed'
    BY <1>2, <2>2, KeysStay
  <2> QED
    BY <1>2, <1>6, <1>13, <1>15, <2>1, <2>3, <2>4, KeysStay, FailuresStay
       DEF TInv, Tables
<1> QED
  BY <1>14, <1>15

LEMMA GiveUpKeys ==
  ASSUME IInv, TInv, NEW w \in Workers, GiveUp(w)
  PROVE  TInv' /\ EventsMove /\ Ages
<1>1. /\ UNCHANGED <<clock, sent, catalog, personal, call, db>> /\ Ages
      /\ work' = [work EXCEPT ![w] = NoWork]
  BY NoTime DEF GiveUp, intake
<1>2. StillTables
  BY <1>1 DEF StillTables
<1>3. \A x \in Workers : work'[x] = IF x = w THEN NoWork ELSE work[x]
  BY <1>1 DEF IInv, ShapeOK
<1>4. CopiesTyped'
  BY <1>1, <1>2, <1>3, StillKeys, CopiesKept
<1> QED
  BY <1>1, <1>2, <1>4, StillKeys, KeysStay DEF TInv

\* One item for each user, whatever was there before.
LEMMA UpsertKeys ==
  ASSUME NEW rows, Unique(rows), NEW e, NEW users, NEW at
  PROVE  /\ Unique(UpsertInboxItems(rows, e, users, at))
         /\ \A q \in UpsertInboxItems(rows, e, users, at) :
              q \in rows \/ (q.at = at /\ q.id[2] = Identity(e))
<1>1. PICK d : d = Identity(e)
  OBVIOUS
<1>2. ASSUME NEW u PROVE ItemOf(e, u, at).id = <<u, d>> /\ ItemOf(e, u, at).at = at
  BY <1>1 DEF ItemOf
<1>3. ASSUME NEW u, NEW q \in UpsertInboxItem(rows, e, u, at)
      PROVE  q.id = <<u, d>> /\ (q \in rows \/ q.at = at)
  <2>1. PICK n : n = ItemOf(e, u, at)
    OBVIOUS
  <2>2. \A x : [n EXCEPT !.recipient = x].id = <<u, d>>
               /\ [n EXCEPT !.recipient = x].at = at
    BY <1>1, <2>1 DEF ItemOf
  <2> QED
    BY <1>1, <1>2, <1>3, <2>1, <2>2 DEF UpsertInboxItem
<1>4. ASSUME NEW u, NEW q \in UpsertInboxItem(rows, e, u, at),
             NEW s \in UpsertInboxItem(rows, e, u, at)
      PROVE  q = s
  <2>1. \A x, y \in rows : x.id = <<u, d>> /\ y.id = <<u, d>> => x = y
    BY DEF Unique
  <2> QED
    BY <1>1, <2>1 DEF UpsertInboxItem
<1>5. \A q \in UpsertInboxItems(rows, e, users, at) :
        \/ q \in rows /\ \A u \in users : q.id # <<u, d>>
        \/ \E u \in users : q \in UpsertInboxItem(rows, e, u, at)
  BY <1>1 DEF UpsertInboxItems
<1>6. ASSUME NEW q \in UpsertInboxItems(rows, e, users, at),
             NEW s \in UpsertInboxItems(rows, e, users, at), q.id = s.id
      PROVE  q = s
  <2>1. CASE \E u \in users : q \in UpsertInboxItem(rows, e, u, at)
    <3>1. PICK u \in users : q \in UpsertInboxItem(rows, e, u, at)
      BY <2>1
    <3>2. q.id = <<u, d>>
      BY <1>3, <3>1
    <3>3. PICK v \in users : s \in UpsertInboxItem(rows, e, v, at)
      BY <1>5, <1>6, <3>2
    <3>4. s.id = <<v, d>>
      BY <1>3, <3>3
    <3>5. <<u, d>> = <<v, d>>
      BY <1>6, <3>2, <3>4
    <3>6. u = v
      BY <3>5
    <3> QED
      BY <1>4, <3>1, <3>3, <3>6
  <2>2. CASE q \in rows /\ \A u \in users : q.id # <<u, d>>
    <3>1. s \in rows
      BY <1>3, <1>5, <1>6, <2>2
    <3> QED
      BY <1>6, <2>2, <3>1 DEF Unique
  <2> QED
    BY <1>5, <2>1, <2>2
<1>7. ASSUME NEW q \in UpsertInboxItems(rows, e, users, at)
      PROVE  q \in rows \/ (q.at = at /\ q.id[2] = d)
  BY <1>3, <1>5, <1>7
<1> QED
  BY <1>1, <1>6, <1>7 DEF Unique

\* One group for each recipient, whatever was there before.
LEMMA TransitionKeys ==
  ASSUME NEW rows, NEW e, NEW users, NEW at,
         \A r, s \in rows : r.recipient = s.recipient /\ r.group = s.group => r = s
  PROVE  LET new == TransitionAlertGroups(rows, e, users, at)
         IN  /\ \A q, s \in new :
                  q.recipient = s.recipient /\ q.group = s.group => q = s
             /\ \A q \in new :
                  q \in rows \/ \E u \in users : q = GroupOf(e, u, at)
<1>1. CASE e.alert = ""
  BY <1>1 DEF TransitionAlertGroups
<1>2. CASE e.alert # ""
  <2>1. PICK kept : kept = {r \in rows : \/ r.group # e.group
                                         \/ r.recipient \notin users
                                         \/ r.occurred > e.occurred}
    OBVIOUS
  <2>2. PICK new : new = TransitionAlertGroups(rows, e, users, at)
    OBVIOUS
  <2>3. new = kept \union {GroupOf(e, u, at) : u \in
                {v \in users : \A r \in kept :
                   r.group = e.group => r.recipient # v}}
    BY <1>2, <2>1, <2>2 DEF TransitionAlertGroups
  <2>4. ASSUME NEW u, NEW q, q = GroupOf(e, u, at)
        PROVE  q.recipient = u /\ q.group = e.group
    BY <2>4 DEF GroupOf
  <2>5. kept \subseteq rows
    BY <2>1
  <2>6. ASSUME NEW q \in new, NEW s \in new,
               q.recipient = s.recipient, q.group = s.group
        PROVE  q = s
    <3>1. CASE q \in kept /\ s \in kept
      BY <2>5, <2>6, <3>1
    <3>2. CASE q \notin kept /\ s \notin kept
      <4>1. PICK u \in users : q = GroupOf(e, u, at)
        BY <2>3, <3>2
      <4>2. PICK v \in users : s = GroupOf(e, v, at)
        BY <2>3, <3>2
      <4>3. u = v
        BY <2>4, <2>6, <4>1, <4>2
      <4> QED
        BY <4>1, <4>2, <4>3
    <3>3. \A a \in kept, b \in new \ kept :
            ~(a.recipient = b.recipient /\ a.group = b.group)
      <4> SUFFICES ASSUME NEW a \in kept, NEW b \in new \ kept,
                          a.recipient = b.recipient, a.group = b.group
                   PROVE  FALSE
        OBVIOUS
      <4>1. PICK u \in users :
              b = GroupOf(e, u, at) /\ \A r \in kept :
                r.group = e.group => r.recipient # u
        BY <2>3
      <4> QED
        BY <2>4, <4>1
    <3> QED
      BY <2>6, <3>1, <3>2, <3>3
  <2>7. \A q \in new : q \in rows \/ \E u \in users : q = GroupOf(e, u, at)
    BY <2>3, <2>5
  <2> QED
    BY <2>2, <2>6, <2>7
<1> QED
  BY <1>1, <1>2

\* The plans of an event are queued under their IDs.
LEMMA PlansOfKeys ==
  ASSUME NEW e, Planned(e), NEW users, NEW created, NEW P,
         P = PlansOf(e, users, created)
  PROVE  /\ Unique(P)
         /\ \A q \in P : /\ \E p \in e.plans : q.id = p.id
                         /\ q.id[1] = e.id /\ q.event = e.id
                         /\ q.status = "queued" /\ q.owner = NoOne
                         /\ q.attempts = 0 /\ q.at = created
<1>1. \A q \in P : \E p \in e.plans : q = PlanRow(p, e, users, created)
  BY DEF PlansOf
<1>2. ASSUME NEW p, NEW q, q = PlanRow(p, e, users, created)
      PROVE  /\ q.id = p.id /\ q.event = e.id /\ q.status = "queued"
             /\ q.owner = NoOne /\ q.attempts = 0 /\ q.at = created
  BY <1>2 DEF PlanRow
<1>3. ASSUME NEW q \in P, NEW s \in P, q.id = s.id PROVE q = s
  <2>1. PICK p \in e.plans : q = PlanRow(p, e, users, created)
    BY <1>1
  <2>2. PICK o \in e.plans : s = PlanRow(o, e, users, created)
    BY <1>1
  <2>3. p = o
    BY <1>2, <1>3, <2>1, <2>2 DEF Planned, Unique
  <2> QED
    BY <2>1, <2>2, <2>3
<1>4. ASSUME NEW q \in P
      PROVE  /\ \E p \in e.plans : q.id = p.id
             /\ q.id[1] = e.id /\ q.event = e.id
             /\ q.status = "queued" /\ q.owner = NoOne
             /\ q.attempts = 0 /\ q.at = created
  <2>1. PICK p \in e.plans : q = PlanRow(p, e, users, created)
    BY <1>1
  <2>2. p.id[1] = e.id
    BY DEF Planned
  <2> QED
    BY <1>2, <2>1, <2>2
<1> QED
  BY <1>3, <1>4 DEF Unique

\* What the worker holds, as it is and as it was claimed.
LEMMA HeldCopy ==
  ASSUME IInv, EInv, TInv, NEW w \in Workers,
         NEW k \in {"events", "channel_plans"}, work[w].kind = k,
         NEW r \in db[k], Held(r, w)
  PROVE  /\ work[w] # NoWork /\ r.id = work[w].row.id /\ Leased(r)
         /\ r.status = "processing" /\ r.attempts = work[w].row.attempts
         /\ r.attempts \in Nat /\ r.attempts < MaximumAttempts
         /\ k = "events" =>
              /\ Planned(work[w].row.value) /\ work[w].row.value.id = r.id
              /\ work[w].row.at \in Nat /\ work[w].row.at <= clock
<1>1. work[w] # NoWork
  BY DEF NoWork
<1>2. CopyTyped(work[w], w, db[k])
  BY <1>1 DEF TInv, CopiesTyped
<1>3. k = "events" => work[w].row.value.id = work[w].row.id
  BY <1>1 DEF EInv, CopiesOK, CopyOK, EventNamesOK
<1>4. Leased(r)
  BY DEF TInv, EventsKeyed, EventTyped, PlansKeyed, PlanTyped
<1> QED
  BY <1>1, <1>2, <1>3, <1>4 DEF CopyTyped, Held

LEMMA ReleaseKeys ==
  ASSUME IInv, TInv, Ages, NEW w \in Workers,
         work' = [work EXCEPT ![w] = NoWork],
         \A x \in Workers : HeldBefore(x)
  PROVE  CopiesTyped'
<1>1. \A x \in Workers : work'[x] = IF x = w THEN NoWork ELSE work[x]
  BY DEF IInv, ShapeOK
<1> QED
  BY <1>1, CopiesKept

LEMMA MaterializeKeys ==
  ASSUME IInv, EInv, TInv, NEW w \in Workers, Materialize(w)
  PROVE  TInv' /\ EventsMove /\ Ages
<1>1. PICK e, at : e = work[w].row.value /\ at = work[w].row.at
  OBVIOUS
<1>2. PICK r \in db["events"], users \in Audiences(e) :
        /\ Held(r, w)
        /\ \A q \in db["channel_plans"] : \A p \in e.plans : q.id # p.id
        /\ db' = [db EXCEPT
             !["alert_groups"] = TransitionAlertGroups(@, e, users, at),
             !["inbox_items"] = UpsertInboxItems(@, e, users, at),
             !["channel_plans"] = @ \union PlansOf(e, users, r.created),
             !["events"] = (@ \ {r}) \union {Materialized(r, at)}]
  BY <1>1 DEF Materialize
<1>3. PICK G, I, P, q :
        /\ G = TransitionAlertGroups(db["alert_groups"], e, users, at)
        /\ I = UpsertInboxItems(db["inbox_items"], e, users, at)
        /\ P = PlansOf(e, users, r.created)
        /\ q = Materialized(r, at)
  OBVIOUS
<1>4. /\ db'["alert_groups"] = G /\ db'["inbox_items"] = I
      /\ db'["channel_plans"] = db["channel_plans"] \union P
      /\ db'["events"] = (db["events"] \ {r}) \union {q}
      /\ db'["delivery_reservations"] = db["delivery_reservations"]
      /\ db'["event_failures"] = db["event_failures"]
  BY <1>2, <1>3 DEF IInv, ShapeOK, Tables
<1>5. /\ UNCHANGED <<call, personal, catalog, clock, sent>> /\ Ages
      /\ work' = [work EXCEPT ![w] = NoWork] /\ work[w].kind = "events"
  BY NoTime DEF Materialize, intake
<1>6. /\ Leased(r) /\ r.status = "processing" /\ e.id = r.id /\ Planned(e)
      /\ r.attempts \in Nat /\ r.attempts < MaximumAttempts
      /\ at \in Nat /\ at <= clock
  BY <1>1, <1>2, <1>5, HeldCopy
<1>7. clock \in Nat /\ MaximumAttempts \in Nat \ {0}
  BY TimeAssumption DEF IInv, ShapeOK
<1>8. EventsKeyed' /\ EventsMove
  <2>1. IsRow(r) /\ "created" \in DOMAIN r
    BY DEF EInv, EventNames, EventNamesOK, TInv, EventsKeyed, EventTyped
  <2>2. /\ q.id = r.id /\ q.value = r.value /\ q.created = r.created
        /\ "created" \in DOMAIN q /\ q.status = "materialized"
        /\ q.owner = NoOne /\ q.attempts = r.attempts
    BY <1>3, <2>1 DEF Materialized, Released, IsRow
  <2>3. Leased(q)
    BY <1>6, <1>7, <2>2 DEF Leased
  <2>4. r.status \notin Settled
    BY <1>6 DEF Settled
  <2> QED
    BY <1>4, <1>5, <1>6, <2>2, <2>3, <2>4, ReplaceEvent
<1>9. ItemsKeyed'
  <2>1. Unique(db["inbox_items"]) /\ \A x \in db["inbox_items"] : Dated(x)
    BY DEF TInv, ItemsKeyed
  <2>2. Unique(I) /\ \A x \in I : x \in db["inbox_items"] \/ x.at = at
    BY <1>3, <2>1, UpsertKeys
  <2> QED
    BY <1>4, <1>5, <1>6, <2>1, <2>2 DEF ItemsKeyed, Unique, Dated
<1>10. GroupsKeyed'
  <2>1. /\ \A x, y \in db["alert_groups"] :
             x.recipient = y.recipient /\ x.group = y.group => x = y
        /\ \A x \in db["alert_groups"] : "group" \in DOMAIN x /\ Dated(x)
    BY DEF TInv, GroupsKeyed
  <2>2. /\ \A x, y \in G :
             x.recipient = y.recipient /\ x.group = y.group => x = y
        /\ \A x \in G : x \in db["alert_groups"] \/
                        \E u \in users : x = GroupOf(e, u, at)
    BY <1>3, <2>1, TransitionKeys
  <2>3. ASSUME NEW u, NEW x, x = GroupOf(e, u, at)
        PROVE  "group" \in DOMAIN x /\ x.at = at
    BY <2>3 DEF GroupOf
  <2> QED
    BY <1>4, <1>5, <1>6, <2>1, <2>2, <2>3 DEF GroupsKeyed, Dated
<1>11. PlansKeyed'
  <2>1. /\ Unique(P)
        /\ \A x \in P : /\ \E p \in e.plans : x.id = p.id
                        /\ x.id[1] = e.id /\ x.event = e.id
                        /\ x.status = "queued" /\ x.owner = NoOne
                        /\ x.attempts = 0 /\ x.at = r.created
    BY <1>3, <1>6, PlansOfKeys
  <2>2. \A x, y \in db'["channel_plans"] : x.id = y.id => x = y
    BY <1>2, <1>4, <2>1 DEF TInv, PlansKeyed, Unique
  <2>3. r.created \in Nat /\ r.created <= clock
    BY DEF TInv, EventsKeyed, EventTyped
  <2>4. \A x \in P : PlanTyped(x)
    BY <1>7, <2>1, <2>3 DEF PlanTyped, Dated, Leased
  <2>5. \A x \in db'["channel_plans"] : PlanTyped(x)
    BY <1>4, <2>4 DEF TInv, PlansKeyed
  <2> QED
    BY <1>5, <2>2, <2>5 DEF PlansKeyed, Unique, PlanTyped, Dated, Leased
<1>12. CopiesTyped'
  <2>1. q.status = "materialized"
    BY <1>3 DEF Materialized, Released, EInv, EventNames, EventNamesOK, IsRow
  <2>2. \A x \in P : x.status = "queued"
    BY <1>3, <1>6, PlansOfKeys
  <2>3. \A x \in Workers : HeldBefore(x)
    BY <1>4, <2>1, <2>2 DEF HeldBefore
  <2> QED
    BY <1>5, <2>3, ReleaseKeys
<1> QED
  BY <1>4, <1>5, <1>8, <1>9, <1>10, <1>11, <1>12, KeysStay, FailuresStay
     DEF TInv

LEMMA FailEventKeys ==
  ASSUME IInv, EInv, TInv, NEW w \in Workers, FailEvent(w)
  PROVE  TInv' /\ EventsMove /\ Ages
<1>1. PICK attempt : attempt = work[w].row.attempts + 1
  OBVIOUS
<1>2. PICK status :
        status = IF attempt < MaximumAttempts THEN "queued" ELSE "failed"
  OBVIOUS
<1>3. PICK r \in db["events"] : Held(r, w) /\ db' = [db EXCEPT
        !["events"] = (@ \ {r}) \union
          {[Released(r, status) EXCEPT !.attempts = attempt, !.at = clock]},
        !["event_failures"] = @ \union
          {[id |-> <<r.id, attempt>>, event |-> r.id, at |-> clock]}]
  BY <1>1, <1>2 DEF FailEvent
<1>4. PICK q, f :
        /\ q = [Released(r, status) EXCEPT !.attempts = attempt, !.at = clock]
        /\ f = [id |-> <<r.id, attempt>>, event |-> r.id, at |-> clock]
  OBVIOUS
<1>5. /\ db'["events"] = (db["events"] \ {r}) \union {q}
      /\ db'["event_failures"] = db["event_failures"] \union {f}
      /\ \A t \in Tables \ {"events", "event_failures"} : db'[t] = db[t]
  BY <1>3, <1>4 DEF IInv, ShapeOK, Tables
<1>6. /\ UNCHANGED <<call, personal, catalog, clock, sent>> /\ Ages
      /\ work' = [work EXCEPT ![w] = NoWork] /\ work[w].kind = "events"
  BY NoTime DEF FailEvent, intake
<1>7. /\ Leased(r) /\ r.status = "processing" /\ attempt = r.attempts + 1
      /\ r.attempts \in Nat /\ r.attempts < MaximumAttempts
  BY <1>1, <1>3, <1>6, HeldCopy
<1>8. clock \in Nat /\ MaximumAttempts \in Nat \ {0}
  BY TimeAssumption DEF IInv, ShapeOK
<1>9. IsRow(r) /\ "created" \in DOMAIN r
  BY DEF EInv, EventNames, EventNamesOK, TInv, EventsKeyed, EventTyped
<1>10. /\ q.id = r.id /\ q.value = r.value /\ q.created = r.created
       /\ "created" \in DOMAIN q /\ q.status = status
       /\ q.owner = NoOne /\ q.attempts = attempt
  BY <1>4, <1>9 DEF Released, IsRow
<1>11. EventsKeyed' /\ EventsMove
  <2>1. Leased(q)
    BY <1>2, <1>7, <1>8, <1>10 DEF Leased
  <2>2. r.status \notin Settled /\ r.attempts <= q.attempts
    BY <1>7, <1>10 DEF Settled
  <2> QED
    BY <1>5, <1>6, <1>10, <2>1, <2>2, ReplaceEvent
\* No failure has that number yet: the row has not come that far.
<1>12. FailuresKeyed'
  <2>1. \A x \in db["event_failures"] : FailureTyped(x) /\ FailureTyped(x)'
    BY <1>6, <1>11, FailureStays DEF TInv, FailuresKeyed
  <2>2. f.id = <<r.id, attempt>> /\ {"id", "at"} \subseteq DOMAIN f
        /\ f.at = clock
    BY <1>4
  <2>3. \A x \in db["event_failures"] : x.id # f.id
    <3> SUFFICES ASSUME NEW x \in db["event_failures"], x.id = f.id PROVE FALSE
      OBVIOUS
    <3>1. x.id[1] = r.id /\ x.id[2] = attempt
      BY <2>2
    <3>2. x.id[2] <= r.attempts
      BY <2>1, <3>1 DEF FailureTyped
    <3> QED
      BY <1>7, <3>1, <3>2
  <2>4. FailureTyped(f)'
    <3>1. \A x \in db'["events"] : x.id = r.id => x = q
      BY <1>5, <1>10, <1>11 DEF EventsKeyed, Unique
    <3>2. Taken(r.id)'
      BY <1>5, <1>10 DEF Taken
    <3>3. attempt \in Nat
      BY <1>7
    <3>4. f.id[1] = r.id /\ f.id[2] = attempt
      BY <2>2
    <3>5. \A x \in db'["events"] : x.id = f.id[1] => f.id[2] <= x.attempts
      BY <1>10, <3>1, <3>3, <3>4
    <3> QED
      BY <1>6, <1>8, <2>2, <3>2, <3>3, <3>4, <3>5 DEF FailureTyped, Dated
  <2>5. Unique(db["event_failures"])
    BY DEF TInv, FailuresKeyed
  <2>6. Unique(db["event_failures"])'
    BY <1>5, <2>3, <2>5 DEF Unique
  <2> QED
    BY <1>5, <2>1, <2>4, <2>6 DEF FailuresKeyed
<1>13. CopiesTyped'
  <2>1. q.status # "processing"
    BY <1>2, <1>10
  <2>2. \A x \in Workers : HeldBefore(x)
    BY <1>5, <2>1 DEF HeldBefore, Tables
  <2> QED
    BY <1>6, <2>2, ReleaseKeys
<1> QED
  BY <1>5, <1>6, <1>11, <1>12, <1>13, KeysStay DEF TInv, Tables

\* Steps that leave the events alone.
LEMMA NoEvents ==
  ASSUME IInv, TInv, Ages, db'["events"] = db["events"],
         db'["event_failures"] \subseteq db["event_failures"]
  PROVE  EventsKeyed' /\ EventsMove /\ FailuresKeyed'
<1>1. EventsMove
  BY EventsStill
<1>2. EventsKeyed'
  BY KeysStay
<1> QED
  BY <1>1, <1>2, FailuresStay

LEMMA ReserveKeys ==
  ASSUME IInv, EInv, TInv, NEW w \in Workers, ReserveBatch(w)
  PROVE  TInv' /\ EventsMove /\ Ages
<1>1. PICK plan : plan = work[w].row
  OBVIOUS
<1>2. work[w] # NoWork
  BY DEF ReserveBatch, NoWork
<1>3. PICK U : U = {v \in plan.recipients :
                      \A r \in db["delivery_reservations"] :
                        r.id # <<plan.id, v>>}
  OBVIOUS
<1>4. /\ db' = [db EXCEPT !["delivery_reservations"] = @ \union
           {[id |-> <<plan.id, u>>, event |-> plan.event, recipient |-> u,
             at |-> clock] : u \in U}]
      /\ work' = [work EXCEPT ![w].reserved = TRUE]
  BY <1>1, <1>3 DEF ReserveBatch
<1>5. PICK N : N = {[id |-> <<plan.id, u>>, event |-> plan.event,
                     recipient |-> u, at |-> clock] : u \in U}
  OBVIOUS
<1>6. /\ db'["delivery_reservations"] = db["delivery_reservations"] \union N
      /\ \A t \in Tables \ {"delivery_reservations"} : db'[t] = db[t]
  BY <1>4, <1>5 DEF IInv, ShapeOK, Tables
<1>7. UNCHANGED <<call, personal, catalog, clock, sent>> /\ Ages
  BY NoTime DEF ReserveBatch, intake
<1>8. ReservationsKeyed'
  <2>1. \A n \in N : \E u \in U : /\ n.id = <<plan.id, u>> /\ n.at = clock
                                  /\ {"id", "at"} \subseteq DOMAIN n
    BY <1>5
  <2>2. ASSUME NEW m \in N, NEW n \in N, m.id = n.id PROVE m = n
    <3>1. PICK u \in U : m = [id |-> <<plan.id, u>>, event |-> plan.event,
                              recipient |-> u, at |-> clock]
      BY <1>5
    <3>2. PICK v \in U : n = [id |-> <<plan.id, v>>, event |-> plan.event,
                              recipient |-> v, at |-> clock]
      BY <1>5
    <3>3. <<plan.id, u>> = <<plan.id, v>>
      BY <2>2, <3>1, <3>2
    <3>4. u = v
      BY <3>3
    <3> QED
      BY <3>1, <3>2, <3>4
  <2>3. \A m \in db["delivery_reservations"], n \in N : m.id # n.id
    BY <1>3, <2>1
  <2>4. Unique(db["delivery_reservations"])
    BY DEF TInv, ReservationsKeyed
  <2>5. Unique(db["delivery_reservations"])'
    BY <1>6, <2>2, <2>3, <2>4 DEF Unique
  <2>6. \A n \in N : ReservationTyped(n)
    BY <2>1 DEF ReservationTyped, Dated, IInv, ShapeOK
  <2>7. \A n \in db'["delivery_reservations"] : ReservationTyped(n)
    BY <1>6, <2>6 DEF TInv, ReservationsKeyed
  <2> QED
    BY <1>7, <2>5, <2>7 DEF ReservationsKeyed, ReservationTyped, Dated
<1>9. \A x \in Workers : HeldBefore(x)
  BY <1>6 DEF HeldBefore, Tables
<1>10. CopiesTyped'
  <2>1. PICK v : v = [work[w] EXCEPT !.reserved = TRUE]
    OBVIOUS
  <2>2. \A x \in Workers : work'[x] = IF x = w THEN v ELSE work[x]
    BY <1>4, <2>1 DEF IInv, ShapeOK
  <2>3. v.kind = work[w].kind /\ v.row = work[w].row
    BY <1>2, <2>1 DEF IInv, WorkersOK, WorkOK
  <2>4. CopyTyped(v, w, db[v.kind])'
    <3>1. PICK o : o = work[w]
      OBVIOUS
    <3>2. CopyTyped(o, w, db[o.kind])'
      BY <1>2, <1>7, <1>9, <3>1, CopyKept
    <3> QED
      BY <2>3, <3>1, <3>2 DEF CopyTyped
  <2> SUFFICES ASSUME NEW x \in Workers, work'[x] # NoWork
               PROVE  CopyTyped(work[x], x, db[work[x].kind])'
    BY DEF CopiesTyped
  <2>5. PICK c : c = work'[x]
    OBVIOUS
  <2>6. CopyTyped(c, x, db[c.kind])'
    <3>1. CASE x = w
      BY <2>2, <2>4, <2>5, <3>1
    <3>2. CASE x # w
      <4>1. c = work[x]
        BY <2>2, <2>5, <3>2
      <4> QED
        BY <1>7, <1>9, <2>5, <4>1, CopyKept
    <3> QED
      BY <3>1, <3>2
  <2> QED
    BY <2>5, <2>6 DEF CopyTyped
<1> QED
  BY <1>6, <1>7, <1>8, <1>10, NoEvents, KeysStay DEF TInv, Tables

\* What a plan becomes.
Outcomes(attempt) ==
  {<<"planned", attempt - 1>>, <<"cancelled", attempt - 1>>}
  \union (IF attempt < MaximumAttempts THEN {<<"queued", attempt>>}
                                       ELSE {<<"failed", attempt>>})

LEMMA SettledPlan ==
  ASSUME IInv, EInv, TInv, NEW w \in Workers, SettlePlan(w)
  PROVE  \E r \in db["channel_plans"] : \E q :
           /\ Held(r, w) /\ work[w].kind = "channel_plans"
           /\ db' = [db EXCEPT !["channel_plans"] = (@ \ {r}) \union {q}]
           /\ q.id = r.id /\ q.event = r.event /\ q.owner = NoOne
           /\ q.at = clock
           /\ <<q.status, q.attempts>> \in Outcomes(r.attempts + 1)
<1>1. work[w].kind = "channel_plans"
  BY DEF SettlePlan
<1>2. PICK attempt : attempt = work[w].row.attempts + 1
  OBVIOUS
<1>3. PICK r, q :
        /\ r \in db["channel_plans"] /\ Held(r, w)
        /\ db' = [db EXCEPT !["channel_plans"] = (@ \ {r}) \union {q}]
        /\ \/ q = [Released(r, "planned") EXCEPT !.at = clock]
           \/ q = [Released(r, "cancelled") EXCEPT !.at = clock]
           \/ /\ attempt < MaximumAttempts
              /\ q = [Released(r, "queued") EXCEPT !.attempts = attempt,
                                                   !.at = clock]
           \/ /\ attempt >= MaximumAttempts
              /\ q = [Released(r, "failed") EXCEPT !.attempts = attempt,
                                                   !.at = clock]
  BY <1>2 DEF SettlePlan
<1>4. PlanOK(r)
  BY <1>3 DEF EInv, PlansOK
<1>5. attempt = r.attempts + 1 /\ r.attempts \in Nat
  BY <1>1, <1>2, <1>3, HeldCopy
<1>6. q.id = r.id /\ q.event = r.event /\ q.owner = NoOne /\ q.at = clock
  BY <1>3, <1>4 DEF Released, PlanOK
<1>7. \/ q.status = "planned" /\ q.attempts = r.attempts
      \/ q.status = "cancelled" /\ q.attempts = r.attempts
      \/ attempt < MaximumAttempts /\ q.status = "queued" /\ q.attempts = attempt
      \/ attempt >= MaximumAttempts /\ q.status = "failed" /\ q.attempts = attempt
  BY <1>3, <1>4 DEF Released, PlanOK
<1>8. MaximumAttempts \in Nat
  BY TimeAssumption
<1>9. <<q.status, q.attempts>> \in Outcomes(attempt)
  BY <1>5, <1>7, <1>8 DEF Outcomes
<1> QED
  BY <1>1, <1>3, <1>5, <1>6, <1>9

LEMMA SettleKeys ==
  ASSUME IInv, EInv, TInv, NEW w \in Workers, SettlePlan(w)
  PROVE  TInv' /\ EventsMove /\ Ages
<1>1. PICK r, q :
        /\ r \in db["channel_plans"]
        /\ Held(r, w) /\ work[w].kind = "channel_plans"
        /\ db' = [db EXCEPT !["channel_plans"] = (@ \ {r}) \union {q}]
        /\ q.id = r.id /\ q.event = r.event /\ q.owner = NoOne
        /\ q.at = clock
        /\ <<q.status, q.attempts>> \in Outcomes(r.attempts + 1)
  BY SettledPlan
<1>2. /\ db'["channel_plans"] = (db["channel_plans"] \ {r}) \union {q}
      /\ \A t \in Tables \ {"channel_plans"} : db'[t] = db[t]
  BY <1>1 DEF IInv, ShapeOK, Tables
<1>3. /\ UNCHANGED <<call, personal, catalog, clock, sent>> /\ Ages
      /\ work' = [work EXCEPT ![w] = NoWork]
  BY NoTime DEF SettlePlan, intake
<1>4. r.attempts \in Nat /\ r.attempts < MaximumAttempts
      /\ MaximumAttempts \in Nat \ {0}
  BY <1>1, HeldCopy, TimeAssumption
<1>5. \/ q.status \in {"planned", "cancelled"} /\ q.attempts = r.attempts
      \/ /\ r.attempts + 1 < MaximumAttempts
         /\ q.status = "queued" /\ q.attempts = r.attempts + 1
      \/ /\ r.attempts + 1 >= MaximumAttempts
         /\ q.status = "failed" /\ q.attempts = r.attempts + 1
  BY <1>1, <1>4 DEF Outcomes
<1>6. Leased(q)
  BY <1>1, <1>4, <1>5 DEF Leased
<1>7. PlansKeyed'
  BY <1>1, <1>2, <1>3, <1>6, ReplacePlan
<1>8. CopiesTyped'
  <2>1. \A x \in Workers : HeldBefore(x)
    BY <1>2, <1>5 DEF HeldBefore, Tables
  <2> QED
    BY <1>3, <2>1, ReleaseKeys
<1> QED
  BY <1>2, <1>3, <1>7, <1>8, NoEvents, KeysStay DEF TInv, Tables

LEMMA WorkerKeys ==
  ASSUME IInv, EInv, TInv, NEW w \in Workers, WorkerStep(w)
  PROVE  TInv' /\ EventsMove /\ Ages
BY ClaimKeys, GiveUpKeys, MaterializeKeys, FailEventKeys, ReserveKeys, SettleKeys
   DEF WorkerStep

-----------------------------------------------------------------------------
(* Keys and types: recipients and erasure.                                 *)

LEMMA ReplaceItem ==
  ASSUME IInv, TInv, Ages, NEW r \in db["inbox_items"], NEW q,
         db'["inbox_items"] = (db["inbox_items"] \ {r}) \union {q},
         q.id = r.id, q.at = clock
  PROVE  ItemsKeyed'
<1>1. \A x : Dated(x) => Dated(x)'
  BY DEF Dated, Ages, IInv, ShapeOK
<1>2. Dated(q)
  BY DEF Dated, IInv, ShapeOK
<1> QED
  BY <1>1, <1>2 DEF TInv, ItemsKeyed, Unique

LEMMA UserKeys ==
  ASSUME IInv, EInv, TInv, NEW u \in Users,
         SetPersonalState(u) \/ AcknowledgeAlert(u)
  PROVE  TInv' /\ EventsMove /\ Ages
<1>1. UNCHANGED <<call, personal, work, catalog, clock, sent>> /\ Ages
  BY NoTime DEF SetPersonalState, AcknowledgeAlert, history
<1>2. \A r \in db["inbox_items"] : {"id", "at", "alert"} \subseteq DOMAIN r
  BY DEF EInv, ItemsOK, ItemOK
<1>3. CASE SetPersonalState(u)
  <2>1. PICK r, q :
          /\ r \in db["inbox_items"]
          /\ q = [r EXCEPT !.at = clock]
          /\ db' = [db EXCEPT !["inbox_items"] = (@ \ {r}) \union {q}]
    BY <1>3 DEF SetPersonalState
  <2>2. /\ db'["inbox_items"] = (db["inbox_items"] \ {r}) \union {q}
        /\ \A t \in Tables \ {"inbox_items"} : db'[t] = db[t]
    BY <2>1 DEF IInv, ShapeOK, Tables
  <2>3. q.id = r.id /\ q.at = clock
    BY <1>2, <2>1
  <2>4. ItemsKeyed'
    BY <1>1, <2>1, <2>2, <2>3, ReplaceItem
  <2>5. CopiesTyped'
    BY <1>1, <2>2, CopiesSame DEF HeldBefore, Tables
  <2> QED
    BY <1>1, <2>2, <2>4, <2>5, NoEvents, KeysStay DEF TInv, Tables
<1>4. CASE AcknowledgeAlert(u)
  <2>0. PICK r \in db["inbox_items"], g \in db["alert_groups"] :
          db' = [db EXCEPT
            !["inbox_items"] = (@ \ {r}) \union
              {[r EXCEPT !.alert = "acknowledged", !.at = clock]},
            !["alert_groups"] = (@ \ {g}) \union
              {[g EXCEPT !.state = "acknowledged", !.acker = u,
                         !.at = clock]}]
    BY <1>4 DEF AcknowledgeAlert
  <2>1. PICK q, h :
          /\ q = [r EXCEPT !.alert = "acknowledged", !.at = clock]
          /\ h = [g EXCEPT !.state = "acknowledged", !.acker = u, !.at = clock]
          /\ db' = [db EXCEPT
               !["inbox_items"] = (@ \ {r}) \union {q},
               !["alert_groups"] = (@ \ {g}) \union {h}]
    BY <2>0
  <2>2. /\ db'["inbox_items"] = (db["inbox_items"] \ {r}) \union {q}
        /\ db'["alert_groups"] = (db["alert_groups"] \ {g}) \union {h}
        /\ \A t \in Tables \ {"inbox_items", "alert_groups"} : db'[t] = db[t]
    BY <2>1 DEF IInv, ShapeOK, Tables
  <2>3. q.id = r.id /\ q.at = clock
    BY <1>2, <2>1
  <2>4. ItemsKeyed'
    BY <1>1, <2>1, <2>2, <2>3, ReplaceItem
  <2>5. CopiesTyped'
    BY <1>1, <2>2, CopiesSame DEF HeldBefore, Tables
  <2>6. GroupsKeyed'
    <3>1. {"recipient", "group", "at"} \subseteq DOMAIN g
      BY <2>1 DEF TInv, GroupsKeyed, EInv, GroupsOK, GroupOK
    <3>2. /\ h.recipient = g.recipient /\ h.group = g.group
          /\ "group" \in DOMAIN h /\ h.at = clock
      BY <2>1, <3>1
    <3>3. Dated(h)
      BY <3>2 DEF Dated, IInv, ShapeOK
    <3>4. \A x : Dated(x) => Dated(x)'
      BY <1>1 DEF Dated, Ages, IInv, ShapeOK
    <3>5. Dated(h)'
      BY <3>3, <3>4
    <3>6. \A x \in db'["alert_groups"] : "group" \in DOMAIN x /\ Dated(x)'
      BY <2>2, <3>2, <3>4, <3>5 DEF TInv, GroupsKeyed
    <3>7. \A x, y \in db'["alert_groups"] :
            x.recipient = y.recipient /\ x.group = y.group => x = y
      BY <2>2, <3>2 DEF TInv, GroupsKeyed
    <3> QED
      BY <3>6, <3>7 DEF GroupsKeyed
  <2> QED
    BY <1>1, <2>2, <2>4, <2>5, <2>6, NoEvents, KeysStay DEF TInv, Tables
<1> QED
  BY <1>3, <1>4

\* An event that is erased keeps its plans.
LEMMA ErasedEventKeeps ==
  ASSUME IInv, TInv, NEW r \in db["events"], NEW u, NEW q,
         q = EraseEvent(r, u)
  PROVE  /\ q.id = r.id /\ SameSource(r.value, q.value)
         /\ q.status = r.status /\ q.owner = r.owner
         /\ q.attempts = r.attempts /\ q.at = r.at
         /\ EventTyped(q)
<1>1. EventOK(r) /\ EventTyped(r)
  BY DEF IInv, EventsOK, TInv, EventsKeyed
<1>2. CASE u \in r.value.recipients
  <2>1. PICK R, P : /\ R = Rename(r.value.recipients, u)
                    /\ P = {[p EXCEPT !.recipients = Rename(@, u)]
                              : p \in r.value.plans}
    OBVIOUS
  <2>2. PICK v : v = [r.value EXCEPT !.recipients = R, !.text = "erased",
                                     !.variables = {}, !.plans = P]
    OBVIOUS
  <2>3. q = [r EXCEPT !.value = v]
    BY <1>1, <1>2, <2>1, <2>2 DEF EraseEvent, EventOK, IsRow, IsEvent
  <2>4. /\ v.id = r.value.id /\ v.source = r.value.source
        /\ v.key = r.value.key /\ v.plans = P
    BY <1>1, <2>2 DEF EventOK, IsEvent
  <2>5. /\ q.id = r.id /\ q.value = v /\ q.status = r.status
        /\ q.owner = r.owner /\ q.attempts = r.attempts /\ q.at = r.at
        /\ "created" \in DOMAIN q /\ q.created = r.created
    BY <1>1, <2>3 DEF EventOK, IsRow, EventTyped
  <2>6. Planned(v)
    <3>1. Planned(r.value)
      BY <1>1 DEF EventTyped
    <3>2. ASSUME NEW p \in r.value.plans, NEW x,
                 x = [p EXCEPT !.recipients = Rename(@, u)]
          PROVE  x.id = p.id /\ DOMAIN x = DOMAIN p
      BY <3>1, <3>2 DEF Planned
    <3>3. \A x \in P : \E p \in r.value.plans :
            x = [p EXCEPT !.recipients = Rename(@, u)]
      BY <2>1
    <3>4. ASSUME NEW x \in P, NEW y \in P, x.id = y.id PROVE x = y
      <4>1. PICK p \in r.value.plans : x = [p EXCEPT !.recipients = Rename(@, u)]
        BY <3>3
      <4>2. PICK o \in r.value.plans : y = [o EXCEPT !.recipients = Rename(@, u)]
        BY <3>3
      <4>3. p.id = o.id
        BY <3>2, <3>4, <4>1, <4>2
      <4>4. p = o
        BY <3>1, <4>3 DEF Planned, Unique
      <4> QED
        BY <4>1, <4>2, <4>4
    <3>5. ASSUME NEW x \in P
          PROVE  {"id", "recipients", "text"} \subseteq DOMAIN x /\
                 x.id[1] = v.id
      <4>1. PICK p \in r.value.plans : x = [p EXCEPT !.recipients = Rename(@, u)]
        BY <3>3
      <4> QED
        BY <2>4, <3>1, <3>2, <4>1 DEF Planned
    <3> QED
      BY <2>4, <3>4, <3>5 DEF Planned, Unique
  <2>7. EventTyped(q)
    BY <1>1, <2>5, <2>6 DEF EventTyped, Leased
  <2> QED
    BY <2>4, <2>5, <2>7 DEF SameSource
<1>3. CASE u \notin r.value.recipients
  BY <1>1, <1>3 DEF EraseEvent, SameSource
<1> QED
  BY <1>2, <1>3

LEMMA EraseKeys ==
  ASSUME IInv, EInv, TInv, NEW u \in Users, EraseSubject(u)
  PROVE  TInv' /\ EventsMove /\ Ages
<1>1. UNCHANGED <<call, work, catalog, clock, sent>> /\ Ages
  BY NoTime DEF EraseSubject, intake
<1>2. /\ db'["inbox_items"] = {EraseItem(r, u) : r \in db["inbox_items"]}
      /\ db'["events"] = {EraseEvent(r, u) : r \in db["events"]}
      /\ db'["channel_plans"] = {ErasePlan(r, u) : r \in db["channel_plans"]}
      /\ db'["alert_groups"] = {EraseGroup(r, u) : r \in db["alert_groups"]}
      /\ db'["delivery_reservations"] =
           {EraseReservation(r, u) : r \in db["delivery_reservations"]}
      /\ db'["event_failures"] = db["event_failures"]
  BY DEF EraseSubject, IInv, ShapeOK, Tables
<1>3. ItemsKeyed'
  <2>1. ASSUME NEW r \in db["inbox_items"], NEW q, q = EraseItem(r, u)
        PROVE  q.id = r.id /\ q.at = r.at
    BY <2>1 DEF EraseItem, EInv, ItemsOK, ItemOK
  <2> QED
    BY <1>1, <1>2, <2>1 DEF TInv, ItemsKeyed, Unique, Dated
<1>4. GroupsKeyed'
  <2>1. ASSUME NEW r \in db["alert_groups"], NEW q, q = EraseGroup(r, u)
        PROVE  /\ q.recipient = RenameOne(r.recipient, u)
               /\ q.group = r.group /\ q.at = r.at /\ "group" \in DOMAIN q
    BY <2>1 DEF EraseGroup, EInv, GroupsOK, GroupOK, TInv, GroupsKeyed
  <2>2. \A g, h \in db["alert_groups"] :
          ~(/\ g.recipient = u /\ h.recipient = Anonymous[u]
            /\ g.group = h.group)
    BY DEF EraseSubject
  <2>3. ASSUME NEW g \in db["alert_groups"], NEW h \in db["alert_groups"],
               RenameOne(g.recipient, u) = RenameOne(h.recipient, u),
               g.group = h.group
        PROVE  g = h
    <3>1. g.recipient = h.recipient
      BY <2>2, <2>3 DEF RenameOne
    <3> QED
      BY <2>3, <3>1 DEF TInv, GroupsKeyed
  <2>4. \A q \in db'["alert_groups"] : \E r \in db["alert_groups"] :
          q = EraseGroup(r, u)
    BY <1>2
  <2>5. ASSUME NEW p \in db'["alert_groups"], NEW q \in db'["alert_groups"],
               p.recipient = q.recipient, p.group = q.group
        PROVE  p = q
    <3>1. PICK g \in db["alert_groups"] : p = EraseGroup(g, u)
      BY <2>4
    <3>2. PICK h \in db["alert_groups"] : q = EraseGroup(h, u)
      BY <2>4
    <3>3. g = h
      BY <2>1, <2>3, <2>5, <3>1, <3>2
    <3> QED
      BY <3>1, <3>2, <3>3
  <2>6. \A q \in db'["alert_groups"] : "group" \in DOMAIN q /\ Dated(q)
    BY <2>1, <2>4 DEF TInv, GroupsKeyed, Dated
  <2> QED
    BY <1>1, <2>5, <2>6 DEF GroupsKeyed, Dated
<1>5. ASSUME NEW r \in db["channel_plans"], NEW q, q = ErasePlan(r, u)
      PROVE  /\ q.id = r.id /\ q.event = r.event /\ q.at = r.at
             /\ q.status = r.status /\ q.owner = r.owner
             /\ q.attempts = r.attempts
  BY <1>5 DEF ErasePlan, EInv, PlansOK, PlanOK
<1>6. PlansKeyed'
  BY <1>1, <1>2, <1>5 DEF TInv, PlansKeyed, Unique, PlanTyped, Dated, Leased
<1>7. ASSUME NEW r \in db["events"], NEW q, q = EraseEvent(r, u)
      PROVE  /\ q.id = r.id /\ SameSource(r.value, q.value)
             /\ q.status = r.status /\ q.owner = r.owner
             /\ q.attempts = r.attempts /\ q.at = r.at
             /\ EventTyped(q)
  BY <1>7, ErasedEventKeeps
<1>8. EventsKeyed'
  <2>1. Unique(db["events"])'
    BY <1>2, <1>7 DEF TInv, EventsKeyed, Unique
  <2>2. \A p, q \in db'["events"] : SameSource(p.value, q.value) => p = q
    BY <1>2, <1>7 DEF TInv, EventsKeyed, SameSource
  <2>3. \A q \in db'["events"] : EventTyped(q)'
    BY <1>1, <1>2, <1>7 DEF EventTyped, Leased, Planned, Unique
  <2> QED
    BY <2>1, <2>2, <2>3 DEF EventsKeyed, SameSource
<1>9. EventsMove
  <2>1. \A r \in db["events"] : r.attempts \in Nat
    BY DEF TInv, EventsKeyed, EventTyped, Leased
  <2> QED
    BY <1>2, <1>7, <2>1 DEF EventsMove
<1>10. ReservationsKeyed'
  <2>1. ASSUME NEW r \in db["delivery_reservations"], NEW q,
               q = EraseReservation(r, u)
        PROVE  q.id = r.id /\ q.at = r.at /\ {"id", "at"} \subseteq DOMAIN q
    BY <2>1 DEF EraseReservation, EInv, ReservationsOK, ReservationOK, TInv,
                ReservationsKeyed, ReservationTyped
  <2> QED
    BY <1>1, <1>2, <2>1
       DEF TInv, ReservationsKeyed, Unique, ReservationTyped, Dated
<1>11. CopiesTyped'
  <2>1. \A x \in Workers : HeldBefore(x)
    BY <1>2, <1>5, <1>7 DEF HeldBefore
  <2> QED
    BY <1>1, <2>1, CopiesSame
<1>12. SetupOK'
  BY <1>1 DEF TInv, SetupOK, EraseSubject
<1> QED
  BY <1>1, <1>2, <1>3, <1>4, <1>6, <1>8, <1>9, <1>10, <1>11, <1>12, KeysStay,
     FailuresStay DEF TInv


-----------------------------------------------------------------------------
(* Keys and types: retention, and the theorem.                             *)

\* An aged event is not sent any more.
LEMMA AgedIsOver ==
  ASSUME IInv, NEW id, Aged(id) PROVE Over(id)
<1> SUFFICES ASSUME NEW i \in Intents, i.id = id
             PROVE  sent[i.key] # Never /\ sent[i.key] + RepeatFor < clock
  BY DEF Over
<1>1. sent[i.key] \in Nat /\ sent[i.key] + Retention <= clock /\ clock \in Nat
  BY DEF Aged, IInv, ShapeOK, Keys
<1> QED
  BY <1>1, TimeAssumption DEF Never

\* Retention deletes rows, of events only those that are not sent any more.
LEMMA BatchKeys ==
  ASSUME IInv, EInv, TInv, NEW b \in Batches, BatchStep(b)
  PROVE  TInv' /\ EventsMove /\ Ages
<1>1. UNCHANGED <<call, work, personal, catalog, clock, sent>> /\ Ages
  BY NoTime DEF BatchStep, ProcessRetentionBatch, NextSpec, ArchiveCandidate,
                DeleteCandidate, EndBatch, history
<1>2. \A t \in Tables : db'[t] \subseteq db[t]
  BY DEF BatchStep, ProcessRetentionBatch, NextSpec, ArchiveCandidate,
         DeleteCandidate, EndBatch, IInv, ShapeOK
<1>3. ASSUME NEW r \in db["events"], r \notin db'["events"] PROVE Over(r.id)
  <2>1. DeleteCandidate(b)
    BY <1>3 DEF BatchStep, ProcessRetentionBatch, NextSpec, ArchiveCandidate,
                EndBatch
  <2>2. Table(b) = "events" /\ r.id = batch[b].row.id
    BY <1>3, <2>1 DEF DeleteCandidate, IInv, ShapeOK, Tables, Resource
  <2>3. batch[b].phase = "delete"
    BY <2>1 DEF DeleteCandidate
  <2>4. BatchOK(batch[b]) /\ batch[b] # NoBatch
    BY <2>3 DEF IInv, BatchesOK, NoBatch
  <2>5. Aged(r.id)
    BY <2>2, <2>3, <2>4 DEF BatchOK, Table
  <2> QED
    BY <2>5, AgedIsOver
<1>4. EventsMove
  BY <1>2, <1>3, EventsStill DEF Tables
<1>5. CopiesTyped'
  BY <1>1, <1>2, CopiesSame DEF HeldBefore, Tables
<1>6. \A t \in {"inbox_items", "alert_groups", "channel_plans", "events",
                "event_failures", "delivery_reservations"} :
        db'[t] \subseteq db[t]
  BY <1>2 DEF Tables
<1>7. EventsKeyed'
  BY <1>1, <1>6, KeysStay
<1>8. FailuresKeyed'
  BY <1>1, <1>4, <1>6, <1>7, FailuresStay
<1> QED
  BY <1>1, <1>4, <1>5, <1>6, <1>7, <1>8, KeysStay DEF TInv

LEMMA NextKeys ==
  ASSUME IInv, EInv, TInv, [Next]_vars PROVE TInv' /\ EventsMove /\ Ages
<1>1. CASE Deploy \/ Tick \/ UNCHANGED vars
  BY <1>1, SetupKeys
<1>2. ASSUME NEW p \in Producers, ProducerStep(p)
      PROVE  TInv' /\ EventsMove /\ Ages
  BY <1>2, ProducerKeys
<1>3. ASSUME NEW w \in Workers, WorkerStep(w)
      PROVE  TInv' /\ EventsMove /\ Ages
  BY <1>3, WorkerKeys
<1>4. ASSUME NEW u \in Users, UserStep(u)
      PROVE  TInv' /\ EventsMove /\ Ages
  BY <1>4, UserKeys, EraseKeys DEF UserStep
<1>5. ASSUME NEW row \in PersonalRows, SavePersonal(row) \/ DeletePersonal(row)
      PROVE  TInv' /\ EventsMove /\ Ages
  BY <1>5, SetupKeys
<1>6. ASSUME NEW b \in Batches, BatchStep(b)
      PROVE  TInv' /\ EventsMove /\ Ages
  BY <1>6, BatchKeys
<1> QED
  BY <1>1, <1>2, <1>3, <1>4, <1>5, <1>6 DEF Next

LEMMA KeysSuffice == IInv /\ EInv /\ TInv => TypeOK
<1> SUFFICES ASSUME IInv, EInv, TInv PROVE TypeOK
  OBVIOUS
<1>1. /\ catalog \in 0 .. Len(Catalogs) /\ clock \in 0 .. MaxTime
      /\ catalog > 0 => ValidCatalog(Catalogs[catalog])
      /\ personal \subseteq PersonalRows /\ erased \subseteq Users
  BY DEF TInv, SetupOK, EInv, NamesOK
<1>2. KeysOK
  BY DEF TInv, ItemsKeyed, GroupsKeyed, PlansKeyed, EventsKeyed, FailuresKeyed,
         ReservationsKeyed, Unique, KeysOK, Tables
<1>3. \A r : Dated(r) => r.at \in 0 .. clock
  BY DEF Dated, IInv, ShapeOK
<1>4. Known \subseteq Names \union {NoOne}
  BY <1>1 DEF Known, Names
<1>5. \A r \in db["inbox_items"] :
        /\ r.at \in 0 .. clock
        /\ Named("inbox_items", r) \subseteq Names \union {NoOne}
  BY <1>3, <1>4 DEF TInv, ItemsKeyed, EInv, ItemsOK, ItemOK, Clean, Named
<1>6. \A r \in db["alert_groups"] :
        /\ r.at \in 0 .. clock
        /\ Named("alert_groups", r) \subseteq Names \union {NoOne}
  BY <1>3, <1>4 DEF TInv, GroupsKeyed, EInv, GroupsOK, GroupOK, Clean, Named
<1>7. \A r \in db["channel_plans"] :
        /\ r.at \in 0 .. clock
        /\ Named("channel_plans", r) \subseteq Names \union {NoOne}
  BY <1>3, <1>4 DEF TInv, PlansKeyed, PlanTyped, EInv, PlansOK, PlanOK, Clean,
                    Named
<1>8. \A r \in db["events"] :
        /\ r.at \in 0 .. clock
        /\ Named("events", r) \subseteq Names \union {NoOne}
  <2> TAKE r \in db["events"]
  <2>1. EventNamesOK(r) /\ r.at \in 0 .. clock
    BY DEF EInv, EventNames, IInv, ShapeOK, EventsOK, EventOK
  <2>2. Named("events", r) = r.value.recipients
    BY <2>1, AddressedAlike DEF EventNamesOK, Named
  <2> QED
    BY <1>4, <2>1, <2>2 DEF EventNamesOK, Clean
<1>9. \A r \in db["event_failures"] :
        /\ r.at \in 0 .. clock
        /\ Named("event_failures", r) \subseteq Names \union {NoOne}
  BY <1>3 DEF TInv, FailuresKeyed, FailureTyped, Named
<1>10. \A r \in db["delivery_reservations"] :
        /\ r.at \in 0 .. clock
        /\ Named("delivery_reservations", r) \subseteq Names \union {NoOne}
  BY <1>3, <1>4 DEF TInv, ReservationsKeyed, ReservationTyped, EInv,
                    ReservationsOK, ReservationOK, Clean, Named
<1>11. \A t \in Tables : \A r \in db[t] :
         r.at \in 0 .. clock /\ Named(t, r) \subseteq Names \union {NoOne}
  BY <1>5, <1>6, <1>7, <1>8, <1>9, <1>10 DEF Tables
<1>12. \A t \in {"events", "channel_plans"} : \A r \in db[t] : Leased(r)
  BY DEF TInv, EventsKeyed, EventTyped, PlansKeyed, PlanTyped
<1>13. RowsOK
  <2>1. \A r : Leased(r) =>
          /\ r.attempts \in 0 .. MaximumAttempts
          /\ r.owner # NoOne <=> r.status = "processing"
          /\ r.attempts = MaximumAttempts => r.status = "failed"
    BY TimeAssumption DEF Leased
  <2> QED
    BY <1>11, <1>12, <2>1 DEF RowsOK
<1> QED
  BY <1>1, <1>2, <1>13 DEF TypeOK

\* The primary keys and unique indexes of the tables hold through every
\* interleaving of producers, workers, recipients, erasures and retention
\* batches, nothing is dated in the future, no queue row is tried more often
\* than MaximumAttempts, and it has an owner exactly while it is processed.
THEOREM KeysAndTypes == Spec => []TypeOK
<1>1. Init => EInv /\ TInv
  BY InitNames, InitKeys
<1>2. IInv /\ EInv /\ TInv /\ [Next]_vars => EInv' /\ TInv'
  BY NextNames, NextKeys
<1>3. IInv /\ EInv /\ TInv => TypeOK
  BY KeysSuffice
<1> QED
  BY <1>1, <1>2, <1>3, Invariance, PTL DEF Spec


-----------------------------------------------------------------------------
(* Retention: what its candidates are spared by every other step.          *)

\* Settled plans and groups stay as they are, and new ones are those of an
\* event that has just been materialised; the groups that are new settle
\* together.
PlanGoesOn(q) ==
  \E r \in db["channel_plans"] :
    /\ r.id = q.id /\ r.event = q.event
    /\ r.status \in Ends["channel_plans"] => q.status = r.status /\ q.at = r.at
GroupGoesOn(q) ==
  \E r \in db["alert_groups"] :
    /\ r.event = q.event /\ (r.state = "resolved" <=> q.state = "resolved")
    /\ r.state = "resolved" => q.at = r.at
Arises(q) == ~Done(q.event) /\ Done(q.event)'

PlansMove == \A q \in db'["channel_plans"] : PlanGoesOn(q) \/ Arises(q)
GroupsMove ==
  \E s, at : \A q \in db'["alert_groups"] :
    GroupGoesOn(q) \/ (Arises(q) /\ q.state = s /\ q.at = at)

\* A row lasts, or has been archived.
Lasting ==
  \A t \in Tables \ {"alert_groups"} : \A r \in db[t] :
    <<t, r.id>> \in archive \/ \E q \in db'[t] : q.id = r.id

Moves == PlansMove /\ GroupsMove /\ Lasting /\ archive \subseteq archive'

LEMMA OriginsStay ==
  ASSUME IInv, TInv, PInv, TInv', Ages, EventsMove, Moves
  PROVE  GroupsAgree' /\ OriginsOK'
<1>1. \A id : Done(id) => Done(id)'
  BY DoneStays
<1>2. PICK s, at : \A q \in db'["alert_groups"] :
        GroupGoesOn(q) \/ (Arises(q) /\ q.state = s /\ q.at = at)
  BY DEF Moves, GroupsMove
<1>3. OriginsOK'
  BY <1>1, <1>2
     DEF Moves, PlansMove, PlanGoesOn, GroupGoesOn, Arises, PInv, OriginsOK
<1>4. GroupsAgree'
  <2> SUFFICES ASSUME NEW g \in db'["alert_groups"],
                      NEW h \in db'["alert_groups"],
                      g.event = h.event, g.state = "resolved"
               PROVE  h.state = "resolved" /\ h.at = g.at
    BY DEF GroupsAgree
  <2>1. CASE GroupGoesOn(g) /\ GroupGoesOn(h)
    BY <2>1 DEF GroupGoesOn, PInv, GroupsAgree
  <2>2. \A x : GroupGoesOn(x) => Done(x.event)
    BY DEF GroupGoesOn, PInv, OriginsOK
  <2> QED
    BY <1>2, <2>1, <2>2 DEF Arises
<1> QED
  BY <1>3, <1>4

LEMMA CandidateStays ==
  ASSUME IInv, TInv, PInv, TInv', Ages, EventsMove, Moves,
         NEW t, NEW id, CandidateOK(t, id), t = "events" => Over(id)
  PROVE  CandidateOK(t, id)'
<1>1. /\ t = "channel_plans" => Done(id[1]) /\ Done(id[1])'
      /\ t = "alert_groups" => Done(id) /\ Done(id)'
  BY DoneStays DEF CandidateOK
<1>2. clock \in Nat /\ clock' \in Nat /\ clock <= clock' /\ Retention \in Nat
  BY TimeAssumption DEF Ages, IInv, ShapeOK
<1>3. ASSUME t = "channel_plans", NEW q \in db'[t], q.id = id
      PROVE  q.status \in Ends[t] /\ q.at + Retention <= clock'
  <2>1. q.event = id[1]
    BY <1>3 DEF TInv, PlansKeyed, PlanTyped
  <2>2. PlanGoesOn(q)
    BY <1>1, <1>3, <2>1 DEF Moves, PlansMove, Arises
  <2>3. PICK r \in db[t] :
          /\ r.id = id
          /\ r.status \in Ends[t] => q.status = r.status /\ q.at = r.at
    BY <1>3, <2>2 DEF PlanGoesOn
  <2>4. r.status \in Ends[t] /\ r.at + Retention <= clock
    BY <1>3, <2>3 DEF CandidateOK, Resource, Status, Ends
  <2>5. r.at \in Nat
    BY <1>3 DEF TInv, PlansKeyed, PlanTyped, Dated
  <2> QED
    BY <1>2, <2>3, <2>4, <2>5
<1>4. ASSUME t = "alert_groups", NEW q \in db'[t], q.event = id
      PROVE  q.state \in Ends[t] /\ q.at + Retention <= clock'
  <2>1. GroupGoesOn(q)
    BY <1>1, <1>4 DEF Moves, GroupsMove, Arises
  <2>2. PICK r \in db[t] :
          /\ r.event = id
          /\ r.state = "resolved" => q.state = "resolved" /\ q.at = r.at
    BY <1>4, <2>1 DEF GroupGoesOn
  <2>3. r.state = "resolved" /\ r.at + Retention <= clock
    BY <1>4, <2>2 DEF CandidateOK, Resource, Status, Ends
  <2>4. r.at \in Nat
    BY <1>4 DEF TInv, GroupsKeyed, Dated
  <2> QED
    BY <1>2, <1>4, <2>2, <2>3, <2>4 DEF Ends
<1>5. ASSUME t = "events", NEW q \in db'[t], q.id = id
      PROVE  q.status \in Ends[t] /\ q.at + Retention <= clock'
  <2>1. Taken(q.id)
    BY <1>5 DEF Taken
  <2>2. PICK r \in db[t] :
          /\ r.id = id
          /\ r.status \in Settled => q.status = r.status /\ q.at = r.at
    BY <1>5, <2>1 DEF EventsMove
  <2>3. r.status \in Ends[t] /\ r.at + Retention <= clock
    BY <1>5, <2>2 DEF CandidateOK, Resource, Status, Ends
  <2>4. r.at \in Nat
    BY <1>5 DEF IInv, EventsOK, EventOK
  <2> QED
    BY <1>2, <1>5, <2>2, <2>3, <2>4 DEF Ends, Settled
<1>6. ASSUME t \in DOMAIN Ends, NEW q \in db'[t], Resource(t, q) = id
      PROVE  Status(t, q) \in Ends[t] /\ q.at + Retention <= clock'
  <2>1. t \in {"events", "channel_plans", "alert_groups"}
    BY <1>6 DEF Ends
  <2> QED
    BY <1>3, <1>4, <1>5, <1>6, <2>1 DEF Resource, Status
<1> QED
  BY <1>1, <1>6 DEF CandidateOK

LEMMA BatchStays ==
  ASSUME IInv, TInv, PInv, TInv', Ages, EventsMove, Moves,
         NEW v, v # NoBatch, BatchOK(v), BatchOf(v)
  PROVE  BatchOf(v)'
<1>1. PICK t : t = Specs[v.spec]
  OBVIOUS
<1>2. t \in Tables
  BY <1>1 DEF BatchOK, Specs, Tables
<1>3. ASSUME NEW c \in v.todo
      PROVE  /\ CandidateOK(t, c.id)' /\ ~OnHold(v.held, t, c.id)
             /\ t # "alert_groups" =>
                  <<t, c.id>> \in archive' \/ \E r \in db'[t] : r.id = c.id
  <2>1. /\ CandidateOK(t, c.id) /\ ~OnHold(v.held, t, c.id)
        /\ t # "alert_groups" =>
             <<t, c.id>> \in archive \/ \E r \in db[t] : r.id = c.id
    BY <1>1 DEF BatchOf
  <2>2. t = "events" => Over(c.id)
    BY <1>1, AgedIsOver DEF BatchOK
  <2>3. CandidateOK(t, c.id)'
    BY <2>1, <2>2, CandidateStays
  <2> QED
    BY <1>2, <2>1, <2>3 DEF Moves, Lasting
<1>4. ASSUME v.phase = "delete"
      PROVE  /\ CandidateOK(t, v.row.id)' /\ ~OnHold(v.held, t, v.row.id)
             /\ \/ <<t, v.row.id>> \in archive'
                \/ /\ t = "alert_groups"
                   /\ \A r \in db'[t] : r.event # v.row.id
  <2>1. /\ CandidateOK(t, v.row.id) /\ ~OnHold(v.held, t, v.row.id)
        /\ \/ <<t, v.row.id>> \in archive
           \/ /\ t = "alert_groups"
              /\ \A r \in db[t] : r.event # v.row.id
    BY <1>1, <1>4 DEF BatchOf
  <2>2. t = "events" => Over(v.row.id)
    BY <1>1, <1>4, AgedIsOver DEF BatchOK
  <2>3. CandidateOK(t, v.row.id)'
    BY <2>1, <2>2, CandidateStays
  <2>4. ASSUME t = "alert_groups", NEW q \in db'[t], q.event = v.row.id
        PROVE  \E r \in db[t] : r.event = v.row.id
    <3>1. Done(q.event)
      BY <2>1, <2>4 DEF CandidateOK
    <3> QED
      BY <2>4, <3>1 DEF Moves, GroupsMove, GroupGoesOn, Arises
  <2> QED
    BY <2>1, <2>3, <2>4 DEF Moves
<1>5. "held" \in DOMAIN v
  BY DEF BatchOf
<1>6. BatchOf(v)' =
        (LET T == Specs[v.spec]
         IN  /\ "held" \in DOMAIN v
             /\ \A c \in v.todo :
                  /\ CandidateOK(T, c.id)' /\ ~OnHold(v.held, T, c.id)
                  /\ T # "alert_groups" =>
                       <<T, c.id>> \in archive' \/ \E r \in db'[T] : r.id = c.id
             /\ v.phase = "delete" =>
                  /\ CandidateOK(T, v.row.id)' /\ ~OnHold(v.held, T, v.row.id)
                  /\ \/ <<T, v.row.id>> \in archive'
                     \/ /\ T = "alert_groups"
                        /\ \A r \in db'[T] : r.event # v.row.id)
  BY DEF BatchOf, OnHold
<1> QED
  BY <1>1, <1>3, <1>4, <1>5, <1>6


-----------------------------------------------------------------------------
(* Retention: its own steps.                                               *)

\* What is listed was settled and old enough, and so was all that goes by the
\* same ID.
LEMMA ListedIsCandidate ==
  ASSUME IInv, TInv, PInv, NEW t \in Tables, NEW op, NEW c \in Candidates(op, t)
  PROVE  /\ CandidateOK(t, c.id)
         /\ t # "alert_groups" => \E r \in db[t] : r.id = c.id
<1>1. PICK r \in db[t] : Eligible(t, r, clock) /\ c.id = Resource(t, r)
  BY DEF Candidates
<1>2. Final(t, r) /\ r.at + Retention <= clock
  BY <1>1 DEF Eligible
<1>3. t # "alert_groups" => c.id = r.id
  BY <1>1 DEF Resource
<1>4. CASE t = "channel_plans"
  <2>1. Done(c.id[1])
    BY <1>3, <1>4 DEF TInv, PlansKeyed, PlanTyped, PInv, OriginsOK
  <2>2. \A q \in db[t] : q.id = c.id => q = r
    BY <1>3, <1>4 DEF TInv, PlansKeyed, Unique
  <2> QED
    BY <1>2, <1>3, <1>4, <2>1, <2>2
       DEF CandidateOK, Resource, Status, Ends, Final
<1>5. CASE t = "alert_groups"
  <2>1. c.id = r.event /\ r.state = "resolved"
    BY <1>1, <1>2, <1>5 DEF Resource, Final
  <2>2. Done(c.id)
    BY <1>5, <2>1 DEF PInv, OriginsOK
  <2>3. \A q \in db[t] : q.event = c.id => q.state = "resolved" /\ q.at = r.at
    BY <1>5, <2>1 DEF PInv, GroupsAgree
  <2> QED
    BY <1>2, <1>5, <2>2, <2>3 DEF CandidateOK, Resource, Status, Ends
<1>6. CASE t = "events"
  <2>1. \A q \in db[t] : q.id = c.id => q = r
    BY <1>3, <1>6 DEF TInv, EventsKeyed, Unique
  <2> QED
    BY <1>2, <1>3, <1>6, <2>1 DEF CandidateOK, Resource, Status, Ends, Final
<1>7. CASE t \notin {"channel_plans", "alert_groups", "events"}
  BY <1>3, <1>7 DEF CandidateOK, Ends
<1> QED
  BY <1>4, <1>5, <1>6, <1>7

\* Retention writes nothing; a row that it deletes has been archived.
LEMMA BatchMoves ==
  ASSUME IInv, TInv, PInv, NEW b \in Batches, BatchStep(b)
  PROVE  Moves
<1>1. archive \subseteq archive'
  BY DEF BatchStep, ProcessRetentionBatch, NextSpec, ArchiveCandidate,
         DeleteCandidate, EndBatch
<1>2. \A t \in Tables : db'[t] \subseteq db[t]
  BY DEF BatchStep, ProcessRetentionBatch, NextSpec, ArchiveCandidate,
         DeleteCandidate, EndBatch, IInv, ShapeOK
<1>3. PlansMove /\ GroupsMove
  BY <1>2 DEF PlansMove, PlanGoesOn, GroupsMove, GroupGoesOn, Tables
<1>4. Lasting
  <2> SUFFICES ASSUME NEW t \in Tables \ {"alert_groups"}, NEW r \in db[t],
                      r \notin db'[t]
               PROVE  <<t, r.id>> \in archive
    BY DEF Lasting
  <2>1. DeleteCandidate(b)
    BY DEF BatchStep, ProcessRetentionBatch, NextSpec, ArchiveCandidate,
           EndBatch
  <2>2. t = Table(b) /\ r.id = batch[b].row.id /\ batch[b].phase = "delete"
    BY <2>1 DEF DeleteCandidate, Resource, IInv, ShapeOK
  <2>3. BatchOf(batch[b])
    BY <2>2 DEF PInv, CandidatesOK, NoBatch
  <2> QED
    BY <2>2, <2>3 DEF BatchOf, Table
<1> QED
  BY <1>1, <1>3, <1>4 DEF Moves

LEMMA OneBatch ==
  ASSUME IInv, TInv, PInv, TInv', Ages, EventsMove, Moves,
         NEW b \in Batches, NEW v, batch' = [batch EXCEPT ![b] = v],
         v = NoBatch \/ BatchOf(v)'
  PROVE  PInv'
<1>1. \A x \in Batches : batch'[x] = IF x = b THEN v ELSE batch[x]
  BY DEF IInv, ShapeOK
<1> SUFFICES ASSUME NEW x \in Batches, batch'[x] # NoBatch
             PROVE  BatchOf(batch[x])'
  BY OriginsStay DEF PInv, CandidatesOK
<1>2. PICK u : u = batch'[x]
  OBVIOUS
<1>3. BatchOf(u)'
  <2>1. CASE x = b
    BY <1>1, <1>2, <2>1
  <2>2. CASE x # b
    <3>1. u = batch[x] /\ u # NoBatch
      BY <1>1, <1>2, <2>2
    <3>2. BatchOf(u) /\ BatchOK(u)
      BY <3>1 DEF PInv, CandidatesOK, IInv, BatchesOK
    <3> QED
      BY <3>1, <3>2, BatchStays
  <2> QED
    BY <2>1, <2>2
<1> QED
  BY <1>2, <1>3

\* No batch moves.
LEMMA NoBatches ==
  ASSUME IInv, TInv, PInv, TInv', Ages, EventsMove, Moves, UNCHANGED batch
  PROVE  PInv'
<1> SUFFICES ASSUME NEW x \in Batches, batch'[x] # NoBatch
             PROVE  BatchOf(batch[x])'
  BY OriginsStay DEF PInv, CandidatesOK
<1>1. PICK u : u = batch[x] /\ u = batch'[x]
  OBVIOUS
<1>2. BatchOf(u) /\ BatchOK(u)
  BY <1>1 DEF PInv, CandidatesOK, IInv, BatchesOK
<1>3. BatchOf(u)'
  BY <1>1, <1>2, BatchStays
<1> QED
  BY <1>1, <1>3


LEMMA ListingKept ==
  ASSUME IInv, TInv, PInv, TInv', Ages, EventsMove, Moves,
         NEW b \in Batches, NEW op, NEW held, NEW done \in Nat, NEW limit,
         ListCandidates(b, op, held, done, limit),
         UNCHANGED <<db, archive, clock, sent>>
  PROVE  PInv'
<1>1. PICK n, todo, left, m :
        /\ n \in done + 1 .. Len(Specs)
        /\ todo \in Listings(op, held, Specs[n], m)
        /\ batch' = [batch EXCEPT ![b] =
             [phase |-> "row", op |-> op, held |-> held, spec |-> n,
              left |-> left, todo |-> todo, row |-> NoOne]]
  BY DEF ListCandidates
<1>2. PICK v : v = [phase |-> "row", op |-> op, held |-> held, spec |-> n,
                    left |-> left, todo |-> todo, row |-> NoOne]
  OBVIOUS
<1>3. PICK t : t = Specs[n]
  OBVIOUS
<1>4. t \in Tables
  BY <1>1, <1>3 DEF Specs, Tables
<1>5. \A c \in todo : c \in Candidates(op, t) /\ ~OnHold(held, t, c.id)
  BY <1>1, <1>3 DEF Listings, Oldest
<1>6. ASSUME NEW c \in todo
      PROVE  /\ CandidateOK(t, c.id)' /\ ~OnHold(held, t, c.id)
             /\ t # "alert_groups" => \E r \in db'[t] : r.id = c.id
  <2>1. /\ CandidateOK(t, c.id)
        /\ t # "alert_groups" => \E r \in db[t] : r.id = c.id
    BY <1>4, <1>5, ListedIsCandidate
  <2>2. CandidateOK(t, c.id)'
    BY <2>1 DEF CandidateOK, Done, Taken, Over
  <2> QED
    BY <1>5, <2>1, <2>2
<1>7. BatchOf(v)'
  BY <1>2, <1>3, <1>6 DEF BatchOf, OnHold
<1> QED
  BY <1>1, <1>2, <1>7, OneBatch

LEMMA ArchiveKept ==
  ASSUME IInv, TInv, PInv, TInv', Ages, EventsMove, Moves,
         NEW b \in Batches, ArchiveCandidate(b)
  PROVE  PInv'
<1>1. PICK o : o = batch[b]
  OBVIOUS
<1>2. o # NoBatch /\ BatchOK(o) /\ BatchOf(o)
  BY <1>1 DEF ArchiveCandidate, NoBatch, IInv, BatchesOK, PInv, CandidatesOK
<1>3. PICK t : t = Specs[o.spec]
  OBVIOUS
<1>4. t \in Tables /\ o.phase = "row"
  BY <1>1, <1>2, <1>3 DEF BatchOK, Specs, Tables, ArchiveCandidate
<1>5. PICK c \in batch[b].todo :
        /\ archive' = archive \union
             {e \in {Entry(b, c.id)} : \E r \in db[Table(b)] :
                Resource(Table(b), r) = c.id}
        /\ batch' = [batch EXCEPT ![b].todo = @ \ {c},
             ![b].phase = IF batch[b].op = "purge" THEN "delete" ELSE "row",
             ![b].row = IF batch[b].op = "purge" THEN c ELSE NoOne]
  BY DEF ArchiveCandidate
<1>6. PICK p, x :
        /\ p = IF batch[b].op = "purge" THEN "delete" ELSE "row"
        /\ x = IF batch[b].op = "purge" THEN c ELSE NoOne
  OBVIOUS
<1>7. PICK v : v = [batch[b] EXCEPT !.todo = @ \ {c}, !.phase = p, !.row = x]
  OBVIOUS
<1>8. batch' = [batch EXCEPT ![b] = v]
  BY <1>5, <1>6, <1>7
<1>9. /\ "held" \in DOMAIN v /\ v.held = o.held /\ v.spec = o.spec
      /\ v.todo = o.todo \ {c} /\ v.phase = p /\ v.row = x
  BY <1>1, <1>2, <1>7 DEF BatchOK, BatchOf
<1>10. p = "delete" => x = c
  BY <1>6
<1>11. BatchOf(o)' /\ UNCHANGED db
  BY <1>2, BatchStays DEF ArchiveCandidate
<1>12. /\ CandidateOK(t, c.id)' /\ ~OnHold(o.held, t, c.id)
       /\ \A d \in o.todo :
            /\ CandidateOK(t, d.id)' /\ ~OnHold(o.held, t, d.id)
            /\ t # "alert_groups" =>
                 <<t, d.id>> \in archive' \/ \E r \in db'[t] : r.id = d.id
  BY <1>1, <1>3, <1>5, <1>11 DEF BatchOf, OnHold
<1>13. \/ <<t, c.id>> \in archive'
       \/ t = "alert_groups" /\ \A r \in db'[t] : r.event # c.id
  <2>1. Table(b) = t /\ Entry(b, c.id) = <<t, c.id>> /\ c \in o.todo
    BY <1>1, <1>3, <1>5 DEF Table, Entry
  <2>2. archive' = archive \union
          {e \in {<<t, c.id>>} : \E r \in db[t] : Resource(t, r) = c.id}
    BY <1>5, <2>1
  <2> QED
    BY <1>11, <1>12, <2>1, <2>2 DEF Resource
<1>14. BatchOf(v)'
  BY <1>3, <1>9, <1>10, <1>12, <1>13 DEF BatchOf, OnHold
<1> QED
  BY <1>8, <1>14, OneBatch

LEMMA DeleteKept ==
  ASSUME IInv, TInv, PInv, TInv', Ages, EventsMove, Moves,
         NEW b \in Batches, DeleteCandidate(b)
  PROVE  PInv'
<1>1. PICK o : o = batch[b]
  OBVIOUS
<1>2. o # NoBatch /\ BatchOK(o) /\ BatchOf(o)
  BY <1>1 DEF DeleteCandidate, NoBatch, IInv, BatchesOK, PInv, CandidatesOK
<1>3. PICK v : v = [batch[b] EXCEPT !.phase = "row", !.row = NoOne]
  OBVIOUS
<1>4. batch' = [batch EXCEPT ![b] = v]
  BY <1>3 DEF DeleteCandidate
<1>5. /\ "held" \in DOMAIN v /\ v.held = o.held /\ v.spec = o.spec
      /\ v.todo = o.todo /\ v.phase = "row"
  BY <1>1, <1>2, <1>3 DEF BatchOK, BatchOf
<1>6. BatchOf(o)'
  BY <1>2, BatchStays
<1>7. BatchOf(v)'
  BY <1>5, <1>6 DEF BatchOf, OnHold
<1> QED
  BY <1>4, <1>7, OneBatch

LEMMA BatchKept ==
  ASSUME IInv, TInv, PInv, TInv', Ages, EventsMove,
         NEW b \in Batches, BatchStep(b)
  PROVE  PInv'
<1>1. Moves
  BY BatchMoves
<1>2. CASE ProcessRetentionBatch(b)
  <2>1. PICK op, held : ListCandidates(b, op, held, 0, BatchLimit)
    BY <1>2 DEF ProcessRetentionBatch
  <2>2. UNCHANGED <<db, archive, clock, sent>>
    BY <1>2 DEF ProcessRetentionBatch, history
  <2> QED
    BY <1>1, <2>1, <2>2, ListingKept
<1>3. CASE NextSpec(b)
  <2>1. PICK op, held, done, left :
          /\ op = batch[b].op /\ held = batch[b].held
          /\ done = batch[b].spec /\ left = batch[b].left
    OBVIOUS
  <2>2. ListCandidates(b, op, held, done, left)
    BY <1>3, <2>1 DEF NextSpec
  <2>3. done \in Nat
    BY <1>3, <2>1 DEF NextSpec, NoBatch, IInv, BatchesOK, BatchOK, Specs
  <2>4. UNCHANGED <<db, archive, clock, sent>>
    BY <1>3 DEF NextSpec, history
  <2> QED
    BY <1>1, <2>2, <2>3, <2>4, ListingKept
<1>4. CASE ArchiveCandidate(b)
  BY <1>1, <1>4, ArchiveKept
<1>5. CASE DeleteCandidate(b)
  BY <1>1, <1>5, DeleteKept
<1>6. CASE EndBatch(b)
  BY <1>1, <1>6, OneBatch DEF EndBatch
<1> QED
  BY <1>2, <1>3, <1>4, <1>5, <1>6 DEF BatchStep


-----------------------------------------------------------------------------
(* Retention: the steps of all others lose no row.                         *)

NothingVanishes ==
  \A t \in Tables : \A r \in db[t] : \E s \in db'[t] : SameRow(t, r, s)

Keeps == /\ PlansMove /\ GroupsMove /\ NothingVanishes
         /\ UNCHANGED <<archive, batch>>

LEMMA KeepsMoves == Keeps => Moves
BY DEF Keeps, Moves, Lasting, NothingVanishes, SameRow

\* A table that is left alone or only grows loses nothing.
LEMMA SameStays ==
  ASSUME NEW t \in Tables, db[t] \subseteq db'[t]
  PROVE  \A r \in db[t] : \E s \in db'[t] : SameRow(t, r, s)
BY DEF SameRow

LEMMA StillPlans ==
  /\ db'["channel_plans"] = db["channel_plans"] => PlansMove
  /\ db'["alert_groups"] = db["alert_groups"] => GroupsMove
BY DEF PlansMove, PlanGoesOn, GroupsMove, GroupGoesOn

\* One row is rewritten under its ID.
LEMMA OneRowKept ==
  ASSUME NEW t \in Tables \ {"alert_groups"}, NEW r \in db[t], NEW q,
         db'[t] = (db[t] \ {r}) \union {q}, q.id = r.id
  PROVE  \A x \in db[t] : \E s \in db'[t] : SameRow(t, x, s)
BY DEF SameRow

LEMMA OnePlanKept ==
  ASSUME NEW r \in db["channel_plans"], NEW q,
         db'["channel_plans"] = (db["channel_plans"] \ {r}) \union {q},
         q.id = r.id, q.event = r.event, r.status \in {"queued", "processing"}
  PROVE  PlansMove
BY DEF PlansMove, PlanGoesOn, Ends

LEMMA SetupKept ==
  ASSUME \/ Deploy \/ Tick
         \/ \E row \in PersonalRows : SavePersonal(row) \/ DeletePersonal(row)
         \/ \E p \in Producers : PublishIntent(p) \/ LookUp(p)
         \/ \E w \in Workers : GiveUp(w)
  PROVE  Keeps
<1>1. UNCHANGED <<db, archive, batch>>
  BY DEF Deploy, Tick, SavePersonal, DeletePersonal, PublishIntent, LookUp,
         GiveUp
<1> QED
  BY <1>1, StillPlans, SameStays DEF Keeps, NothingVanishes

LEMMA ProducerKept ==
  ASSUME IInv, NEW p \in Producers, Enqueue(p) \/ InsertEvent(p)
  PROVE  Keeps
<1>1. UNCHANGED <<archive, batch>>
  BY DEF Enqueue, InsertEvent
<1>2. UNCHANGED db \/ Stores(p)
  BY DEF Enqueue, InsertEvent
<1>3. \/ UNCHANGED db
      \/ db' = [db EXCEPT !["events"] =
           @ \union {EventRow(call[p].event, call[p].created)}]
  BY <1>2 DEF Stores
<1>4. /\ \A t \in Tables : db[t] \subseteq db'[t]
      /\ \A t \in Tables \ {"events"} : db'[t] = db[t]
  BY <1>3 DEF IInv, ShapeOK
<1> QED
  BY <1>1, <1>4, StillPlans, SameStays DEF Keeps, NothingVanishes, Tables

LEMMA ClaimKept ==
  ASSUME IInv, EInv, NEW w \in Workers, NEW t \in {"events", "channel_plans"},
         Claim(w, t)
  PROVE  Keeps
<1>1. PICK r \in db[t] :
        /\ Due(r)
        /\ db' = [db EXCEPT ![t] = (@ \ {r}) \union {Claimed(r, w)}]
  BY DEF Claim
<1>2. PICK q : q = Claimed(r, w)
  OBVIOUS
<1>3. /\ db'[t] = (db[t] \ {r}) \union {q}
      /\ \A u \in Tables \ {t} : db'[u] = db[u]
  BY <1>1, <1>2 DEF IInv, ShapeOK, Tables
<1>4. /\ q.id = r.id
      /\ t = "channel_plans" => q.event = r.event
  BY <1>2 DEF Claimed, EInv, EventNames, EventNamesOK, IsRow, PlansOK, PlanOK
<1>5. PlansMove
  <2>1. r.status \in {"queued", "processing"}
    BY <1>1 DEF Due
  <2> QED
    BY <1>3, <1>4, <2>1, StillPlans, OnePlanKept DEF Tables
<1>6. GroupsMove
  BY <1>3, StillPlans DEF Tables
<1>7. NothingVanishes
  <2>1. \A x \in db[t] : \E s \in db'[t] : SameRow(t, x, s)
    BY <1>3, <1>4, OneRowKept DEF Tables
  <2>2. \A u \in Tables \ {t} : \A x \in db[u] : \E s \in db'[u] : SameRow(u, x, s)
    BY <1>3, SameStays
  <2> QED
    BY <2>1, <2>2 DEF NothingVanishes
<1> QED
  BY <1>5, <1>6, <1>7 DEF Keeps, Claim

LEMMA FailEventKept ==
  ASSUME IInv, EInv, NEW w \in Workers, FailEvent(w)
  PROVE  Keeps
<1>1. PICK attempt : attempt = work[w].row.attempts + 1
  OBVIOUS
<1>2. PICK status :
        status = IF attempt < MaximumAttempts THEN "queued" ELSE "failed"
  OBVIOUS
<1>3. PICK r \in db["events"] : db' = [db EXCEPT
        !["events"] = (@ \ {r}) \union
          {[Released(r, status) EXCEPT !.attempts = attempt, !.at = clock]},
        !["event_failures"] = @ \union
          {[id |-> <<r.id, attempt>>, event |-> r.id, at |-> clock]}]
  BY <1>1, <1>2 DEF FailEvent
<1>4. PICK q : q = [Released(r, status) EXCEPT !.attempts = attempt, !.at = clock]
  OBVIOUS
<1>5. /\ db'["events"] = (db["events"] \ {r}) \union {q}
      /\ db["event_failures"] \subseteq db'["event_failures"]
      /\ \A t \in Tables \ {"events", "event_failures"} : db'[t] = db[t]
  BY <1>3, <1>4 DEF IInv, ShapeOK, Tables
<1>6. q.id = r.id
  BY <1>4 DEF Released, EInv, EventNames, EventNamesOK, IsRow
<1>7. NothingVanishes
  <2>1. \A x \in db["events"] : \E s \in db'["events"] : SameRow("events", x, s)
    BY <1>5, <1>6, OneRowKept DEF Tables
  <2>2. \A u \in Tables \ {"events"} : \A x \in db[u] :
          \E s \in db'[u] : SameRow(u, x, s)
    BY <1>5, SameStays DEF Tables
  <2> QED
    BY <2>1, <2>2 DEF NothingVanishes
<1> QED
  BY <1>5, <1>7, StillPlans DEF Keeps, FailEvent, Tables

LEMMA ReserveKept ==
  ASSUME IInv, NEW w \in Workers, ReserveBatch(w) PROVE Keeps
<1>1. PICK N : db' = [db EXCEPT !["delivery_reservations"] = @ \union N]
  BY DEF ReserveBatch
<1>2. /\ \A t \in Tables : db[t] \subseteq db'[t]
      /\ \A t \in Tables \ {"delivery_reservations"} : db'[t] = db[t]
  BY <1>1 DEF IInv, ShapeOK
<1> QED
  BY <1>2, StillPlans, SameStays DEF Keeps, NothingVanishes, Tables, ReserveBatch

LEMMA SettleKept ==
  ASSUME IInv, EInv, TInv, NEW w \in Workers, SettlePlan(w) PROVE Keeps
<1>1. PICK r, q :
        /\ r \in db["channel_plans"]
        /\ Held(r, w) /\ work[w].kind = "channel_plans"
        /\ db' = [db EXCEPT !["channel_plans"] = (@ \ {r}) \union {q}]
        /\ q.id = r.id /\ q.event = r.event /\ q.owner = NoOne
        /\ q.at = clock
        /\ <<q.status, q.attempts>> \in Outcomes(r.attempts + 1)
  BY SettledPlan
<1>2. /\ db'["channel_plans"] = (db["channel_plans"] \ {r}) \union {q}
      /\ \A t \in Tables \ {"channel_plans"} : db'[t] = db[t]
  BY <1>1 DEF IInv, ShapeOK, Tables
<1>3. PlansMove
  BY <1>1, <1>2, OnePlanKept DEF Held
<1>4. NothingVanishes
  <2>1. \A x \in db["channel_plans"] : \E s \in db'["channel_plans"] :
          SameRow("channel_plans", x, s)
    BY <1>1, <1>2, OneRowKept DEF Tables
  <2>2. \A u \in Tables \ {"channel_plans"} : \A x \in db[u] :
          \E s \in db'[u] : SameRow(u, x, s)
    BY <1>2, SameStays
  <2> QED
    BY <2>1, <2>2 DEF NothingVanishes
<1> QED
  BY <1>2, <1>3, <1>4, StillPlans DEF Keeps, SettlePlan, Tables


\* Whoever acknowledges an alert does not resolve it.
LEMMA UserKept ==
  ASSUME IInv, EInv, TInv, NEW u \in Users,
         SetPersonalState(u) \/ AcknowledgeAlert(u)
  PROVE  Keeps
<1>1. UNCHANGED <<archive, batch>>
  BY DEF SetPersonalState, AcknowledgeAlert
<1>2. \A r \in db["inbox_items"] : {"id", "at", "alert"} \subseteq DOMAIN r
  BY DEF EInv, ItemsOK, ItemOK
<1>3. CASE SetPersonalState(u)
  <2>1. PICK r, q :
          /\ r \in db["inbox_items"]
          /\ q = [r EXCEPT !.at = clock]
          /\ db' = [db EXCEPT !["inbox_items"] = (@ \ {r}) \union {q}]
    BY <1>3 DEF SetPersonalState
  <2>2. /\ db'["inbox_items"] = (db["inbox_items"] \ {r}) \union {q}
        /\ \A t \in Tables \ {"inbox_items"} : db'[t] = db[t]
    BY <2>1 DEF IInv, ShapeOK, Tables
  <2>3. q.id = r.id
    BY <1>2, <2>1
  <2>4. \A x \in db["inbox_items"] : \E s \in db'["inbox_items"] :
          SameRow("inbox_items", x, s)
    BY <2>1, <2>2, <2>3, OneRowKept DEF Tables
  <2>5. \A t \in Tables \ {"inbox_items"} : \A x \in db[t] :
          \E s \in db'[t] : SameRow(t, x, s)
    BY <2>2, SameStays
  <2> QED
    BY <1>1, <2>2, <2>4, <2>5, StillPlans DEF Keeps, NothingVanishes, Tables
<1>4. CASE AcknowledgeAlert(u)
  <2>1. PICK r \in db["inbox_items"], g \in db["alert_groups"] :
          /\ g.state = "firing"
          /\ db' = [db EXCEPT
               !["inbox_items"] = (@ \ {r}) \union
                 {[r EXCEPT !.alert = "acknowledged", !.at = clock]},
               !["alert_groups"] = (@ \ {g}) \union
                 {[g EXCEPT !.state = "acknowledged", !.acker = u,
                            !.at = clock]}]
    BY <1>4 DEF AcknowledgeAlert
  <2>2. PICK q, h :
          /\ q = [r EXCEPT !.alert = "acknowledged", !.at = clock]
          /\ h = [g EXCEPT !.state = "acknowledged", !.acker = u, !.at = clock]
    OBVIOUS
  <2>3. /\ db'["inbox_items"] = (db["inbox_items"] \ {r}) \union {q}
        /\ db'["alert_groups"] = (db["alert_groups"] \ {g}) \union {h}
        /\ \A t \in Tables \ {"inbox_items", "alert_groups"} : db'[t] = db[t]
    BY <2>1, <2>2 DEF IInv, ShapeOK, Tables
  <2>4. q.id = r.id
    BY <1>2, <2>1, <2>2
  <2>5. {"recipient", "group", "at", "event", "state"} \subseteq DOMAIN g
    BY <2>1 DEF TInv, GroupsKeyed, EInv, GroupsOK, GroupOK
  <2>6. /\ h.recipient = g.recipient /\ h.group = g.group
        /\ h.event = g.event /\ h.state = "acknowledged"
    BY <2>2, <2>5
  <2>7. \A x \in db["inbox_items"] : \E s \in db'["inbox_items"] :
          SameRow("inbox_items", x, s)
    BY <2>1, <2>3, <2>4, OneRowKept DEF Tables
  <2>8. \A x \in db["alert_groups"] : \E s \in db'["alert_groups"] :
          SameRow("alert_groups", x, s)
    BY <2>3, <2>6 DEF SameRow
  <2>9. \A t \in Tables \ {"inbox_items", "alert_groups"} : \A x \in db[t] :
          \E s \in db'[t] : SameRow(t, x, s)
    BY <2>3, SameStays
  <2>10. GroupsMove
    <3>1. \A x \in db'["alert_groups"] : GroupGoesOn(x)
      BY <2>1, <2>3, <2>6 DEF GroupGoesOn
    <3> QED
      BY <3>1 DEF GroupsMove
  <2> QED
    BY <1>1, <2>3, <2>7, <2>8, <2>9, <2>10, StillPlans
       DEF Keeps, NothingVanishes, Tables
<1> QED
  BY <1>3, <1>4

LEMMA EraseKept ==
  ASSUME IInv, EInv, TInv, NEW u \in Users, EraseSubject(u) PROVE Keeps
<1>1. UNCHANGED <<archive, batch>>
  BY DEF EraseSubject
<1>2. /\ db'["inbox_items"] = {EraseItem(r, u) : r \in db["inbox_items"]}
      /\ db'["events"] = {EraseEvent(r, u) : r \in db["events"]}
      /\ db'["channel_plans"] = {ErasePlan(r, u) : r \in db["channel_plans"]}
      /\ db'["alert_groups"] = {EraseGroup(r, u) : r \in db["alert_groups"]}
      /\ db'["delivery_reservations"] =
           {EraseReservation(r, u) : r \in db["delivery_reservations"]}
      /\ db'["event_failures"] = db["event_failures"]
  BY DEF EraseSubject, IInv, ShapeOK, Tables
<1>3. ASSUME NEW r \in db["inbox_items"], NEW q, q = EraseItem(r, u)
      PROVE  q.id = r.id
  BY <1>3 DEF EraseItem, EInv, ItemsOK, ItemOK
<1>4. ASSUME NEW r \in db["channel_plans"], NEW q, q = ErasePlan(r, u)
      PROVE  /\ q.id = r.id /\ q.event = r.event /\ q.at = r.at
             /\ q.status = r.status
  BY <1>4 DEF ErasePlan, EInv, PlansOK, PlanOK
<1>5. ASSUME NEW r \in db["alert_groups"], NEW q, q = EraseGroup(r, u)
      PROVE  /\ q.recipient = RenameOne(r.recipient, u)
             /\ q.group = r.group /\ q.at = r.at
             /\ q.state = r.state /\ q.event = r.event
  BY <1>5 DEF EraseGroup, EInv, GroupsOK, GroupOK, TInv, GroupsKeyed
<1>6. ASSUME NEW r \in db["delivery_reservations"], NEW q,
             q = EraseReservation(r, u)
      PROVE  q.id = r.id
  BY <1>6 DEF EraseReservation, EInv, ReservationsOK, ReservationOK, TInv,
              ReservationsKeyed, ReservationTyped
<1>7. ASSUME NEW r \in db["events"], NEW q, q = EraseEvent(r, u)
      PROVE  q.id = r.id
  BY <1>7, ErasedEventKeeps
<1>8. PlansMove
  BY <1>2, <1>4 DEF PlansMove, PlanGoesOn
<1>9. GroupsMove
  <2>1. \A q \in db'["alert_groups"] : GroupGoesOn(q)
    BY <1>2, <1>5 DEF GroupGoesOn
  <2> QED
    BY <2>1 DEF GroupsMove
<1>10. \A t \in Tables \ {"alert_groups"} : \A r \in db[t] :
         \E s \in db'[t] : s.id = r.id
  <2>1. \A r \in db["inbox_items"] : \E s \in db'["inbox_items"] : s.id = r.id
    BY <1>2, <1>3
  <2>2. \A r \in db["channel_plans"] : \E s \in db'["channel_plans"] :
          s.id = r.id
    BY <1>2, <1>4
  <2>3. \A r \in db["events"] : \E s \in db'["events"] : s.id = r.id
    BY <1>2, <1>7
  <2>4. \A r \in db["delivery_reservations"] :
          \E s \in db'["delivery_reservations"] : s.id = r.id
    BY <1>2, <1>6
  <2> QED
    BY <1>2, <2>1, <2>2, <2>3, <2>4 DEF Tables
<1>11. \A r \in db["alert_groups"] : \E s \in db'["alert_groups"] :
         SameRow("alert_groups", r, s)
  <2> SUFFICES ASSUME NEW r \in db["alert_groups"]
               PROVE  \E s \in db'["alert_groups"] :
                        SameRow("alert_groups", r, s)
    OBVIOUS
  <2>1. PICK s : s = EraseGroup(r, u)
    OBVIOUS
  <2>2. s \in db'["alert_groups"]
    BY <1>2, <2>1
  <2>3. s.group = r.group /\ s.recipient = RenameOne(r.recipient, u)
    BY <1>5, <2>1
  <2>4. s.recipient \in {r.recipient} \union
          {Anonymous[v] : v \in Users \cap {r.recipient}}
    BY <2>3 DEF RenameOne
  <2> QED
    BY <2>2, <2>3, <2>4 DEF SameRow
<1>12. NothingVanishes
  BY <1>10, <1>11 DEF NothingVanishes, SameRow
<1> QED
  BY <1>1, <1>8, <1>9, <1>12 DEF Keeps

\* No item and no group is lost to the event that takes its place.
LEMMA UpsertKeeps ==
  ASSUME NEW rows, NEW e, NEW users, NEW at, NEW r \in rows
  PROVE  \E q \in UpsertInboxItems(rows, e, users, at) : q.id = r.id
<1>1. PICK d : d = Identity(e)
  OBVIOUS
<1>2. CASE \A u \in users : r.id # <<u, d>>
  BY <1>1, <1>2 DEF UpsertInboxItems
<1>3. CASE \E u \in users : r.id = <<u, d>>
  <2>1. PICK u \in users : r.id = <<u, d>>
    BY <1>3
  <2>2. PICK n : n = ItemOf(e, u, at)
    OBVIOUS
  <2>3. PICK q : q = IF r.occurred <= e.occurred
                     THEN [n EXCEPT !.recipient = r.recipient] ELSE r
    OBVIOUS
  <2>4. q.id = r.id
    BY <1>1, <2>1, <2>2, <2>3 DEF ItemOf
  <2>5. q \in UpsertInboxItem(rows, e, u, at)
    BY <1>1, <2>1, <2>2, <2>3 DEF UpsertInboxItem
  <2>6. q \in UpsertInboxItems(rows, e, users, at)
    BY <2>5 DEF UpsertInboxItems
  <2> QED
    BY <2>4, <2>6
<1> QED
  BY <1>2, <1>3

LEMMA TransitionKeeps ==
  ASSUME NEW rows, NEW e, NEW users, NEW at, NEW r \in rows,
         \A x, y \in rows : x.recipient = y.recipient /\ x.group = y.group => x = y
  PROVE  \E q \in TransitionAlertGroups(rows, e, users, at) :
           q.group = r.group /\ q.recipient = r.recipient
<1>1. CASE e.alert = ""
  BY <1>1 DEF TransitionAlertGroups
<1>2. CASE e.alert # ""
  <2>1. PICK kept : kept = {x \in rows : \/ x.group # e.group
                                         \/ x.recipient \notin users
                                         \/ x.occurred > e.occurred}
    OBVIOUS
  <2>2. PICK new : new = TransitionAlertGroups(rows, e, users, at)
    OBVIOUS
  <2>3. new = kept \union {GroupOf(e, u, at) : u \in
                {v \in users : \A x \in kept :
                   x.group = e.group => x.recipient # v}}
    BY <1>2, <2>1, <2>2 DEF TransitionAlertGroups
  <2>4. CASE r \in kept
    BY <2>2, <2>3, <2>4
  <2>5. CASE r \notin kept
    <3>1. r.group = e.group /\ r.recipient \in users
      BY <2>1, <2>5
    <3>2. \A x \in kept : x.group = e.group => x.recipient # r.recipient
      BY <2>1, <2>5, <3>1
    <3>3. PICK q : q = GroupOf(e, r.recipient, at)
      OBVIOUS
    <3>4. q \in new
      BY <2>3, <3>1, <3>2, <3>3
    <3>5. q.group = r.group /\ q.recipient = r.recipient
      BY <3>1, <3>3 DEF GroupOf
    <3> QED
      BY <2>2, <3>4, <3>5
  <2> QED
    BY <2>4, <2>5
<1> QED
  BY <1>1, <1>2

\* What comes of an event comes once: it was not done before, and is now.
LEMMA MaterializeKept ==
  ASSUME IInv, EInv, TInv, NEW w \in Workers, Materialize(w) PROVE Keeps
<1>1. PICK e, at : e = work[w].row.value /\ at = work[w].row.at
  OBVIOUS
<1>2. PICK r \in db["events"], users \in Audiences(e) :
        /\ Held(r, w)
        /\ db' = [db EXCEPT
             !["alert_groups"] = TransitionAlertGroups(@, e, users, at),
             !["inbox_items"] = UpsertInboxItems(@, e, users, at),
             !["channel_plans"] = @ \union PlansOf(e, users, r.created),
             !["events"] = (@ \ {r}) \union {Materialized(r, at)}]
  BY <1>1 DEF Materialize
<1>3. PICK G, I, P, q :
        /\ G = TransitionAlertGroups(db["alert_groups"], e, users, at)
        /\ I = UpsertInboxItems(db["inbox_items"], e, users, at)
        /\ P = PlansOf(e, users, r.created)
        /\ q = Materialized(r, at)
  OBVIOUS
<1>4. /\ db'["alert_groups"] = G /\ db'["inbox_items"] = I
      /\ db'["channel_plans"] = db["channel_plans"] \union P
      /\ db'["events"] = (db["events"] \ {r}) \union {q}
      /\ db'["delivery_reservations"] = db["delivery_reservations"]
      /\ db'["event_failures"] = db["event_failures"]
  BY <1>2, <1>3 DEF IInv, ShapeOK, Tables
<1>5. work[w].kind = "events" /\ UNCHANGED <<archive, batch>>
  BY DEF Materialize
<1>6. r.status = "processing" /\ e.id = r.id /\ Planned(e)
  BY <1>1, <1>2, <1>5, HeldCopy
<1>7. q.id = r.id /\ q.status = "materialized"
  BY <1>3 DEF Materialized, Released, EInv, EventNames, EventNamesOK, IsRow
<1>8. ~Done(e.id) /\ Done(e.id)'
  <2>1. ~Done(e.id)
    BY <1>6 DEF Done
  <2>2. \A x \in db'["events"] : x.id = e.id => x = q
    BY <1>4, <1>6, <1>7 DEF TInv, EventsKeyed, Unique
  <2>3. q \in db'["events"] /\ q.id = e.id
    BY <1>4, <1>6, <1>7
  <2> QED
    BY <1>7, <2>1, <2>2, <2>3 DEF Done, Taken
<1>9. PlansMove
  <2>1. \A x \in P : x.event = e.id
    BY <1>3, <1>6, PlansOfKeys
  <2>2. \A x \in P : Arises(x)
    BY <1>8, <2>1 DEF Arises
  <2>3. \A x \in db["channel_plans"] : PlanGoesOn(x)
    BY DEF PlanGoesOn
  <2> QED
    BY <1>4, <2>2, <2>3 DEF PlansMove
<1>10. /\ \A x, y \in db["alert_groups"] :
            x.recipient = y.recipient /\ x.group = y.group => x = y
       /\ \A x \in G : x \in db["alert_groups"] \/
                       \E u \in users : x = GroupOf(e, u, at)
  <2>1. \A x, y \in db["alert_groups"] :
          x.recipient = y.recipient /\ x.group = y.group => x = y
    BY DEF TInv, GroupsKeyed
  <2> QED
    BY <1>3, <2>1, TransitionKeys
<1>11. GroupsMove
  <2>1. ASSUME NEW u, NEW x, x = GroupOf(e, u, at)
        PROVE  x.event = e.id /\ x.state = e.alert /\ x.at = at
    BY <2>1 DEF GroupOf
  <2>2. \A x \in db["alert_groups"] : GroupGoesOn(x)
    BY DEF GroupGoesOn
  <2>3. PICK s : s = e.alert
    OBVIOUS
  <2>4. \A x \in G : GroupGoesOn(x) \/ (Arises(x) /\ x.state = s /\ x.at = at)
    BY <1>8, <1>10, <2>1, <2>2, <2>3 DEF Arises
  <2> QED
    BY <1>4, <2>4 DEF GroupsMove
<1>12. NothingVanishes
  <2>1. \A x \in db["inbox_items"] : \E s \in db'["inbox_items"] :
          SameRow("inbox_items", x, s)
    BY <1>3, <1>4, UpsertKeeps DEF SameRow
  <2>2. \A x \in db["alert_groups"] : \E s \in db'["alert_groups"] :
          SameRow("alert_groups", x, s)
    BY <1>3, <1>4, <1>10, TransitionKeeps DEF SameRow
  <2>3. \A x \in db["events"] : \E s \in db'["events"] : SameRow("events", x, s)
    BY <1>4, <1>7, OneRowKept DEF Tables
  <2>4. \A t \in {"channel_plans", "delivery_reservations", "event_failures"} :
          \A x \in db[t] : \E s \in db'[t] : SameRow(t, x, s)
    BY <1>4, SameStays DEF Tables
  <2> QED
    BY <2>1, <2>2, <2>3, <2>4 DEF NothingVanishes, Tables
<1> QED
  BY <1>5, <1>9, <1>11, <1>12 DEF Keeps


-----------------------------------------------------------------------------
(* Retention: the theorem.                                                 *)

LEMMA OthersKept ==
  ASSUME IInv, EInv, TInv, Next, \A b \in Batches : ~BatchStep(b) PROVE Keeps
<1>1. ASSUME NEW w \in Workers, WorkerStep(w) PROVE Keeps
  BY <1>1, ClaimKept, MaterializeKept, FailEventKept, ReserveKept, SettleKept,
     SetupKept DEF WorkerStep
<1>2. ASSUME NEW u \in Users, UserStep(u) PROVE Keeps
  BY <1>2, UserKept, EraseKept DEF UserStep
<1>3. ASSUME NEW p \in Producers, ProducerStep(p) PROVE Keeps
  BY <1>3, ProducerKept, SetupKept DEF ProducerStep
<1> QED
  BY <1>1, <1>2, <1>3, SetupKept DEF Next

LEMMA InitCandidates == Init => PInv
<1> SUFFICES ASSUME Init PROVE PInv
  OBVIOUS
<1>1. GroupsAgree /\ OriginsOK
  BY DEF Init, GroupsAgree, OriginsOK, Tables
<1>2. CandidatesOK
  BY DEF Init, CandidatesOK
<1> QED
  BY <1>1, <1>2 DEF PInv

LEMMA NextCandidates ==
  ASSUME IInv, EInv, TInv, PInv, [Next]_vars PROVE PInv'
<1>1. TInv' /\ EventsMove /\ Ages
  BY NextKeys
<1>2. CASE \E b \in Batches : BatchStep(b)
  BY <1>1, <1>2, BatchKept
<1>3. CASE Next /\ \A b \in Batches : ~BatchStep(b)
  <2>1. Moves /\ UNCHANGED batch
    BY <1>3, OthersKept, KeepsMoves DEF Keeps
  <2> QED
    BY <1>1, <2>1, NoBatches
<1>4. CASE UNCHANGED vars
  <2>1. UNCHANGED <<db, archive, batch>>
    BY <1>4 DEF vars
  <2>2. Moves
    BY <2>1, StillPlans DEF Moves, Lasting
  <2> QED
    BY <1>1, <2>1, <2>2, NoBatches
<1> QED
  BY <1>2, <1>3, <1>4

\* The property of one step.
Purged(t, r) ==
  /\ <<t, Resource(t, r)>> \in archive
  /\ \E b \in Batches : batch[b].phase = "delete" /\
       ~OnHold(batch[b].held, t, Resource(t, r))
  /\ t \in DOMAIN Ends =>
       Status(t, r) \in Ends[t] /\ r.at + Retention <= clock
LosesNothing ==
  \A t \in Tables : \A r \in db[t] :
    (\A s \in db'[t] : ~SameRow(t, r, s)) => Purged(t, r)

LEMMA StepLosesNothing ==
  ASSUME IInv, EInv, TInv, PInv, Next PROVE LosesNothing
<1>1. CASE \A b \in Batches : ~BatchStep(b)
  BY <1>1, OthersKept DEF Keeps, NothingVanishes, LosesNothing
<1>2. ASSUME NEW b \in Batches, BatchStep(b) PROVE LosesNothing
  <2> SUFFICES ASSUME NEW t \in Tables, NEW r \in db[t],
                      \A s \in db'[t] : ~SameRow(t, r, s)
               PROVE  Purged(t, r)
    BY DEF LosesNothing
  <2>1. r \notin db'[t]
    BY DEF SameRow
  <2>2. DeleteCandidate(b)
    BY <1>2, <2>1 DEF BatchStep, ProcessRetentionBatch, NextSpec,
                      ArchiveCandidate, EndBatch
  <2>3. t = Table(b) /\ Resource(t, r) = batch[b].row.id
        /\ batch[b].phase = "delete"
    BY <2>1, <2>2 DEF DeleteCandidate, IInv, ShapeOK
  <2>4. BatchOf(batch[b])
    BY <2>3 DEF PInv, CandidatesOK, NoBatch
  <2>5. /\ CandidateOK(t, batch[b].row.id)
        /\ ~OnHold(batch[b].held, t, batch[b].row.id)
        /\ \/ <<t, batch[b].row.id>> \in archive
           \/ /\ t = "alert_groups"
              /\ \A x \in db[t] : x.event # batch[b].row.id
    BY <2>3, <2>4 DEF BatchOf, Table
  <2>6. <<t, Resource(t, r)>> \in archive
    BY <2>3, <2>5 DEF Resource
  <2> QED
    BY <2>3, <2>5, <2>6 DEF Purged, CandidateOK
<1> QED
  BY <1>1, <1>2

\* While workers, recipients and erasures change the same tables, a retention
\* batch deletes by ID what it listed some steps ago; nevertheless a row only
\* vanishes once an archive entry stands for it, when nothing holds it, and an
\* event, a plan or an alert group only while it is settled and as old as the
\* retention.
THEOREM PurgedAreArchived == Spec => PurgeLosesNothing
<1>1. Init => EInv /\ TInv /\ PInv
  BY InitNames, InitKeys, InitCandidates
<1>2. IInv /\ EInv /\ TInv /\ PInv /\ [Next]_vars => EInv' /\ TInv' /\ PInv'
  BY NextNames, NextKeys, NextCandidates
<1>3. IInv /\ EInv /\ TInv /\ PInv /\ [Next]_vars => [LosesNothing]_vars
  BY StepLosesNothing
<1>4. Spec => [][LosesNothing]_vars
  BY <1>1, <1>2, <1>3, Invariance, PTL DEF Spec
<1>5. LosesNothing =>
        \A t \in Tables : \A r \in db[t] :
          (\A s \in db'[t] : ~SameRow(t, r, s)) =>
            /\ <<t, Resource(t, r)>> \in archive
            /\ \E b \in Batches : batch[b].phase = "delete" /\
                 ~OnHold(batch[b].held, t, Resource(t, r))
            /\ t \in DOMAIN Ends =>
                 Status(t, r) \in Ends[t] /\ r.at + Retention <= clock
  BY DEF LosesNothing, Purged
<1> QED
  BY <1>4, <1>5, PTL DEF PurgeLosesNothing
=============================================================================

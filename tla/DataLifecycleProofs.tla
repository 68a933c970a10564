------------------------ MODULE DataLifecycleProofs -------------------------
(* Theorems about DataLifecycle.                                           *)
EXTENDS DataLifecycle, TLAPS

-----------------------------------------------------------------------------
(* An intent is stored once.                                               *)

\* What the arguments need to know of the shape of a record.
IsEvent(e) == {"id", "source", "key", "recipients", "text", "variables",
               "plans"} \subseteq DOMAIN e
IsRow(r) == {"id", "value", "status", "owner", "attempts", "at"}
              \subseteq DOMAIN r

\* An event comes from an intent.
Intended(e) == \E i \in Intents : e.id = i.id /\ e.key = i.key

\* The key was first sent at t at the latest.
SentBy(key, t) == sent[key] # Never /\ sent[key] <= t

\* A row is not older than the first sending, and it is what was stored
\* unless it has been erased.
EventOK(r) ==
  /\ IsRow(r) /\ IsEvent(r.value)
  /\ r.id = r.value.id /\ Intended(r.value)
  /\ r.at \in Nat /\ r.at <= clock /\ SentBy(r.value.key, r.at)
  /\ r.value.text = "erased" \/ \E s \in stored : s.event = r.value

\* A call ends before its intent is too old to be sent.
CallOK(c) ==
  c = NoCall \/
  /\ {"phase", "created", "event"} \subseteq DOMAIN c
  /\ c.phase \in {"compiled", "refused"}
  /\ IsEvent(c.event) /\ Intended(c.event) /\ c.event.text = "rendered"
  /\ c.created \in Nat /\ c.created <= clock
  /\ SentBy(c.event.key, c.created)
  /\ clock <= sent[c.event.key] + RepeatFor

\* What a worker has claimed is not older than the first sending either.
WorkOK(v) ==
  v = NoWork \/
  /\ {"kind", "row", "reserved"} \subseteq DOMAIN v
  /\ v.kind = "events" =>
       /\ v.row.at \in Nat /\ v.row.at <= clock
       /\ \A i \in Intents : i.id = v.row.id => SentBy(i.key, v.row.at)

\* A candidate's intent is as old as Retention.
Aged(id) == \A i \in Intents : i.id = id =>
              sent[i.key] # Never /\ sent[i.key] + Retention <= clock

BatchOK(v) ==
  v = NoBatch \/
  /\ {"phase", "op", "spec", "todo", "row"} \subseteq DOMAIN v
  /\ v.phase \in {"row", "delete"}
  /\ v.spec \in 1 .. Len(Specs)
  /\ Specs[v.spec] = "events" =>
       /\ \A c \in v.todo : Aged(c.id)
       /\ v.phase = "delete" => Aged(v.row.id)

\* What was stored is still there, or its intent is not sent any more.
StoredOK(s) ==
  /\ IsEvent(s.event) /\ Intended(s.event) /\ sent[s.event.key] # Never
  /\ \/ \E r \in db["events"] : SameSource(r.value, s.event)
     \/ sent[s.event.key] + RepeatFor < clock

ShapeOK ==
  /\ clock \in Nat
  /\ sent \in [Keys -> Nat \union {Never}]
  /\ \A k \in Keys : sent[k] <= clock
  /\ DOMAIN db = Tables /\ DOMAIN call = Producers
  /\ DOMAIN work = Workers /\ DOMAIN batch = Batches

EventsOK == \A r \in db["events"] : EventOK(r)
CallsOK == \A p \in Producers : CallOK(call[p])
WorkersOK == \A w \in Workers : WorkOK(work[w])
BatchesOK == \A b \in Batches : BatchOK(batch[b])
StoreOK == \A s \in stored : StoredOK(s)

IInv == /\ ShapeOK /\ EventsOK /\ CallsOK /\ WorkersOK /\ BatchesOK /\ StoreOK
        /\ IntentsAreIdempotent

-----------------------------------------------------------------------------
(* Frames.                                                                 *)

\* Each row of an event continues one that was there, dated between the first
\* sending and now.
KeepsEvents ==
  \A q \in db'["events"] : \E r \in db["events"] :
    /\ IsRow(q) /\ IsEvent(q.value) /\ q.id = r.id
    /\ q.value.id = r.value.id /\ q.value.key = r.value.key
    /\ q.value = r.value \/ q.value.text = "erased"
    /\ q.at \in Nat /\ q.at <= clock /\ SentBy(r.value.key, q.at)

\* No row of an event is lost.
KeepsSources ==
  \A r \in db["events"] : \E q \in db'["events"] : SameSource(r.value, q.value)

LEMMA KeysOfIntents == ASSUME NEW e, Intended(e) PROVE e.key \in Keys
BY DEF Intended, Keys

LEMMA SameIntent ==
  ASSUME NEW e, Intended(e), NEW i \in Intents, i.id = e.id
  PROVE  i.key = e.key
BY IntentAssumption DEF Intended

LEMMA EventsStay ==
  ASSUME EventsOK, KeepsEvents, UNCHANGED <<clock, sent, stored>>
  PROVE  EventsOK'
<1> SUFFICES ASSUME NEW q \in db'["events"] PROVE EventOK(q)'
  BY DEF EventsOK
<1>1. PICK r \in db["events"] :
        /\ IsRow(q) /\ IsEvent(q.value) /\ q.id = r.id
        /\ q.value.id = r.value.id /\ q.value.key = r.value.key
        /\ q.value = r.value \/ q.value.text = "erased"
        /\ q.at \in Nat /\ q.at <= clock /\ SentBy(r.value.key, q.at)
  BY DEF KeepsEvents
<1>2. EventOK(r)
  BY DEF EventsOK
<1> QED
  BY <1>1, <1>2 DEF EventOK, Intended, SentBy

LEMMA StoreStays ==
  ASSUME StoreOK, KeepsSources, UNCHANGED <<clock, sent, stored>>
  PROVE  StoreOK'
BY DEF StoreOK, StoredOK, KeepsSources, SameSource

LEMMA CallsStay ==
  ASSUME CallsOK, UNCHANGED <<clock, sent, call>> PROVE CallsOK'
BY DEF CallsOK, CallOK, SentBy

LEMMA WorkersStay ==
  ASSUME WorkersOK, UNCHANGED <<clock, sent, work>> PROVE WorkersOK'
BY DEF WorkersOK, WorkOK, SentBy

LEMMA BatchesStay ==
  ASSUME BatchesOK, UNCHANGED <<clock, sent, batch>> PROVE BatchesOK'
BY DEF BatchesOK, BatchOK, Aged

LEMMA AnswersStay ==
  ASSUME IntentsAreIdempotent, UNCHANGED <<stored, accepted>>
  PROVE  IntentsAreIdempotent'
BY DEF IntentsAreIdempotent

\* Tables other than that of the events.
LEMMA EventsAlone ==
  ASSUME EventsOK, UNCHANGED <<clock, sent, stored>>,
         db'["events"] = db["events"]
  PROVE  EventsOK' /\ (StoreOK => StoreOK')
BY DEF EventsOK, EventOK, SentBy, StoreOK, StoredOK

\* One row of an event is replaced by its successor.
LEMMA Replace ==
  ASSUME IInv, NEW r \in db["events"], NEW q,
         db'["events"] = (db["events"] \ {r}) \union {q},
         IsRow(q), q.id = r.id, q.value = r.value,
         q.at \in Nat, q.at <= clock, SentBy(r.value.key, q.at)
  PROVE  KeepsEvents /\ KeepsSources
<1>1. \A x \in db["events"] : EventOK(x)
  BY DEF IInv, EventsOK
<1> QED
  BY <1>1 DEF KeepsEvents, KeepsSources, EventOK, SameSource

-----------------------------------------------------------------------------
(* Deployments, time and producers.                                        *)

LEMMA InitOK == Init => IInv
<1> SUFFICES ASSUME Init PROVE IInv
  OBVIOUS
<1>1. ShapeOK
  BY DEF Init, ShapeOK, Never
<1>2. EventsOK /\ StoreOK /\ IntentsAreIdempotent
  BY DEF Init, EventsOK, StoreOK, IntentsAreIdempotent, Tables
<1>3. CallsOK /\ WorkersOK /\ BatchesOK
  BY DEF Init, CallsOK, CallOK, WorkersOK, WorkOK, BatchesOK, BatchOK
<1> QED
  BY <1>1, <1>2, <1>3 DEF IInv

LEMMA DeployOK == IInv /\ Deploy => IInv'
<1> SUFFICES ASSUME IInv, Deploy PROVE IInv'
  OBVIOUS
<1>1. UNCHANGED <<clock, sent, stored, accepted, db, call, work, batch>>
  BY DEF Deploy, history
<1> QED
  BY <1>1, EventsAlone, CallsStay, WorkersStay, BatchesStay, AnswersStay
     DEF IInv, ShapeOK

LEMMA StutterOK == IInv /\ UNCHANGED vars => IInv'
<1> SUFFICES ASSUME IInv, UNCHANGED vars PROVE IInv'
  OBVIOUS
<1>1. UNCHANGED <<clock, sent, stored, accepted, db, call, work, batch>>
  BY DEF vars, history
<1> QED
  BY <1>1, EventsAlone, CallsStay, WorkersStay, BatchesStay, AnswersStay
     DEF IInv, ShapeOK

\* The deadline of every call is what keeps it in time.
LEMMA TickOK == IInv /\ Tick => IInv'
<1> SUFFICES ASSUME IInv, Tick PROVE IInv'
  OBVIOUS
<1>1. /\ UNCHANGED <<sent, stored, accepted, db, call, work, batch>>
      /\ clock' = clock + 1 /\ clock \in Nat
  BY DEF Tick, history, IInv, ShapeOK
<1>2. EventsOK'
  BY <1>1 DEF IInv, EventsOK, EventOK, SentBy
<1>3. CallsOK'
  <2> SUFFICES ASSUME NEW p \in Producers PROVE CallOK(call[p])'
    BY DEF CallsOK
  <2>1. CallOK(call[p]) /\ call'[p] = call[p]
    BY <1>1 DEF IInv, CallsOK
  <2>2. call[p] # NoCall => clock < sent[call[p].event.key] + RepeatFor
    BY DEF Tick
  <2>3. call[p] # NoCall => sent[call[p].event.key] \in Nat
    BY <2>1, KeysOfIntents DEF CallOK, IInv, ShapeOK, SentBy
  <2> QED
    BY <1>1, <2>1, <2>2, <2>3, TimeAssumption DEF CallOK, SentBy
<1>4. WorkersOK'
  BY <1>1 DEF IInv, WorkersOK, WorkOK, SentBy
<1>5. BatchesOK'
  <2> SUFFICES ASSUME NEW id, Aged(id) PROVE Aged(id)'
    BY <1>1 DEF IInv, BatchesOK, BatchOK
  <2>1. \A i \in Intents : sent[i.key] # Never => sent[i.key] \in Nat
    BY DEF IInv, ShapeOK, Keys
  <2> QED
    BY <1>1, <2>1, TimeAssumption DEF Aged
<1>6. StoreOK'
  <2>1. \A s \in stored : sent[s.event.key] \in Nat
    BY KeysOfIntents DEF IInv, ShapeOK, StoreOK, StoredOK
  <2> QED
    BY <1>1, <2>1, TimeAssumption DEF IInv, StoreOK, StoredOK
<1>7. ShapeOK'
  <2>1. \A k \in Keys : sent'[k] = sent[k] /\ sent[k] \in Nat \union {Never}
                        /\ sent[k] <= clock
    BY <1>1 DEF IInv, ShapeOK
  <2>2. \A k \in Keys : sent'[k] <= clock'
    BY <1>1, <2>1 DEF Never
  <2> QED
    BY <1>1, <2>2 DEF IInv, ShapeOK
<1> QED
  BY <1>1, <1>2, <1>3, <1>4, <1>5, <1>6, <1>7, AnswersStay DEF IInv

\* The compiler sets what the arguments are about.
LEMMA CompiledEvent ==
  ASSUME NEW c, NEW i \in Intents
  PROVE  /\ IsEvent(Compile(c, i)) /\ Intended(Compile(c, i))
         /\ Compile(c, i).text = "rendered" /\ Compile(c, i).key = i.key
BY DEF Compile, IsEvent, Intended

\* A key is only ever given the time of its first sending.
LEMMA FirstSending ==
  ASSUME IInv, NEW i \in Intents,
         sent' = [sent EXCEPT ![i.key] = IF @ = Never THEN clock ELSE @],
         clock' = clock
  PROVE  /\ sent' \in [Keys -> Nat \union {Never}]
         /\ \A k \in Keys : sent[k] # Never => sent'[k] = sent[k]
         /\ sent'[i.key] = IF sent[i.key] = Never THEN clock ELSE sent[i.key]
         /\ \A k \in Keys : sent'[k] <= clock
BY DEF IInv, ShapeOK, Keys

LEMMA PublishOK ==
  ASSUME IInv, NEW p \in Producers, PublishIntent(p) PROVE IInv'
<1>1. PICK i \in Intents :
        /\ IF sent[i.key] = Never THEN clock <= LastIntent ELSE InTime(i.key)
        /\ sent' = [sent EXCEPT ![i.key] = IF @ = Never THEN clock ELSE @]
        /\ call' = [call EXCEPT ![p] =
             [phase |-> "compiled", created |-> clock,
              event |-> Compile(Catalogs[catalog], i)]]
  BY DEF PublishIntent
<1>2. UNCHANGED <<clock, stored, accepted, db, work, batch>>
  BY DEF PublishIntent
<1>3. /\ sent' \in [Keys -> Nat \union {Never}]
      /\ \A k \in Keys : sent[k] # Never => sent'[k] = sent[k]
      /\ sent'[i.key] = IF sent[i.key] = Never THEN clock ELSE sent[i.key]
      /\ \A k \in Keys : sent'[k] <= clock
  BY <1>1, <1>2, FirstSending
<1>4. clock \in Nat /\ i.key \in Keys
  BY DEF IInv, ShapeOK, Keys
<1>5. ShapeOK'
  BY <1>1, <1>2, <1>3 DEF IInv, ShapeOK
<1>6. EventsOK' /\ StoreOK'
  <2>1. EventsOK'
    BY <1>2, <1>3, KeysOfIntents DEF IInv, EventsOK, EventOK, SentBy
  <2>2. StoreOK'
    BY <1>2, <1>3, KeysOfIntents DEF IInv, StoreOK, StoredOK
  <2> QED
    BY <2>1, <2>2
<1>7. WorkersOK' /\ BatchesOK'
  BY <1>2, <1>3 DEF IInv, WorkersOK, WorkOK, BatchesOK, BatchOK, Aged, SentBy,
                    Keys
<1>8. CallsOK'
  <2> SUFFICES ASSUME NEW q \in Producers PROVE CallOK(call[q])'
    BY DEF CallsOK
  <2>1. CASE q # p
    <3>1. call'[q] = call[q] /\ CallOK(call[q])
      BY <1>1, <2>1 DEF IInv, CallsOK
    <3> QED
      BY <1>2, <1>3, <3>1, KeysOfIntents DEF CallOK, SentBy
  <2>2. CASE q = p
    <3>1. PICK e : e = Compile(Catalogs[catalog], i)
      OBVIOUS
    <3>2. IsEvent(e) /\ Intended(e) /\ e.text = "rendered" /\ e.key = i.key
      BY <3>1, CompiledEvent
    <3>3. call'[p] = [phase |-> "compiled", created |-> clock, event |-> e]
      BY <1>1, <3>1 DEF IInv, ShapeOK
    <3>4. /\ sent'[i.key] # Never /\ sent'[i.key] <= clock
          /\ clock <= sent'[i.key] + RepeatFor
      <4>1. sent[i.key] \in Nat \union {Never} /\ sent[i.key] <= clock
        BY <1>4 DEF IInv, ShapeOK
      <4>2. sent[i.key] # Never => clock <= sent[i.key] + RepeatFor
        BY <1>1 DEF InTime
      <4> QED
        BY <1>3, <1>4, <4>1, <4>2, TimeAssumption DEF Never
    <3> QED
      BY <1>2, <1>4, <2>2, <3>2, <3>3, <3>4 DEF CallOK, SentBy
  <2> QED
    BY <2>1, <2>2
<1> QED
  BY <1>2, <1>5, <1>6, <1>7, <1>8, AnswersStay DEF IInv

LEMMA StoresOK ==
  ASSUME IInv, NEW p \in Producers, call[p].phase = "compiled",
         \A r \in db["events"] : ~Collides(r, call[p].event),
         Stores(p), UNCHANGED <<clock, sent>>
  PROVE  /\ DOMAIN db' = Tables
         /\ EventsOK' /\ StoreOK' /\ IntentsAreIdempotent'
<1>1. PICK e, d : call[p].event = e /\ call[p].created = d
  OBVIOUS
<1>2. /\ IsEvent(e) /\ Intended(e) /\ e.text = "rendered"
      /\ d \in Nat /\ d <= clock /\ SentBy(e.key, d)
      /\ clock <= sent[e.key] + RepeatFor
  BY <1>1 DEF IInv, CallsOK, CallOK, NoCall
<1>3. PICK n : n = Cardinality({s \in stored : SameSource(s.event, e)})
  OBVIOUS
<1>4. PICK x : x = EventRow(e, d)
  OBVIOUS
<1>5. /\ db' = [db EXCEPT !["events"] = @ \union {x}]
      /\ stored' = stored \union {[event |-> e, nth |-> n]}
      /\ accepted' = accepted \union {e}
  BY <1>1, <1>3, <1>4 DEF Stores
<1>6. DOMAIN db = Tables /\ "events" \in Tables
  BY DEF IInv, ShapeOK, Tables
<1>7. DOMAIN db' = Tables /\ db'["events"] = db["events"] \union {x}
  BY <1>5, <1>6
<1>8. /\ x.id = e.id /\ x.value = e /\ x.at = d /\ IsRow(x)
  BY <1>4 DEF EventRow, IsRow
<1>9. EventsOK'
  <2>1. \A r \in db["events"] : EventOK(r)
    BY DEF IInv, EventsOK
  <2>2. [event |-> e, nth |-> n] \in stored' /\ stored \subseteq stored'
    BY <1>5
  <2>3. EventOK(x)'
    <3>1. \E s \in stored' : s.event = x.value
      BY <1>8, <2>2
    <3> QED
      BY <1>2, <1>8, <3>1 DEF EventOK, SentBy, Intended
  <2>4. \A r \in db["events"] : EventOK(r)'
    BY <2>1, <2>2 DEF EventOK, SentBy, Intended
  <2> QED
    BY <1>7, <2>3, <2>4 DEF EventsOK
<1>10. StoreOK'
  <2>1. \A s \in stored : StoredOK(s)'
    BY <1>7 DEF IInv, StoreOK, StoredOK, SameSource
  <2>2. StoredOK([event |-> e, nth |-> n])'
    BY <1>2, <1>7, <1>8 DEF StoredOK, SentBy, SameSource
  <2> QED
    BY <1>5, <2>1, <2>2 DEF StoreOK
\* Had it been stored before, its row would be there, or it would be too old.
<1>11. \A s \in stored : ~SameSource(s.event, e)
  <2> SUFFICES ASSUME NEW s \in stored, SameSource(s.event, e) PROVE FALSE
    OBVIOUS
  <2>1. StoredOK(s)
    BY DEF IInv, StoreOK
  <2>2. CASE \E r \in db["events"] : SameSource(r.value, s.event)
    BY <1>1, <2>2 DEF Collides, SameSource
  <2>3. CASE sent[s.event.key] + RepeatFor < clock
    <3>1. sent[e.key] \in Nat /\ clock \in Nat /\ RepeatFor \in Nat
      BY <1>2, KeysOfIntents, TimeAssumption DEF IInv, ShapeOK, SentBy
    <3> QED
      BY <1>2, <2>3, <3>1 DEF SameSource
  <2> QED
    BY <2>1, <2>2, <2>3 DEF StoredOK
<1>12. IntentsAreIdempotent'
  <2>1. \A s, t \in stored' : SameSource(s.event, t.event) => s = t
    BY <1>5, <1>11 DEF IInv, IntentsAreIdempotent, SameSource
  <2>2. \A a \in accepted' : \E s \in stored' : Content(s.event) = Content(a)
    <3>1. \A a \in accepted : \E s \in stored : Content(s.event) = Content(a)
      BY DEF IInv, IntentsAreIdempotent
    <3>2. PICK s \in stored' : s = [event |-> e, nth |-> n]
      BY <1>5
    <3>3. Content(s.event) = Content(e)
      BY <3>2
    <3>4. stored \subseteq stored'
      BY <1>5
    <3> QED
      BY <1>5, <3>1, <3>3, <3>4
  <2> QED
    BY <2>1, <2>2 DEF IntentsAreIdempotent, SameSource
<1> QED
  BY <1>7, <1>9, <1>10, <1>12

LEMMA ReturnOK ==
  ASSUME IInv, NEW p \in Producers, Return(p), UNCHANGED <<clock, sent>>
  PROVE  DOMAIN call' = Producers /\ CallsOK'
<1>1. DOMAIN call' = Producers /\ \A q \in Producers :
        call'[q] = IF q = p THEN NoCall ELSE call[q]
  BY DEF Return, IInv, ShapeOK
<1>2. \A q \in Producers : CallOK(call[q])
  BY DEF IInv, CallsOK
<1> QED
  BY <1>1, <1>2 DEF CallsOK, CallOK, SentBy

\* Whoever finds the intent stored finds what was stored: what has been erased
\* is no longer what the compiler renders.
LEMMA LookUpOK ==
  ASSUME IInv, NEW p \in Producers, LookUp(p) PROVE IInv'
<1>1. UNCHANGED <<clock, sent, stored, db, work, batch>>
  BY DEF LookUp
<1>2. DOMAIN call' = Producers /\ CallsOK'
  BY <1>1, ReturnOK DEF LookUp
<1>3. IntentsAreIdempotent'
  <2> SUFFICES ASSUME NEW a \in accepted' \ accepted
               PROVE  \E s \in stored : Content(s.event) = Content(a)
    BY <1>1 DEF IInv, IntentsAreIdempotent
  <2>1. PICK r \in db["events"] : a = call[p].event /\ SameIngest(r.value, a)
    BY DEF LookUp
  <2>2. IsEvent(a) /\ a.text = "rendered"
    BY <2>1 DEF LookUp, NoCall, IInv, CallsOK, CallOK
  <2>3. EventOK(r)
    BY DEF IInv, EventsOK
  <2>4. Content(a).text = a.text /\ Content(r.value).text = r.value.text
    BY <2>2, <2>3 DEF Content, IsEvent, EventOK
  <2>5. Content(r.value) = Content(a)
    BY <2>1 DEF SameIngest
  <2>6. r.value.text = "rendered"
    BY <2>2, <2>4, <2>5
  <2> QED
    BY <2>3, <2>5, <2>6 DEF EventOK
<1> QED
  BY <1>1, <1>2, <1>3, EventsAlone, WorkersStay, BatchesStay DEF IInv, ShapeOK

LEMMA EnqueueOK ==
  ASSUME IInv, NEW p \in Producers, Enqueue(p) PROVE IInv'
<1>1. UNCHANGED <<clock, sent, work, batch>> /\ call[p].phase = "compiled"
  BY DEF Enqueue
<1>2. WorkersOK' /\ BatchesOK'
  BY <1>1, WorkersStay, BatchesStay DEF IInv
<1>3. CASE /\ \A r \in db["events"] : ~Collides(r, call[p].event)
           /\ Stores(p) /\ Return(p)
  BY <1>1, <1>2, <1>3, StoresOK, ReturnOK DEF IInv, ShapeOK
<1>4. ASSUME call' = [call EXCEPT ![p].phase = "refused"],
             UNCHANGED <<db, stored, accepted>>
      PROVE  IInv'
  <2>1. \A q \in Producers : CallOK(call[q])
    BY DEF IInv, CallsOK
  <2>2. call[p] # NoCall
    BY <1>1 DEF NoCall
  <2>3. PICK d : d = [call[p] EXCEPT !.phase = "refused"]
    OBVIOUS
  <2>4. DOMAIN call' = Producers /\ \A q \in Producers :
          call'[q] = IF q = p THEN d ELSE call[q]
    BY <1>4, <2>3 DEF IInv, ShapeOK
  <2>5. CallOK(d)'
    BY <1>1, <2>1, <2>2, <2>3 DEF CallOK, SentBy
  <2>6. \A q \in Producers : CallOK(call[q])'
    BY <1>1, <2>1, <2>4, <2>5 DEF CallOK, SentBy
  <2> QED
    BY <1>1, <1>2, <1>4, <2>4, <2>6, EventsAlone, AnswersStay
       DEF IInv, ShapeOK, CallsOK
<1> QED
  BY <1>3, <1>4 DEF Enqueue

LEMMA InsertEventOK ==
  ASSUME IInv, NEW p \in Producers, InsertEvent(p) PROVE IInv'
<1>1. /\ UNCHANGED <<clock, sent, work, batch>> /\ call[p].phase = "compiled"
      /\ Return(p)
  BY DEF InsertEvent
<1>2. WorkersOK' /\ BatchesOK' /\ DOMAIN call' = Producers /\ CallsOK'
  BY <1>1, WorkersStay, BatchesStay, ReturnOK DEF IInv
<1>3. CASE /\ \A r \in db["events"] : ~Collides(r, call[p].event)
           /\ Stores(p)
  BY <1>1, <1>2, <1>3, StoresOK DEF IInv, ShapeOK
<1>4. CASE UNCHANGED <<db, stored, accepted>>
  BY <1>1, <1>2, <1>4, EventsAlone, AnswersStay DEF IInv, ShapeOK
<1> QED
  BY <1>3, <1>4 DEF InsertEvent
-----------------------------------------------------------------------------
(* Workers.                                                                *)

LEMMA SameEvents ==
  ASSUME IInv, db'["events"] = db["events"] PROVE KeepsEvents /\ KeepsSources
BY DEF IInv, EventsOK, EventOK, KeepsEvents, KeepsSources, SameSource

\* A step that keeps the events and is not a producer's.
LEMMA WorkStep ==
  ASSUME IInv, KeepsEvents, KeepsSources, DOMAIN db' = Tables,
         DOMAIN work' = Workers, WorkersOK',
         DOMAIN batch' = Batches, BatchesOK',
         UNCHANGED <<clock, intake>>
  PROVE  IInv'
<1>1. UNCHANGED <<clock, sent, stored, accepted, call>>
  BY DEF intake
<1> QED
  BY <1>1, EventsStay, StoreStays, CallsStay, AnswersStay DEF IInv, ShapeOK

LEMMA ReleaseOK ==
  ASSUME IInv, NEW w \in Workers, work' = [work EXCEPT ![w] = NoWork],
         UNCHANGED <<clock, batch, intake>>
  PROVE  /\ DOMAIN work' = Workers /\ WorkersOK'
         /\ DOMAIN batch' = Batches /\ BatchesOK'
<1>1. DOMAIN work' = Workers /\ \A v \in Workers :
        work'[v] = IF v = w THEN NoWork ELSE work[v]
  BY DEF IInv, ShapeOK
<1>2. \A v \in Workers : WorkOK(work[v])
  BY DEF IInv, WorkersOK
<1> QED
  BY <1>1, <1>2, BatchesStay
     DEF WorkersOK, WorkOK, SentBy, intake, IInv, ShapeOK

LEMMA ClaimOK ==
  ASSUME IInv, NEW w \in Workers, NEW t \in {"events", "channel_plans"},
         Claim(w, t)
  PROVE  IInv'
<1>1. PICK r \in db[t] :
        /\ db' = [db EXCEPT ![t] = (@ \ {r}) \union {Claimed(r, w)}]
        /\ work' = [work EXCEPT ![w] =
             [kind |-> t, row |-> Claimed(r, w), reserved |-> FALSE]]
  BY DEF Claim
<1>2. UNCHANGED <<clock, batch, intake>>
  BY DEF Claim
<1>3. PICK q : q = Claimed(r, w)
  OBVIOUS
<1>4. PICK v : v = [kind |-> t, row |-> q, reserved |-> FALSE]
  OBVIOUS
<1>5. /\ DOMAIN work' = Workers
      /\ \A x \in Workers : work'[x] = IF x = w THEN v ELSE work[x]
  BY <1>1, <1>3, <1>4 DEF IInv, ShapeOK
<1>6. /\ DOMAIN db' = Tables
      /\ db'[t] = (db[t] \ {r}) \union {q}
      /\ \A u \in Tables \ {t} : db'[u] = db[u]
  BY <1>1, <1>3 DEF IInv, ShapeOK, Tables
<1>7. ASSUME t = "events"
      PROVE  /\ EventOK(r) /\ IsRow(q) /\ q.id = r.id /\ q.value = r.value
             /\ q.at = clock /\ SentBy(r.value.key, q.at)
  <2>1. EventOK(r)
    BY <1>7 DEF IInv, EventsOK
  <2>2. IsRow(q) /\ q.id = r.id /\ q.value = r.value /\ q.at = clock
    BY <1>3, <2>1 DEF Claimed, EventOK, IsRow
  <2>3. sent[r.value.key] \in Nat
    BY <2>1, KeysOfIntents DEF EventOK, SentBy, IInv, ShapeOK
  <2> QED
    BY <2>1, <2>2, <2>3 DEF EventOK, SentBy, IInv, ShapeOK
<1>8. KeepsEvents /\ KeepsSources
  <2>1. CASE t = "events"
    BY <1>6, <1>7, <2>1, Replace DEF IInv, ShapeOK
  <2>2. CASE t = "channel_plans"
    BY <1>6, <2>2, SameEvents DEF Tables
  <2> QED
    BY <2>1, <2>2
<1>9. WorkOK(v)'
  <2>1. v.kind = t /\ v.row = q
    BY <1>4
  <2>2. ASSUME t = "events", NEW i \in Intents, i.id = q.id
        PROVE  SentBy(i.key, q.at)
    BY <1>7, <2>2, SameIntent DEF EventOK
  <2> QED
    BY <1>2, <1>4, <1>7, <2>1, <2>2 DEF WorkOK, SentBy, IInv, ShapeOK, intake
<1>10. WorkersOK'
  <2>1. \A x \in Workers : WorkOK(work[x])
    BY DEF IInv, WorkersOK
  <2> QED
    BY <1>2, <1>5, <1>9, <2>1 DEF WorkersOK, WorkOK, SentBy, intake
<1> QED
  BY <1>2, <1>5, <1>6, <1>8, <1>10, WorkStep, BatchesStay
     DEF IInv, ShapeOK, intake

LEMMA GiveUpOK == ASSUME IInv, NEW w \in Workers, GiveUp(w) PROVE IInv'
BY ReleaseOK, SameEvents, WorkStep DEF GiveUp, IInv, ShapeOK

\* The time a worker writes is that of its claim, or now.
LEMMA FinishEvent ==
  ASSUME IInv, NEW w \in Workers, work[w].kind = "events",
         NEW r \in db["events"], Held(r, w), NEW at,
         at \in {work[w].row.at, clock}
  PROVE  /\ EventOK(r) /\ at \in Nat /\ at <= clock
         /\ SentBy(r.value.key, at)
<1>1. EventOK(r)
  BY DEF IInv, EventsOK
<1>2. /\ work[w].row.at \in Nat /\ work[w].row.at <= clock
      /\ \A i \in Intents : i.id = work[w].row.id =>
           SentBy(i.key, work[w].row.at)
  BY DEF IInv, WorkersOK, WorkOK, NoWork
<1>3. PICK i \in Intents : r.value.id = i.id /\ r.value.key = i.key
  BY <1>1 DEF EventOK, Intended
<1>4. SentBy(r.value.key, work[w].row.at)
  BY <1>1, <1>2, <1>3 DEF Held, EventOK
<1>5. SentBy(r.value.key, clock)
  BY <1>3, <1>4 DEF SentBy, IInv, ShapeOK, Keys
<1> QED
  BY <1>1, <1>2, <1>4, <1>5 DEF IInv, ShapeOK

LEMMA MaterializeOK ==
  ASSUME IInv, NEW w \in Workers, Materialize(w) PROVE IInv'
<1>1. /\ work[w].kind = "events" /\ work' = [work EXCEPT ![w] = NoWork]
      /\ UNCHANGED <<clock, batch, intake>>
  BY DEF Materialize
<1>2. PICK at : at = work[w].row.at
  OBVIOUS
<1>3. PICK r \in db["events"] : Held(r, w) /\ DOMAIN db' = DOMAIN db /\
        db'["events"] = (db["events"] \ {r}) \union
          {Materialized(r, at)}
  BY <1>2 DEF Materialize, IInv, ShapeOK, Tables
<1>4. PICK q : q = Materialized(r, at)
  OBVIOUS
<1>5. /\ EventOK(r) /\ at \in Nat /\ at <= clock
      /\ SentBy(r.value.key, at)
  BY <1>1, <1>2, <1>3, FinishEvent
<1>6. IsRow(q) /\ q.id = r.id /\ q.value = r.value /\ q.at = at
  BY <1>4, <1>5 DEF Materialized, Released, EventOK, IsRow
<1>7. KeepsEvents /\ KeepsSources
  BY <1>3, <1>4, <1>5, <1>6, Replace
<1> QED
  BY <1>1, <1>3, <1>7, ReleaseOK, WorkStep DEF IInv, ShapeOK

LEMMA FailEventOK ==
  ASSUME IInv, NEW w \in Workers, FailEvent(w) PROVE IInv'
<1>1. /\ work[w].kind = "events" /\ work' = [work EXCEPT ![w] = NoWork]
      /\ UNCHANGED <<clock, batch, intake>>
  BY DEF FailEvent
<1>2. PICK attempt : attempt = work[w].row.attempts + 1
  OBVIOUS
<1>3. PICK status :
        status = IF attempt < MaximumAttempts THEN "queued" ELSE "failed"
  OBVIOUS
<1>4. PICK r \in db["events"] : Held(r, w) /\ DOMAIN db' = DOMAIN db /\
        db'["events"] = (db["events"] \ {r}) \union
          {[Released(r, status) EXCEPT !.attempts = attempt, !.at = clock]}
  BY <1>2, <1>3 DEF FailEvent, IInv, ShapeOK, Tables
<1>5. PICK q :
        q = [Released(r, status) EXCEPT !.attempts = attempt, !.at = clock]
  OBVIOUS
<1>6. EventOK(r) /\ SentBy(r.value.key, clock) /\ clock \in Nat
  BY <1>1, <1>4, FinishEvent
<1>7. IsRow(q) /\ q.id = r.id /\ q.value = r.value /\ q.at = clock
  BY <1>5, <1>6 DEF Released, EventOK, IsRow
<1>8. KeepsEvents /\ KeepsSources
  <2>1. q.at \in Nat /\ q.at <= clock /\ SentBy(r.value.key, q.at)
    BY <1>6, <1>7 DEF SentBy
  <2>2. db'["events"] = (db["events"] \ {r}) \union {q}
    BY <1>4, <1>5
  <2> QED
    BY <1>7, <2>1, <2>2, Replace
<1> QED
  BY <1>1, <1>4, <1>8, ReleaseOK, WorkStep DEF IInv, ShapeOK

LEMMA ReserveBatchOK ==
  ASSUME IInv, NEW w \in Workers, ReserveBatch(w) PROVE IInv'
<1>1. /\ work[w].kind = "channel_plans"
      /\ work' = [work EXCEPT ![w].reserved = TRUE]
      /\ UNCHANGED <<clock, batch, intake>>
      /\ DOMAIN db' = DOMAIN db /\ db'["events"] = db["events"]
  BY DEF ReserveBatch, IInv, ShapeOK, Tables
<1>2. PICK v : v = [work[w] EXCEPT !.reserved = TRUE]
  OBVIOUS
<1>3. DOMAIN work' = Workers /\ \A x \in Workers :
        work'[x] = IF x = w THEN v ELSE work[x]
  BY <1>1, <1>2 DEF IInv, ShapeOK
<1>4. \A x \in Workers : WorkOK(work[x])
  BY DEF IInv, WorkersOK
<1>5. WorkOK(v)'
  BY <1>1, <1>2, <1>4 DEF WorkOK, NoWork
<1>6. WorkersOK'
  BY <1>1, <1>3, <1>4, <1>5 DEF WorkersOK, WorkOK, SentBy, intake
<1> QED
  BY <1>1, <1>3, <1>6, SameEvents, WorkStep, BatchesStay
     DEF IInv, ShapeOK, intake

LEMMA SettlePlanOK ==
  ASSUME IInv, NEW w \in Workers, SettlePlan(w) PROVE IInv'
<1>1. /\ work' = [work EXCEPT ![w] = NoWork]
      /\ UNCHANGED <<clock, batch, intake>>
      /\ DOMAIN db' = DOMAIN db /\ db'["events"] = db["events"]
  BY DEF SettlePlan, IInv, ShapeOK, Tables
<1> QED
  BY <1>1, SameEvents, ReleaseOK, WorkStep DEF IInv, ShapeOK
-----------------------------------------------------------------------------
(* Recipients and erasure.                                                 *)

LEMMA UserStepOK ==
  ASSUME IInv, NEW u \in Users, SetPersonalState(u) \/ AcknowledgeAlert(u)
  PROVE  IInv'
<1>1. /\ UNCHANGED <<clock, sent, stored, accepted, call, work, batch>>
      /\ DOMAIN db' = DOMAIN db /\ db'["events"] = db["events"]
  BY DEF SetPersonalState, AcknowledgeAlert, IInv, ShapeOK, Tables, history
<1> QED
  BY <1>1, EventsAlone, CallsStay, WorkersStay, BatchesStay, AnswersStay
     DEF IInv, ShapeOK

LEMMA PersonalOK ==
  ASSUME IInv, NEW row, SavePersonal(row) \/ DeletePersonal(row)
  PROVE  IInv'
<1>1. UNCHANGED <<clock, sent, stored, accepted, db, call, work, batch>>
  BY DEF SavePersonal, DeletePersonal, history
<1> QED
  BY <1>1, EventsAlone, CallsStay, WorkersStay, BatchesStay, AnswersStay
     DEF IInv, ShapeOK

\* An event that is erased keeps its identity and its age.
LEMMA EraseEventKeeps ==
  ASSUME NEW r, NEW u, EventOK(r)
  PROVE  LET q == EraseEvent(r, u)
         IN  /\ IsRow(q) /\ IsEvent(q.value) /\ q.id = r.id /\ q.at = r.at
             /\ SameSource(r.value, q.value) /\ q.value.id = r.value.id
             /\ q.value = r.value \/ q.value.text = "erased"
<1>1. CASE u \in r.value.recipients
  <2>1. PICK R, P : /\ R = Rename(r.value.recipients, u)
                    /\ P = {[p EXCEPT !.recipients = Rename(@, u)]
                              : p \in r.value.plans}
    OBVIOUS
  <2>2. PICK v : v = [r.value EXCEPT !.recipients = R, !.text = "erased",
                                     !.variables = {}, !.plans = P]
    OBVIOUS
  <2>3. EraseEvent(r, u) = [r EXCEPT !.value = v]
    BY <1>1, <2>1, <2>2 DEF EraseEvent, EventOK, IsRow, IsEvent
  <2>4. /\ IsEvent(v) /\ v.text = "erased" /\ v.id = r.value.id
        /\ v.source = r.value.source /\ v.key = r.value.key
    BY <2>2 DEF EventOK, IsEvent
  <2>5. PICK q : q = [r EXCEPT !.value = v]
    OBVIOUS
  <2>6. IsRow(q) /\ q.id = r.id /\ q.at = r.at /\ q.value = v
    BY <2>5 DEF EventOK, IsRow
  <2> QED
    BY <2>3, <2>4, <2>5, <2>6 DEF SameSource
<1>2. CASE u \notin r.value.recipients
  BY <1>2 DEF EraseEvent, EventOK, SameSource
<1> QED
  BY <1>1, <1>2

LEMMA EraseSubjectOK ==
  ASSUME IInv, NEW u \in Users, EraseSubject(u) PROVE IInv'
<1>1. /\ UNCHANGED <<clock, batch, work, intake>>
      /\ DOMAIN db' = DOMAIN db
      /\ db'["events"] = {EraseEvent(r, u) : r \in db["events"]}
  BY DEF EraseSubject, IInv, ShapeOK, Tables
<1>2. ASSUME NEW r \in db["events"], NEW q, q = EraseEvent(r, u)
      PROVE  /\ EventOK(r) /\ IsRow(q) /\ IsEvent(q.value) /\ q.id = r.id
             /\ q.at = r.at /\ SameSource(r.value, q.value)
             /\ q.value.id = r.value.id
             /\ q.value = r.value \/ q.value.text = "erased"
  <2>1. EventOK(r)
    BY DEF IInv, EventsOK
  <2> QED
    BY <1>2, <2>1, EraseEventKeeps
<1>3. KeepsEvents
  <2> SUFFICES ASSUME NEW q \in db'["events"]
               PROVE  \E r \in db["events"] :
                 /\ IsRow(q) /\ IsEvent(q.value) /\ q.id = r.id
                 /\ q.value.id = r.value.id /\ q.value.key = r.value.key
                 /\ q.value = r.value \/ q.value.text = "erased"
                 /\ q.at \in Nat /\ q.at <= clock /\ SentBy(r.value.key, q.at)
    BY DEF KeepsEvents
  <2>1. PICK r \in db["events"] : q = EraseEvent(r, u)
    BY <1>1
  <2> QED
    BY <1>2, <2>1 DEF EventOK, SameSource
<1>4. KeepsSources
  BY <1>1, <1>2 DEF KeepsSources
<1>5. WorkersOK' /\ BatchesOK'
  BY <1>1, WorkersStay, BatchesStay DEF IInv, intake
<1> QED
  BY <1>1, <1>3, <1>4, <1>5, WorkStep DEF IInv, ShapeOK

-----------------------------------------------------------------------------
(* Retention.                                                              *)

\* What is old enough to be listed comes of an intent that is as old.
LEMMA CandidatesAged ==
  ASSUME IInv, NEW op, NEW t \in Tables, t = "events",
         NEW c \in Candidates(op, t)
  PROVE  Aged(c.id)
<1>1. PICK r \in db[t] : /\ Eligible(t, r, clock)
                         /\ c = [id |-> Resource(t, r), at |-> r.at]
  BY DEF Candidates
<1>2. EventOK(r) /\ c.id = r.value.id /\ r.at + Retention <= clock
  BY <1>1 DEF IInv, EventsOK, EventOK, Resource, Eligible
<1> SUFFICES ASSUME NEW i \in Intents, i.id = c.id
             PROVE  sent[i.key] # Never /\ sent[i.key] + Retention <= clock
  BY DEF Aged
<1>3. i.key = r.value.key
  BY <1>2, SameIntent DEF EventOK
<1>4. sent[i.key] \in Nat /\ sent[i.key] <= r.at /\ r.at \in Nat
  BY <1>2, <1>3 DEF EventOK, SentBy, IInv, ShapeOK, Keys
<1> QED
  BY <1>2, <1>4, TimeAssumption DEF IInv, ShapeOK, Never

LEMMA ListCandidatesOK ==
  ASSUME IInv, NEW b \in Batches, NEW op, NEW held, NEW done, NEW limit,
         done \in Nat, ListCandidates(b, op, held, done, limit),
         UNCHANGED <<clock, sent>>
  PROVE  DOMAIN batch' = Batches /\ BatchesOK'
<1>1. PICK n, todo, left, m :
        /\ n \in done + 1 .. Len(Specs)
        /\ todo \in Listings(op, held, Specs[n], m)
        /\ batch' = [batch EXCEPT ![b] =
             [phase |-> "row", op |-> op, held |-> held, spec |-> n,
              left |-> left, todo |-> todo, row |-> NoOne]]
  BY DEF ListCandidates
<1>2. PICK v : v = [phase |-> "row", op |-> op, held |-> held, spec |-> n,
                    left |-> left, todo |-> todo, row |-> NoOne]
  OBVIOUS
<1>3. DOMAIN batch' = Batches /\ \A x \in Batches :
        batch'[x] = IF x = b THEN v ELSE batch[x]
  BY <1>1, <1>2 DEF IInv, ShapeOK
<1>4. n \in 1 .. Len(Specs)
  BY <1>1 DEF Specs
<1>5. todo \subseteq Candidates(op, Specs[n])
  BY <1>1 DEF Listings, Oldest
<1>6. Specs[n] \in Tables
  BY <1>4 DEF Specs, Tables
<1>7. Specs[n] = "events" => \A c \in todo : Aged(c.id)
  BY <1>5, <1>6, CandidatesAged
<1>8. BatchOK(v)
  BY <1>2, <1>4, <1>7 DEF BatchOK
<1>9. \A x \in Batches : BatchOK(batch[x])
  BY DEF IInv, BatchesOK
<1> QED
  BY <1>3, <1>8, <1>9 DEF BatchesOK, BatchOK, Aged

\* Retention that only reads the tables.
LEMMA BatchStepOK ==
  ASSUME IInv, DOMAIN batch' = Batches, BatchesOK',
         UNCHANGED <<db, call, work, clock, history, catalog>>
  PROVE  IInv'
<1>1. UNCHANGED <<clock, sent, stored, accepted, db, call, work>>
  BY DEF history
<1> QED
  BY <1>1, EventsAlone, CallsStay, WorkersStay, AnswersStay DEF IInv, ShapeOK

LEMMA ListingOK ==
  ASSUME IInv, NEW b \in Batches, ProcessRetentionBatch(b) \/ NextSpec(b)
  PROVE  IInv'
<1>1. UNCHANGED <<db, call, work, clock, history, catalog, sent>>
  BY DEF ProcessRetentionBatch, NextSpec, history
<1>2. CASE ProcessRetentionBatch(b)
  <2>1. PICK op, held : ListCandidates(b, op, held, 0, BatchLimit)
    BY <1>2 DEF ProcessRetentionBatch
  <2> QED
    BY <1>1, <2>1, ListCandidatesOK, BatchStepOK
<1>3. CASE NextSpec(b)
  <2>1. PICK op, held, done, left :
          /\ op = batch[b].op /\ held = batch[b].held
          /\ done = batch[b].spec /\ left = batch[b].left
    OBVIOUS
  <2>2. ListCandidates(b, op, held, done, left)
    BY <1>3, <2>1 DEF NextSpec
  <2>3. done \in Nat
    BY <1>3, <2>1 DEF NextSpec, NoBatch, IInv, BatchesOK, BatchOK, Specs
  <2> QED
    BY <1>1, <2>2, <2>3, ListCandidatesOK, BatchStepOK
<1> QED
  BY <1>2, <1>3

LEMMA EndBatchOK ==
  ASSUME IInv, NEW b \in Batches, EndBatch(b) PROVE IInv'
<1>1. /\ UNCHANGED <<db, call, work, clock, history, catalog, sent>>
      /\ batch' = [batch EXCEPT ![b] = NoBatch]
  BY DEF EndBatch, history
<1>2. DOMAIN batch' = Batches /\ \A x \in Batches :
        batch'[x] = IF x = b THEN NoBatch ELSE batch[x]
  BY <1>1 DEF IInv, ShapeOK
<1>3. \A x \in Batches : BatchOK(batch[x])
  BY DEF IInv, BatchesOK
<1>4. BatchesOK'
  BY <1>1, <1>2, <1>3 DEF BatchesOK, BatchOK, Aged
<1> QED
  BY <1>1, <1>2, <1>4, BatchStepOK

LEMMA ArchiveCandidateOK ==
  ASSUME IInv, NEW b \in Batches, ArchiveCandidate(b) PROVE IInv'
<1>1. UNCHANGED <<db, call, work, clock, history, catalog, sent>>
  BY DEF ArchiveCandidate, history
<1>2. batch[b].phase = "row" /\ BatchOK(batch[b])
  BY DEF ArchiveCandidate, IInv, BatchesOK
<1>3. PICK c \in batch[b].todo :
        batch' = [batch EXCEPT ![b].todo = @ \ {c},
          ![b].phase = IF batch[b].op = "purge" THEN "delete" ELSE "row",
          ![b].row = IF batch[b].op = "purge" THEN c ELSE NoOne]
  BY DEF ArchiveCandidate
<1>4. PICK p, x :
        /\ p = IF batch[b].op = "purge" THEN "delete" ELSE "row"
        /\ x = IF batch[b].op = "purge" THEN c ELSE NoOne
  OBVIOUS
<1>5. PICK v : v = [batch[b] EXCEPT !.todo = @ \ {c}, !.phase = p, !.row = x]
  OBVIOUS
<1>6. DOMAIN batch' = Batches /\ \A y \in Batches :
        batch'[y] = IF y = b THEN v ELSE batch[y]
  BY <1>3, <1>4, <1>5 DEF IInv, ShapeOK
<1>7. /\ {"phase", "op", "spec", "todo", "row"} \subseteq DOMAIN v
      /\ v.spec = batch[b].spec /\ v.todo = batch[b].todo \ {c}
      /\ v.phase = p /\ v.row = x /\ v.spec \in 1 .. Len(Specs)
  BY <1>2, <1>5 DEF BatchOK, NoBatch
<1>8. Specs[batch[b].spec] = "events" =>
        \A d \in batch[b].todo : Aged(d.id)
  BY <1>2 DEF BatchOK, NoBatch
<1>9. p \in {"row", "delete"} /\ (p = "delete" => x = c)
  BY <1>4
<1>10. BatchOK(v)
  BY <1>7, <1>8, <1>9 DEF BatchOK
<1>11. BatchesOK'
  <2>1. \A y \in Batches : BatchOK(batch[y])
    BY DEF IInv, BatchesOK
  <2> QED
    BY <1>1, <1>6, <1>10, <2>1 DEF BatchesOK, BatchOK, Aged
<1> QED
  BY <1>1, <1>6, <1>11, BatchStepOK

\* A row that is deleted by its ID is not sent any more: Retention is longer
\* than RepeatFor.
LEMMA DeleteCandidateOK ==
  ASSUME IInv, NEW b \in Batches, DeleteCandidate(b) PROVE IInv'
<1>1. UNCHANGED <<call, work, clock, history, catalog, sent, stored, accepted>>
  BY DEF DeleteCandidate, history
<1>2. BatchOK(batch[b]) /\ batch[b].phase = "delete"
  BY DEF DeleteCandidate, IInv, BatchesOK
<1>3. PICK t, id : t = Specs[batch[b].spec] /\ id = batch[b].row.id
  OBVIOUS
<1>4. t = "events" => Aged(id)
  BY <1>2, <1>3 DEF BatchOK, NoBatch
<1>5. db' = [db EXCEPT ![t] = {r \in @ : Resource(t, r) # id}]
  BY <1>3 DEF DeleteCandidate, Table
<1>6. /\ DOMAIN db' = Tables
      /\ db'["events"] = IF t = "events"
           THEN {r \in db["events"] : Resource("events", r) # id}
           ELSE db["events"]
  BY <1>5 DEF IInv, ShapeOK, Tables
<1>7. /\ db'["events"] \subseteq db["events"]
      /\ \A r \in db["events"] : r \in db'["events"] \/ (Aged(id) /\ r.id = id)
  BY <1>4, <1>6 DEF Resource
<1>8. EventsOK'
  BY <1>1, <1>7 DEF IInv, EventsOK, EventOK, SentBy
<1>9. StoreOK'
  <2> SUFFICES ASSUME NEW s \in stored PROVE StoredOK(s)'
    BY <1>1 DEF StoreOK
  <2>1. StoredOK(s)
    BY DEF IInv, StoreOK
  <2>2. ASSUME NEW r \in db["events"], SameSource(r.value, s.event),
               r \notin db'["events"]
        PROVE  sent[s.event.key] + RepeatFor < clock
    <3>1. Aged(id) /\ r.id = id
      BY <1>7, <2>2
    <3>2. PICK i \in Intents : r.value.id = i.id /\ r.value.key = i.key
      BY DEF IInv, EventsOK, EventOK, Intended
    <3>3. i.id = id
      BY <3>1, <3>2 DEF IInv, EventsOK, EventOK
    <3>4. sent[i.key] # Never /\ sent[i.key] + Retention <= clock
      BY <3>1, <3>3 DEF Aged
    <3>5. sent[i.key] \in Nat /\ clock \in Nat
      BY <3>4 DEF IInv, ShapeOK, Keys
    <3>6. s.event.key = i.key
      BY <2>2, <3>2 DEF SameSource
    <3> QED
      BY <3>4, <3>5, <3>6, TimeAssumption
  <2> QED
    BY <1>1, <2>1, <2>2 DEF StoredOK
<1>10. DOMAIN batch' = Batches /\ BatchesOK'
  <2>1. PICK v : v = [batch[b] EXCEPT !.phase = "row", !.row = NoOne]
    OBVIOUS
  <2>2. DOMAIN batch' = Batches /\ \A y \in Batches :
          batch'[y] = IF y = b THEN v ELSE batch[y]
    BY <2>1 DEF DeleteCandidate, IInv, ShapeOK
  <2>3. BatchOK(v)
    BY <1>2, <2>1 DEF BatchOK, NoBatch
  <2>4. \A y \in Batches : BatchOK(batch[y])
    BY DEF IInv, BatchesOK
  <2> QED
    BY <1>1, <2>2, <2>3, <2>4 DEF BatchesOK, BatchOK, Aged
<1> QED
  BY <1>1, <1>6, <1>8, <1>9, <1>10, CallsStay, WorkersStay, AnswersStay
     DEF IInv, ShapeOK

-----------------------------------------------------------------------------
(* The theorems.                                                           *)

LEMMA NextOK == IInv /\ [Next]_vars => IInv'
<1> SUFFICES ASSUME IInv, [Next]_vars PROVE IInv'
  OBVIOUS
<1>1. CASE Deploy \/ Tick \/ UNCHANGED vars
  BY <1>1, DeployOK, TickOK, StutterOK
<1>2. ASSUME NEW p \in Producers, ProducerStep(p) PROVE IInv'
  BY <1>2, PublishOK, EnqueueOK, LookUpOK, InsertEventOK DEF ProducerStep
<1>3. ASSUME NEW w \in Workers, WorkerStep(w) PROVE IInv'
  BY <1>3, ClaimOK, MaterializeOK, FailEventOK, ReserveBatchOK, SettlePlanOK,
     GiveUpOK DEF WorkerStep
<1>4. ASSUME NEW u \in Users, UserStep(u) PROVE IInv'
  BY <1>4, UserStepOK, EraseSubjectOK DEF UserStep
<1>5. ASSUME NEW row \in PersonalRows, SavePersonal(row) \/ DeletePersonal(row)
      PROVE  IInv'
  BY <1>5, PersonalOK
<1>6. ASSUME NEW b \in Batches, BatchStep(b) PROVE IInv'
  BY <1>6, ListingOK, ArchiveCandidateOK, DeleteCandidateOK, EndBatchOK
     DEF BatchStep
<1> QED
  BY <1>1, <1>2, <1>3, <1>4, <1>5, <1>6 DEF Next

\* At any time a row of an event is at least as young as the first sending of
\* its intent, which retention goes by, and what was stored is still there
\* until its intent is too old to be sent (Enqueue and InsertEvent find it,
\* purgeRetentionBatch deletes it).
THEOREM Invariance == Spec => []IInv
<1>1. Init => IInv
  BY InitOK
<1>2. IInv /\ [Next]_vars => IInv'
  BY NextOK
<1> QED
  BY <1>1, <1>2, PTL DEF Spec

\* However many producers repeat an intent, through deployments that compile it
\* differently, retention batches and erasures, it is stored once, and whoever
\* was told by EnqueueIdempotent that it is stored had sent what was stored.
THEOREM StoredOnce == Spec => []IntentsAreIdempotent
<1>1. IInv => IntentsAreIdempotent
  BY DEF IInv
<1> QED
  BY <1>1, Invariance, PTL

-----------------------------------------------------------------------------
(* Erasure.  The invariant: what the rows, and the copies that workers     *)
(* hold, may say of those who are erased.                                  *)

\* The names in use.
Known == Users \union {Anonymous[u] : u \in erased} \union {NoOne}

\* An event names an erased user only when that is accounted for.
Clean(names, event) ==
  /\ names \subseteq Known
  /\ \A u \in erased : u \in names => event \in tainted[u]

\* So it does with the text that an erased user received.
Veiled(names, event, text) ==
  \A u \in erased :
    Anonymous[u] \in names => event \in tainted[u] \/ text = "erased"

\* An event that is yet to be materialised was so when its recipient was erased,
Awaited(names, event) ==
  \A u \in erased : Anonymous[u] \in names => event \in pending[u]

\* and gives its plans their text.
VeiledPlan(names, event, text) ==
  \A u \in erased : Anonymous[u] \in names =>
    event \in tainted[u] \union pending[u] \/ text = "erased"

\* The plans inside an event name nobody else.
PlansAlike(e) ==
  \A p \in e.plans : "recipients" \in DOMAIN p /\ p.recipients \subseteq e.recipients

\* An item belongs to the user in its identity, by that user's present name.
Owns(r) ==
  IF r.id[1] \in erased
  THEN {r.recipient, r.named} \subseteq {r.id[1], Anonymous[r.id[1]]}
  ELSE {r.recipient, r.named} = {r.id[1]}

ItemOK(r) ==
  /\ {"id", "event", "recipient", "named", "text", "alert", "at"}
       \subseteq DOMAIN r
  /\ r.id[1] \in Known \ {NoOne} /\ Owns(r)
  /\ Clean({r.recipient, r.named}, r.event)
  /\ Veiled({r.recipient, r.named}, r.event, r.text)

GroupOK(r) ==
  /\ {"recipient", "acker", "event", "state", "at"} \subseteq DOMAIN r
  /\ Clean({r.recipient, r.acker}, r.event)

PlanOK(r) ==
  /\ {"id", "event", "recipients", "text", "status", "owner", "attempts", "at"}
       \subseteq DOMAIN r
  /\ Clean(r.recipients, r.event) /\ NoOne \notin r.recipients
  /\ VeiledPlan(r.recipients, r.event, r.text)

ReservationOK(r) ==
  /\ {"event", "recipient"} \subseteq DOMAIN r
  /\ Clean({r.recipient}, r.event)

EventNamesOK(r) ==
  /\ IsRow(r) /\ IsEvent(r.value) /\ r.id = r.value.id
  /\ Clean(r.value.recipients, r.id) /\ NoOne \notin r.value.recipients
  /\ Veiled(r.value.recipients, r.id, r.value.text)
  /\ r.status \in Open => Awaited(r.value.recipients, r.id)
  /\ PlansAlike(r.value)

\* A worker's copy is erased with the row or accounted for.
CopyOK(v) ==
  /\ v.kind = "events" => EventNamesOK(v.row) /\ v.row.status \in Open
  /\ v.kind = "channel_plans" => PlanOK(v.row)

NamesOK ==
  /\ erased \subseteq Users /\ DOMAIN tainted = Users /\ DOMAIN pending = Users
  /\ \A u \in erased, row \in personal : ~Mentions(row, u)

ItemsOK == \A r \in db["inbox_items"] : ItemOK(r)
GroupsOK == \A r \in db["alert_groups"] : GroupOK(r)
PlansOK == \A r \in db["channel_plans"] : PlanOK(r)
ReservationsOK == \A r \in db["delivery_reservations"] : ReservationOK(r)
EventNames == \A r \in db["events"] : EventNamesOK(r)
CopiesOK == \A w \in Workers : work[w] # NoWork => CopyOK(work[w])
SendersOK == \A p \in Producers :
               call[p] # NoCall => /\ call[p].event.recipients \subseteq Users
                                   /\ PlansAlike(call[p].event)

EInv == /\ NamesOK /\ ItemsOK /\ GroupsOK /\ PlansOK /\ ReservationsOK
        /\ EventNames /\ CopiesOK /\ SendersOK

\* Nobody is erased, and what is accounted for remains so.
Accounts ==
  /\ erased' = erased /\ DOMAIN tainted' = Users /\ pending' = pending
  /\ \A u \in Users : tainted[u] \subseteq tainted'[u]

-----------------------------------------------------------------------------
(* Frames.                                                                 *)

LEMMA CleanStays ==
  ASSUME NamesOK, Accounts, NEW names, NEW event, Clean(names, event)
  PROVE  Clean(names, event)'
BY DEF NamesOK, Accounts, Clean, Known

LEMMA VeiledStays ==
  ASSUME NamesOK, Accounts, NEW names, NEW event, NEW text,
         Veiled(names, event, text)
  PROVE  Veiled(names, event, text)'
BY DEF NamesOK, Accounts, Veiled

LEMMA PlansStay ==
  ASSUME NamesOK, Accounts, NEW names, NEW event, NEW text
  PROVE  /\ Awaited(names, event) => Awaited(names, event)'
         /\ VeiledPlan(names, event, text) => VeiledPlan(names, event, text)'
BY DEF NamesOK, Accounts, Awaited, VeiledPlan

LEMMA RowsStay ==
  ASSUME NamesOK, Accounts, NEW r
  PROVE  /\ ItemOK(r) => ItemOK(r)'
         /\ GroupOK(r) => GroupOK(r)'
         /\ PlanOK(r) => PlanOK(r)'
         /\ ReservationOK(r) => ReservationOK(r)'
         /\ EventNamesOK(r) => EventNamesOK(r)'
<1>1. ItemOK(r) => ItemOK(r)'
  <2> SUFFICES ASSUME ItemOK(r) PROVE ItemOK(r)'
    OBVIOUS
  <2>1. Clean({r.recipient, r.named}, r.event)'
    BY CleanStays DEF ItemOK
  <2>2. Veiled({r.recipient, r.named}, r.event, r.text)'
    BY VeiledStays DEF ItemOK
  <2>3. Owns(r)' /\ r.id[1] \in Known' \ {NoOne}
    BY DEF ItemOK, Owns, Accounts, Known
  <2> QED
    BY <2>1, <2>2, <2>3 DEF ItemOK
<1>2. GroupOK(r) => GroupOK(r)'
  BY CleanStays DEF GroupOK
<1>3. PlanOK(r) => PlanOK(r)'
  BY CleanStays, PlansStay DEF PlanOK
<1>4. ReservationOK(r) => ReservationOK(r)'
  BY CleanStays DEF ReservationOK
<1>5. EventNamesOK(r) => EventNamesOK(r)'
  BY CleanStays, VeiledStays, PlansStay DEF EventNamesOK, PlansAlike
<1> QED
  BY <1>1, <1>2, <1>3, <1>4, <1>5

\* What only loses rows stays as it is.
LEMMA TablesStay ==
  ASSUME EInv, Accounts
  PROVE  /\ db'["inbox_items"] \subseteq db["inbox_items"] => ItemsOK'
         /\ db'["alert_groups"] \subseteq db["alert_groups"] => GroupsOK'
         /\ db'["channel_plans"] \subseteq db["channel_plans"] => PlansOK'
         /\ db'["delivery_reservations"] \subseteq db["delivery_reservations"]
              => ReservationsOK'
         /\ db'["events"] \subseteq db["events"] => EventNames'
<1>1. NamesOK
  BY DEF EInv
<1>2. db'["inbox_items"] \subseteq db["inbox_items"] => ItemsOK'
  BY <1>1, RowsStay DEF EInv, ItemsOK
<1>3. db'["alert_groups"] \subseteq db["alert_groups"] => GroupsOK'
  BY <1>1, RowsStay DEF EInv, GroupsOK
<1>4. db'["channel_plans"] \subseteq db["channel_plans"] => PlansOK'
  BY <1>1, RowsStay DEF EInv, PlansOK
<1>5. db'["delivery_reservations"] \subseteq db["delivery_reservations"]
        => ReservationsOK'
  BY <1>1, RowsStay DEF EInv, ReservationsOK
<1>6. db'["events"] \subseteq db["events"] => EventNames'
  BY <1>1, RowsStay DEF EInv, EventNames
<1> QED
  BY <1>2, <1>3, <1>4, <1>5, <1>6

LEMMA OthersStay ==
  ASSUME EInv, Accounts
  PROVE  /\ UNCHANGED personal => NamesOK'
         /\ UNCHANGED work => CopiesOK'
         /\ UNCHANGED call => SendersOK'
<1>1. UNCHANGED personal => NamesOK'
  BY DEF EInv, NamesOK, Accounts, Mentions
<1>2. UNCHANGED work => CopiesOK'
  BY RowsStay DEF EInv, CopiesOK, CopyOK
<1>3. UNCHANGED call => SendersOK'
  BY DEF EInv, SendersOK, PlansAlike
<1> QED
  BY <1>1, <1>2, <1>3

\* A copy a worker keeps.
LEMMA CopyStays ==
  ASSUME EInv, Accounts, NEW w \in Workers, work[w] # NoWork,
         NEW c, c = work[w]
  PROVE  CopyOK(c)'
<1>1. CopyOK(c) /\ NamesOK
  BY DEF EInv, CopiesOK
<1> QED
  BY <1>1, RowsStay DEF CopyOK

LEMMA NothingTainted ==
  ASSUME EInv, UNCHANGED <<erased, tainted, pending>> PROVE Accounts
BY DEF EInv, NamesOK, Accounts

\* Deployments, time, and whatever else touches no table.
LEMMA TablesUnchanged ==
  ASSUME EInv, UNCHANGED <<db, personal, erased, tainted, pending>>
  PROVE  /\ UNCHANGED <<call, work>> => EInv'
         /\ SendersOK' /\ UNCHANGED work => EInv'
         /\ CopiesOK' /\ UNCHANGED call => EInv'
BY NothingTainted, TablesStay, OthersStay DEF EInv

-----------------------------------------------------------------------------
(* Producers.                                                              *)

LEMMA ReturnSenders ==
  ASSUME IInv, EInv, NEW p \in Producers, Return(p) PROVE SendersOK'
<1>1. \A q \in Producers : call'[q] = IF q = p THEN NoCall ELSE call[q]
  BY DEF Return, IInv, ShapeOK
<1> QED
  BY <1>1 DEF EInv, SendersOK

LEMMA PublishNames ==
  ASSUME IInv, EInv, NEW p \in Producers, PublishIntent(p) PROVE EInv'
<1>1. PICK i \in Intents :
        call' = [call EXCEPT ![p] =
          [phase |-> "compiled", created |-> clock,
           event |-> Compile(Catalogs[catalog], i)]]
  BY DEF PublishIntent
<1>2. PICK e : e = Compile(Catalogs[catalog], i)
  OBVIOUS
<1>3. e.recipients \subseteq Users
  BY <1>2, IntentAssumption DEF Compile
<1>4. PlansAlike(e)
  BY <1>2 DEF Compile, CompilePlans, CompilePlan, PlansAlike
<1>5. PICK c : c = [phase |-> "compiled", created |-> clock, event |-> e]
  OBVIOUS
<1>6. \A q \in Producers : call'[q] = IF q = p THEN c ELSE call[q]
  BY <1>1, <1>2, <1>5 DEF IInv, ShapeOK
<1>7. c.event = e
  BY <1>5
<1>8. SendersOK'
  BY <1>3, <1>6, <1>7, <1>4 DEF EInv, SendersOK, PlansAlike
<1> QED
  BY <1>8, TablesUnchanged DEF PublishIntent, erasure

\* A producer that names an erased user is accounted for.
LEMMA StoresNames ==
  ASSUME IInv, EInv, NEW p \in Producers, call[p].phase = "compiled",
         Stores(p), UNCHANGED <<erased, pending, personal, work>>, SendersOK'
  PROVE  EInv'
<1>1. PICK e, d : call[p].event = e /\ call[p].created = d
  OBVIOUS
<1>2. /\ call[p] # NoCall /\ IsEvent(e) /\ e.recipients \subseteq Users
      /\ PlansAlike(e)
  BY <1>1 DEF NoCall, IInv, CallsOK, CallOK, EInv, SendersOK
<1>3. PICK x : x = EventRow(e, d)
  OBVIOUS
<1>4. /\ db' = [db EXCEPT !["events"] = @ \union {x}]
      /\ tainted' = TaintedBy(e.recipients, e.id)
  BY <1>1, <1>3 DEF Stores
<1>5. db'["events"] = db["events"] \union {x} /\
      \A t \in Tables \ {"events"} : db'[t] = db[t]
  BY <1>4 DEF IInv, ShapeOK, Tables
<1>6. Accounts
  BY <1>4 DEF Accounts, TaintedBy
<1>7. x.id = e.id /\ x.value = e /\ IsRow(x)
  BY <1>3 DEF EventRow, IsRow
<1>8. EventNamesOK(x)'
  <2>1. erased' = erased /\ erased \subseteq Users
    BY DEF EInv, NamesOK
  <2>2. Clean(e.recipients, e.id)'
    BY <1>2, <1>4, <2>1 DEF Clean, Known, TaintedBy
  <2>3. Veiled(e.recipients, e.id, e.text)'
    BY <1>2, <2>1, NameAssumption DEF Veiled
  <2>4. NoOne \notin e.recipients
    BY <1>2, NameAssumption DEF Names
  <2>5. Awaited(e.recipients, e.id)'
    BY <1>2, <2>1, NameAssumption DEF Awaited
  <2> QED
    BY <1>2, <1>7, <2>2, <2>3, <2>4, <2>5 DEF EventNamesOK, PlansAlike
<1>9. EventNames'
  <2>1. \A r \in db["events"] : EventNamesOK(r)'
    BY <1>6, RowsStay DEF EInv, EventNames
  <2> QED
    BY <1>5, <1>8, <2>1 DEF EventNames
<1> QED
  BY <1>5, <1>6, <1>9, TablesStay, OthersStay DEF EInv, Tables

LEMMA ProducerNames ==
  ASSUME IInv, EInv, NEW p \in Producers, ProducerStep(p) PROVE EInv'
<1>1. CASE PublishIntent(p)
  BY <1>1, PublishNames
<1>2. CASE Enqueue(p)
  <2>1. UNCHANGED <<erased, pending, personal, work>> /\ call[p].phase = "compiled"
    BY <1>2 DEF Enqueue
  <2>2. CASE Stores(p) /\ Return(p)
    BY <2>1, <2>2, StoresNames, ReturnSenders
  <2>3. ASSUME call' = [call EXCEPT ![p].phase = "refused"],
               UNCHANGED <<db, tainted>>
        PROVE  EInv'
    <3>1. PICK d : d = [call[p] EXCEPT !.phase = "refused"]
      OBVIOUS
    <3>2. \A q \in Producers : call'[q] = IF q = p THEN d ELSE call[q]
      BY <2>3, <3>1 DEF IInv, ShapeOK
    <3>3. call[p] # NoCall
      BY <2>1 DEF NoCall
    <3>4. d.event = call[p].event
      BY <3>1, <3>3 DEF IInv, CallsOK, CallOK
    <3>5. SendersOK'
      BY <3>2, <3>3, <3>4 DEF EInv, SendersOK
    <3> QED
      BY <2>1, <2>3, <3>5, TablesUnchanged
  <2> QED
    BY <1>2, <2>2, <2>3 DEF Enqueue
<1>3. CASE LookUp(p)
  BY <1>3, ReturnSenders, TablesUnchanged DEF LookUp, erasure
<1>4. CASE InsertEvent(p)
  <2>1. /\ UNCHANGED <<erased, pending, personal, work>> /\ call[p].phase = "compiled"
        /\ SendersOK'
    BY <1>4, ReturnSenders DEF InsertEvent
  <2>2. CASE Stores(p)
    BY <2>1, <2>2, StoresNames
  <2>3. CASE UNCHANGED <<db, tainted>>
    BY <2>1, <2>3, TablesUnchanged
  <2> QED
    BY <1>4, <2>2, <2>3 DEF InsertEvent
<1> QED
  BY <1>1, <1>2, <1>3, <1>4 DEF ProducerStep

-----------------------------------------------------------------------------
(* Workers.                                                                *)

LEMMA ReleaseNames ==
  ASSUME IInv, EInv, NEW w \in Workers, work' = [work EXCEPT ![w] = NoWork],
         Accounts
  PROVE  CopiesOK'
<1>1. \A v \in Workers : work'[v] = IF v = w THEN NoWork ELSE work[v]
  BY DEF IInv, ShapeOK
<1> SUFFICES ASSUME NEW v \in Workers, work'[v] # NoWork
             PROVE  CopyOK(work[v])'
  BY DEF CopiesOK
<1>2. PICK c : c = work[v]
  OBVIOUS
<1>3. work'[v] = c /\ CopyOK(c)'
  BY <1>1, <1>2, CopyStays
<1> QED
  BY <1>3 DEF CopyOK

\* A claim copies what the row says.
LEMMA ClaimNames ==
  ASSUME IInv, EInv, NEW w \in Workers, NEW t \in {"events", "channel_plans"},
         Claim(w, t)
  PROVE  EInv'
<1>1. PICK r \in db[t] :
        /\ Due(r)
        /\ db' = [db EXCEPT ![t] = (@ \ {r}) \union {Claimed(r, w)}]
        /\ work' = [work EXCEPT ![w] =
             [kind |-> t, row |-> Claimed(r, w), reserved |-> FALSE]]
  BY DEF Claim
<1>2. UNCHANGED <<erased, tainted, pending, personal, call>>
  BY DEF Claim, erasure, intake
<1>3. PICK q : q = Claimed(r, w)
  OBVIOUS
<1>4. PICK v : v = [kind |-> t, row |-> q, reserved |-> FALSE]
  OBVIOUS
<1>5. \A x \in Workers : work'[x] = IF x = w THEN v ELSE work[x]
  BY <1>1, <1>3, <1>4 DEF IInv, ShapeOK
<1>6. /\ db'[t] = (db[t] \ {r}) \union {q}
      /\ \A u \in Tables \ {t} : db'[u] = db[u]
  BY <1>1, <1>3 DEF IInv, ShapeOK, Tables
<1>7. Accounts
  BY <1>2, NothingTainted
<1>8. t = "events" => /\ EventNamesOK(q) /\ EventNamesOK(q)'
                      /\ q.status \in Open
  <2> SUFFICES ASSUME t = "events" PROVE EventNamesOK(q) /\ q.status \in Open
    BY <1>7, RowsStay DEF EInv
  <2>1. EventNamesOK(r)
    BY DEF EInv, EventNames
  <2>2. /\ IsRow(q) /\ q.id = r.id /\ q.value = r.value
        /\ q.status = "processing"
    BY <1>3, <2>1 DEF Claimed, EventNamesOK, IsRow
  <2>3. r.status \in Open
    BY <1>1 DEF Due, Open
  <2> QED
    BY <2>1, <2>2, <2>3 DEF EventNamesOK, Open
<1>9. t = "channel_plans" => PlanOK(q) /\ PlanOK(q)'
  <2> SUFFICES ASSUME t = "channel_plans" PROVE PlanOK(q)
    BY <1>7, RowsStay DEF EInv
  <2>1. PlanOK(r)
    BY DEF EInv, PlansOK
  <2>2. /\ DOMAIN q = DOMAIN r /\ q.recipients = r.recipients
        /\ q.event = r.event /\ q.text = r.text
    BY <1>3, <2>1 DEF Claimed, PlanOK
  <2> QED
    BY <2>1, <2>2 DEF PlanOK
<1>10. CopiesOK'
  <2>1. CopyOK(v)'
    BY <1>4, <1>8, <1>9 DEF CopyOK
  <2> SUFFICES ASSUME NEW x \in Workers, work'[x] # NoWork
               PROVE  CopyOK(work[x])'
    BY DEF CopiesOK
  <2>2. PICK c : c = work'[x]
    OBVIOUS
  <2>3. CopyOK(c)'
    BY <1>5, <1>7, <2>1, <2>2, CopyStays
  <2> QED
    BY <2>2, <2>3 DEF CopyOK
<1>11. CASE t = "events"
  <2>1. \A x \in db["events"] : EventNamesOK(x)'
    BY <1>7, RowsStay DEF EInv, EventNames
  <2>2. EventNames'
    BY <1>6, <1>8, <1>11, <2>1 DEF EventNames
  <2> QED
    BY <1>2, <1>6, <1>7, <1>10, <1>11, <2>2, TablesStay, OthersStay
       DEF EInv, Tables
<1>12. CASE t = "channel_plans"
  <2>1. \A x \in db["channel_plans"] : PlanOK(x)'
    BY <1>7, RowsStay DEF EInv, PlansOK
  <2>2. PlansOK'
    BY <1>6, <1>9, <1>12, <2>1 DEF PlansOK
  <2> QED
    BY <1>2, <1>6, <1>7, <1>10, <1>12, <2>2, TablesStay, OthersStay
       DEF EInv, Tables
<1> QED
  BY <1>11, <1>12

\* An item that is rewritten may name its user by the user's present name and
\* by the one the event was addressed to.
LEMMA UpsertNames ==
  ASSUME NamesOK, Accounts, NEW rows, \A r \in rows : ItemOK(r),
         NEW e, NEW users, NEW at,
         Clean(users, e.id)', Veiled(users, e.id, e.text)', NoOne \notin users
  PROVE  \A q \in UpsertInboxItems(rows, e, users, at) : ItemOK(q)'
<1>1. \A r \in rows : ItemOK(r)'
  BY RowsStay
<1>2. ASSUME NEW u \in users, NEW q \in UpsertInboxItem(rows, e, u, at)
      PROVE  ItemOK(q)'
  <2>1. PICK new : new = ItemOf(e, u, at)
    OBVIOUS
  <2>2. /\ {"id", "event", "recipient", "named", "text", "alert", "at"}
             \subseteq DOMAIN new
        /\ new.id[1] = u /\ new.event = e.id /\ new.text = e.text
        /\ new.recipient = u /\ new.named = u
    BY <2>1 DEF ItemOf
  <2>3. /\ erased' \subseteq Users /\ erased' = erased /\ u \in Known' \ {NoOne}
        /\ u \in erased' => e.id \in tainted'[u]
    BY <1>2 DEF NamesOK, Accounts, Clean
  <2>4. \A v \in erased' : Anonymous[v] = u =>
          e.id \in tainted'[v] \/ e.text = "erased"
    BY <1>2 DEF Veiled
  <2>5. CASE q = new
    BY <2>2, <2>3, <2>4, <2>5 DEF ItemOK, Owns, Clean, Veiled
  <2>6. CASE q \in rows
    BY <1>1, <2>6
  <2>7. ASSUME NEW r \in rows, r.id = <<u, Identity(e)>>,
               q = [new EXCEPT !.recipient = r.recipient]
        PROVE  ItemOK(q)'
    <3>1. /\ {"id", "event", "recipient", "named", "text", "alert", "at"}
               \subseteq DOMAIN q
          /\ q.id[1] = u /\ q.event = e.id /\ q.text = e.text
          /\ q.recipient = r.recipient /\ q.named = u
      BY <2>2, <2>7
    <3>2. ItemOK(r) /\ r.id[1] = u
      BY <2>7
    <3>3. u \in erased => r.recipient \in {u, Anonymous[u]}
      BY <3>2 DEF ItemOK, Owns
    <3>4. u \notin erased => r.recipient = u
      BY <3>2 DEF ItemOK, Owns
    <3>5. CASE u \notin erased
      BY <2>2, <2>3, <2>4, <3>1, <3>4, <3>5 DEF ItemOK, Owns, Clean, Veiled
    <3>6. CASE u \in erased
      <4>1. Anonymous[u] \notin Users /\ Anonymous[u] \in Known'
        BY <2>3, <3>6, NameAssumption DEF Known
      <4>2. Clean({q.recipient, q.named}, q.event)'
        BY <2>3, <3>1, <3>3, <3>6, <4>1 DEF Clean
      <4>3. Veiled({q.recipient, q.named}, q.event, q.text)'
        <5> SUFFICES ASSUME NEW v \in erased',
                            Anonymous[v] \in {q.recipient, q.named}
                     PROVE  e.id \in tainted'[v] \/ e.text = "erased"
          BY <3>1 DEF Veiled
        <5>1. Anonymous[v] = u \/ Anonymous[v] = Anonymous[u]
          BY <3>1, <3>3, <3>6
        <5> QED
          BY <2>3, <2>4, <3>6, <5>1, NameAssumption
      <4>4. Owns(q)'
        BY <2>3, <3>1, <3>3, <3>6 DEF Owns
      <4> QED
        BY <2>3, <3>1, <4>2, <4>3, <4>4 DEF ItemOK
    <3> QED
      BY <3>5, <3>6
  <2> QED
    BY <2>1, <2>5, <2>6, <2>7, <1>2 DEF UpsertInboxItem
<1> QED
  BY <1>1, <1>2 DEF UpsertInboxItems

LEMMA TransitionNames ==
  ASSUME NamesOK, Accounts, NEW rows, \A r \in rows : GroupOK(r),
         NEW e, NEW users, NEW at, Clean(users, e.id)'
  PROVE  \A q \in TransitionAlertGroups(rows, e, users, at) : GroupOK(q)'
<1>1. \A r \in rows : GroupOK(r)'
  BY RowsStay
<1>2. ASSUME NEW u \in users, NEW q, q = GroupOf(e, u, at)
      PROVE  GroupOK(q)'
  <2>1. /\ {"recipient", "acker", "event", "state", "at"} \subseteq DOMAIN q
        /\ q.recipient = u /\ q.acker = NoOne /\ q.event = e.id
    BY <1>2 DEF GroupOf
  <2>2. \A v \in erased' : v # NoOne
    BY NameAssumption DEF NamesOK, Accounts, Names
  <2> QED
    BY <2>1, <2>2 DEF GroupOK, Clean, Known
<1> QED
  BY <1>1, <1>2 DEF TransitionAlertGroups

\* What is written of an event names whom the copy names and whom the
\* resolvers name: erased users among them are accounted for.
LEMMA AudienceNames ==
  ASSUME NamesOK, NEW row, EventNamesOK(row), row.status \in Open,
         NEW e, e = row.value, NEW users \in Audiences(e),
         erased' = erased, pending' = pending, tainted' = TaintedBy(users, e.id)
  PROVE  /\ Accounts /\ NoOne \notin users
         /\ Clean(users, e.id)' /\ Veiled(users, e.id, e.text)'
         /\ Awaited(users, e.id)'
<1>1. /\ users \subseteq e.recipients \union Users
      /\ e.recipients \subseteq Known /\ NoOne \notin e.recipients
      /\ e.id = row.id /\ erased \subseteq Users
  BY DEF Audiences, EventNamesOK, Clean, NamesOK
<1>2. Accounts
  BY DEF Accounts, TaintedBy
<1>3. NoOne \notin users
  BY <1>1, NameAssumption DEF Names
<1>4. Clean(users, e.id)'
  BY <1>1 DEF Clean, Known, TaintedBy
<1>5. Veiled(users, e.id, e.text)'
  <2> SUFFICES ASSUME NEW u \in erased, Anonymous[u] \in users
               PROVE  e.id \in tainted'[u] \/ e.text = "erased"
    BY DEF Veiled
  <2>1. Anonymous[u] \in e.recipients
    BY <1>1, NameAssumption
  <2>2. e.id \in tainted[u] \/ e.text = "erased"
    BY <1>1, <2>1 DEF EventNamesOK, Veiled
  <2> QED
    BY <1>1, <2>2 DEF TaintedBy
<1>6. Awaited(users, e.id)'
  <2> SUFFICES ASSUME NEW u \in erased, Anonymous[u] \in users
               PROVE  e.id \in pending[u]
    BY DEF Awaited
  <2>1. Anonymous[u] \in e.recipients
    BY <1>1, NameAssumption
  <2> QED
    BY <1>1, <2>1 DEF EventNamesOK, Awaited
<1> QED
  BY <1>2, <1>3, <1>4, <1>5, <1>6

LEMMA MaterializeNames ==
  ASSUME IInv, EInv, NEW w \in Workers, Materialize(w) PROVE EInv'
<1>1. PICK row, e, at :
        row = work[w].row /\ e = work[w].row.value /\ at = work[w].row.at
  OBVIOUS
<1>2. PICK r \in db["events"], users \in Audiences(e) :
        /\ db' = [db EXCEPT
             !["alert_groups"] = TransitionAlertGroups(@, e, users, at),
             !["inbox_items"] = UpsertInboxItems(@, e, users, at),
             !["channel_plans"] = @ \union PlansOf(e, users, r.created),
             !["events"] = (@ \ {r}) \union {Materialized(r, at)}]
        /\ tainted' = TaintedBy(users, e.id)
  BY <1>1 DEF Materialize
<1>3. EventNamesOK(row) /\ row.status \in Open
  BY <1>1 DEF Materialize, NoWork, EInv, CopiesOK, CopyOK
<1>5. PICK G, I, P, q :
        /\ G = TransitionAlertGroups(db["alert_groups"], e, users, at)
        /\ I = UpsertInboxItems(db["inbox_items"], e, users, at)
        /\ P = PlansOf(e, users, r.created)
        /\ q = Materialized(r, at)
  OBVIOUS
<1>6. /\ db'["alert_groups"] = G /\ db'["inbox_items"] = I
      /\ db'["channel_plans"] = db["channel_plans"] \union P
      /\ db'["events"] = (db["events"] \ {r}) \union {q}
      /\ db'["delivery_reservations"] = db["delivery_reservations"]
  BY <1>2, <1>5 DEF IInv, ShapeOK, Tables
<1>7. /\ UNCHANGED <<call, personal, erased, pending>>
      /\ work' = [work EXCEPT ![w] = NoWork]
  BY DEF Materialize, intake
<1>8. NamesOK
  BY DEF EInv
<1>9. /\ Accounts /\ NoOne \notin users
      /\ Clean(users, e.id)' /\ Veiled(users, e.id, e.text)'
      /\ Awaited(users, e.id)'
  BY <1>1, <1>2, <1>3, <1>7, <1>8, AudienceNames
<1>10. ItemsOK'
  <2>1. \A x \in db["inbox_items"] : ItemOK(x)
    BY DEF EInv, ItemsOK
  <2>2. \A x \in I : ItemOK(x)'
    BY <1>5, <1>8, <1>9, <2>1, UpsertNames
  <2> QED
    BY <1>6, <2>2 DEF ItemsOK
<1>11. GroupsOK'
  <2>1. \A x \in db["alert_groups"] : GroupOK(x)
    BY DEF EInv, GroupsOK
  <2>2. \A x \in G : GroupOK(x)'
    BY <1>5, <1>8, <1>9, <2>1, TransitionNames
  <2> QED
    BY <1>6, <2>2 DEF GroupsOK
<1>12. PlansOK'
  <2>1. \A x \in db["channel_plans"] : PlanOK(x)'
    BY <1>8, <1>9, RowsStay DEF EInv, PlansOK
  <2>2. ASSUME NEW x \in P PROVE PlanOK(x)'
    <3>1. PICK p \in e.plans : x = PlanRow(p, e, users, r.created)
      BY <1>5 DEF PlansOf
    <3>2. /\ {"id", "event", "recipients", "text", "status", "owner",
              "attempts", "at"} \subseteq DOMAIN x
          /\ x.recipients = users /\ x.event = e.id
      BY <3>1 DEF PlanRow
    <3> QED
      BY <1>9, <3>2 DEF PlanOK, Awaited, VeiledPlan
  <2> QED
    BY <1>6, <2>1, <2>2 DEF PlansOK
<1>13. EventNames'
  <2>1. \A x \in db["events"] : EventNamesOK(x)'
    BY <1>8, <1>9, RowsStay DEF EInv, EventNames
  <2>2. /\ IsRow(r) /\ IsRow(q) /\ q.id = r.id /\ q.value = r.value
        /\ q.status = "materialized"
    BY <1>2, <1>5
       DEF Materialized, Released, EInv, EventNames, EventNamesOK, IsRow
  <2>3. EventNamesOK(q)'
    BY <2>1, <2>2 DEF EventNamesOK, Open
  <2> QED
    BY <1>6, <2>1, <2>3 DEF EventNames
<1>14. CopiesOK'
  BY <1>7, <1>9, ReleaseNames
<1> QED
  BY <1>6, <1>7, <1>9, <1>10, <1>11, <1>12, <1>13, <1>14, TablesStay,
     OthersStay DEF EInv

LEMMA FailEventNames ==
  ASSUME IInv, EInv, NEW w \in Workers, FailEvent(w) PROVE EInv'
<1>1. PICK attempt : attempt = work[w].row.attempts + 1
  OBVIOUS
<1>2. PICK status :
        status = IF attempt < MaximumAttempts THEN "queued" ELSE "failed"
  OBVIOUS
<1>3. PICK r \in db["events"] : Held(r, w) /\ db' = [db EXCEPT
        !["events"] = (@ \ {r}) \union
          {[Released(r, status) EXCEPT !.attempts = attempt, !.at = clock]},
        !["event_failures"] = @ \union
          {[id |-> <<r.id, attempt>>, event |-> r.id, at |-> clock]}]
  BY <1>1, <1>2 DEF FailEvent
<1>4. PICK q :
        q = [Released(r, status) EXCEPT !.attempts = attempt, !.at = clock]
  OBVIOUS
<1>5. /\ db'["events"] = (db["events"] \ {r}) \union {q}
      /\ \A t \in Tables \ {"events", "event_failures"} : db'[t] = db[t]
  BY <1>3, <1>4 DEF IInv, ShapeOK, Tables
<1>6. /\ UNCHANGED <<call, personal>>
      /\ work' = [work EXCEPT ![w] = NoWork] /\ Accounts
  BY NothingTainted DEF FailEvent, intake, erasure
<1>7. EventNames'
  <2>1. \A x \in db["events"] : EventNamesOK(x)'
    BY <1>6, RowsStay DEF EInv, EventNames
  <2>2. IsRow(r) /\ IsRow(q) /\ q.id = r.id /\ q.value = r.value
    BY <1>4 DEF Released, EInv, EventNames, EventNamesOK, IsRow
  <2>3. r.status \in Open
    BY <1>3 DEF Held, Open
  <2>4. EventNamesOK(q)'
    BY <2>1, <2>2, <2>3 DEF EventNamesOK
  <2> QED
    BY <1>5, <2>1, <2>4 DEF EventNames
<1> QED
  BY <1>5, <1>6, <1>7, ReleaseNames, TablesStay, OthersStay DEF EInv, Tables

LEMMA ReserveNames ==
  ASSUME IInv, EInv, NEW w \in Workers, ReserveBatch(w) PROVE EInv'
<1>1. PICK plan : plan = work[w].row
  OBVIOUS
<1>2. PlanOK(plan) /\ work[w] # NoWork /\ work[w].kind = "channel_plans"
  BY <1>1 DEF ReserveBatch, NoWork, EInv, CopiesOK, CopyOK
<1>3. PICK U : U = {v \in plan.recipients :
                      \A r \in db["delivery_reservations"] :
                        r.id # <<plan.id, v>>}
  OBVIOUS
<1>4. /\ db' = [db EXCEPT !["delivery_reservations"] = @ \union
           {[id |-> <<plan.id, u>>, event |-> plan.event, recipient |-> u,
             at |-> clock] : u \in U}]
      /\ work' = [work EXCEPT ![w].reserved = TRUE]
  BY <1>1, <1>3 DEF ReserveBatch
<1>5. /\ db'["delivery_reservations"] = db["delivery_reservations"] \union
           {[id |-> <<plan.id, u>>, event |-> plan.event, recipient |-> u,
             at |-> clock] : u \in U}
      /\ \A t \in Tables \ {"delivery_reservations"} : db'[t] = db[t]
  BY <1>4 DEF IInv, ShapeOK, Tables
<1>6. UNCHANGED <<call, personal>> /\ Accounts
  BY NothingTainted DEF ReserveBatch, intake, erasure
<1>7. ReservationsOK'
  <2>1. \A r \in db["delivery_reservations"] : ReservationOK(r)'
    BY <1>6, RowsStay DEF EInv, ReservationsOK
  <2>2. Clean(plan.recipients, plan.event)'
    BY <1>2, <1>6, CleanStays DEF PlanOK, EInv
  <2>3. ASSUME NEW u \in U, NEW r,
               r = [id |-> <<plan.id, u>>, event |-> plan.event,
                    recipient |-> u, at |-> clock]
        PROVE  ReservationOK(r)'
    <3>1. /\ {"event", "recipient"} \subseteq DOMAIN r
          /\ r.event = plan.event /\ r.recipient = u
      BY <2>3
    <3>2. u \in plan.recipients
      BY <1>3
    <3> QED
      BY <2>2, <3>1, <3>2 DEF ReservationOK, Clean
  <2> QED
    BY <1>5, <2>1, <2>3 DEF ReservationsOK
<1>8. CopiesOK'
  <2>1. PICK v : v = [work[w] EXCEPT !.reserved = TRUE]
    OBVIOUS
  <2>2. \A x \in Workers : work'[x] = IF x = w THEN v ELSE work[x]
    BY <1>4, <2>1 DEF IInv, ShapeOK
  <2>3. v.kind = work[w].kind /\ v.row = plan
    BY <1>1, <1>2, <2>1 DEF IInv, WorkersOK, WorkOK
  <2>4. CopyOK(v)'
    BY <1>2, <1>6, <2>3, RowsStay DEF CopyOK, EInv
  <2> SUFFICES ASSUME NEW x \in Workers, work'[x] # NoWork
               PROVE  CopyOK(work[x])'
    BY DEF CopiesOK
  <2>5. PICK c : c = work'[x]
    OBVIOUS
  <2>6. CopyOK(c)'
    BY <1>6, <2>2, <2>4, <2>5, CopyStays
  <2> QED
    BY <2>5, <2>6 DEF CopyOK
<1> QED
  BY <1>5, <1>6, <1>7, <1>8, TablesStay, OthersStay DEF EInv, Tables

LEMMA SettleNames ==
  ASSUME IInv, EInv, NEW w \in Workers, SettlePlan(w) PROVE EInv'
<1>1. /\ UNCHANGED <<call, personal>>
      /\ work' = [work EXCEPT ![w] = NoWork] /\ Accounts
  BY NothingTainted DEF SettlePlan, intake, erasure
<1>2. PICK r, q :
        /\ r \in db["channel_plans"]
        /\ db' = [db EXCEPT !["channel_plans"] = (@ \ {r}) \union {q}]
        /\ \E s : \/ q = [Released(r, s) EXCEPT !.at = clock]
                  \/ q = [Released(r, s) EXCEPT
                            !.attempts = work[w].row.attempts + 1,
                            !.at = clock]
  BY DEF SettlePlan
<1>3. /\ db'["channel_plans"] = (db["channel_plans"] \ {r}) \union {q}
      /\ \A t \in Tables \ {"channel_plans"} : db'[t] = db[t]
  BY <1>2 DEF IInv, ShapeOK, Tables
<1>4. PlanOK(r)
  BY <1>2 DEF EInv, PlansOK
<1>5. /\ DOMAIN q = DOMAIN r /\ q.recipients = r.recipients
      /\ q.event = r.event /\ q.text = r.text
  BY <1>2, <1>4 DEF Released, PlanOK
<1>6. PlansOK'
  <2>1. \A x \in db["channel_plans"] : PlanOK(x)'
    BY <1>1, RowsStay DEF EInv, PlansOK
  <2>2. PlanOK(q)'
    BY <1>2, <1>5, <2>1 DEF PlanOK
  <2> QED
    BY <1>3, <2>1, <2>2 DEF PlansOK
<1> QED
  BY <1>1, <1>3, <1>6, ReleaseNames, TablesStay, OthersStay DEF EInv, Tables

LEMMA WorkerNames ==
  ASSUME IInv, EInv, NEW w \in Workers, WorkerStep(w) PROVE EInv'
<1>1. CASE GiveUp(w)
  BY <1>1, NothingTainted, ReleaseNames, TablesUnchanged
     DEF GiveUp, erasure, intake
<1> QED
  BY <1>1, ClaimNames, MaterializeNames, FailEventNames, ReserveNames,
     SettleNames DEF WorkerStep

-----------------------------------------------------------------------------
(* Recipients.                                                             *)

LEMMA TouchedItem ==
  ASSUME NEW r, ItemOK(r), NEW q,
         \/ q = [r EXCEPT !.at = clock]
         \/ q = [r EXCEPT !.alert = "acknowledged", !.at = clock]
  PROVE  ItemOK(q)
<1>1. /\ DOMAIN q = DOMAIN r /\ q.id = r.id /\ q.event = r.event
      /\ q.recipient = r.recipient /\ q.named = r.named /\ q.text = r.text
  BY DEF ItemOK
<1> QED
  BY <1>1 DEF ItemOK, Owns

LEMMA UserNames ==
  ASSUME IInv, EInv, NEW u \in Users, SetPersonalState(u) \/ AcknowledgeAlert(u)
  PROVE  EInv'
<1>1. UNCHANGED <<call, personal, work>> /\ Accounts
  BY NothingTainted DEF SetPersonalState, AcknowledgeAlert, history, erasure
<1>2. \A x \in db["inbox_items"] : ItemOK(x) /\ ItemOK(x)'
  BY <1>1, RowsStay DEF EInv, ItemsOK
<1>3. ASSUME NEW r \in db["inbox_items"], NEW q,
             \/ q = [r EXCEPT !.at = clock]
             \/ q = [r EXCEPT !.alert = "acknowledged", !.at = clock],
             db'["inbox_items"] = (db["inbox_items"] \ {r}) \union {q}
      PROVE  ItemsOK'
  <2>1. ItemOK(q)
    BY <1>2, <1>3, TouchedItem
  <2>2. ItemOK(q)'
    BY <1>1, <2>1, RowsStay DEF EInv
  <2> QED
    BY <1>2, <1>3, <2>2 DEF ItemsOK
<1>4. CASE SetPersonalState(u)
  <2>1. PICK r \in db["inbox_items"] :
          db' = [db EXCEPT !["inbox_items"] =
                   (@ \ {r}) \union {[r EXCEPT !.at = clock]}]
    BY <1>4 DEF SetPersonalState
  <2>2. PICK q : q = [r EXCEPT !.at = clock]
    OBVIOUS
  <2>3. /\ db'["inbox_items"] = (db["inbox_items"] \ {r}) \union {q}
        /\ \A t \in Tables \ {"inbox_items"} : db'[t] = db[t]
    BY <2>1, <2>2 DEF IInv, ShapeOK, Tables
  <2>5. ItemsOK'
    BY <1>3, <2>2, <2>3
  <2> QED
    BY <1>1, <2>3, <2>5, TablesStay, OthersStay DEF EInv, Tables
<1>5. CASE AcknowledgeAlert(u)
  <2>1. PICK r \in db["inbox_items"], g \in db["alert_groups"] :
          /\ g.recipient = u
          /\ db' = [db EXCEPT
               !["inbox_items"] = (@ \ {r}) \union
                 {[r EXCEPT !.alert = "acknowledged", !.at = clock]},
               !["alert_groups"] = (@ \ {g}) \union
                 {[g EXCEPT !.state = "acknowledged", !.acker = u,
                            !.at = clock]}]
    BY <1>5 DEF AcknowledgeAlert
  <2>2. PICK q, h :
          /\ q = [r EXCEPT !.alert = "acknowledged", !.at = clock]
          /\ h = [g EXCEPT !.state = "acknowledged", !.acker = u, !.at = clock]
    OBVIOUS
  <2>3. /\ db'["inbox_items"] = (db["inbox_items"] \ {r}) \union {q}
        /\ db'["alert_groups"] = (db["alert_groups"] \ {g}) \union {h}
        /\ \A t \in Tables \ {"inbox_items", "alert_groups"} : db'[t] = db[t]
    BY <2>1, <2>2 DEF IInv, ShapeOK, Tables
  <2>5. ItemsOK'
    BY <1>3, <2>2, <2>3
  <2>6. GroupsOK'
    <3>1. \A x \in db["alert_groups"] : GroupOK(x) /\ GroupOK(x)'
      BY <1>1, RowsStay DEF EInv, GroupsOK
    <3>2. /\ DOMAIN h = DOMAIN g /\ h.recipient = u /\ h.acker = u
          /\ h.event = g.event
      BY <2>1, <2>2, <3>1 DEF GroupOK
    <3>3. GroupOK(h)
      BY <2>1, <3>1, <3>2 DEF GroupOK, Clean
    <3>4. GroupOK(h)'
      BY <1>1, <3>3, RowsStay DEF EInv
    <3> QED
      BY <2>3, <3>1, <3>4 DEF GroupsOK
  <2> QED
    BY <1>1, <2>3, <2>5, <2>6, TablesStay, OthersStay DEF EInv, Tables
<1> QED
  BY <1>4, <1>5

LEMMA PersonalNames ==
  ASSUME EInv, NEW row, SavePersonal(row) \/ DeletePersonal(row)
  PROVE  EInv'
<1>1. UNCHANGED <<db, call, work>> /\ Accounts
  BY NothingTainted DEF SavePersonal, DeletePersonal, history, erasure
<1>2. UNCHANGED erased
  BY <1>1 DEF Accounts
<1>3. \A x \in personal' : x \in personal \/ \A u \in erased : ~Mentions(x, u)
  BY DEF SavePersonal, DeletePersonal
<1>4. NamesOK'
  BY <1>1, <1>2, <1>3 DEF EInv, NamesOK, Accounts, Mentions
<1> QED
  BY <1>1, <1>4, TablesStay, OthersStay DEF EInv

-----------------------------------------------------------------------------
(* Erasure.                                                                *)

\* The user is renamed; more is accounted for than before.
Erases(u) ==
  /\ u \in Users \ erased /\ erased' = erased \union {u}
  /\ DOMAIN tainted' = Users /\ DOMAIN pending' = Users
  /\ \A v \in erased : pending'[v] = pending[v]
  /\ \A v \in Users : tainted[v] \subseteq tainted'[v]

\* The new name is new.
LEMMA FreshName ==
  ASSUME NamesOK, NEW u \in Users \ erased
  PROVE  Anonymous[u] \notin Known /\ Anonymous[u] # NoOne
<1>1. Anonymous[u] # NoOne
  BY NameAssumption DEF Names
<1> QED
  BY <1>1, NameAssumption DEF NamesOK, Known

LEMMA CleanErased ==
  ASSUME NamesOK, NEW u, Erases(u), NEW S, NEW T, NEW event, Clean(S, event),
         T \subseteq (S \ {u}) \union {Anonymous[u]}
  PROVE  Clean(T, event)'
<1>1. Known' = Known \union {Anonymous[u]}
  BY DEF Known, Erases
<1>2. Anonymous[u] \notin Users
  BY NameAssumption DEF Erases
<1> QED
  BY <1>1, <1>2 DEF NamesOK, Erases, Clean

LEMMA VeiledErased ==
  ASSUME NamesOK, NEW u, Erases(u), NEW S, NEW event, NEW text,
         Clean(S, event), Veiled(S, event, text)
  PROVE  Veiled(S, event, text)'
<1>1. Anonymous[u] \notin S
  BY FreshName DEF Clean, Erases
<1> QED
  BY <1>1 DEF NamesOK, Erases, Veiled

LEMMA AwaitedErased ==
  ASSUME NamesOK, NEW u, Erases(u), NEW S, NEW event, NEW text, Clean(S, event)
  PROVE  /\ Awaited(S, event) => Awaited(S, event)'
         /\ VeiledPlan(S, event, text) => VeiledPlan(S, event, text)'
<1>1. Anonymous[u] \notin S
  BY FreshName DEF Clean, Erases
<1> QED
  BY <1>1 DEF NamesOK, Erases, Awaited, VeiledPlan

LEMMA ErasedItem ==
  ASSUME NamesOK, NEW u, Erases(u), NEW r, ItemOK(r), NEW q, q = EraseItem(r, u)
  PROVE  ItemOK(q)'
<1>1. erased \subseteq Users /\ Known \subseteq Known'
  BY DEF NamesOK, Known, Erases
<1>2. CASE r.recipient = u
  <2>1. /\ DOMAIN q = DOMAIN r /\ q.id = r.id /\ q.event = r.event
        /\ q.recipient = Anonymous[u] /\ q.named = Anonymous[u]
        /\ q.text = "erased"
    BY <1>2 DEF EraseItem, ItemOK
  <2>2. r.id[1] = u
    BY <1>1, <1>2, NameAssumption DEF ItemOK, Owns, Erases
  <2>3. Clean({q.recipient, q.named}, q.event)'
    <3>1. Clean({r.recipient, r.named}, q.event)
      BY <2>1 DEF ItemOK
    <3> QED
      BY <2>1, <3>1, CleanErased
  <2>4. Owns(q)'
    BY <2>1, <2>2 DEF Owns, Erases
  <2> QED
    BY <1>1, <2>1, <2>3, <2>4 DEF ItemOK, Veiled
<1>3. CASE r.recipient # u
  <2>1. q = r
    BY <1>3 DEF EraseItem
  <2>2. r.id[1] # u /\ r.named # u
    BY <1>1, <1>3, NameAssumption DEF ItemOK, Owns, Erases
  <2>3. Clean({r.recipient, r.named}, r.event)'
    <3>1. Clean({r.recipient, r.named}, r.event)
      BY DEF ItemOK
    <3> QED
      BY <1>3, <2>2, <3>1, CleanErased
  <2>4. Veiled({r.recipient, r.named}, r.event, r.text)'
    BY VeiledErased DEF ItemOK
  <2>5. Owns(r)'
    BY <2>2 DEF Owns, Erases, ItemOK
  <2> QED
    BY <1>1, <2>1, <2>3, <2>4, <2>5 DEF ItemOK
<1> QED
  BY <1>2, <1>3

LEMMA ErasedRows ==
  ASSUME NamesOK, NEW u, Erases(u), NEW r, NEW q
  PROVE  /\ GroupOK(r) /\ q = EraseGroup(r, u) => GroupOK(q)'
         /\ PlanOK(r) /\ q = ErasePlan(r, u) => PlanOK(q)'
         /\ ReservationOK(r) /\ q = EraseReservation(r, u) => ReservationOK(q)'
<1>1. ASSUME GroupOK(r), q = EraseGroup(r, u) PROVE GroupOK(q)'
  <2>1. /\ DOMAIN q = DOMAIN r /\ q.event = r.event
        /\ q.recipient = RenameOne(r.recipient, u)
        /\ q.acker = RenameOne(r.acker, u)
    BY <1>1 DEF EraseGroup, GroupOK
  <2>2. {q.recipient, q.acker} \subseteq
          ({r.recipient, r.acker} \ {u}) \union {Anonymous[u]}
    BY <2>1 DEF RenameOne
  <2>3. Clean({q.recipient, q.acker}, r.event)'
    BY <1>1, <2>2, CleanErased DEF GroupOK
  <2> QED
    BY <1>1, <2>1, <2>3 DEF GroupOK
<1>2. ASSUME PlanOK(r), q = ErasePlan(r, u) PROVE PlanOK(q)'
  <2>1. /\ DOMAIN q = DOMAIN r /\ q.event = r.event
        /\ q.recipients \subseteq (r.recipients \ {u}) \union {Anonymous[u]}
    BY <1>2 DEF ErasePlan, PlanOK, Rename
  <2>2. Clean(q.recipients, r.event)'
    BY <1>2, <2>1, CleanErased DEF PlanOK
  <2>3. NoOne \notin q.recipients
    BY <1>2, <2>1, FreshName DEF PlanOK, Erases
  <2>4. VeiledPlan(q.recipients, r.event, q.text)'
    <3>1. CASE u \in r.recipients
      BY <1>2, <3>1 DEF ErasePlan, PlanOK, VeiledPlan
    <3>2. CASE u \notin r.recipients
      BY <1>2, <3>2, AwaitedErased DEF ErasePlan, PlanOK
    <3> QED
      BY <3>1, <3>2
  <2> QED
    BY <1>2, <2>1, <2>2, <2>3, <2>4 DEF PlanOK
<1>3. ASSUME ReservationOK(r), q = EraseReservation(r, u)
      PROVE  ReservationOK(q)'
  <2>1. /\ DOMAIN q = DOMAIN r /\ q.event = r.event
        /\ q.recipient = RenameOne(r.recipient, u)
    BY <1>3 DEF EraseReservation, ReservationOK
  <2>2. {q.recipient} \subseteq ({r.recipient} \ {u}) \union {Anonymous[u]}
    BY <2>1 DEF RenameOne
  <2>3. Clean({q.recipient}, r.event)'
    BY <1>3, <2>2, CleanErased DEF ReservationOK
  <2> QED
    BY <1>3, <2>1, <2>3 DEF ReservationOK
<1> QED
  BY <1>1, <1>2, <1>3

LEMMA ErasedEvent ==
  ASSUME NamesOK, NEW u, Erases(u), NEW r, EventNamesOK(r),
         u \in r.value.recipients /\ r.status \in Open => r.id \in pending'[u],
         NEW q, q = EraseEvent(r, u)
  PROVE  EventNamesOK(q)'
<1>1. CASE u \in r.value.recipients
  <2>1. PICK R, P : /\ R = Rename(r.value.recipients, u)
                    /\ P = {[p EXCEPT !.recipients = Rename(@, u)]
                              : p \in r.value.plans}
    OBVIOUS
  <2>2. PICK v : v = [r.value EXCEPT !.recipients = R, !.text = "erased",
                                     !.variables = {}, !.plans = P]
    OBVIOUS
  <2>3. q = [r EXCEPT !.value = v]
    BY <1>1, <2>1, <2>2 DEF EraseEvent, EventNamesOK, IsRow, IsEvent
  <2>4. IsEvent(v) /\ v.text = "erased" /\ v.id = r.value.id
        /\ v.recipients = R /\ v.plans = P
    BY <2>2 DEF EventNamesOK, IsEvent
  <2>5. IsRow(q) /\ q.id = r.id /\ q.value = v /\ q.status = r.status
    BY <2>3 DEF EventNamesOK, IsRow
  <2>6. R \subseteq (r.value.recipients \ {u}) \union {Anonymous[u]}
    BY <2>1 DEF Rename
  <2>7. Clean(R, r.id)'
    BY <2>6, CleanErased DEF EventNamesOK
  <2>8. NoOne \notin R
    BY <2>6, FreshName DEF EventNamesOK, Erases
  <2>9. r.status \in Open => Awaited(R, r.id)'
    <3> SUFFICES ASSUME r.status \in Open, NEW x \in erased',
                        Anonymous[x] \in R
                 PROVE  r.id \in pending'[x]
      BY DEF Awaited
    <3>1. CASE x = u
      BY <1>1, <3>1
    <3>2. CASE x # u
      <4>1. Anonymous[x] # Anonymous[u] /\ x \in erased
        BY <3>2, NameAssumption DEF Erases, NamesOK
      <4>2. Anonymous[x] \in r.value.recipients
        BY <2>6, <4>1
      <4> QED
        BY <4>1, <4>2 DEF EventNamesOK, Awaited, Erases
    <3> QED
      BY <3>1, <3>2
  <2>10. PlansAlike(v)
    <3> SUFFICES ASSUME NEW y \in P
                 PROVE  "recipients" \in DOMAIN y /\ y.recipients \subseteq R
      BY <2>4 DEF PlansAlike
    <3>1. PICK p \in r.value.plans :
            y = [p EXCEPT !.recipients = Rename(@, u)]
      BY <2>1
    <3>2. "recipients" \in DOMAIN p /\ p.recipients \subseteq r.value.recipients
      BY DEF EventNamesOK, PlansAlike
    <3>3. /\ "recipients" \in DOMAIN y
          /\ y.recipients = Rename(p.recipients, u)
      BY <3>1, <3>2
    <3> QED
      BY <2>1, <3>2, <3>3 DEF Rename
  <2> QED
    BY <2>4, <2>5, <2>7, <2>8, <2>9, <2>10 DEF EventNamesOK, Veiled, PlansAlike
<1>2. CASE u \notin r.value.recipients
  <2>1. q = r
    BY <1>2 DEF EraseEvent
  <2>2. Clean(r.value.recipients, r.id)'
    BY <1>2, CleanErased DEF EventNamesOK
  <2>3. Veiled(r.value.recipients, r.id, r.value.text)'
    BY VeiledErased DEF EventNamesOK
  <2>4. r.status \in Open => Awaited(r.value.recipients, r.id)'
    BY AwaitedErased DEF EventNamesOK
  <2> QED
    BY <2>1, <2>2, <2>3, <2>4 DEF EventNamesOK, PlansAlike
<1> QED
  BY <1>1, <1>2

LEMMA AddressedAlike ==
  ASSUME NEW e, PlansAlike(e) PROVE Addressed(e) = e.recipients
BY DEF PlansAlike, Addressed

\* What a worker holds is not rewritten: it is accounted for instead.
LEMMA ErasedCopy ==
  ASSUME NamesOK, NEW u, Erases(u), NEW c, CopyOK(c),
         u \in Named(c.kind, c.row) => Origin(c.kind, c.row) \in tainted'[u]
  PROVE  CopyOK(c)'
<1>1. ASSUME NEW S, NEW event, Clean(S, event), u \in S => event \in tainted'[u]
      PROVE  Clean(S, event)'
  BY <1>1 DEF Clean, Known, Erases, NamesOK
<1>2. ASSUME c.kind = "events" PROVE EventNamesOK(c.row)'
  <2>1. EventNamesOK(c.row)
    BY <1>2 DEF CopyOK
  <2>2. u \in c.row.value.recipients => c.row.id \in tainted'[u]
    BY <1>2 DEF Named, Origin, Addressed
  <2>3. Clean(c.row.value.recipients, c.row.id)'
    BY <1>1, <2>1, <2>2 DEF EventNamesOK
  <2>4. Veiled(c.row.value.recipients, c.row.id, c.row.value.text)'
    BY <2>1, VeiledErased DEF EventNamesOK
  <2>5. Awaited(c.row.value.recipients, c.row.id) =>
          Awaited(c.row.value.recipients, c.row.id)'
    BY <2>1, AwaitedErased DEF EventNamesOK
  <2> QED
    BY <2>1, <2>3, <2>4, <2>5 DEF EventNamesOK, PlansAlike
<1>3. ASSUME c.kind = "channel_plans" PROVE PlanOK(c.row)'
  <2>1. PlanOK(c.row)
    BY <1>3 DEF CopyOK
  <2>2. u \in c.row.recipients => c.row.event \in tainted'[u]
    BY <1>3 DEF Named, Origin
  <2>3. Clean(c.row.recipients, c.row.event)'
    BY <1>1, <2>1, <2>2 DEF PlanOK
  <2>4. VeiledPlan(c.row.recipients, c.row.event, c.row.text)'
    BY <2>1, AwaitedErased DEF PlanOK
  <2> QED
    BY <2>1, <2>3, <2>4 DEF PlanOK
<1> QED
  BY <1>2, <1>3 DEF CopyOK

LEMMA EraseNames ==
  ASSUME IInv, EInv, NEW u \in Users, EraseSubject(u) PROVE EInv'
<1>1. NamesOK
  BY DEF EInv
<1>2. PICK O : O = {Origin(work[w].kind, work[w].row) : w \in
          {x \in Workers : /\ work[x] # NoWork
                           /\ u \in Named(work[x].kind, work[x].row)}}
  OBVIOUS
<1>3. tainted' = [tainted EXCEPT ![u] = @ \union O]
  BY <1>2 DEF EraseSubject
<1>4. PICK N : N = {r.id : r \in {x \in db["events"] :
                                     /\ x.status \in Open
                                     /\ u \in x.value.recipients}}
  OBVIOUS
<1>5. pending' = [pending EXCEPT ![u] = N]
  BY <1>4 DEF EraseSubject
<1>6. Erases(u) /\ O \subseteq tainted'[u] /\ N = pending'[u]
  BY <1>1, <1>3, <1>5 DEF EraseSubject, Erases, NamesOK
<1>7. UNCHANGED <<call, work>>
  BY DEF EraseSubject, intake
<1>8. /\ db'["inbox_items"] = {EraseItem(r, u) : r \in db["inbox_items"]}
      /\ db'["events"] = {EraseEvent(r, u) : r \in db["events"]}
      /\ db'["channel_plans"] = {ErasePlan(r, u) : r \in db["channel_plans"]}
      /\ db'["alert_groups"] = {EraseGroup(r, u) : r \in db["alert_groups"]}
      /\ db'["delivery_reservations"] =
           {EraseReservation(r, u) : r \in db["delivery_reservations"]}
  BY DEF EraseSubject, IInv, ShapeOK, Tables
<1>9. NamesOK'
  <2>1. personal' = {row \in personal : ~Mentions(row, u)}
    BY DEF EraseSubject
  <2> QED
    BY <1>1, <1>6, <2>1 DEF NamesOK, Erases, Mentions
<1>10. ItemsOK'
  BY <1>1, <1>6, <1>8, ErasedItem DEF EInv, ItemsOK
<1>11. GroupsOK'
  BY <1>1, <1>6, <1>8, ErasedRows DEF EInv, GroupsOK
<1>12. PlansOK'
  BY <1>1, <1>6, <1>8, ErasedRows DEF EInv, PlansOK
<1>13. ReservationsOK'
  BY <1>1, <1>6, <1>8, ErasedRows DEF EInv, ReservationsOK
<1>14. EventNames'
  <2> SUFFICES ASSUME NEW r \in db["events"], NEW q, q = EraseEvent(r, u)
               PROVE  EventNamesOK(q)'
    BY <1>8 DEF EventNames
  <2>1. u \in r.value.recipients /\ r.status \in Open => r.id \in pending'[u]
    BY <1>6, <1>4
  <2> QED
    BY <1>1, <1>6, <2>1, ErasedEvent DEF EInv, EventNames
<1>15. CopiesOK'
  <2> SUFFICES ASSUME NEW w \in Workers, work'[w] # NoWork
               PROVE  CopyOK(work[w])'
    BY DEF CopiesOK
  <2>1. PICK c : c = work[w] /\ c = work'[w]
    BY <1>7
  <2>2. CopyOK(c)
    BY <1>7, <2>1 DEF EInv, CopiesOK
  <2>3. u \in Named(c.kind, c.row) => Origin(c.kind, c.row) \in O
    BY <1>2, <1>7, <2>1
  <2>4. CopyOK(c)'
    BY <1>1, <1>6, <2>2, <2>3, ErasedCopy
  <2> QED
    BY <2>1, <2>4 DEF CopyOK
<1>16. SendersOK'
  BY <1>7 DEF EInv, SendersOK, PlansAlike
<1> QED
  BY <1>9, <1>10, <1>11, <1>12, <1>13, <1>14, <1>15, <1>16 DEF EInv

-----------------------------------------------------------------------------
(* Retention, and the theorem.                                             *)

LEMMA BatchNames ==
  ASSUME IInv, EInv, NEW b \in Batches, BatchStep(b) PROVE EInv'
<1>1. UNCHANGED <<call, work, personal, erased, tainted, pending>>
  BY DEF BatchStep, ProcessRetentionBatch, NextSpec, ArchiveCandidate,
         DeleteCandidate, EndBatch, history, erasure
<1>2. \A t \in Tables : db'[t] \subseteq db[t]
  BY DEF BatchStep, ProcessRetentionBatch, NextSpec, ArchiveCandidate,
         DeleteCandidate, EndBatch, IInv, ShapeOK
<1> QED
  BY <1>1, <1>2, NothingTainted, TablesStay, OthersStay DEF EInv, Tables

LEMMA InitNames == Init => EInv
<1> SUFFICES ASSUME Init PROVE EInv
  OBVIOUS
<1>1. NamesOK
  BY DEF Init, NamesOK
<1>2. ItemsOK /\ GroupsOK /\ PlansOK /\ ReservationsOK /\ EventNames
  BY DEF Init, Tables, ItemsOK, GroupsOK, PlansOK, ReservationsOK, EventNames
<1>3. CopiesOK /\ SendersOK
  BY DEF Init, CopiesOK, SendersOK
<1> QED
  BY <1>1, <1>2, <1>3 DEF EInv

LEMMA NextNames == IInv /\ EInv /\ [Next]_vars => EInv'
<1> SUFFICES ASSUME IInv, EInv, [Next]_vars PROVE EInv'
  OBVIOUS
<1>1. CASE Deploy \/ Tick \/ UNCHANGED vars
  <2>1. UNCHANGED <<db, personal, erased, tainted, pending, call, work>>
    BY <1>1 DEF Deploy, Tick, vars, history, erasure
  <2> QED
    BY <2>1, TablesUnchanged
<1>2. ASSUME NEW p \in Producers, ProducerStep(p) PROVE EInv'
  BY <1>2, ProducerNames
<1>3. ASSUME NEW w \in Workers, WorkerStep(w) PROVE EInv'
  BY <1>3, WorkerNames
<1>4. ASSUME NEW u \in Users, UserStep(u) PROVE EInv'
  BY <1>4, UserNames, EraseNames DEF UserStep
<1>5. ASSUME NEW row \in PersonalRows, SavePersonal(row) \/ DeletePersonal(row)
      PROVE  EInv'
  BY <1>5, PersonalNames
<1>6. ASSUME NEW b \in Batches, BatchStep(b) PROVE EInv'
  BY <1>6, BatchNames
<1> QED
  BY <1>1, <1>2, <1>3, <1>4, <1>5, <1>6 DEF Next

LEMMA NamesSuffice == EInv => ErasureIsComplete
<1> SUFFICES ASSUME EInv, NEW u \in erased
             PROVE  /\ \A t \in Tables : \A r \in db[t] :
                         u \in Named(t, r) => Origin(t, r) \in tainted[u]
                    /\ \A t \in {"inbox_items", "events", "channel_plans"} :
                         \A r \in db[t] : Anonymous[u] \in Named(t, r) =>
                           \/ Text(t, r) = "erased"
                           \/ Origin(t, r) \in tainted[u]
                           \/ t = "channel_plans" /\ r.event \in pending[u]
                    /\ \A row \in personal : ~Mentions(row, u)
  BY DEF ErasureIsComplete
<1>1. \A row \in personal : ~Mentions(row, u)
  BY DEF EInv, NamesOK
<1>2. ASSUME NEW r \in db["inbox_items"]
      PROVE  /\ u \in Named("inbox_items", r) =>
                  Origin("inbox_items", r) \in tainted[u]
             /\ Anonymous[u] \in Named("inbox_items", r) =>
                  \/ Text("inbox_items", r) = "erased"
                  \/ Origin("inbox_items", r) \in tainted[u]
  BY DEF EInv, ItemsOK, ItemOK, Clean, Veiled, Named, Origin, Text
<1>3. ASSUME NEW r \in db["events"]
      PROVE  /\ u \in Named("events", r) => Origin("events", r) \in tainted[u]
             /\ Anonymous[u] \in Named("events", r) =>
                  \/ Text("events", r) = "erased"
                  \/ Origin("events", r) \in tainted[u]
  <2>1. EventNamesOK(r)
    BY DEF EInv, EventNames
  <2>2. Named("events", r) = r.value.recipients
    BY <2>1, AddressedAlike DEF EventNamesOK, Named
  <2> QED
    BY <2>1, <2>2 DEF EventNamesOK, Clean, Veiled, Origin, Text
<1>4. ASSUME NEW r \in db["channel_plans"]
      PROVE  /\ u \in Named("channel_plans", r) =>
                  Origin("channel_plans", r) \in tainted[u]
             /\ Anonymous[u] \in Named("channel_plans", r) =>
                  \/ Text("channel_plans", r) = "erased"
                  \/ Origin("channel_plans", r) \in tainted[u]
                  \/ r.event \in pending[u]
  BY DEF EInv, PlansOK, PlanOK, Clean, VeiledPlan, Named, Origin, Text
<1>5. ASSUME NEW t \in {"alert_groups", "delivery_reservations",
                        "event_failures"},
             NEW r \in db[t], u \in Named(t, r)
      PROVE  Origin(t, r) \in tainted[u]
  <2>1. CASE t = "alert_groups"
    BY <1>5, <2>1 DEF EInv, GroupsOK, GroupOK, Clean, Named, Origin
  <2>2. CASE t = "delivery_reservations"
    BY <1>5, <2>2 DEF EInv, ReservationsOK, ReservationOK, Clean, Named, Origin
  <2>3. CASE t = "event_failures"
    BY <1>5, <2>3 DEF Named
  <2> QED
    BY <2>1, <2>2, <2>3
<1> QED
  BY <1>1, <1>2, <1>3, <1>4, <1>5 DEF Tables

\* Once EraseSubject has committed, whatever workers, recipients, producers and
\* retention do before and after it: no row of the tables names the user, in its
\* columns or its payload; and the items, the plan rows and the events' own
\* snapshots that carried the name have lost their text.  Excepted are rows of an
\* event of which a worker held a copy at that moment, or which was addressed to
\* the user afterwards, and the text of plans that are materialised later from an
\* event that was queued or processed at that moment.
THEOREM ErasedForGood == Spec => []ErasureIsComplete
<1>1. Init => EInv
  BY InitNames
<1>2. IInv /\ EInv /\ [Next]_vars => EInv'
  BY NextNames
<1>3. EInv => ErasureIsComplete
  BY NamesSuffice
<1> QED
  BY <1>1, <1>2, <1>3, Invariance, PTL DEF Spec
=============================================================================

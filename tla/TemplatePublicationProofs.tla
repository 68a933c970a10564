--------------------- MODULE TemplatePublicationProofs ---------------------
(***************************************************************************)
(* Theorems about TemplatePublication, for any requests, contents, admins, *)
(* editors, workers, processes and leases.                                 *)
(***************************************************************************)
EXTENDS TemplatePublication, TLAPS

-----------------------------------------------------------------------------
(* The inductive invariant.                                                *)

\* A request that a worker has claimed at some time.
Taken == {"publishing", "published", "superseded", "failed"}

\* A request that has not been stored yet.
Private == {"absent", "reading", "checked"}

\* A worker has a stored request, and a claimed one after its claim.
ClaimsOK ==
  \A w \in Workers : pc[w] # "idle" =>
    /\ claim[w].request \in Requests
    /\ status[claim[w].request] \notin Private
    /\ pc[w] # "claim" => status[claim[w].request] \in Taken

\* What a worker may publish has been approved by somebody else.
ReviewOK ==
  \A r \in Requests : status[r] \in Taken \union {"scheduled"} =>
    reviewedBy[r] \notin {Nobody, requestedBy[r]}

\* A time stamp identifies a draft: as long as the row has the one of the
\* request, it has its draft too.
CandidateOK ==
  \A r \in Requests : status[r] # "absent" =>
    /\ candidate[r] \in Contents
    /\ draftUpdatedAt[r] > 0 /\ draftUpdatedAt[r] <= updatedAt
    /\ draftUpdatedAt[r] = updatedAt =>
         draft # NoDraft /\ draft.content = candidate[r]

\* What a worker has loaded is that draft, under a new number, unless the row
\* has been written since.
ValueOK ==
  \A w \in Workers : pc[w] = "publish" =>
    /\ value[w] \in Drafts
    /\ draftUpdatedAt[claim[w].request] = updatedAt =>
         value[w].content = draft.content /\ value[w].version > publishedVersion

\* Publishing moves the time stamp on, and therefore happens once.
VersionsOK ==
  /\ draft # NoDraft => updatedAt > 0
  /\ \A v \in versions : v.request # NoRequest =>
       /\ status[v.request] \in Taken
       /\ v.content = candidate[v.request]
       /\ draftUpdatedAt[v.request] < updatedAt

\* Who reports success has seen the version it reports.
OutcomeOK ==
  \A w \in Workers : pc[w] = "finish" /\ outcome[w].status = "published" =>
    \E v \in versions : /\ v.number = outcome[w].version
                        /\ v.content = candidate[claim[w].request]

IInv == /\ TypeOK /\ ClaimsOK /\ ReviewOK /\ CandidateOK /\ ValueOK
        /\ VersionsOK /\ OutcomeOK
        /\ LockIsOpenRequest /\ PublishesOnce /\ PublishedMeansVersion

LEMMA InitInv == Init => IInv
<1> SUFFICES ASSUME Init PROVE IInv
  OBVIOUS
<1> USE ContentAssumption, ActorAssumption
<1>1. RecordOK
  <2>1. PICK s \in Seeds :
          LET n == IF s = NoContent THEN 0 ELSE 1 IN
          /\ published = s /\ publishedVersion = n /\ updatedAt = n
          /\ versions = IF s = NoContent THEN {}
                        ELSE {[number |-> 1, content |-> s,
                               request |-> NoRequest]}
    BY DEF Init
  <2>2. /\ draft \in Drafts \union {NoDraft} /\ active \in BOOLEAN
        /\ published \in Contents \union {NoContent}
        /\ publishedVersion \in Nat /\ updatedAt \in Nat
    BY <2>1 DEF Init
  <2>3. CASE s = NoContent
    BY <2>1, <2>2, <2>3 DEF RecordOK
  <2>4. CASE s # NoContent
    <3>1. s \in Contents
      BY <2>4
    <3>2. versions = {[number |-> 1, content |-> s, request |-> NoRequest]}
      BY <2>1, <2>4
    <3>3. publishedVersion = 1 /\ published = s
      BY <2>1, <2>4
    <3>4. QED
      BY <2>2, <3>1, <3>2, <3>3 DEF RecordOK
  <2>5. QED
    BY <2>3, <2>4
<1>2. RowsOK
  BY DEF Init, RowsOK, Statuses, Owners
<1>3. WorkersOK /\ EnvironmentOK
  BY DEF Init, WorkersOK, EnvironmentOK, NoDraft, NoClaim, NoOutcome, Outcomes
<1>4. ClaimsOK /\ ReviewOK /\ CandidateOK /\ ValueOK /\ OutcomeOK
  BY DEF Init, ClaimsOK, ReviewOK, CandidateOK, ValueOK, OutcomeOK, Taken
<1>5. VersionsOK /\ PublishesOnce
  BY DEF Init, VersionsOK, PublishesOnce, NoDraft
<1>6. LockIsOpenRequest /\ PublishedMeansVersion
  BY DEF Init, LockIsOpenRequest, OpenRequests, Open, PublishedMeansVersion
<1>7. QED
  BY <1>1, <1>2, <1>3, <1>4, <1>5, <1>6 DEF IInv, TypeOK

-----------------------------------------------------------------------------
(* Which steps write what.                                                 *)

LEMMA RecordWriters ==
  ASSUME [Next]_vars
  PROVE  \/ UNCHANGED record
         \/ \E e \in Editors : SaveDraft(e) \/ Disable(e)
         \/ \E w \in Workers : Publish(w)
BY DEF Next, vars, record, EnsureUnlocked, GiveUpEdit, ReadDraft, CheckLock,
       CreateRequest, RefuseRequest, Approve, Reject, Cancel, ProcessDue,
       Claim, Skip, Reread, Authorize, Inspect, Load, Explain, Finish,
       Abandon, Tick

LEMMA RowsWriters ==
  ASSUME [Next]_vars
  PROVE  \/ UNCHANGED rows
         \/ \E r \in Requests : \/ ReadDraft(r) \/ CheckLock(r)
                                \/ CreateRequest(r) \/ RefuseRequest(r)
         \/ \E r \in Requests, a \in Admins : \/ Approve(r, a) \/ Reject(r, a)
                                              \/ Cancel(r, a)
         \/ \E w \in Workers : Claim(w) \/ Finish(w)
BY DEF Next, vars, rows, EnsureUnlocked, GiveUpEdit, SaveDraft, Disable,
       ProcessDue, Skip, Reread, Authorize, Inspect, Load, Publish, Explain,
       Abandon, Tick

LEMMA LocalWriters ==
  ASSUME [Next]_vars
  PROVE  \/ UNCHANGED local
         \/ \E w \in Workers, r \in Requests : ProcessDue(w, r)
         \/ \E w \in Workers : \/ Claim(w) \/ Skip(w) \/ Reread(w)
                               \/ Authorize(w) \/ Inspect(w) \/ Load(w)
                               \/ Publish(w) \/ Explain(w) \/ Finish(w)
                               \/ Abandon(w)
BY DEF Next, vars, local, EnsureUnlocked, GiveUpEdit, SaveDraft, Disable,
       ReadDraft, CheckLock, CreateRequest, RefuseRequest, Approve, Reject,
       Cancel, Tick

-----------------------------------------------------------------------------
(* Type correctness.                                                       *)

LEMMA RecordStep == ASSUME IInv, [Next]_vars PROVE RecordOK'
<1> USE DEF IInv, TypeOK
<1>1. CASE UNCHANGED record
  BY <1>1 DEF RecordOK, record
<1>2. ASSUME NEW e \in Editors, SaveDraft(e) PROVE RecordOK'
  <2>1. draft' \in Drafts
    BY <1>2, ContentAssumption DEF SaveDraft, Drafts
  <2>2. QED
    BY <1>2, <2>1 DEF SaveDraft, RecordOK
<1>3. ASSUME NEW e \in Editors, Disable(e) PROVE RecordOK'
  <2>1. /\ UNCHANGED <<draft, published, publishedVersion, versions>>
        /\ updatedAt' = updatedAt + 1 /\ active' \in BOOLEAN
    BY <1>3 DEF Disable
  <2>2. QED
    BY <2>1 DEF RecordOK
<1>4. ASSUME NEW w \in Workers, Publish(w) PROVE RecordOK'
  <2> DEFINE r == claim[w].request
  <2>1. CASE WritePublished(value[w], r)
    <3>1. value[w] \in Drafts /\ r \in Requests
      BY <1>4 DEF Publish, ValueOK, ClaimsOK
    <3>2. value[w].content \in Contents /\ value[w].version \in Nat
      BY <3>1 DEF Drafts
    <3> DEFINE v == VersionRow(value[w], r)
    <3>3. /\ v \in [number : Nat, content : Contents,
                    request : Requests \union {NoRequest}]
          /\ v.number = value[w].version /\ v.content = value[w].content
      BY <3>1, <3>2 DEF VersionRow
    <3> HIDE DEF v
    <3>4. /\ draft' = NoDraft /\ published' = value[w].content
          /\ publishedVersion' = value[w].version /\ active' = TRUE
          /\ updatedAt' = updatedAt + 1 /\ versions' = versions \union {v}
      BY <2>1 DEF WritePublished, v
    <3>5. QED
      BY <3>2, <3>3, <3>4 DEF RecordOK
  <2>2. CASE ~WritePublished(value[w], r)
    BY <1>4, <2>2 DEF Publish, record, RecordOK
  <2>3. QED
    BY <2>1, <2>2
<1>5. QED
  BY <1>1, <1>2, <1>3, <1>4, RecordWriters

LEMMA RowsStep == ASSUME IInv, [Next]_vars PROVE RowsOK'
<1> USE DEF IInv, TypeOK
<1>1. CASE UNCHANGED rows
  BY <1>1 DEF RowsOK, rows
<1>2. ASSUME NEW r \in Requests, ReadDraft(r) PROVE RowsOK'
  BY <1>2 DEF ReadDraft, RowsOK, RecordOK, Drafts, Statuses
<1>3. ASSUME NEW r \in Requests, CheckLock(r) PROVE RowsOK'
  BY <1>3 DEF CheckLock, RowsOK, Statuses
<1>4. ASSUME NEW r \in Requests, CreateRequest(r) PROVE RowsOK'
  BY <1>4, LimitAssumption DEF CreateRequest, RowsOK, EnvironmentOK, Statuses, Open
<1>5. ASSUME NEW r \in Requests, RefuseRequest(r) PROVE RowsOK'
  BY <1>5 DEF RefuseRequest, RowsOK, Statuses
<1>6. ASSUME NEW r \in Requests, NEW a \in Admins,
             Approve(r, a) \/ Reject(r, a) \/ Cancel(r, a)
      PROVE  RowsOK'
  BY <1>6 DEF Approve, Reject, Cancel, Transition, LockAfter, RowsOK, EnvironmentOK,
              Owners, Statuses, Open
<1>7. ASSUME NEW w \in Workers, Claim(w) PROVE RowsOK'
  <2>1. claim[w].request \in Requests
    BY <1>7 DEF Claim, ClaimsOK
  <2>2. OwnerOf[w] \in Owners /\ now[w] + LeaseDuration \in Nat
    BY LimitAssumption DEF Owners, WorkersOK
  <2>3. QED
    BY <1>7, <2>1, <2>2 DEF Claim, RowsOK, Statuses, Open
<1>8. ASSUME NEW w \in Workers, Finish(w) PROVE RowsOK'
  <2>1. claim[w].request \in Requests
    BY <1>8 DEF Finish, ClaimsOK
  <2>2. outcome[w].status \in Statuses /\ outcome[w].version \in Nat
    BY DEF WorkersOK, Outcomes, Statuses
  <2>3. QED
    BY <1>8, <2>1, <2>2
       DEF Finish, Transition, LockAfter, rows, RowsOK, Owners
<1>9. QED
  BY <1>1, <1>2, <1>3, <1>4, <1>5, <1>6, <1>7, <1>8, RowsWriters

LEMMA EnvironmentStep == ASSUME IInv, [Next]_vars PROVE EnvironmentOK'
<1>1. EnvironmentOK
  BY DEF IInv, TypeOK
<1>2. editing' = editing \/ \E e \in Editors, b \in BOOLEAN :
          editing' = [editing EXCEPT ![e] = b]
  BY DEF Next, vars, EnsureUnlocked, GiveUpEdit, SaveDraft, Disable,
         ReadDraft, CheckLock, CreateRequest, RefuseRequest, Approve, Reject,
         Cancel, ProcessDue, Claim, Skip, Reread, Authorize, Inspect, Load,
         Publish, Explain, Finish, Abandon, Tick
<1>3. clock' \in {clock, clock + 1} /\ faults' \in {faults, faults + 1}
  BY DEF Next, vars, EnsureUnlocked, GiveUpEdit, SaveDraft, Disable,
         ReadDraft, CheckLock, CreateRequest, RefuseRequest, Approve, Reject,
         Cancel, ProcessDue, Claim, Skip, Reread, Authorize, Inspect, Load,
         Publish, Explain, Finish, Abandon, Tick, Fault
<1>4. QED
  BY <1>1, <1>2, <1>3 DEF EnvironmentOK

LEMMA WorkersStep == ASSUME IInv, [Next]_vars PROVE WorkersOK'
<1> USE DEF IInv, TypeOK
<1>1. CASE UNCHANGED local
  <2>1. /\ pc' = pc /\ now' = now /\ claim' = claim
        /\ value' = value /\ outcome' = outcome
    BY <1>1 DEF local
  <2>2. QED
    BY <2>1 DEF WorkersOK
<1>2. ASSUME NEW w \in Workers, NEW r \in Requests, ProcessDue(w, r)
      PROVE  WorkersOK'
  <2>1. [claim[w] EXCEPT !.request = r] \in Claims
    BY DEF Claims, NoClaim, Owners, WorkersOK
  <2>2. QED
    BY <1>2, <2>1 DEF ProcessDue, Go, WorkersOK, EnvironmentOK
<1>3. ASSUME NEW w \in Workers, NEW n \in Nat,
             NEW s \in {"published", "superseded", "failed"}, Conclude(w, s, n)
      PROVE  WorkersOK'
  BY <1>3 DEF Conclude, Go, Outcomes, WorkersOK
<1>4. ASSUME NEW w \in Workers, Return(w) PROVE WorkersOK'
  BY <1>4 DEF Return, Go, NoOutcome, Outcomes, WorkersOK
<1>5. ASSUME NEW w \in Workers,
             NEW next \in {"reread", "inspect", "load", "explain"},
             Go(w, next), UNCHANGED <<now, claim, value, outcome>>
      PROVE  WorkersOK'
  BY <1>5 DEF Go, WorkersOK
<1>6. ASSUME NEW w \in Workers, Reread(w) PROVE WorkersOK'
  <2>1. claim[w].request \in Requests
    BY <1>6 DEF Reread, ClaimsOK
  <2>2. [request |-> claim[w].request, owner |-> leaseOwner[claim[w].request],
         token |-> fencingToken[claim[w].request]] \in Claims
    BY <2>1 DEF Claims, RowsOK
  <2>3. QED
    BY <1>6, <2>2 DEF Reread, Go, WorkersOK
<1>7. ASSUME NEW w \in Workers, Load(w) PROVE WorkersOK'
  <2>1. CASE Go(w, "publish")
    <3>1. draft \in Drafts /\ NextVersion(draft) \in Nat
      BY <1>7, <2>1 DEF Load, Go, RecordOK, WorkersOK, NextVersion, Drafts
    <3>2. [draft EXCEPT !.version = NextVersion(draft)] \in Drafts
      BY <3>1 DEF Drafts
    <3>3. QED
      BY <1>7, <2>1, <3>2 DEF Load, Go, WorkersOK
  <2>2. CASE Go(w, "explain") /\ UNCHANGED value
    BY <1>5, <1>7, <2>2 DEF Load
  <2>3. QED
    BY <1>7, <2>1, <2>2 DEF Load
<1>8. ASSUME NEW w \in Workers,
              Authorize(w) \/ Inspect(w) \/ Publish(w) \/ Explain(w)
       PROVE  WorkersOK'
  <2>1. value[w].version \in Nat /\ publishedVersion \in Nat
    BY DEF WorkersOK, RecordOK, Drafts, NoDraft
  <2>2. \/ \E s \in {"published", "superseded", "failed"}, n \in Nat :
             Conclude(w, s, n)
        \/ \E next \in {"reread", "inspect", "load", "explain"} :
             Go(w, next) /\ UNCHANGED <<now, claim, value, outcome>>
    BY <1>8, <2>1 DEF Authorize, Inspect, Publish, Explain
  <2>3. QED
    BY <1>3, <1>5, <2>2
<1>9. QED
  <2>1. ASSUME NEW w \in Workers, Claim(w) PROVE WorkersOK'
    BY <1>5, <2>1 DEF Claim
  <2>2. ASSUME NEW w \in Workers, Skip(w) \/ Finish(w) \/ Abandon(w)
        PROVE  WorkersOK'
    BY <1>4, <2>2 DEF Skip, Finish, Abandon
  <2>3. QED
    BY <1>1, <1>2, <1>6, <1>7, <1>8, <2>1, <2>2, LocalWriters

-----------------------------------------------------------------------------
(* How rows and workers move.                                              *)

\* A stored request keeps what was requested, a claimed one its review too.
LEMMA RowsMove ==
  ASSUME IInv, [Next]_vars, NEW r \in Requests
  PROVE  /\ status[r] \notin Private =>
              /\ status'[r] \notin Private
              /\ candidate'[r] = candidate[r]
              /\ draftUpdatedAt'[r] = draftUpdatedAt[r]
              /\ requestedBy'[r] = requestedBy[r]
         /\ status[r] \in Taken =>
              status'[r] \in Taken /\ reviewedBy'[r] = reviewedBy[r]
<1> DEFINE Moves ==
      /\ status[r] \notin Private =>
           /\ status'[r] \notin Private
           /\ candidate'[r] = candidate[r]
           /\ draftUpdatedAt'[r] = draftUpdatedAt[r]
           /\ requestedBy'[r] = requestedBy[r]
      /\ status[r] \in Taken =>
           status'[r] \in Taken /\ reviewedBy'[r] = reviewedBy[r]
<1>1. RowsOK
  BY DEF IInv, TypeOK
<1>2. CASE UNCHANGED rows
  BY <1>2 DEF rows
<1>3. ASSUME NEW q \in Requests,
             \/ ReadDraft(q) \/ CheckLock(q) \/ CreateRequest(q)
             \/ RefuseRequest(q)
      PROVE  Moves
  BY <1>1, <1>3 DEF ReadDraft, CheckLock, CreateRequest, RefuseRequest, RowsOK,
                    Private, Taken
<1>4. ASSUME NEW q \in Requests, NEW a \in Admins,
             Approve(q, a) \/ Reject(q, a) \/ Cancel(q, a)
      PROVE  Moves
  BY <1>1, <1>4 DEF Approve, Reject, Cancel, Transition, RowsOK, Private, Taken
<1>5. ASSUME NEW w \in Workers, Claim(w) PROVE Moves
  BY <1>1, <1>5 DEF Claim, RowsOK, Private, Taken
<1>6. ASSUME NEW w \in Workers, Finish(w) PROVE Moves
  <2>1. outcome[w].status \in {"published", "superseded", "failed"}
    BY DEF IInv, TypeOK, WorkersOK, Outcomes
  <2>2. CASE UNCHANGED rows
    BY <1>2, <2>2
  <2>3. CASE Transition(claim[w].request, outcome[w].status,
                        scheduledFor[claim[w].request],
                        reviewedBy[claim[w].request], outcome[w].version)
    BY <1>1, <2>1, <2>3 DEF Transition, RowsOK, Private, Taken
  <2>4. QED
    BY <1>6, <2>2, <2>3 DEF Finish
<1>7. QED
  BY <1>2, <1>3, <1>4, <1>5, <1>6, RowsWriters

\* Every write of the template moves its time stamp, and versions stay.
LEMMA RecordMoves ==
  ASSUME IInv, [Next]_vars
  PROVE  /\ updatedAt \in Nat /\ versions \subseteq versions'
         /\ \/ UNCHANGED <<draft, published, publishedVersion, updatedAt,
                           versions>>
            \/ updatedAt' = updatedAt + 1
<1>1. updatedAt \in Nat
  BY DEF IInv, TypeOK, RecordOK
<1>2. QED
  BY <1>1, RecordWriters DEF record, SaveDraft, Disable, Publish, WritePublished

\* What a step may do to the locals of worker w.
LEMMA WorkerMoves ==
  ASSUME IInv, [Next]_vars, NEW w \in Workers
  PROVE  \/ pc'[w] = "idle"
         \/ /\ pc'[w] = pc[w] /\ claim'[w] = claim[w]
            /\ value'[w] = value[w] /\ outcome'[w] = outcome[w]
         \/ \E r \in Requests : ProcessDue(w, r)
         \/ Claim(w)
         \/ /\ pc[w] \notin {"idle", "claim"} /\ pc'[w] # "claim"
            /\ claim'[w].request = claim[w].request
            /\ pc'[w] = "publish" => Load(w)
            /\ pc'[w] = "finish" =>
                 Authorize(w) \/ Inspect(w) \/ Publish(w) \/ Explain(w)
<1>1. WorkersOK
  BY DEF IInv, TypeOK
<1>2. CASE UNCHANGED local
  BY <1>2 DEF local
<1>3. ASSUME NEW u \in Workers, u # w,
             \/ \E r \in Requests : ProcessDue(u, r)
             \/ Claim(u) \/ Skip(u) \/ Reread(u) \/ Authorize(u)
             \/ Inspect(u) \/ Load(u) \/ Publish(u) \/ Explain(u)
             \/ Finish(u) \/ Abandon(u)
      PROVE  /\ pc'[w] = pc[w] /\ claim'[w] = claim[w]
             /\ value'[w] = value[w] /\ outcome'[w] = outcome[w]
  BY <1>1, <1>3 DEF ProcessDue, Claim, Skip, Reread, Authorize, Inspect, Load,
         Publish, Explain, Finish, Abandon, Go, Return, Conclude, WorkersOK
<1>4. CASE Skip(w) \/ Finish(w) \/ Abandon(w)
  BY <1>1, <1>4 DEF Skip, Finish, Abandon, Return, Go, WorkersOK
<1>5. CASE Reread(w) \/ Load(w)
  BY <1>1, <1>5 DEF Reread, Load, Go, WorkersOK
<1>6. CASE Authorize(w) \/ Inspect(w) \/ Publish(w) \/ Explain(w)
  BY <1>1, <1>6 DEF Authorize, Inspect, Publish, Explain, Go, Conclude,
                    WorkersOK
<1>7. QED
  BY <1>2, <1>3, <1>4, <1>5, <1>6, LocalWriters

-----------------------------------------------------------------------------
(* The invariant is inductive.                                             *)

LEMMA ClaimsStep == ASSUME IInv, [Next]_vars PROVE ClaimsOK'
<1> SUFFICES ASSUME NEW w \in Workers, pc'[w] # "idle"
             PROVE  /\ claim'[w].request \in Requests
                    /\ status'[claim'[w].request] \notin Private
                    /\ pc'[w] # "claim" => status'[claim'[w].request] \in Taken
  BY DEF ClaimsOK
<1>1. ClaimsOK /\ WorkersOK /\ RowsOK
  BY DEF IInv, TypeOK
<1>2. CASE \E r \in Requests : ProcessDue(w, r)
  <2>1. PICK r \in Requests : ProcessDue(w, r)
    BY <1>2
  <2>2. claim'[w].request = r /\ pc'[w] = "claim" /\ status[r] \notin Private
    BY <1>1, <2>1 DEF ProcessDue, Go, WorkersOK, Claims, NoClaim, Private
  <2>3. QED
    BY <2>2, RowsMove
<1>3. CASE Claim(w)
  <2> DEFINE r == claim[w].request
  <2>1. r \in Requests /\ claim' = claim
    BY <1>1, <1>3 DEF Claim, ClaimsOK
  <2>2. status'[r] = "publishing"
    BY <1>1, <1>3, <2>1 DEF Claim, RowsOK
  <2>3. QED
    BY <2>1, <2>2 DEF Private, Taken
<1>4. CASE /\ pc[w] # "idle" /\ claim'[w].request = claim[w].request
           /\ pc'[w] # "claim" => pc[w] # "claim"
  BY <1>1, <1>4, RowsMove DEF ClaimsOK
<1>5. QED
  BY <1>2, <1>3, <1>4, WorkerMoves

LEMMA ReviewStep == ASSUME IInv, [Next]_vars PROVE ReviewOK'
<1>1. ReviewOK /\ RowsOK
  BY DEF IInv, TypeOK
<1>2. CASE UNCHANGED rows
  BY <1>1, <1>2 DEF rows, ReviewOK
<1>3. ASSUME NEW q \in Requests,
             \/ ReadDraft(q) \/ CheckLock(q) \/ CreateRequest(q)
             \/ RefuseRequest(q)
      PROVE  ReviewOK'
  BY <1>1, <1>3 DEF ReadDraft, CheckLock, CreateRequest, RefuseRequest, RowsOK,
                    ReviewOK, Taken
<1>4. ASSUME NEW q \in Requests, NEW a \in Admins,
             Approve(q, a) \/ Reject(q, a) \/ Cancel(q, a)
      PROVE  ReviewOK'
  BY <1>1, <1>4, ActorAssumption
     DEF Approve, Reject, Cancel, Transition, MayReview, RowsOK, ReviewOK, Taken
<1>5. ASSUME NEW w \in Workers, Claim(w) PROVE ReviewOK'
  BY <1>1, <1>5 DEF Claim, Due, RowsOK, ReviewOK, Taken
<1>6. ASSUME NEW w \in Workers, Finish(w) PROVE ReviewOK'
  <2>1. CASE UNCHANGED rows
    BY <1>2, <2>1
  <2>2. CASE /\ Fenced(claim[w])
             /\ Transition(claim[w].request, outcome[w].status,
                        scheduledFor[claim[w].request],
                        reviewedBy[claim[w].request], outcome[w].version)
    BY <1>1, <2>2 DEF Fenced, Transition, RowsOK, ReviewOK, Taken
  <2>3. QED
    BY <1>6, <2>1, <2>2 DEF Finish
<1>7. QED
  BY <1>2, <1>3, <1>4, <1>5, <1>6, RowsWriters

LEMMA CandidateStep == ASSUME IInv, [Next]_vars PROVE CandidateOK'
<1>1. CandidateOK /\ RowsOK /\ RecordOK /\ (draft # NoDraft => updatedAt > 0)
  BY DEF IInv, TypeOK, VersionsOK
<1>2. ASSUME NEW q \in Requests, ReadDraft(q) PROVE CandidateOK'
  <2>1. draft \in Drafts /\ draft # NoDraft /\ updatedAt > 0
    BY <1>1, <1>2 DEF ReadDraft, RecordOK
  <2>2. UNCHANGED <<draft, updatedAt>>
    BY <1>2 DEF ReadDraft, record
  <2>3. draft.content \in Contents /\ updatedAt \in Nat
    BY <1>1, <2>1 DEF Drafts, RecordOK
  <2>4. QED
    BY <1>1, <1>2, <2>1, <2>2, <2>3 DEF ReadDraft, RowsOK, CandidateOK
<1>3. ASSUME NEW q \in Requests, RefuseRequest(q) PROVE CandidateOK'
  <2>1. UNCHANGED <<draft, updatedAt>>
    BY <1>3 DEF RefuseRequest, record
  <2>2. QED
    BY <1>1, <1>3, <2>1 DEF RefuseRequest, RowsOK, CandidateOK
<1>4. ASSUME UNCHANGED <<candidate, draftUpdatedAt>>,
             \A r \in Requests : status[r] = "absent" => status'[r] = "absent"
      PROVE  CandidateOK'
  BY <1>1, <1>4, RecordMoves DEF RowsOK, CandidateOK
<1> DEFINE Untouched ==
      /\ UNCHANGED <<candidate, draftUpdatedAt>>
      /\ \A r \in Requests : status[r] = "absent" => status'[r] = "absent"
<1>5. (\E q \in Requests : ReadDraft(q) \/ RefuseRequest(q)) \/ Untouched
  <2>1. CASE UNCHANGED rows
    BY <2>1 DEF rows
  <2>2. ASSUME NEW q \in Requests, CheckLock(q) \/ CreateRequest(q)
        PROVE  Untouched
    BY <1>1, <2>2 DEF CheckLock, CreateRequest, RowsOK
  <2>3. ASSUME NEW q \in Requests, NEW a \in Admins,
               Approve(q, a) \/ Reject(q, a) \/ Cancel(q, a)
        PROVE  Untouched
    BY <1>1, <2>3 DEF Approve, Reject, Cancel, Transition, RowsOK
  <2>4. ASSUME NEW w \in Workers, Claim(w) \/ Finish(w)
        PROVE  Untouched
    BY <1>1, <2>4 DEF Claim, Due, Finish, Fenced, Transition, rows, RowsOK
  <2>5. QED
    BY <2>1, <2>2, <2>3, <2>4, RowsWriters
<1>6. QED
  BY <1>2, <1>3, <1>4, <1>5

LEMMA ValueStep == ASSUME IInv, [Next]_vars PROVE ValueOK'
<1> SUFFICES ASSUME NEW w \in Workers, pc'[w] = "publish"
             PROVE  /\ value'[w] \in Drafts
                    /\ draftUpdatedAt'[claim'[w].request] = updatedAt' =>
                         /\ value'[w].content = draft'.content
                         /\ value'[w].version > publishedVersion'
  BY DEF ValueOK
<1>1. /\ ValueOK /\ ClaimsOK /\ CandidateOK
      /\ WorkersOK /\ RowsOK /\ RecordOK
  BY DEF IInv, TypeOK
<1>2. CASE /\ pc'[w] = pc[w] /\ claim'[w] = claim[w]
           /\ value'[w] = value[w] /\ outcome'[w] = outcome[w]
  <2> DEFINE r == claim[w].request
  <2>1. r \in Requests /\ status[r] \notin Private
    BY <1>1, <1>2 DEF ClaimsOK
  <2>2. draftUpdatedAt'[r] = draftUpdatedAt[r] /\ draftUpdatedAt[r] <= updatedAt
    BY <1>1, <2>1, RowsMove DEF CandidateOK, Private
  <2>3. draftUpdatedAt[r] \in Nat /\ updatedAt \in Nat
    BY <1>1, <2>1 DEF RowsOK, RecordOK
  <2>4. QED
    BY <1>1, <1>2, <2>2, <2>3, RecordMoves DEF ValueOK
<1>3. CASE Load(w)
  <2>1. draft # NoDraft /\ draft \in Drafts
    BY <1>1, <1>3 DEF Load, Go, WorkersOK, RecordOK
  <2>2. value'[w] = [draft EXCEPT !.version = NextVersion(draft)]
    BY <1>1, <1>3 DEF Load, Go, WorkersOK
  <2>3. NextVersion(draft) \in Nat /\ NextVersion(draft) > publishedVersion
    BY <1>1, <2>1 DEF NextVersion, Drafts, RecordOK
  <2>4. UNCHANGED <<draft, publishedVersion>>
    BY <1>3 DEF Load, record
  <2>5. QED
    BY <2>1, <2>2, <2>3, <2>4 DEF Drafts
<1>4. ~Claim(w) /\ ~\E r \in Requests : ProcessDue(w, r)
  BY <1>1 DEF Claim, ProcessDue, Go, WorkersOK
<1>5. QED
  BY <1>2, <1>3, <1>4, WorkerMoves

\* What a publishing step adds: a version of the candidate, from a draft of
\* the same content, under a number above all others.
LEMMA PublishAdds ==
  ASSUME IInv, NEW w \in Workers, Publish(w),
         WritePublished(value[w], claim[w].request)
  PROVE  LET r == claim[w].request IN
         /\ r \in Requests /\ status[r] \in Taken
         /\ updatedAt = draftUpdatedAt[r] /\ updatedAt' = updatedAt + 1
         /\ draft # NoDraft /\ draft.content = candidate[r]
         /\ draft' = NoDraft /\ published' = candidate[r]
         /\ publishedVersion' = value[w].version
         /\ publishedVersion' > publishedVersion
         /\ versions' = versions \union {VersionRow(value[w], r)}
         /\ VersionRow(value[w], r).number = publishedVersion'
         /\ VersionRow(value[w], r).content = candidate[r]
         /\ VersionRow(value[w], r).request = r
<1> DEFINE r == claim[w].request
<1>1. pc[w] = "publish"
  BY DEF Publish
<1>2. r \in Requests /\ status[r] \in Taken
  BY <1>1 DEF IInv, ClaimsOK
<1>3. /\ draftUpdatedAt[r] > 0
      /\ draftUpdatedAt[r] = updatedAt =>
           draft # NoDraft /\ draft.content = candidate[r]
  BY <1>2 DEF IInv, CandidateOK, Taken
<1>4. draftUpdatedAt[r] = updatedAt
  BY <1>3 DEF WritePublished, Expected
<1>5. value[w].content = draft.content /\ value[w].version > publishedVersion
  BY <1>1, <1>4 DEF IInv, ValueOK
<1>6. QED
  BY <1>2, <1>3, <1>4, <1>5 DEF WritePublished, VersionRow

\* A step that is no publication leaves the published part alone.
LEMMA OtherWrites ==
  ASSUME [Next]_vars,
         ~\E w \in Workers : Publish(w)
                            /\ WritePublished(value[w], claim[w].request)
  PROVE  UNCHANGED <<published, publishedVersion, versions>>
BY RecordWriters DEF record, SaveDraft, Disable, Publish

LEMMA VersionsStep ==
  ASSUME IInv, [Next]_vars PROVE VersionsOK' /\ PublishesOnce'
<1>1. VersionsOK /\ PublishesOnce /\ RecordOK /\ RowsOK
  BY DEF IInv, TypeOK
<1>2. \A v \in versions : v.request # NoRequest =>
        /\ v.request \in Requests /\ status'[v.request] \in Taken
        /\ v.content = candidate'[v.request]
        /\ draftUpdatedAt'[v.request] < updatedAt'
  <2> SUFFICES ASSUME NEW v \in versions, v.request # NoRequest
               PROVE  /\ v.request \in Requests
                      /\ status'[v.request] \in Taken
                      /\ v.content = candidate'[v.request]
                      /\ draftUpdatedAt'[v.request] < updatedAt'
    OBVIOUS
  <2>1. v.request \in Requests /\ v.request = v.request
    BY <1>1 DEF RecordOK
  <2>2. /\ status[v.request] \in Taken
        /\ v.content = candidate[v.request]
        /\ draftUpdatedAt[v.request] < updatedAt
    BY <1>1 DEF VersionsOK
  <2>3. status[v.request] \notin Private
    BY <2>2 DEF Taken, Private
  <2>4. draftUpdatedAt[v.request] \in Nat
    BY <1>1, <2>1 DEF RowsOK
  <2>5. QED
    BY <2>1, <2>2, <2>3, <2>4, RowsMove, RecordMoves
<1>3. draft' # NoDraft => updatedAt' > 0
  BY <1>1, RecordMoves DEF VersionsOK, RecordOK
<1>4. CASE UNCHANGED <<published, publishedVersion, versions>>
  BY <1>1, <1>2, <1>3, <1>4 DEF VersionsOK, PublishesOnce
<1>5. ASSUME NEW w \in Workers, Publish(w),
             WritePublished(value[w], claim[w].request)
      PROVE  VersionsOK' /\ PublishesOnce'
  <2> DEFINE r == claim[w].request
             new == VersionRow(value[w], r)
  <2>1. /\ r \in Requests /\ status[r] \in Taken
        /\ updatedAt = draftUpdatedAt[r] /\ updatedAt' = updatedAt + 1
        /\ publishedVersion' = value[w].version
        /\ publishedVersion' > publishedVersion
        /\ versions' = versions \union {new}
        /\ new.number = publishedVersion' /\ new.content = candidate[r]
        /\ new.request = r
    BY <1>5, PublishAdds
  <2>2. /\ status'[r] \in Taken /\ candidate'[r] = candidate[r]
        /\ draftUpdatedAt'[r] = draftUpdatedAt[r]
    BY <2>1, RowsMove DEF Taken, Private
  <2> HIDE DEF r, new
  <2>3. VersionsOK'
    BY <1>1, <1>2, <1>3, <2>1, <2>2 DEF VersionsOK, RecordOK
  <2>4. \A v \in versions : v.request # r
    <3>1. \A v \in versions : v.request = r => draftUpdatedAt[r] < updatedAt
      BY <1>1, <2>1, ActorAssumption DEF VersionsOK
    <3>2. QED
      BY <1>1, <2>1, <3>1 DEF RecordOK
  <2>5. \A u, v \in versions' : u.request = v.request => u = v
    BY <1>1, <2>1, <2>4 DEF PublishesOnce
  <2>6. \A v \in versions' : v.number <= publishedVersion'
    <3>1. \A v \in versions : v.number \in Nat /\ v.number <= publishedVersion
      BY <1>1 DEF RecordOK, PublishesOnce
    <3>2. publishedVersion \in Nat /\ publishedVersion' \in Nat
      BY <1>1, RecordStep DEF RecordOK
    <3>3. QED
      BY <2>1, <3>1, <3>2
  <2>7. QED
    BY <2>3, <2>5, <2>6 DEF PublishesOnce
<1>6. QED
  BY <1>4, <1>5, OtherWrites

LEMMA OutcomeStep == ASSUME IInv, [Next]_vars PROVE OutcomeOK'
<1> SUFFICES ASSUME NEW w \in Workers,
                    pc'[w] = "finish", outcome'[w].status = "published"
             PROVE  \E v \in versions' :
                      /\ v.number = outcome'[w].version
                      /\ v.content = candidate'[claim'[w].request]
  BY DEF OutcomeOK
<1> DEFINE r == claim[w].request
<1>1. OutcomeOK /\ ClaimsOK /\ CandidateOK /\ WorkersOK /\ RecordOK
  BY DEF IInv, TypeOK
<1>2. CASE /\ pc'[w] = pc[w] /\ claim'[w] = claim[w]
           /\ value'[w] = value[w] /\ outcome'[w] = outcome[w]
  <2>1. r \in Requests /\ status[r] \notin Private
    BY <1>1, <1>2 DEF ClaimsOK
  <2>2. QED
    BY <1>1, <1>2, <2>1, RowsMove, RecordMoves DEF OutcomeOK
<1>3. CASE Authorize(w) \/ Inspect(w) \/ Publish(w) \/ Explain(w)
  <2>1. /\ r \in Requests /\ status[r] \notin Private
        /\ claim' = claim
    BY <1>1, <1>3 DEF Authorize, Inspect, Publish, Explain, Go, Conclude,
                      ClaimsOK
  <2>2. candidate'[r] = candidate[r] /\ candidate[r] \in Contents
    BY <1>1, <2>1, RowsMove DEF CandidateOK, Private
  <2>3. ~Authorize(w)
    BY <1>1 DEF Authorize, Go, Conclude, WorkersOK
  <2>4. CASE Inspect(w) \/ Explain(w)
    <3>1. outcome'[w].version = publishedVersion /\ published = candidate[r]
      BY <1>1, <2>4 DEF Inspect, Explain, PublishedIsCandidate, Go, Conclude,
                        WorkersOK
    <3>2. published # NoContent
      BY <2>2, <3>1, ContentAssumption
    <3>3. QED
      BY <1>1, <2>1, <2>2, <3>1, <3>2, RecordMoves DEF RecordOK
  <2>5. CASE Publish(w)
    <3>1. /\ WritePublished(value[w], r)
          /\ outcome'[w].version = value[w].version
      BY <1>1, <2>5 DEF Publish, Go, Conclude, WorkersOK
    <3>2. /\ VersionRow(value[w], r) \in versions'
          /\ VersionRow(value[w], r).number = value[w].version
          /\ VersionRow(value[w], r).content = candidate[r]
      BY <2>5, <3>1, PublishAdds
    <3>3. QED
      BY <2>1, <2>2, <3>1, <3>2
  <2>6. QED
    BY <1>3, <2>3, <2>4, <2>5
<1>4. ~Claim(w) /\ ~\E q \in Requests : ProcessDue(w, q)
  BY <1>1 DEF Claim, ProcessDue, Go, WorkersOK
<1>5. QED
  BY <1>2, <1>3, <1>4, WorkerMoves

LEMMA LockStep == ASSUME IInv, [Next]_vars PROVE LockIsOpenRequest'
<1> USE DEF LockIsOpenRequest, OpenRequests, Open
<1>1. LockIsOpenRequest /\ RowsOK
  BY DEF IInv, TypeOK
<1>2. CASE UNCHANGED rows
  BY <1>1, <1>2 DEF rows
<1>3. ASSUME NEW r \in Requests,
             ReadDraft(r) \/ CheckLock(r) \/ RefuseRequest(r)
      PROVE  LockIsOpenRequest'
  BY <1>1, <1>3 DEF ReadDraft, CheckLock, RefuseRequest, RowsOK
<1>4. ASSUME NEW r \in Requests, CreateRequest(r) PROVE LockIsOpenRequest'
  BY <1>1, <1>4, ActorAssumption DEF CreateRequest, LockFree, RowsOK
<1>5. ASSUME NEW r \in Requests, NEW a \in Admins,
             Approve(r, a) \/ Reject(r, a) \/ Cancel(r, a)
      PROVE  LockIsOpenRequest'
  BY <1>1, <1>5, ActorAssumption
     DEF Approve, Reject, Cancel, Transition, LockAfter, RowsOK
<1>6. ASSUME NEW w \in Workers, Claim(w) PROVE LockIsOpenRequest'
  BY <1>1, <1>6 DEF Claim, Due, RowsOK
<1>7. ASSUME NEW w \in Workers, Finish(w) PROVE LockIsOpenRequest'
  <2> DEFINE r == claim[w].request
  <2>1. r \in Requests
          /\ outcome[w].status \in {"published", "superseded", "failed"}
    BY <1>7 DEF Finish, IInv, TypeOK, ClaimsOK, WorkersOK, Outcomes
  <2>2. CASE UNCHANGED rows
    BY <1>2, <2>2
  <2>3. CASE Fenced(claim[w]) /\ Transition(r, outcome[w].status,
               scheduledFor[r], reviewedBy[r], outcome[w].version)
    BY <1>1, <2>1, <2>3, ActorAssumption
       DEF Fenced, Transition, LockAfter, RowsOK
  <2>4. QED
    BY <1>7, <2>2, <2>3 DEF Finish
<1>8. QED
  BY <1>2, <1>3, <1>4, <1>5, <1>6, <1>7, RowsWriters

LEMMA PublishedStep == ASSUME IInv, [Next]_vars PROVE PublishedMeansVersion'
<1> SUFFICES ASSUME NEW r \in Requests, status'[r] = "published"
             PROVE  \E v \in versions' : /\ v.number = resultVersion'[r]
                                         /\ v.content = candidate'[r]
  BY DEF PublishedMeansVersion
<1>1. PublishedMeansVersion /\ RowsOK
  BY DEF IInv, TypeOK
<1> DEFINE Kept == /\ status[r] = "published" /\ candidate'[r] = candidate[r]
                   /\ resultVersion'[r] = resultVersion[r]
<1>2. CASE Kept
  BY <1>1, <1>2, RecordMoves DEF PublishedMeansVersion
<1>3. CASE UNCHANGED rows
  BY <1>2, <1>3 DEF rows
<1>4. ASSUME NEW q \in Requests,
             \/ ReadDraft(q) \/ CheckLock(q) \/ CreateRequest(q)
             \/ RefuseRequest(q)
             \/ \E a \in Admins : Approve(q, a) \/ Reject(q, a) \/ Cancel(q, a)
      PROVE  Kept
  BY <1>1, <1>4 DEF ReadDraft, CheckLock, CreateRequest, RefuseRequest, Approve,
                    Reject, Cancel, Transition, RowsOK
<1>5. ASSUME NEW w \in Workers, Claim(w) PROVE Kept
  BY <1>1, <1>5 DEF Claim, RowsOK
<1>6. ASSUME NEW w \in Workers, Finish(w)
      PROVE  \/ UNCHANGED rows \/ Kept
             \/ /\ pc[w] = "finish" /\ claim[w].request = r
                /\ outcome[w].status = "published"
                /\ candidate'[r] = candidate[r]
                /\ resultVersion'[r] = outcome[w].version
  BY <1>1, <1>6 DEF Finish, Transition, RowsOK
<1>7. ASSUME NEW w \in Workers,
             pc[w] = "finish", claim[w].request = r,
             outcome[w].status = "published", candidate'[r] = candidate[r],
             resultVersion'[r] = outcome[w].version
      PROVE  \E v \in versions' : /\ v.number = resultVersion'[r]
                                  /\ v.content = candidate'[r]
  BY <1>7, RecordMoves DEF IInv, OutcomeOK
<1>8. QED
  BY <1>2, <1>3, <1>4, <1>5, <1>6, <1>7, RowsWriters

LEMMA NextInv == IInv /\ [Next]_vars => IInv'
BY RecordStep, RowsStep, WorkersStep, EnvironmentStep, ClaimsStep, ReviewStep,
   CandidateStep, ValueStep, VersionsStep, OutcomeStep, LockStep, PublishedStep
   DEF IInv, TypeOK

-----------------------------------------------------------------------------
(* Theorems.                                                               *)

THEOREM Invariance == Spec => []IInv
<1>1. Init => IInv
  BY InitInv
<1>2. IInv /\ [Next]_vars => IInv'
  BY NextInv
<1>3. QED
  BY <1>1, <1>2, PTL DEF Spec

\* Rows, locals and versions have their types, and what is published is the
\* last version written by Store.Publish.
THEOREM TypeCorrect == Spec => []TypeOK
<1>1. IInv => TypeOK
  BY DEF IInv
<1>2. QED
  BY <1>1, Invariance, PTL

\* CreatePublicationRequest and TransitionPublicationRequest keep the lock row
\* and the status column in step: at most one request of a template is open.
THEOREM OneOpenRequest == Spec => []LockIsOpenRequest
<1>1. IInv => LockIsOpenRequest
  BY DEF IInv
<1>2. QED
  BY <1>1, Invariance, PTL

\* Whatever editors do behind the lock check, publishClaimed publishes the
\* content that was requested and approved by another administrator.
THEOREM ReviewedOnly == Spec => []PublishedWasReviewed
<1>1. IInv => PublishedWasReviewed
  <2> SUFFICES ASSUME IInv, NEW v \in versions, v.request # NoRequest
               PROVE  /\ v.content = candidate[v.request]
                      /\ reviewedBy[v.request] \notin
                           {Nobody, requestedBy[v.request]}
    BY DEF PublishedWasReviewed
  <2>1. v.request \in Requests
    BY DEF IInv, TypeOK, RecordOK
  <2>2. v.content = candidate[v.request] /\ status[v.request] \in Taken
    BY DEF IInv, VersionsOK
  <2>3. QED
    BY <2>1, <2>2 DEF IInv, ReviewOK
<1>2. QED
  BY <1>1, Invariance, PTL

\* Any number of workers that take over a request publish it once.
THEOREM OncePerRequest == Spec => []PublishesOnce
<1>1. IInv => PublishesOnce
  BY DEF IInv
<1>2. QED
  BY <1>1, Invariance, PTL

\* What publishClaimed concludes after a lost answer or a crash of another
\* worker is true: the version it records has the requested content.
THEOREM SuccessIsTrue == Spec => []PublishedMeansVersion
<1>1. IInv => PublishedMeansVersion
  BY DEF IInv
<1>2. QED
  BY <1>1, Invariance, PTL

\* Store.Publish clears no draft but the one it publishes.
THEOREM EditsSurvive == Spec => DraftIsNotLost
<1> DEFINE Kept == draft # NoDraft /\ draft' = NoDraft =>
                     published' = draft.content
<1>1. IInv /\ [Next]_vars => [Kept]_vars
  <2> SUFFICES ASSUME IInv, [Next]_vars, draft # NoDraft, draft' = NoDraft
               PROVE  published' = draft.content
    OBVIOUS
  <2>1. ASSUME NEW e \in Editors, SaveDraft(e) PROVE FALSE
    BY <2>1, ContentAssumption DEF SaveDraft, NoDraft
  <2>2. ASSUME NEW e \in Editors, Disable(e) PROVE FALSE
    BY <2>2 DEF Disable
  <2>3. ASSUME NEW w \in Workers, Publish(w) PROVE published' = draft.content
    <3>1. WritePublished(value[w], claim[w].request)
      BY <2>3 DEF Publish, record
    <3>2. QED
      BY <2>3, <3>1, PublishAdds
  <2>4. ~UNCHANGED record
    BY DEF record
  <2>5. QED
    BY <2>1, <2>2, <2>3, <2>4, RecordWriters
<1>2. QED
  BY <1>1, Invariance, PTL DEF Spec, DraftIsNotLost
=============================================================================

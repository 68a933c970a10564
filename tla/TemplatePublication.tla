------------------------ MODULE TemplatePublication ------------------------
(***************************************************************************)
(* The publication of one template: its row of _notification_templates,    *)
(* its versions, the publication requests with their lock row, the         *)
(* administrators who edit, request and review, and the workers who        *)
(* publish what was approved.                                              *)
(*                                                                         *)
(* Every store call is one step, and a serializable transaction is one     *)
(* step too.  Editors and workers run in processes of their own, so that   *)
(* the manager's mutex, which serialises one process, orders nothing here. *)
(* The timestamps of the row are the numbers of its writes: no two writes  *)
(* of a template fall into the same nanosecond.                            *)
(***************************************************************************)
EXTENDS Integers, FiniteSets

CONSTANTS
  Contents,          \* what PublicationCandidateHash tells apart
  NoContent,         \* draft_json or published_json is NULL
  Seeds,             \* what SyncPublished may find: contents, or no record
  DraftVersions,     \* the version numbers drafts are saved with
  Requests,          \* publication requests
  NoRequest,         \* no lock row; or: not published by a request
  Admins,            \* who requests and reviews
  Nobody,            \* the empty reviewed_by
  Editors,           \* concurrent calls of SaveDraft and Disable
  Workers,           \* concurrent runs of the publication processor
  OwnerOf,           \* the WorkerID of a worker's process
  NoOwner,           \* the empty lease_owner
  Delays,            \* how far ahead a publication is scheduled, 0 for ""
  LeaseDuration,     \* publicationLeaseDuration
  MaxTime,           \* bound: the clock stops here
  MaxWrites,         \* bound: writes of the template after which no edit begins
  MaxFaults          \* bound: how often a worker or a database call fails

ASSUME ContentAssumption ==
  /\ NoContent \notin Contents /\ Seeds \subseteq Contents \union {NoContent}
  /\ DraftVersions \subseteq Nat \ {0}
ASSUME ActorAssumption ==
  /\ NoRequest \notin Requests /\ Nobody \notin Admins
  /\ \A w \in Workers : OwnerOf[w] # NoOwner
ASSUME LimitAssumption ==
  /\ Delays \subseteq Nat /\ LeaseDuration \in Nat \ {0}
  /\ MaxTime \in Nat /\ MaxWrites \in Nat /\ MaxFaults \in Nat

VARIABLES
  (* the template's row *)
  draft, published, publishedVersion, updatedAt, active,
  versions,     \* rows of _notification_template_versions
  (* the row of each request, and the lock *)
  status, candidate, draftUpdatedAt, scheduledFor, requestedBy, reviewedBy,
  resultVersion, leaseOwner, leaseExpiresAt, fencingToken,
  lock,
  (* the local state of each editor and worker *)
  editing,
  pc, now, claim, value, outcome,
  (* environment and bookkeeping *)
  clock, faults

record == <<draft, published, publishedVersion, updatedAt, active, versions>>
rows == <<status, candidate, draftUpdatedAt, scheduledFor, requestedBy,
          reviewedBy, resultVersion, leaseOwner, leaseExpiresAt, fencingToken,
          lock>>
local == <<pc, now, claim, value, outcome>>
vars == <<record, rows, editing, local, clock, faults>>

Owners == {OwnerOf[w] : w \in Workers} \union {NoOwner}
Drafts == [content : Contents, version : Nat]
NoDraft == [content |-> NoContent, version |-> 0]
Outcomes == [status : {"published", "superseded", "failed"}, version : Nat]
NoOutcome == [status |-> "failed", version |-> 0]
Claims == [request : Requests, owner : Owners, token : Nat]
NoClaim == [request |-> NoRequest, owner |-> NoOwner, token |-> 0]

Open == {"pending", "scheduled", "publishing"}
OpenRequests == {r \in Requests : status[r] \in Open}

-----------------------------------------------------------------------------
(* Reading and writing the template.                                       *)

\* Faulty: whatever has been saved since is overwritten.
ExpectedAtAnyTime(expected) == TRUE

\* expectedUpdatedAt; 0 stands for the empty one.
Expected(expected) == expected = 0 \/ expected = updatedAt

\* Faulty: the number of the draft is taken as it is.
NumberOfDraft(d) == d.version

\* publishLocked: the draft's own number, unless it has been used up.
NextVersion(d) == IF d.version <= publishedVersion THEN publishedVersion + 1
                  ELSE d.version

\* Faulty: the version keeps the number its draft was saved with.
RowOfDraft(d, r) ==
  [number |-> draft.version, content |-> d.content, request |-> r]

VersionRow(d, r) ==
  [number |-> d.version, content |-> d.content, request |-> r]

\* Store.Publish, one transaction: the draft becomes the published content.
WritePublished(d, r) ==
  /\ Expected(draftUpdatedAt[r])
  /\ \A v \in versions : v.number # d.version
  /\ draft' = NoDraft
  /\ published' = d.content
  /\ publishedVersion' = d.version
  /\ active' = TRUE
  /\ updatedAt' = updatedAt + 1
  /\ versions' = versions \union {VersionRow(d, r)}

-----------------------------------------------------------------------------
(* Requests, leases and workers.                                           *)

Due(r, t) ==
  \/ status[r] = "scheduled" /\ scheduledFor[r] <= t
  \/ status[r] = "publishing" /\ leaseExpiresAt[r] <= t

Fenced(c) == /\ status[c.request] = "publishing"
             /\ leaseOwner[c.request] = c.owner
             /\ fencingToken[c.request] = c.token

\* Faulty: the lock row of a closed request stays.
LockKept(r, next) == lock

\* A transition to a status that is not open deletes the lock row.
LockAfter(r, next) == IF next \notin Open /\ lock = r THEN NoRequest ELSE lock

\* TransitionPublicationRequest, one transaction.
Transition(r, next, when, reviewer, version) ==
  /\ status' = [status EXCEPT ![r] = next]
  /\ scheduledFor' = [scheduledFor EXCEPT ![r] = when]
  /\ reviewedBy' = [reviewedBy EXCEPT ![r] = reviewer]
  /\ resultVersion' = [resultVersion EXCEPT ![r] = version]
  /\ leaseOwner' = [leaseOwner EXCEPT ![r] = NoOwner]
  /\ leaseExpiresAt' = [leaseExpiresAt EXCEPT ![r] = 0]
  /\ lock' = LockAfter(r, next)
  /\ UNCHANGED <<candidate, draftUpdatedAt, requestedBy, fencingToken>>

Go(w, next) == pc' = [pc EXCEPT ![w] = next]

Return(w) == /\ Go(w, "idle")
             /\ now' = [now EXCEPT ![w] = 0]
             /\ claim' = [claim EXCEPT ![w] = NoClaim]
             /\ value' = [value EXCEPT ![w] = NoDraft]
             /\ outcome' = [outcome EXCEPT ![w] = NoOutcome]

\* publishClaimed has come to a result and calls finish.
Conclude(w, result, version) ==
  /\ Go(w, "finish")
  /\ outcome' = [outcome EXCEPT ![w] = [status |-> result,
                                        version |-> version]]
  /\ UNCHANGED <<now, claim, value>>

\* A database call may fail, a bounded number of times.
Fault == faults < MaxFaults /\ faults' = faults + 1

-----------------------------------------------------------------------------
(* Actions of administrators.                                              *)

\* NewEngine and SyncPublished: the template is seeded, or not known yet.
Init ==
  /\ \E s \in Seeds :
       LET n == IF s = NoContent THEN 0 ELSE 1 IN
       /\ published = s /\ publishedVersion = n /\ updatedAt = n
       /\ versions = IF s = NoContent THEN {}
                     ELSE {[number |-> 1, content |-> s,
                            request |-> NoRequest]}
  /\ draft = NoDraft /\ active = TRUE
  /\ status = [r \in Requests |-> "absent"]
  /\ candidate = [r \in Requests |-> NoContent]
  /\ draftUpdatedAt = [r \in Requests |-> 0]
  /\ scheduledFor = [r \in Requests |-> 0]
  /\ requestedBy = [r \in Requests |-> Nobody]
  /\ reviewedBy = [r \in Requests |-> Nobody]
  /\ resultVersion = [r \in Requests |-> 0]
  /\ leaseOwner = [r \in Requests |-> NoOwner]
  /\ leaseExpiresAt = [r \in Requests |-> 0]
  /\ fencingToken = [r \in Requests |-> 0]
  /\ lock = NoRequest
  /\ editing = [e \in Editors |-> FALSE]
  /\ pc = [w \in Workers |-> "idle"]
  /\ now = [w \in Workers |-> 0]
  /\ claim = [w \in Workers |-> NoClaim]
  /\ value = [w \in Workers |-> NoDraft]
  /\ outcome = [w \in Workers |-> NoOutcome]
  /\ clock = 1
  /\ faults = 0

\* ensureUnlocked, the first store call of SaveDraft, RestoreVersionDraft and
\* Disable.
EnsureUnlocked(e) ==
  /\ ~editing[e]
  /\ updatedAt < MaxWrites
  /\ OpenRequests = {}
  /\ editing' = [editing EXCEPT ![e] = TRUE]
  /\ UNCHANGED <<record, rows, local, clock, faults>>

\* The edit is refused or has failed.
GiveUpEdit(e) ==
  /\ editing[e]
  /\ editing' = [editing EXCEPT ![e] = FALSE]
  /\ UNCHANGED <<record, rows, local, clock, faults>>

\* Store.SaveDraft, with a new content or that of a restored version, and an
\* expectation that holds or none.
SaveDraft(e) ==
  /\ editing[e]
  /\ \E c \in Contents, n \in DraftVersions :
       draft' = [content |-> c, version |-> n]
  /\ active' = TRUE
  /\ updatedAt' = updatedAt + 1
  /\ editing' = [editing EXCEPT ![e] = FALSE]
  /\ UNCHANGED <<published, publishedVersion, versions, rows, local, clock,
                 faults>>

\* Store.Disable.
Disable(e) ==
  /\ editing[e]
  /\ updatedAt > 0
  /\ active' = FALSE
  /\ updatedAt' = updatedAt + 1
  /\ editing' = [editing EXCEPT ![e] = FALSE]
  /\ UNCHANGED <<draft, published, publishedVersion, versions, rows, local,
                 clock, faults>>

\* Request, first store call: the draft as it is now is the snapshot.
ReadDraft(r) ==
  /\ status[r] = "absent"
  /\ draft # NoDraft
  /\ status' = [status EXCEPT ![r] = "reading"]
  /\ candidate' = [candidate EXCEPT ![r] = draft.content]
  /\ draftUpdatedAt' = [draftUpdatedAt EXCEPT ![r] = updatedAt]
  /\ UNCHANGED <<record, scheduledFor, requestedBy, reviewedBy, resultVersion,
                 leaseOwner, leaseExpiresAt, fencingToken, lock, editing,
                 local, clock, faults>>

\* Request, second store call: HasOpenPublicationRequest says no.
CheckLock(r) ==
  /\ status[r] = "reading"
  /\ OpenRequests = {}
  /\ status' = [status EXCEPT ![r] = "checked"]
  /\ UNCHANGED <<record, candidate, draftUpdatedAt, scheduledFor, requestedBy,
                 reviewedBy, resultVersion, leaseOwner, leaseExpiresAt,
                 fencingToken, lock, editing, local, clock, faults>>

\* Faulty: the transaction inserts no lock row.
LockFreeAlways == TRUE

\* The primary key of the lock table.
LockFree == lock = NoRequest

\* CreatePublicationRequest, one transaction: the lock row and the request.
CreateRequest(r) ==
  /\ status[r] = "checked"
  /\ LockFree
  /\ lock' = r
  /\ status' = [status EXCEPT ![r] = "pending"]
  /\ \E a \in Admins : requestedBy' = [requestedBy EXCEPT ![r] = a]
  /\ \E d \in Delays : scheduledFor' =
       [scheduledFor EXCEPT ![r] = IF d = 0 THEN 0 ELSE clock + d]
  /\ UNCHANGED <<record, candidate, draftUpdatedAt, reviewedBy, resultVersion,
                 leaseOwner, leaseExpiresAt, fencingToken, editing, local,
                 clock, faults>>

\* Request is refused: by the check, by the lock, or by the validation.
RefuseRequest(r) ==
  /\ status[r] \in {"reading", "checked"}
  /\ status' = [status EXCEPT ![r] = "absent"]
  /\ candidate' = [candidate EXCEPT ![r] = NoContent]
  /\ draftUpdatedAt' = [draftUpdatedAt EXCEPT ![r] = 0]
  /\ UNCHANGED <<record, scheduledFor, requestedBy, reviewedBy, resultVersion,
                 leaseOwner, leaseExpiresAt, fencingToken, lock, editing,
                 local, clock, faults>>

\* Faulty: requesters may approve their own requests.
MayReviewAny(r, a) == TRUE

MayReview(r, a) == requestedBy[r] # a

\* Approve, Reject, Cancel: what was read before the transition cannot change
\* while the status, which the transition compares, stays.
Approve(r, a) ==
  /\ status[r] = "pending"
  /\ MayReview(r, a)
  /\ Transition(r, "scheduled", IF scheduledFor[r] = 0 THEN clock
                                ELSE scheduledFor[r], a, 0)
  /\ UNCHANGED <<record, editing, local, clock, faults>>

Reject(r, a) ==
  /\ status[r] = "pending"
  /\ MayReview(r, a)
  /\ Transition(r, "rejected", 0, a, 0)
  /\ UNCHANGED <<record, editing, local, clock, faults>>

Cancel(r, a) ==
  /\ status[r] \in {"pending", "scheduled"}
  /\ Transition(r, "cancelled", 0, a, 0)
  /\ UNCHANGED <<record, editing, local, clock, faults>>

-----------------------------------------------------------------------------
(* Actions of workers.                                                     *)

\* ProcessDue lists the due requests, one at most of a template; Process is
\* called with the identity of any.
ProcessDue(w, r) ==
  /\ pc[w] = "idle"
  /\ status[r] \notin {"absent", "reading", "checked"}
  /\ Go(w, "claim")
  /\ now' = [now EXCEPT ![w] = clock]
  /\ claim' = [claim EXCEPT ![w].request = r]
  /\ UNCHANGED <<record, rows, editing, value, outcome, clock, faults>>

\* ClaimPublicationRequest, first statement: the conditional UPDATE.
Claim(w) ==
  LET r == claim[w].request IN
  /\ pc[w] = "claim"
  /\ Due(r, now[w])
  /\ status' = [status EXCEPT ![r] = "publishing"]
  /\ leaseOwner' = [leaseOwner EXCEPT ![r] = OwnerOf[w]]
  /\ leaseExpiresAt' = [leaseExpiresAt EXCEPT ![r] = now[w] + LeaseDuration]
  /\ fencingToken' = [fencingToken EXCEPT ![r] = @ + 1]
  /\ Go(w, "reread")
  /\ UNCHANGED <<record, candidate, draftUpdatedAt, scheduledFor, requestedBy,
                 reviewedBy, resultVersion, lock, editing, now, claim, value,
                 outcome, clock, faults>>

\* The UPDATE matched no row.
Skip(w) ==
  /\ pc[w] = "claim"
  /\ ~Due(claim[w].request, now[w])
  /\ Return(w)
  /\ UNCHANGED <<record, rows, editing, clock, faults>>

\* Second statement: GetPublicationRequest, by the ID alone.
Reread(w) ==
  LET r == claim[w].request IN
  /\ pc[w] = "reread"
  /\ claim' = [claim EXCEPT ![w] = [request |-> r, owner |-> leaseOwner[r],
                                    token |-> fencingToken[r]]]
  /\ Go(w, "authorize")
  /\ UNCHANGED <<record, rows, editing, now, value, outcome, clock, faults>>

\* authorizeResumed: whether the reviewer may still publish, says the host.
Authorize(w) ==
  /\ pc[w] = "authorize"
  /\ \/ Go(w, "inspect") /\ UNCHANGED <<now, claim, value, outcome>>
     \/ Conclude(w, "failed", 0)
  /\ UNCHANGED <<record, rows, editing, clock, faults>>

\* Faulty: the time stamp of the draft is not compared.
SameContent(r) == draft.content = candidate[r]

\* The draft is still the one that was requested.
Unchanged(r) == /\ draft # NoDraft
                /\ updatedAt = draftUpdatedAt[r]
                /\ draft.content = candidate[r]

\* publishClaimed reads the template: published by an earlier run, changed,
\* or ready.
Inspect(w) ==
  LET r == claim[w].request
      done == draft = NoDraft /\ published = candidate[r]
  IN /\ pc[w] = "inspect"
     /\ \/ done /\ Conclude(w, "published", publishedVersion)
        \/ ~done /\ ~Unchanged(r) /\ Conclude(w, "superseded", 0)
        \/ ~done /\ Unchanged(r) /\ Go(w, "load")
           /\ UNCHANGED <<now, claim, value, outcome>>
     /\ UNCHANGED <<record, rows, editing, clock, faults>>

\* publishLocked reads the template again and validates the draft.
Load(w) ==
  /\ pc[w] = "load"
  /\ \/ /\ draft # NoDraft
        /\ value' = [value EXCEPT ![w] = [draft EXCEPT !.version =
                                            NextVersion(draft)]]
        /\ Go(w, "publish")
     \/ Go(w, "explain") /\ UNCHANGED value
  /\ UNCHANGED <<record, rows, editing, now, claim, outcome, clock, faults>>

\* Store.Publish and Engine.Upsert: committed; committed, but the answer is
\* lost or the catalog refuses it; or in conflict.
Publish(w) ==
  LET r == claim[w].request IN
  /\ pc[w] = "publish"
  /\ \/ /\ WritePublished(value[w], r)
        /\ \/ Conclude(w, "published", value[w].version)
           \/ Go(w, "explain") /\ UNCHANGED <<now, claim, value, outcome>>
     \/ /\ \/ ~Expected(draftUpdatedAt[r])
           \/ \E v \in versions : v.number = value[w].version
        /\ Go(w, "explain")
        /\ UNCHANGED <<record, now, claim, value, outcome>>
  /\ UNCHANGED <<rows, editing, clock, faults>>

\* Faulty: whatever is published is taken for the candidate.
AnyPublished(r) == published # NoContent

PublishedIsCandidate(r) == published = candidate[r]

\* After an error publishClaimed reads the template once more; if that fails
\* too, the request has failed.
Explain(w) ==
  LET r == claim[w].request IN
  /\ pc[w] = "explain"
  /\ \/ /\ PublishedIsCandidate(r)
        /\ Conclude(w, "published", publishedVersion)
        /\ UNCHANGED faults
     \/ /\ ~PublishedIsCandidate(r)
        /\ Conclude(w, "failed", 0)
        /\ UNCHANGED faults
     \/ Conclude(w, "failed", 0) /\ Fault
  /\ UNCHANGED <<record, rows, editing, clock>>

\* finish: the fenced transition, or somebody else's lease.
Finish(w) ==
  LET r == claim[w].request IN
  /\ pc[w] = "finish"
  /\ \/ /\ Fenced(claim[w])
        /\ Transition(r, outcome[w].status, scheduledFor[r], reviewedBy[r],
                      outcome[w].version)
     \/ ~Fenced(claim[w]) /\ UNCHANGED rows
  /\ Return(w)
  /\ UNCHANGED <<record, editing, clock, faults>>

\* A crash, a cancelled context or an error between two store calls.
Abandon(w) ==
  /\ pc[w] # "idle"
  /\ Fault
  /\ Return(w)
  /\ UNCHANGED <<record, rows, editing, clock>>

Tick ==
  /\ clock < MaxTime
  /\ clock' = clock + 1
  /\ UNCHANGED <<record, rows, editing, local, faults>>

Next ==
  \/ \E e \in Editors : \/ EnsureUnlocked(e) \/ GiveUpEdit(e)
                        \/ SaveDraft(e) \/ Disable(e)
  \/ \E r \in Requests : \/ ReadDraft(r) \/ CheckLock(r)
                         \/ CreateRequest(r) \/ RefuseRequest(r)
  \/ \E r \in Requests, a \in Admins : \/ Approve(r, a) \/ Reject(r, a)
                                       \/ Cancel(r, a)
  \/ \E w \in Workers, r \in Requests : ProcessDue(w, r)
  \/ \E w \in Workers : \/ Claim(w) \/ Skip(w) \/ Reread(w)
                        \/ Authorize(w) \/ Inspect(w) \/ Load(w)
                        \/ Publish(w) \/ Explain(w) \/ Finish(w)
                        \/ Abandon(w)
  \/ Tick

Spec == Init /\ [][Next]_vars

-----------------------------------------------------------------------------
(* Properties.                                                             *)

Statuses == Open \union {"absent", "reading", "checked", "published",
                         "superseded", "failed", "rejected", "cancelled"}

\* The row of the template: what is published is its last version.
RecordOK ==
  /\ draft \in Drafts \union {NoDraft}
  /\ published \in Contents \union {NoContent}
  /\ publishedVersion \in Nat /\ updatedAt \in Nat
  /\ active \in BOOLEAN
  /\ versions \subseteq [number : Nat, content : Contents,
                         request : Requests \union {NoRequest}]
  /\ published # NoContent =>
       \E v \in versions : v.number = publishedVersion /\ v.content = published

\* The rows of the requests and the lock.
RowsOK ==
  /\ status \in [Requests -> Statuses]
  /\ candidate \in [Requests -> Contents \union {NoContent}]
  /\ draftUpdatedAt \in [Requests -> Nat]
  /\ scheduledFor \in [Requests -> Nat]
  /\ requestedBy \in [Requests -> Admins \union {Nobody}]
  /\ reviewedBy \in [Requests -> Admins \union {Nobody}]
  /\ resultVersion \in [Requests -> Nat]
  /\ leaseOwner \in [Requests -> Owners]
  /\ leaseExpiresAt \in [Requests -> Nat]
  /\ fencingToken \in [Requests -> Nat]
  /\ lock \in Requests \union {NoRequest}

\* The locals of the workers.
WorkersOK ==
  /\ pc \in [Workers -> {"idle", "claim", "reread", "authorize", "inspect",
                         "load", "publish", "explain", "finish"}]
  /\ now \in [Workers -> Nat]
  /\ claim \in [Workers -> Claims \union {NoClaim}]
  /\ value \in [Workers -> Drafts \union {NoDraft}]
  /\ outcome \in [Workers -> Outcomes]

\* The locals of the editors, the clock and the count of faults.
EnvironmentOK ==
  /\ editing \in [Editors -> BOOLEAN]
  /\ clock \in Nat /\ faults \in Nat

\* Type invariant: the values the columns and the locals can hold; the row
\* and the table of versions agree on what is published.
TypeOK == RecordOK /\ RowsOK /\ WorkersOK /\ EnvironmentOK

\* The lock row and the status column tell the same story: one open request
\* holds the lock, or none is open and the lock is free.
LockIsOpenRequest == OpenRequests = {lock} \ {NoRequest}

\* Whatever a request has published is the content that was requested, read
\* and approved by somebody else, however often the draft was edited meanwhile.
PublishedWasReviewed ==
  \A v \in versions : v.request # NoRequest =>
    /\ v.content = candidate[v.request]
    /\ reviewedBy[v.request] \notin {Nobody, requestedBy[v.request]}

\* A request publishes once, however many workers take it over, and version
\* numbers only grow.
PublishesOnce ==
  /\ \A u, v \in versions : u.request = v.request => u = v
  /\ \A v \in versions : v.number <= publishedVersion

\* A request is recorded as published only with a version of its content.
PublishedMeansVersion ==
  \A r \in Requests : status[r] = "published" =>
    \E v \in versions : v.number = resultVersion[r] /\ v.content = candidate[r]

\* Publishing never swallows an edit: a draft that disappears is what has
\* just been published.
DraftIsNotLost ==
  [][draft # NoDraft /\ draft' = NoDraft =>
       published' = draft.content]_vars
=============================================================================

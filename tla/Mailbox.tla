------------------------------- MODULE Mailbox -------------------------------
(***************************************************************************)
(* What users do with a mailbox of inbox items: they page through it,      *)
(* their own, a report's or that of somebody who has delegated it to them, *)
(* open an item, and mark, archive and acknowledge their own items, while  *)
(* the inbox worker rewrites items and owners change their delegations.    *)
(*                                                                         *)
(* A call is one or more requests of one client.  A request is two steps:  *)
(* the binding works out who the caller may read (for a delegated mailbox  *)
(* this is a query) and reads the clock, and then the store runs its       *)
(* statement or transaction.  Paging repeats both steps for every page.    *)
(* Time is a natural number and 0 the empty timestamp; a read_at or        *)
(* archived_at is only ever compared with "", so each is a flag here.      *)
(***************************************************************************)
EXTENDS Integers, FiniteSets

CONSTANTS
  Users,
  Nobody,            \* no team member selected
  Items,             \* item IDs, ordered as their strings are
  RecipientOf,       \* whose mailbox an item is in
  Contents,          \* what materialisation can write into an item
  NoItem,
  Reports,           \* the reporting scope the identity service names
  DelegationIDs,     \* IDs of delegations, chosen by the client or hashed
  NoDelegation,
  Callers,           \* concurrent clients
  Queries,           \* bound: what the clients ask for
  Windows,           \* bound: the <<starts_at, ends_at>> of delegations
  Limit,             \* page size
  WorkerDelay,       \* bound: how old a worker's timestamp may be
  MaxTime,           \* bound: the clock stops here
  MaxChanges         \* bound: writes to items and to delegations

Scopes == {"mine", "team", "delegated"}
Mailboxes == {"inbox", "unread", "action_required", "archived"}
Operations == {"list", "get", "resolve", "mark_all_read", "set"}
Phases == {"idle", "scoped", "paging", "done"}

ASSUME MailboxAssumption ==
  /\ Users # {} /\ Nobody \notin Users
  /\ Items \subseteq Nat /\ RecipientOf \in [Items -> Users]
  /\ Contents \subseteq [action : {"none", "open", "completed"},
                         alert : {"", "firing", "resolved"}]
  /\ Reports \in [Users -> SUBSET Users]
  /\ Queries \subseteq [op : Operations, scope : Scopes,
                        member : Users \union {Nobody}, mailbox : Mailboxes]
  /\ \A q \in Queries : q.op = "set" => q.scope = "mine" /\ q.member = Nobody
  /\ Windows \subseteq Nat \X Nat

ASSUME BoundAssumption == /\ Limit \in Nat \ {0} /\ WorkerDelay \in Nat
                          /\ MaxTime \in Nat \ {0} /\ MaxChanges \in Nat

Times == 1 .. MaxTime

ItemRows == [updated : Times, read : BOOLEAN, archived : BOOLEAN,
             action : {"none", "open", "completed"},
             alert : {"", "firing", "acknowledged", "resolved"}]

DelegationRows == [owner : Users, delegate : Users, starts : Nat, ends : Nat,
                   enabled : BOOLEAN]

ASSUME AbsenceAssumption == NoItem \notin ItemRows /\ NoDelegation \notin DelegationRows

VARIABLES
  items,         \* _notification_inbox_items
  delegations,   \* _notification_inbox_delegations
  call,          \* the call each client has under way
  clock, changes

vars == <<items, delegations, call, clock, changes>>

NoCursor == [updated |-> 0, id |-> 0]
Cursors == [updated : Nat, id : Nat]

\* entitled, pages and steady are history: who had granted access when the
\* request was authorised, how often each item has been listed, and which
\* items have been in the view and untouched since the first page.
Calls == [phase : Phases, op : Operations, viewer : Users, scope : Scopes,
          member : Users \union {Nobody}, mailbox : Mailboxes,
          owners : SUBSET Users, now : Nat, cursor : Cursors,
          page : SUBSET Items, entitled : SUBSET Users,
          pages : [Items -> Nat], steady : SUBSET Items]

-----------------------------------------------------------------------------
(* Who may read what.                                                      *)

\* Faulty: a delegation lasts for ever.
NeverEnds(d, t) == d.enabled /\ d.starts <= t

\* WHERE enabled AND starts_at <= now AND ends_at > now, "" being open.
Active(d, t) == /\ d.enabled
                /\ d.starts <= t
                /\ d.ends = 0 \/ d.ends > t

ListActiveDelegatedOwnerIDs(user, t) ==
  {o \in Users : \E id \in DelegationIDs :
     LET d == delegations[id]
     IN d # NoDelegation /\ d.owner = o /\ d.delegate = user /\ Active(d, t)}

\* ValidateQuery: the users whose items the query may touch; none is a refusal.
Recipients(q) ==
  LET all == CASE q.scope = "mine"      -> {q.viewer}
               [] q.scope = "team"      -> Reports[q.viewer]
               [] q.scope = "delegated" -> q.owners
  IN IF q.member = Nobody THEN all ELSE all \intersect {q.member}

InMailbox(row, mailbox) ==
  CASE mailbox = "inbox"           -> ~row.archived
    [] mailbox = "unread"          -> ~row.archived /\ ~row.read
    [] mailbox = "action_required" -> ~row.archived /\ row.action = "open"
    [] mailbox = "archived"        -> row.archived

\* mailboxPredicate without its cursor.
Selected(q, i) == /\ items[i] # NoItem
                  /\ RecipientOf[i] \in Recipients(q)
                  /\ InMailbox(items[i], q.mailbox)

\* Faulty: the cursor compares the timestamp alone.
BeforeByTime(i, cursor) ==
  cursor = NoCursor \/ items[i].updated < cursor.updated

\* The cursor's condition on (updated_at, id).
Before(i, cursor) ==
  \/ cursor = NoCursor
  \/ items[i].updated < cursor.updated
  \/ items[i].updated = cursor.updated /\ i < cursor.id

\* ORDER BY updated_at DESC, id DESC.
Newer(i, j) == \/ items[i].updated > items[j].updated
               \/ items[i].updated = items[j].updated /\ i > j

\* Faulty: the row that only tells whether more follow is returned too.
Untrimmed(page, rows) ==
  /\ Cardinality(page) <= Limit + 1
  /\ page = rows \/ Cardinality(page) = Limit + 1
  /\ \A i \in page, j \in rows \ page : Newer(i, j)

\* The first Limit of the rows; fewer only if there are no more.
IsFirstPage(page, rows) ==
  /\ Cardinality(page) <= Limit
  /\ page = rows \/ Cardinality(page) = Limit
  /\ \A i \in page, j \in rows \ page : Newer(i, j)

-----------------------------------------------------------------------------
Idle == [phase |-> "idle", op |-> "list", viewer |-> CHOOSE u \in Users : TRUE,
         scope |-> "mine", member |-> Nobody, mailbox |-> "inbox",
         owners |-> {}, now |-> 0, cursor |-> NoCursor, page |-> {},
         entitled |-> {}, pages |-> [i \in Items |-> 0], steady |-> {}]

Init ==
  /\ items = [i \in Items |-> NoItem]
  /\ delegations = [id \in DelegationIDs |-> NoDelegation]
  /\ call = [c \in Callers |-> Idle]
  /\ clock = 1 /\ changes = 0

Change == /\ changes < MaxChanges /\ changes' = changes + 1
          /\ UNCHANGED clock

\* What a write has touched is steady for nobody any more.
Unsteady(calls, touched) ==
  [c \in Callers |-> [calls[c] EXCEPT !.steady = @ \ touched]]

Tick == /\ clock < MaxTime /\ clock' = clock + 1
        /\ UNCHANGED <<items, delegations, call, changes>>

-----------------------------------------------------------------------------
(* Requests.                                                               *)

\* Whoever holds an enabled delegation whose time includes t.
Grants(user, t) ==
  {d.owner : d \in {e \in {delegations[id] : id \in DelegationIDs} \ {NoDelegation} :
     e.delegate = user /\ e.enabled /\ e.starts <= t /\ (e.ends > 0 => t < e.ends)}}

\* Faulty: the next page trusts the owners found for the page before.
OwnersOnce(q) == IF q.scope # "delegated" THEN {}
                 ELSE IF q.owners # {} THEN q.owners
                      ELSE ListActiveDelegatedOwnerIDs(q.viewer, clock)

\* scopeForAction: only a delegated mailbox needs the owners.
DelegatedOwners(q) == IF q.scope = "delegated"
                      THEN ListActiveDelegatedOwnerIDs(q.viewer, clock) ELSE {}

Scoped(q) == [q EXCEPT !.phase = "scoped", !.owners = DelegatedOwners(q),
                       !.now = clock, !.page = {},
                       !.entitled = Grants(q.viewer, clock)]

\* The binding fixes the viewer to the caller, and the scope of a change to a
\* single item to the caller's own mailbox.
Request(c) ==
  /\ call[c].phase = "idle"
  /\ \E q \in Queries, viewer \in Users :
       call' = [call EXCEPT ![c] =
         Scoped([Idle EXCEPT !.op = q.op, !.viewer = viewer, !.scope = q.scope,
                             !.member = q.member, !.mailbox = q.mailbox])]
  /\ UNCHANGED <<items, delegations, clock, changes>>

NextPage(c) ==
  /\ call[c].phase = "paging"
  /\ call' = [call EXCEPT ![c] = Scoped(call[c])]
  /\ UNCHANGED <<items, delegations, clock, changes>>

\* The client reads the answer, or gives up paging.
Finish(c) ==
  /\ call[c].phase \in {"paging", "done"}
  /\ call' = [call EXCEPT ![c] = Idle]
  /\ UNCHANGED <<items, delegations, clock, changes>>

\* A query without recipients is refused before it reaches the store.
Refuse(c) ==
  LET q == call[c]
  IN /\ q.phase = "scoped"
     /\ \/ Recipients(q) = {}
        \/ q.op \in {"resolve", "mark_all_read"} /\ q.scope # "mine"
     /\ call' = [call EXCEPT ![c] = Idle]
     /\ UNCHANGED <<items, delegations, clock, changes>>

\* What is left to list.
Rows(q) == {i \in Items : Selected(q, i) /\ Before(i, q.cursor)}

Listed(q, page) ==
  [q EXCEPT !.page = page,
            !.pages = [i \in Items |-> IF i \in page THEN q.pages[i] + 1 ELSE q.pages[i]],
            !.steady = IF q.cursor = NoCursor THEN {i \in Items : Selected(q, i)}
                       ELSE {i \in q.steady : RecipientOf[i] \in Recipients(q)}]

\* List and ListItems: the page, and a cursor behind its last row if more follow.
List(c) ==
  LET q == call[c]
  IN /\ q.phase = "scoped" /\ q.op = "list" /\ Recipients(q) # {}
     /\ \E page \in SUBSET Rows(q) :
          /\ IsFirstPage(page, Rows(q))
          /\ \/ /\ page = Rows(q)
                /\ call' = [call EXCEPT ![c] = [Listed(q, page) EXCEPT !.phase = "done"]]
             \/ /\ page # Rows(q)
                /\ \E last \in page :
                     /\ \A i \in page \ {last} : Newer(i, last)
                     /\ call' = [call EXCEPT ![c] =
                          [Listed(q, page) EXCEPT !.phase = "paging",
                             !.cursor = [updated |-> items[last].updated, id |-> last]]]
     /\ UNCHANGED <<items, delegations, clock, changes>>

\* GetItem: mailboxAccessPredicate ignores the mailbox.
Get(c) ==
  LET q == call[c]
  IN /\ q.phase = "scoped" /\ q.op = "get" /\ Recipients(q) # {}
     /\ \E i \in Items :
          /\ items[i] # NoItem /\ RecipientOf[i] \in Recipients(q)
          /\ call' = [call EXCEPT ![c].phase = "done", ![c].page = {i}]
     /\ UNCHANGED <<items, delegations, clock, changes>>

\* Resolve: where the owner, and nobody else, may go to settle the action.
ResolveAction(c) ==
  LET q == call[c]
  IN /\ q.phase = "scoped" /\ q.op = "resolve" /\ q.scope = "mine"
     /\ \E i \in Items :
          /\ items[i] # NoItem /\ RecipientOf[i] \in Recipients(q)
          /\ items[i].action # "completed"
          /\ call' = [call EXCEPT ![c].phase = "done", ![c].page = {i}]
     /\ UNCHANGED <<items, delegations, clock, changes>>

\* There is no such item, no such action, or an acknowledgement finds no firing alert or group.
NoEffect(c) ==
  LET q == call[c]
  IN /\ q.phase = "scoped" /\ q.op \in {"get", "resolve", "set"}
     /\ \E i \in Items :
          (items[i] # NoItem /\ RecipientOf[i] \in Recipients(q)) => q.op # "get"
     /\ call' = [call EXCEPT ![c] = Idle]
     /\ UNCHANGED <<items, delegations, clock, changes>>

-----------------------------------------------------------------------------
(* A user's changes to the own mailbox.                                    *)

Answered(c) == [call EXCEPT ![c] = Idle]

\* SetRead and SetArchived: updateInboxPersonalState.
SetPersonalState(c) ==
  LET q == call[c]
  IN /\ q.phase = "scoped" /\ q.op = "set"
     /\ \E i \in Items, value \in BOOLEAN :
          /\ items[i] # NoItem /\ RecipientOf[i] \in Recipients(q)
          /\ \/ items' = [items EXCEPT ![i].read = value, ![i].updated = q.now]
             \/ items' = [items EXCEPT ![i].archived = value, ![i].updated = q.now]
          /\ call' = Unsteady(Answered(c), {i})
          /\ Change
     /\ UNCHANGED delegations

\* AcknowledgeAlert; a second acknowledgement changes nothing (NoEffect).
AcknowledgeAlert(c) ==
  LET q == call[c]
  IN /\ q.phase = "scoped" /\ q.op = "set"
     /\ \E i \in Items :
          /\ items[i] # NoItem /\ RecipientOf[i] \in Recipients(q)
          /\ items[i].alert = "firing"
          /\ items' = [items EXCEPT ![i].alert = "acknowledged", ![i].updated = q.now]
          /\ call' = Unsteady(Answered(c), {i})
          /\ Change
     /\ UNCHANGED delegations

\* Faulty: whoever may list the mailbox may mark it.
AnyScope(q) == Recipients(q) # {}

\* ScopeMine, in MailboxManager and again in the store.
PersonalScope(q) == q.scope = "mine" /\ Recipients(q) = {q.viewer}

\* MarkAllRead: items that have changed since the request began stay unread.
MarkAllRead(c) ==
  LET q == call[c]
      marked == {i \in Items : /\ Selected(q, i)
                               /\ ~items[i].read /\ items[i].updated <= q.now}
  IN /\ q.phase = "scoped" /\ q.op = "mark_all_read" /\ PersonalScope(q)
     /\ items' = [i \in Items |-> IF i \in marked
                    THEN [items[i] EXCEPT !.read = TRUE, !.updated = q.now]
                    ELSE items[i]]
     /\ call' = Unsteady(Answered(c), marked)
     /\ Change
     /\ UNCHANGED delegations

-----------------------------------------------------------------------------
(* Others.                                                                 *)

\* upsertInboxItem: keeps read_at and archived_at.  The timestamp is the one
\* the worker read when it started.
UpsertInboxItem(i) ==
  /\ \E content \in Contents, t \in Times :
       /\ clock - WorkerDelay <= t /\ t <= clock
       /\ items' = [items EXCEPT ![i] =
            [updated |-> t, action |-> content.action, alert |-> content.alert,
             read |-> items[i] # NoItem /\ items[i].read,
             archived |-> items[i] # NoItem /\ items[i].archived]]
  /\ call' = Unsteady(call, {i})
  /\ Change
  /\ UNCHANGED delegations

\* deleteRetentionCandidate.
PurgeItem(i) ==
  /\ items[i] # NoItem
  /\ items' = [items EXCEPT ![i] = NoItem]
  /\ call' = Unsteady(call, {i})
  /\ Change
  /\ UNCHANGED delegations

\* SaveDelegation: an ID another owner uses fails on the unique index.
SaveDelegation(owner) ==
  /\ \E id \in DelegationIDs, delegate \in Users, w \in Windows,
        enabled \in BOOLEAN :
       /\ delegate # owner
       /\ w[1] > 0 /\ w[2] > 0 => w[2] > w[1]
       /\ delegations[id] # NoDelegation => delegations[id].owner = owner
       /\ delegations' = [delegations EXCEPT ![id] =
            [owner |-> owner, delegate |-> delegate, starts |-> w[1],
             ends |-> w[2], enabled |-> enabled]]
  /\ Change
  /\ UNCHANGED <<items, call>>

DeleteDelegation(owner) ==
  /\ \E id \in DelegationIDs :
       /\ delegations[id] # NoDelegation /\ delegations[id].owner = owner
       /\ delegations' = [delegations EXCEPT ![id] = NoDelegation]
  /\ Change
  /\ UNCHANGED <<items, call>>

-----------------------------------------------------------------------------
Next ==
  \/ Tick
  \/ \E c \in Callers :
       \/ Request(c) \/ NextPage(c) \/ Finish(c) \/ Refuse(c)
       \/ List(c) \/ Get(c) \/ ResolveAction(c) \/ NoEffect(c)
       \/ SetPersonalState(c) \/ AcknowledgeAlert(c) \/ MarkAllRead(c)
  \/ \E i \in Items : UpsertInboxItem(i) \/ PurgeItem(i)
  \/ \E owner \in Users : SaveDelegation(owner) \/ DeleteDelegation(owner)

Spec == Init /\ [][Next]_vars

-----------------------------------------------------------------------------
(* Every value is of its kind, no timestamp is ahead of the clock, and no  *)
(* answer has more items than the page size (ListItems reads one more).    *)
TypeOK ==
  /\ items \in [Items -> ItemRows \union {NoItem}]
  /\ delegations \in [DelegationIDs -> DelegationRows \union {NoDelegation}]
  /\ call \in [Callers -> Calls]
  /\ clock \in Times /\ changes \in Nat
  /\ \A i \in Items : items[i] # NoItem => items[i].updated <= clock
  /\ \A c \in Callers : call[c].now <= clock /\ Cardinality(call[c].page) <= Limit
  /\ \A c \in Callers : call[c].phase = "scoped" => call[c].now \in Times

(* Keyset paging over a list that is being rewritten (ListItems): when a   *)
(* client has reached the last page, every item that was in the view when  *)
(* paging began and that nobody has touched since has been listed exactly  *)
(* once, also among items with the same timestamp.                         *)
PagingMissesNothing ==
  \A c \in Callers : call[c].op = "list" =>
    /\ \A i \in call[c].steady : call[c].pages[i] <= 1
    /\ call[c].phase = "done" => \A i \in call[c].steady : call[c].pages[i] = 1

(* No page and no item is shown except the caller's own, a report's, or    *)
(* that of an owner whose delegation to the caller was in force when this  *)
(* very request was authorised (ActiveDelegatedOwnerIDs): a cursor obtained *)
(* while it was confers nothing afterwards.                                *)
AccessIsEntitled ==
  \A c \in Callers : \A i \in call[c].page :
    LET q == call[c]
    IN CASE q.scope = "mine"      -> RecipientOf[i] = q.viewer
         [] q.scope = "team"      -> RecipientOf[i] \in Reports[q.viewer]
         [] q.scope = "delegated" -> RecipientOf[i] \in q.entitled

(* A delegation and a reporting line only let others read (mailbox.go: "It *)
(* never grants authority to mutate the owner's mailbox"): what the owner  *)
(* has read, archived or acknowledged changes only in a request the owner  *)
(* has made.                                                               *)
OnlyTheOwnerChanges(i) ==
  (/\ items[i] # NoItem /\ items'[i] # NoItem
   /\ \/ items'[i].read # items[i].read
      \/ items'[i].archived # items[i].archived
      \/ items'[i].alert = "acknowledged" /\ items[i].alert # "acknowledged")
  => \E c \in Callers : /\ call[c].phase = "scoped" /\ call'[c].phase = "idle"
                        /\ call[c].viewer = RecipientOf[i]

MailboxesArePersonal == [][\A i \in Items : OnlyTheOwnerChanges(i)]_vars
=============================================================================

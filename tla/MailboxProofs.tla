---------------------------- MODULE MailboxProofs ----------------------------
(***************************************************************************)
(* Theorems about Mailbox, for any users, items, delegations, clients and  *)
(* queries, and for any page size.                                         *)
(***************************************************************************)
EXTENDS Mailbox, FiniteSetTheorems, TLAPS

\* Who may see an item in an answer.
MaySee(q, i) == CASE q.scope = "mine"      -> RecipientOf[i] = q.viewer
                  [] q.scope = "team"      -> RecipientOf[i] \in Reports[q.viewer]
                  [] q.scope = "delegated" -> RecipientOf[i] \in q.entitled

ScopeOK(q) == /\ q.owners \subseteq q.entitled
              /\ q.op = "set" => q.scope = "mine"
              /\ \A i \in q.page : MaySee(q, i)

\* What has been listed of the steady items is what the cursor has passed.
Passed(q) ==
  IF q.cursor = NoCursor
  THEN \A i \in Items : q.pages[i] = 0
  ELSE \A i \in q.steady : /\ items[i] # NoItem /\ InMailbox(items[i], q.mailbox)
                           /\ q.pages[i] = IF Before(i, q.cursor) THEN 0 ELSE 1

PagingOK(q) ==
  /\ q.phase = "idle" => q.steady = {}
  /\ q.op = "list" /\ q.phase \in {"scoped", "paging"} => Passed(q)
  /\ q.op = "list" /\ q.phase = "done" => \A i \in q.steady : q.pages[i] = 1
  /\ q.op = "list" => \A i \in q.steady : q.pages[i] <= 1

\* The part of TypeOK that is about one call.
CallTyped(q) == /\ q \in Calls /\ q.now <= clock /\ Cardinality(q.page) <= Limit
                /\ q.phase = "scoped" => q.now \in Times

DataTyped ==
  /\ items \in [Items -> ItemRows \union {NoItem}]
  /\ delegations \in [DelegationIDs -> DelegationRows \union {NoDelegation}]
  /\ clock \in Times /\ changes \in Nat
  /\ \A i \in Items : items[i] # NoItem => items[i].updated <= clock

IInv == /\ DataTyped
        /\ call \in [Callers -> Calls]
        /\ \A c \in Callers : CallTyped(call[c]) /\ ScopeOK(call[c]) /\ PagingOK(call[c])

-----------------------------------------------------------------------------
(* Lemmas about calls.                                                     *)

LEMMA TimesAreNumbers == Times \subseteq Nat /\ 1 \in Times
BY BoundAssumption DEF Times

LEMMA IdleOK ==
  ASSUME clock \in Times
  PROVE  CallTyped(Idle) /\ ScopeOK(Idle) /\ PagingOK(Idle)
<1>1. Idle \in Calls
  <2>1. (CHOOSE u \in Users : TRUE) \in Users
    BY MailboxAssumption
  <2> QED
    BY <2>1 DEF Idle, Calls, Phases, Operations, Scopes, Mailboxes,
                Cursors, NoCursor
<1>2. Cardinality(Idle.page) = 0
  BY FS_EmptySet DEF Idle
<1>3. /\ Idle.phase = "idle" /\ Idle.op = "list" /\ Idle.now = 0
      /\ Idle.page = {} /\ Idle.steady = {} /\ Idle.owners = {}
  BY DEF Idle
<1>4. CallTyped(Idle)
  BY <1>1, <1>2, <1>3, BoundAssumption, TimesAreNumbers DEF CallTyped
<1> QED
  BY <1>3, <1>4 DEF ScopeOK, PagingOK

\* The owners a query finds are owners whose delegation is in force.
LEMMA OwnersAreEntitled ==
  ASSUME DataTyped, NEW u \in Users
  PROVE  /\ ListActiveDelegatedOwnerIDs(u, clock) \subseteq Users
         /\ Grants(u, clock) \subseteq Users
         /\ ListActiveDelegatedOwnerIDs(u, clock) \subseteq Grants(u, clock)
<1>1. \A id \in DelegationIDs : delegations[id] # NoDelegation =>
        /\ delegations[id] \in DelegationRows
        /\ delegations[id].ends \in Nat /\ delegations[id].owner \in Users
  BY DEF DataTyped, DelegationRows
<1>2. clock \in Nat
  BY TimesAreNumbers DEF DataTyped
<1>3. Grants(u, clock) \subseteq Users
  BY <1>1 DEF Grants
<1>4. ASSUME NEW o \in ListActiveDelegatedOwnerIDs(u, clock)
      PROVE  o \in Grants(u, clock)
  <2>1. PICK id \in DelegationIDs :
          /\ delegations[id] # NoDelegation /\ delegations[id].owner = o
          /\ delegations[id].delegate = u /\ Active(delegations[id], clock)
    BY DEF ListActiveDelegatedOwnerIDs
  <2>2. /\ delegations[id].enabled /\ delegations[id].starts <= clock
        /\ delegations[id].ends > 0 => clock < delegations[id].ends
    BY <1>1, <1>2, <2>1 DEF Active
  <2> QED
    BY <2>1, <2>2 DEF Grants
<1> QED
  BY <1>3, <1>4 DEF ListActiveDelegatedOwnerIDs

\* Authorising a request.
LEMMA ScopedOK ==
  ASSUME DataTyped, NEW q, CallTyped(q), q.op = "set" => q.scope = "mine",
         q.op = "list" => Passed(q) /\ \A i \in q.steady : q.pages[i] <= 1
  PROVE  CallTyped(Scoped(q)) /\ ScopeOK(Scoped(q)) /\ PagingOK(Scoped(q))
<1>1. q \in Calls /\ q.viewer \in Users
  BY DEF CallTyped, Calls
<1>2. /\ DelegatedOwners(q) \subseteq Users
      /\ DelegatedOwners(q) \subseteq Grants(q.viewer, clock)
      /\ Grants(q.viewer, clock) \subseteq Users
  BY <1>1, OwnersAreEntitled DEF DelegatedOwners
<1>3. clock \in Nat /\ clock \in Times
  BY TimesAreNumbers DEF DataTyped
<1>4. Scoped(q) \in Calls
  <2>1. {} \subseteq Items /\ "scoped" \in Phases
    BY DEF Phases
  <2> HIDE DEF Phases
  <2> QED
    BY <1>1, <1>2, <1>3, <2>1 DEF Scoped, Calls
<1>5. Scoped(q) = [q EXCEPT !.phase = "scoped", !.owners = DelegatedOwners(q),
                            !.now = clock, !.page = {},
                            !.entitled = Grants(q.viewer, clock)]
  BY DEF Scoped
<1> DEFINE s == Scoped(q)
<1>6. /\ s.phase = "scoped" /\ s.now = clock /\ s.page = {}
      /\ s.owners = DelegatedOwners(q) /\ s.entitled = Grants(q.viewer, clock)
      /\ s.op = q.op /\ s.scope = q.scope /\ s.cursor = q.cursor
      /\ s.steady = q.steady /\ s.pages = q.pages /\ s.mailbox = q.mailbox
  BY <1>1, <1>5 DEF Calls
<1>7. CallTyped(s)
  BY <1>3, <1>4, <1>6, FS_EmptySet, BoundAssumption DEF CallTyped
<1>8. ScopeOK(s)
  BY <1>2, <1>6 DEF ScopeOK
<1>9. PagingOK(s)
  BY <1>6 DEF PagingOK, Passed
<1> QED
  BY <1>7, <1>8, <1>9

\* A write that makes what it touches unsteady.
LEMMA UnsteadyOK ==
  ASSUME NEW q, CallTyped(q), ScopeOK(q), PagingOK(q), NEW touched,
         \A i \in Items \ touched : items'[i] = items[i], UNCHANGED clock
  PROVE  LET r == [q EXCEPT !.steady = @ \ touched]
         IN CallTyped(r)' /\ ScopeOK(r)' /\ PagingOK(r)'
<1> DEFINE r == [q EXCEPT !.steady = @ \ touched]
<1>1. /\ r \in Calls /\ q.steady \subseteq Items
      /\ r.steady = q.steady \ touched /\ r.phase = q.phase /\ r.op = q.op
      /\ r.pages = q.pages /\ r.cursor = q.cursor /\ r.mailbox = q.mailbox
      /\ r.now = q.now /\ r.page = q.page /\ r.owners = q.owners
      /\ r.entitled = q.entitled /\ r.scope = q.scope /\ r.viewer = q.viewer
  BY DEF CallTyped, Calls
<1>2. CallTyped(r)'
  BY <1>1 DEF CallTyped
<1>3. ScopeOK(r)'
  BY <1>1 DEF ScopeOK, MaySee
<1>4. Passed(q) => Passed(r)'
  BY <1>1 DEF Passed, Before, InMailbox
<1>5. PagingOK(r)'
  BY <1>1, <1>4 DEF PagingOK
<1> QED
  BY <1>2, <1>3, <1>5

\* A call is as good as before when nothing it refers to has changed.
LEMMA StaysOK ==
  ASSUME NEW q, CallTyped(q), ScopeOK(q), PagingOK(q), UNCHANGED <<items, clock>>
  PROVE  CallTyped(q)' /\ ScopeOK(q)' /\ PagingOK(q)'
BY DEF CallTyped, ScopeOK, MaySee, PagingOK, Passed, Before, InMailbox

\* A step that only moves one call on.
LEMMA ReplyOK ==
  ASSUME IInv, NEW c \in Callers, NEW r,
         CallTyped(r), ScopeOK(r), PagingOK(r), call' = [call EXCEPT ![c] = r],
         UNCHANGED <<items, delegations, clock, changes>>
  PROVE  IInv'
<1>1. DataTyped'
  BY DEF IInv, DataTyped
<1>2. call' \in [Callers -> Calls]
  BY DEF IInv, CallTyped
<1>3. ASSUME NEW d \in Callers
      PROVE  (CallTyped(call[d]) /\ ScopeOK(call[d]) /\ PagingOK(call[d]))'
  <2>1. PICK q : q = call'[d]
    OBVIOUS
  <2>2. CallTyped(q) /\ ScopeOK(q) /\ PagingOK(q)
    BY <2>1 DEF IInv
  <2>3. CallTyped(q)' /\ ScopeOK(q)' /\ PagingOK(q)'
    BY <2>2, StaysOK
  <2> QED
    BY <2>1, <2>3
<1> QED
  BY <1>1, <1>2, <1>3 DEF IInv

\* A step that writes items: nobody who was paging counts on what it touches.
LEMMA WriteOK ==
  ASSUME IInv, NEW k \in [Callers -> Calls],
         \A d \in Callers : CallTyped(k[d]) /\ ScopeOK(k[d]) /\ PagingOK(k[d]),
         NEW touched, call' = Unsteady(k, touched),
         \A i \in Items \ touched : items'[i] = items[i],
         DataTyped', UNCHANGED clock
  PROVE  IInv'
<1>1. ASSUME NEW d \in Callers
      PROVE  /\ (CallTyped(call[d]) /\ ScopeOK(call[d]) /\ PagingOK(call[d]))'
             /\ call'[d] \in Calls
  <2>1. PICK q : q = k[d]
    OBVIOUS
  <2>2. CallTyped(q) /\ ScopeOK(q) /\ PagingOK(q)
    BY <2>1
  <2>3. PICK r : r = [q EXCEPT !.steady = @ \ touched]
    OBVIOUS
  <2>4. CallTyped(r)' /\ ScopeOK(r)' /\ PagingOK(r)'
    BY <2>2, <2>3, UnsteadyOK
  <2>5. call'[d] = r
    BY <2>1, <2>3 DEF Unsteady
  <2> QED
    BY <2>4, <2>5 DEF CallTyped
<1>2. call' \in [Callers -> Calls]
  BY <1>1 DEF Unsteady
<1> QED
  BY <1>1, <1>2 DEF IInv

LEMMA AnsweredOK ==
  ASSUME IInv, NEW c \in Callers
  PROVE  /\ Answered(c) \in [Callers -> Calls]
         /\ \A d \in Callers : LET q == Answered(c)[d]
                               IN CallTyped(q) /\ ScopeOK(q) /\ PagingOK(q)
BY IdleOK DEF IInv, DataTyped, Answered, CallTyped

\* One item is rewritten in a user's request.
LEMMA OneItemOK ==
  ASSUME IInv, NEW c \in Callers, NEW i \in Items, NEW row \in ItemRows,
         row.updated <= clock, items' = [items EXCEPT ![i] = row],
         call' = Unsteady(Answered(c), {i}), Change, UNCHANGED delegations
  PROVE  IInv'
<1>1. DataTyped'
  BY BoundAssumption, AbsenceAssumption DEF IInv, DataTyped, Change
<1> QED
  BY <1>1, AnsweredOK, WriteOK DEF Change

LEMMA ItemsAreNumbers == Items \subseteq Nat
BY MailboxAssumption

LEMMA RowOK ==
  ASSUME IInv, NEW i \in Items, items[i] # NoItem
  PROVE  /\ items[i] \in ItemRows /\ items[i].updated \in Times
         /\ items[i].updated <= clock
BY DEF IInv, DataTyped, ItemRows

LEMMA RowNumbers ==
  ASSUME IInv, NEW i \in Items, items[i] # NoItem
  PROVE  i \in Nat /\ items[i].updated \in Nat /\ items[i].updated > 0
<1>1. \A t \in Times : t \in Nat /\ t > 0
  BY BoundAssumption DEF Times
<1> QED
  BY <1>1, RowOK, ItemsAreNumbers

\* Whom a query may touch.
LEMMA RecipientsMaySee ==
  ASSUME IInv, NEW q, CallTyped(q), ScopeOK(q), NEW i \in Items,
         RecipientOf[i] \in Recipients(q)
  PROVE  MaySee(q, i)
<1>1. q.scope \in Scopes
  BY DEF CallTyped, Calls
<1>2. CASE q.scope = "mine"
  BY <1>2 DEF MaySee, Recipients
<1>3. CASE q.scope = "team"
  BY <1>3 DEF MaySee, Recipients
<1>4. CASE q.scope = "delegated"
  BY <1>4 DEF MaySee, Recipients, ScopeOK
<1> QED
  BY <1>1, <1>2, <1>3, <1>4 DEF Scopes

-----------------------------------------------------------------------------
(* The steps of a request.                                                 *)

LEMMA RequestOK ==
  ASSUME IInv, NEW c \in Callers, Request(c)
  PROVE  IInv'
<1>1. PICK q \in Queries, viewer \in Users :
        call' = [call EXCEPT ![c] =
          Scoped([Idle EXCEPT !.op = q.op, !.viewer = viewer, !.scope = q.scope,
                              !.member = q.member, !.mailbox = q.mailbox])]
  BY DEF Request
<1> DEFINE r == [Idle EXCEPT !.op = q.op, !.viewer = viewer, !.scope = q.scope,
                             !.member = q.member, !.mailbox = q.mailbox]
<1>2. /\ q.op \in Operations /\ q.scope \in Scopes /\ q.mailbox \in Mailboxes
      /\ q.member \in Users \union {Nobody}
      /\ q.op = "set" => q.scope = "mine"
  BY MailboxAssumption
<1>3. CallTyped(Idle) /\ Idle \in Calls
  BY IdleOK DEF IInv, DataTyped, CallTyped
<1>4. r \in Calls
  BY <1>2, <1>3 DEF Calls
<1>5. /\ r.now = Idle.now /\ r.page = Idle.page /\ r.phase = Idle.phase
      /\ r.cursor = Idle.cursor /\ r.pages = Idle.pages /\ r.steady = Idle.steady
      /\ r.op = q.op /\ r.scope = q.scope
  BY <1>3 DEF Calls
<1>6. CallTyped(r)
  BY <1>3, <1>4, <1>5 DEF CallTyped
<1>7. Passed(r) /\ r.steady = {}
  BY <1>5 DEF Passed, Idle
<1> HIDE DEF r
<1>8. CallTyped(Scoped(r)) /\ ScopeOK(Scoped(r)) /\ PagingOK(Scoped(r))
  BY <1>2, <1>5, <1>6, <1>7, ScopedOK DEF IInv
<1>9. call' = [call EXCEPT ![c] = Scoped(r)]
  BY <1>1 DEF r
<1> QED
  BY <1>8, <1>9, ReplyOK DEF Request

LEMMA NextPageOK ==
  ASSUME IInv, NEW c \in Callers, NextPage(c)
  PROVE  IInv'
<1>1. PICK q : q = call[c]
  OBVIOUS
<1>2. CallTyped(q) /\ ScopeOK(q) /\ PagingOK(q) /\ q.phase = "paging"
  BY <1>1 DEF IInv, NextPage
<1>3. q.op = "list" => Passed(q) /\ \A i \in q.steady : q.pages[i] <= 1
  BY <1>2 DEF PagingOK
<1>4. CallTyped(Scoped(q)) /\ ScopeOK(Scoped(q)) /\ PagingOK(Scoped(q))
  BY <1>2, <1>3, ScopedOK DEF IInv, ScopeOK
<1> QED
  BY <1>1, <1>4, ReplyOK DEF NextPage

LEMMA EndOK ==
  ASSUME IInv, NEW c \in Callers, Finish(c) \/ Refuse(c) \/ NoEffect(c)
  PROVE  IInv'
BY IdleOK, ReplyOK DEF IInv, DataTyped, Finish, Refuse, NoEffect

LEMMA ShowOneOK ==
  ASSUME IInv, NEW c \in Callers, Get(c) \/ ResolveAction(c)
  PROVE  IInv'
<1>1. PICK q : q = call[c]
  OBVIOUS
<1>2. /\ CallTyped(q) /\ ScopeOK(q) /\ PagingOK(q)
      /\ q.phase = "scoped" /\ q.op \in {"get", "resolve"}
  BY <1>1 DEF IInv, Get, ResolveAction
<1>3. PICK i \in Items :
        /\ RecipientOf[i] \in Recipients(q)
        /\ call' = [call EXCEPT ![c].phase = "done", ![c].page = {i}]
  BY <1>1 DEF Get, ResolveAction
<1>4. PICK r : r = [q EXCEPT !.phase = "done", !.page = {i}]
  OBVIOUS
<1>5. /\ r \in Calls /\ r.phase = "done" /\ r.page = {i} /\ r.op = q.op
      /\ r.now = q.now /\ r.owners = q.owners /\ r.entitled = q.entitled
      /\ r.scope = q.scope /\ r.viewer = q.viewer
  BY <1>2, <1>4 DEF CallTyped, Calls, Phases
<1>6. MaySee(q, i) /\ Cardinality({i}) = 1
  BY <1>2, <1>3, RecipientsMaySee, FS_Singleton
<1>7. CallTyped(r)
  BY <1>2, <1>5, <1>6, BoundAssumption DEF CallTyped
<1>8. ScopeOK(r)
  BY <1>2, <1>5, <1>6 DEF ScopeOK, MaySee
<1>9. PagingOK(r)
  BY <1>2, <1>5 DEF PagingOK
<1>10. call' = [call EXCEPT ![c] = r]
  BY <1>1, <1>3, <1>4
<1> QED
  BY <1>7, <1>8, <1>9, <1>10, ReplyOK DEF Get, ResolveAction

\* Behind the last item of a first page are exactly the rows not on it.
LEMMA CursorSplits ==
  ASSUME IInv, NEW rows \in SUBSET Items, NEW page \in SUBSET rows,
         IsFirstPage(page, rows), NEW last \in page,
         \A i \in page \ {last} : Newer(i, last),
         \A i \in rows : items[i] # NoItem,
         NEW i \in rows
  PROVE  Before(i, [updated |-> items[last].updated, id |-> last]) <=> i \notin page
<1> DEFINE cursor == [updated |-> items[last].updated, id |-> last]
<1>1. /\ items[i].updated \in Nat /\ items[last].updated \in Nat
      /\ items[last].updated > 0 /\ i \in Nat /\ last \in Nat
  BY RowNumbers
<1>2. cursor.updated = items[last].updated /\ cursor.id = last /\ cursor # NoCursor
  BY <1>1 DEF NoCursor
<1> HIDE DEF cursor
<1>3. ASSUME i \in page PROVE ~Before(i, cursor)
  <2>1. CASE i = last
    BY <1>1, <1>2, <2>1 DEF Before
  <2>2. CASE i # last
    <3>1. Newer(i, last)
      BY <1>3, <2>2
    <3> QED
      BY <1>1, <1>2, <3>1 DEF Before, Newer
  <2> QED
    BY <2>1, <2>2
<1>4. ASSUME i \notin page PROVE Before(i, cursor)
  <2>1. Newer(last, i)
    BY <1>4 DEF IsFirstPage
  <2> QED
    BY <1>1, <1>2, <2>1 DEF Before, Newer
<1> QED
  BY <1>3, <1>4 DEF cursor

\* What an earlier cursor has passed, the cursor behind a later row has too.
LEMMA CursorMovesOn ==
  ASSUME IInv, NEW cursor \in Cursors, NEW last \in Items, NEW i \in Items,
         items[i] # NoItem, items[last] # NoItem,
         Before(last, cursor), ~Before(i, cursor)
  PROVE  ~Before(i, [updated |-> items[last].updated, id |-> last])
<1>1. /\ items[i].updated \in Nat /\ items[last].updated \in Nat
      /\ items[last].updated > 0 /\ i \in Nat /\ last \in Nat
      /\ cursor.updated \in Nat /\ cursor.id \in Nat
  BY RowNumbers DEF Cursors
<1>2. [updated |-> items[last].updated, id |-> last] # NoCursor
  BY <1>1 DEF NoCursor
<1> QED
  BY <1>1, <1>2 DEF Before

LEMMA ListOK ==
  ASSUME IInv, NEW c \in Callers, List(c)
  PROVE  IInv'
<1>1. PICK q : q = call[c]
  OBVIOUS
<1>2. /\ CallTyped(q) /\ q \in Calls /\ ScopeOK(q) /\ PagingOK(q) /\ Passed(q)
      /\ q.phase = "scoped" /\ q.op = "list"
  BY <1>1 DEF IInv, List, PagingOK, CallTyped
<1> DEFINE rows == Rows(q)
           steady == Listed(q, {}).steady
           Pages(p) == [i \in Items |-> IF i \in p THEN q.pages[i] + 1 ELSE q.pages[i]]
<1>3. PICK page \in SUBSET rows :
        /\ IsFirstPage(page, rows)
        /\ \/ /\ page = rows
              /\ call' = [call EXCEPT ![c] = [Listed(q, page) EXCEPT !.phase = "done"]]
           \/ /\ page # rows
              /\ \E last \in page :
                   /\ \A i \in page \ {last} : Newer(i, last)
                   /\ call' = [call EXCEPT ![c] =
                        [Listed(q, page) EXCEPT !.phase = "paging",
                           !.cursor = [updated |-> items[last].updated, id |-> last]]]
  BY <1>1 DEF List
<1>4. /\ q.pages \in [Items -> Nat] /\ q.steady \subseteq Items
      /\ q.cursor \in Cursors /\ q.scope \in Scopes
  BY <1>2 DEF Calls
<1>5. \A i \in rows : /\ items[i] # NoItem /\ RecipientOf[i] \in Recipients(q)
                      /\ InMailbox(items[i], q.mailbox) /\ Before(i, q.cursor)
  BY DEF Selected, Rows
<1>6. /\ steady \subseteq Items
      /\ steady = IF q.cursor = NoCursor THEN {i \in Items : Selected(q, i)}
                  ELSE {i \in q.steady : RecipientOf[i] \in Recipients(q)}
  BY <1>2, <1>4 DEF Listed, Calls
<1> HIDE DEF steady
\* Before this page a steady item has been listed iff the cursor has passed it.
<1>7. ASSUME NEW i \in steady
      PROVE  /\ items[i] # NoItem /\ InMailbox(items[i], q.mailbox)
             /\ Before(i, q.cursor) => i \in rows /\ q.pages[i] = 0
             /\ ~Before(i, q.cursor) => i \notin rows /\ q.pages[i] = 1
  <2>1. CASE q.cursor = NoCursor
    BY <1>2, <1>6, <2>1 DEF Passed, Selected, Before, Rows
  <2>2. CASE q.cursor # NoCursor
    <3>1. i \in q.steady /\ RecipientOf[i] \in Recipients(q) /\ i \in Items
      BY <1>4, <1>6, <2>2
    <3>2. /\ items[i] # NoItem /\ InMailbox(items[i], q.mailbox)
          /\ q.pages[i] = IF Before(i, q.cursor) THEN 0 ELSE 1
      BY <1>2, <2>2, <3>1 DEF Passed
    <3> QED
      BY <3>1, <3>2 DEF Selected, Rows
  <2> QED
    BY <2>1, <2>2
<1>8. \A i \in page : MaySee(q, i)
  BY <1>2, <1>5, RecipientsMaySee DEF Rows
<1>9. Cardinality(page) <= Limit /\ page \in SUBSET Items /\ rows \in SUBSET Items
  BY <1>3 DEF IsFirstPage, Rows
<1> HIDE DEF rows
<1>10. Pages(page) \in [Items -> Nat]
  BY <1>4
<1>11. /\ Listed(q, page) \in Calls /\ Listed(q, page).page = page
       /\ Listed(q, page).steady = steady /\ Listed(q, page).pages = Pages(page)
       /\ \A f \in {"op", "now", "owners", "entitled", "scope", "viewer", "mailbox",
                    "cursor"} : Listed(q, page)[f] = q[f]
  BY <1>2, <1>6, <1>9, <1>10 DEF Listed, Calls
<1>12. CASE page = rows
  <2>1. PICK r : r = [Listed(q, page) EXCEPT !.phase = "done"]
    OBVIOUS
  <2>2. call' = [call EXCEPT ![c] = r]
    BY <1>3, <1>12, <2>1
  <2>3. /\ r \in Calls /\ r.phase = "done" /\ r.page = page /\ r.steady = steady
        /\ r.pages = Pages(page) /\ r.op = "list" /\ r.now = q.now
        /\ r.owners = q.owners /\ r.entitled = q.entitled
        /\ r.scope = q.scope /\ r.viewer = q.viewer
    BY <1>2, <1>11, <2>1 DEF Calls, Phases
  <2>4. CallTyped(r)
    BY <1>2, <1>9, <2>3 DEF CallTyped
  <2>5. ScopeOK(r)
    BY <1>2, <1>8, <2>3 DEF ScopeOK, MaySee
  <2>6. \A i \in steady : Pages(page)[i] = 1
    BY <1>4, <1>6, <1>7, <1>12
  <2>7. PagingOK(r)
    BY <2>3, <2>6 DEF PagingOK
  <2> QED
    BY <2>2, <2>4, <2>5, <2>7, ReplyOK DEF List
<1>13. CASE page # rows
  <2>1. PICK last \in page :
          /\ \A i \in page \ {last} : Newer(i, last)
          /\ call' = [call EXCEPT ![c] =
               [Listed(q, page) EXCEPT !.phase = "paging",
                  !.cursor = [updated |-> items[last].updated, id |-> last]]]
    BY <1>3, <1>13
  <2>2. PICK cursor : cursor = [updated |-> items[last].updated, id |-> last]
    OBVIOUS
  <2>3. PICK r : r = [Listed(q, page) EXCEPT !.phase = "paging", !.cursor = cursor]
    OBVIOUS
  <2>4. call' = [call EXCEPT ![c] = r]
    BY <2>1, <2>2, <2>3
  <2>5. last \in Items /\ last \in rows /\ items[last] # NoItem
    BY <1>5, <1>9
  <2>6. cursor \in Cursors /\ cursor # NoCursor
    <3>1. items[last].updated \in Nat /\ items[last].updated > 0 /\ last \in Nat
      BY <2>5, RowNumbers
    <3> QED
      BY <2>2, <3>1 DEF Cursors, NoCursor
  <2>7. /\ r \in Calls /\ r.phase = "paging" /\ r.page = page /\ r.steady = steady
        /\ r.pages = Pages(page) /\ r.op = "list" /\ r.now = q.now
        /\ r.owners = q.owners /\ r.entitled = q.entitled /\ r.cursor = cursor
        /\ r.scope = q.scope /\ r.viewer = q.viewer /\ r.mailbox = q.mailbox
    BY <1>2, <1>11, <2>3, <2>6 DEF Calls, Phases
  <2>8. CallTyped(r)
    BY <1>2, <1>9, <2>7 DEF CallTyped
  <2>9. ScopeOK(r)
    BY <1>2, <1>8, <2>7 DEF ScopeOK, MaySee
  <2>10. ASSUME NEW i \in steady
         PROVE  Pages(page)[i] = IF Before(i, cursor) THEN 0 ELSE 1
    <3>1. CASE Before(i, q.cursor)
      <4>1. i \in rows /\ q.pages[i] = 0 /\ i \in Items
        BY <1>6, <1>7, <3>1
      <4>2. Before(i, [updated |-> items[last].updated, id |-> last])
              <=> i \notin page
        <5>1. /\ \A j \in page \ {last} : Newer(j, last)
              /\ \A j \in rows : items[j] # NoItem
          BY <1>5, <2>1
        <5>2. IsFirstPage(page, rows) /\ last \in page /\ page \in SUBSET rows
              /\ rows \in SUBSET Items
          BY <1>3, <1>9
        <5> QED
          BY <4>1, <5>1, <5>2, CursorSplits
      <4>3. Before(i, cursor) <=> i \notin page
        BY <2>2, <4>2
      <4> QED
        BY <4>1, <4>3
    <3>2. CASE ~Before(i, q.cursor)
      <4>1. i \notin page /\ q.pages[i] = 1 /\ i \in Items /\ items[i] # NoItem
        BY <1>6, <1>7, <3>2
      <4>2. ~Before(i, cursor)
        BY <1>4, <1>5, <2>2, <2>5, <3>2, <4>1, CursorMovesOn
      <4> QED
        BY <4>1, <4>2
    <3> QED
      BY <3>1, <3>2
  <2>11. \A i \in r.steady : /\ items[i] # NoItem /\ InMailbox(items[i], r.mailbox)
                             /\ r.pages[i] = IF Before(i, cursor) THEN 0 ELSE 1
    BY <1>7, <2>7, <2>10
  <2>12. Passed(r)
    BY <2>6, <2>7, <2>11 DEF Passed
  <2>13. PagingOK(r)
    BY <2>7, <2>11, <2>12 DEF PagingOK
  <2> QED
    BY <2>4, <2>8, <2>9, <2>13, ReplyOK DEF List
<1> QED
  BY <1>12, <1>13

-----------------------------------------------------------------------------
(* The writes.                                                             *)

LEMMA SetPersonalStateOK ==
  ASSUME IInv, NEW c \in Callers, SetPersonalState(c)
  PROVE  IInv'
<1>1. PICK i \in Items, value \in BOOLEAN :
        /\ items[i] # NoItem
        /\ \/ items' = [items EXCEPT ![i].read = value, ![i].updated = call[c].now]
           \/ items' = [items EXCEPT ![i].archived = value, ![i].updated = call[c].now]
        /\ call' = Unsteady(Answered(c), {i})
        /\ Change
  BY DEF SetPersonalState
<1>2. call[c].now \in Times /\ call[c].now <= clock
  BY DEF IInv, CallTyped, SetPersonalState
<1>3. items[i] \in ItemRows /\ items \in [Items -> ItemRows \union {NoItem}]
  BY <1>1, RowOK DEF IInv, DataTyped
<1>4. PICK row \in ItemRows : /\ row.updated = call[c].now
                              /\ items' = [items EXCEPT ![i] = row]
  <2>1. CASE items' = [items EXCEPT ![i].read = value, ![i].updated = call[c].now]
    <3>1. [items[i] EXCEPT !.read = value, !.updated = call[c].now] \in ItemRows
      BY <1>2, <1>3 DEF ItemRows
    <3> QED
      BY <1>3, <2>1, <3>1 DEF ItemRows
  <2>2. CASE items' = [items EXCEPT ![i].archived = value, ![i].updated = call[c].now]
    <3>1. [items[i] EXCEPT !.archived = value, !.updated = call[c].now] \in ItemRows
      BY <1>2, <1>3 DEF ItemRows
    <3> QED
      BY <1>3, <2>2, <3>1 DEF ItemRows
  <2> QED
    BY <1>1, <2>1, <2>2
<1> QED
  BY <1>1, <1>2, <1>4, OneItemOK DEF SetPersonalState

LEMMA AcknowledgeAlertOK ==
  ASSUME IInv, NEW c \in Callers, AcknowledgeAlert(c)
  PROVE  IInv'
<1>1. PICK i \in Items :
        /\ items[i] # NoItem
        /\ items' = [items EXCEPT ![i].alert = "acknowledged",
                                  ![i].updated = call[c].now]
        /\ call' = Unsteady(Answered(c), {i})
        /\ Change
  BY DEF AcknowledgeAlert
<1>2. call[c].now \in Times /\ call[c].now <= clock
  BY DEF IInv, CallTyped, AcknowledgeAlert
<1>3. items[i] \in ItemRows /\ items \in [Items -> ItemRows \union {NoItem}]
  BY <1>1, RowOK DEF IInv, DataTyped
<1>4. PICK row : row = [items[i] EXCEPT !.alert = "acknowledged",
                                        !.updated = call[c].now]
  OBVIOUS
<1>5. /\ row \in ItemRows /\ row.updated = call[c].now
      /\ items' = [items EXCEPT ![i] = row]
  BY <1>1, <1>2, <1>3, <1>4 DEF ItemRows
<1> QED
  BY <1>1, <1>2, <1>5, OneItemOK DEF AcknowledgeAlert

LEMMA MarkAllReadOK ==
  ASSUME IInv, NEW c \in Callers, MarkAllRead(c)
  PROVE  IInv'
<1> DEFINE now == call[c].now
           marked == {i \in Items : /\ Selected(call[c], i)
                                    /\ ~items[i].read /\ items[i].updated <= now}
<1>1. /\ items' = [i \in Items |-> IF i \in marked
                     THEN [items[i] EXCEPT !.read = TRUE, !.updated = now]
                     ELSE items[i]]
      /\ call' = Unsteady(Answered(c), marked)
  BY DEF MarkAllRead
<1>2. now \in Times /\ now <= clock
  BY DEF IInv, CallTyped, MarkAllRead
<1>3. \A i \in marked : items[i] # NoItem /\ items[i] \in ItemRows
  BY RowOK DEF Selected
<1> HIDE DEF marked, now
<1>4. \A i \in Items : i \in marked =>
        items'[i] \in ItemRows /\ items'[i].updated = now
  BY <1>1, <1>2, <1>3 DEF ItemRows
<1>5. \A i \in Items \ marked : items'[i] = items[i]
  BY <1>1
<1>6. UNCHANGED <<clock, delegations>> /\ changes' \in Nat
  <2>1. Change /\ UNCHANGED delegations
    BY DEF MarkAllRead
  <2>2. changes \in Nat
    BY DEF IInv, DataTyped
  <2> QED
    BY <2>1, <2>2 DEF Change
<1>7. items' \in [Items -> ItemRows \union {NoItem}]
  <2>1. items' = [i \in Items |-> items'[i]]
    BY <1>1
  <2>2. \A i \in Items : items'[i] \in ItemRows \union {NoItem}
    BY <1>4, <1>5 DEF IInv, DataTyped
  <2> QED
    BY <2>1, <2>2
<1>8. \A i \in Items : items'[i] # NoItem => items'[i].updated <= clock
  BY <1>2, <1>4, <1>5 DEF IInv, DataTyped
<1>9. DataTyped'
  BY <1>1, <1>6, <1>7, <1>8 DEF IInv, DataTyped
<1> QED
  BY <1>1, <1>5, <1>6, <1>9, AnsweredOK, WriteOK

LEMMA UpsertInboxItemOK ==
  ASSUME IInv, NEW i \in Items, UpsertInboxItem(i)
  PROVE  IInv'
<1>1. PICK content \in Contents, t \in Times :
        /\ t <= clock
        /\ items' = [items EXCEPT ![i] =
             [updated |-> t, action |-> content.action, alert |-> content.alert,
              read |-> items[i] # NoItem /\ items[i].read,
              archived |-> items[i] # NoItem /\ items[i].archived]]
  BY DEF UpsertInboxItem
<1>2. /\ content.action \in {"none", "open", "completed"}
      /\ content.alert \in {"", "firing", "resolved"}
  BY MailboxAssumption
<1>3. (items[i] # NoItem /\ items[i].read) \in BOOLEAN
      /\ (items[i] # NoItem /\ items[i].archived) \in BOOLEAN
  BY RowOK DEF ItemRows
<1>4. PICK row : row =
        [updated |-> t, action |-> content.action, alert |-> content.alert,
         read |-> items[i] # NoItem /\ items[i].read,
         archived |-> items[i] # NoItem /\ items[i].archived]
  OBVIOUS
<1>5. row \in ItemRows /\ row.updated = t
  BY <1>2, <1>3, <1>4 DEF ItemRows
<1>6. items' = [items EXCEPT ![i] = row]
  BY <1>1, <1>4
<1>7. UNCHANGED <<clock, delegations>> /\ changes' \in Nat
      /\ call' = Unsteady(call, {i})
  BY DEF UpsertInboxItem, Change, IInv, DataTyped
<1>8. DataTyped'
  BY <1>1, <1>5, <1>6, <1>7 DEF IInv, DataTyped
<1>9. \A j \in Items \ {i} : items'[j] = items[j]
  BY <1>6 DEF IInv, DataTyped
<1>10. call \in [Callers -> Calls]
       /\ \A d \in Callers : CallTyped(call[d]) /\ ScopeOK(call[d]) /\ PagingOK(call[d])
  BY DEF IInv
<1> QED
  BY <1>7, <1>8, <1>9, <1>10, WriteOK

LEMMA PurgeItemOK ==
  ASSUME IInv, NEW i \in Items, PurgeItem(i)
  PROVE  IInv'
<1>1. /\ items' = [items EXCEPT ![i] = NoItem] /\ UNCHANGED <<clock, delegations>>
      /\ call' = Unsteady(call, {i}) /\ changes' \in Nat
  BY DEF PurgeItem, Change, IInv, DataTyped
<1>2. DataTyped'
  BY <1>1 DEF IInv, DataTyped
<1>3. \A j \in Items \ {i} : items'[j] = items[j]
  BY <1>1 DEF IInv, DataTyped
<1>4. call \in [Callers -> Calls]
      /\ \A d \in Callers : CallTyped(call[d]) /\ ScopeOK(call[d]) /\ PagingOK(call[d])
  BY DEF IInv
<1> QED
  BY <1>1, <1>2, <1>3, <1>4, WriteOK

\* A step that leaves items and calls alone, and time at most passes.
LEMMA OthersOK ==
  ASSUME IInv, DataTyped', UNCHANGED <<items, call>>, clock <= clock'
  PROVE  IInv'
<1>1. ASSUME NEW d \in Callers
      PROVE  (CallTyped(call[d]) /\ ScopeOK(call[d]) /\ PagingOK(call[d]))'
  <2>1. PICK q : q = call[d]
    OBVIOUS
  <2>2. CallTyped(q) /\ ScopeOK(q) /\ PagingOK(q) /\ q \in Calls
    BY <2>1 DEF IInv, CallTyped
  <2>3. CallTyped(q)'
    <3>1. q.now \in Nat \/ q.now \notin Nat
      OBVIOUS
    <3>2. q.now <= clock'
      BY <2>2, TimesAreNumbers DEF IInv, DataTyped, CallTyped, Calls
    <3> QED
      BY <2>2, <3>2 DEF CallTyped
  <2>4. ScopeOK(q)' /\ PagingOK(q)'
    BY <2>2 DEF ScopeOK, MaySee, PagingOK, Passed, Before, InMailbox
  <2> QED
    BY <2>1, <2>3, <2>4
<1> QED
  BY <1>1 DEF IInv

LEMMA TickOK ==
  ASSUME IInv, Tick
  PROVE  IInv'
<1>1. clock \in Nat /\ clock' = clock + 1 /\ clock' \in Times
  BY BoundAssumption DEF IInv, DataTyped, Tick, Times
<1>2. \A i \in Items : items[i] # NoItem => items[i].updated <= clock + 1
  BY <1>1, RowOK, RowNumbers
<1>3. DataTyped'
  BY <1>1, <1>2 DEF IInv, DataTyped, Tick
<1> QED
  BY <1>1, <1>3, OthersOK DEF Tick

LEMMA DelegationOK ==
  ASSUME IInv, NEW owner \in Users,
         SaveDelegation(owner) \/ DeleteDelegation(owner)
  PROVE  IInv'
<1>1. UNCHANGED <<items, call, clock>> /\ changes' \in Nat
  BY DEF SaveDelegation, DeleteDelegation, Change, IInv, DataTyped
<1>2. delegations' \in [DelegationIDs -> DelegationRows \union {NoDelegation}]
  <2>1. CASE DeleteDelegation(owner)
    BY <2>1 DEF DeleteDelegation, IInv, DataTyped
  <2>2. CASE SaveDelegation(owner)
    <3>1. PICK id \in DelegationIDs, delegate \in Users, w \in Windows,
               enabled \in BOOLEAN :
            /\ delegate # owner
            /\ w[1] > 0 /\ w[2] > 0 => w[2] > w[1]
            /\ delegations[id] # NoDelegation => delegations[id].owner = owner
            /\ delegations' = [delegations EXCEPT ![id] =
                 [owner |-> owner, delegate |-> delegate, starts |-> w[1],
                  ends |-> w[2], enabled |-> enabled]]
      BY <2>2 DEF SaveDelegation
    <3>2. w[1] \in Nat /\ w[2] \in Nat
      BY MailboxAssumption
    <3>3. [owner |-> owner, delegate |-> delegate, starts |-> w[1],
           ends |-> w[2], enabled |-> enabled] \in DelegationRows
      BY <3>2 DEF DelegationRows
    <3> QED
      BY <3>1, <3>3 DEF IInv, DataTyped
  <2> QED
    BY <2>1, <2>2
<1>3. DataTyped'
  BY <1>1, <1>2 DEF IInv, DataTyped
<1>4. clock \in Nat
  BY TimesAreNumbers DEF IInv, DataTyped
<1> QED
  BY <1>1, <1>3, <1>4, OthersOK

-----------------------------------------------------------------------------
(* The theorems.                                                           *)

LEMMA StepOK == IInv /\ [Next]_vars => IInv'
<1> SUFFICES ASSUME IInv, [Next]_vars PROVE IInv'
  OBVIOUS
<1>1. ASSUME NEW c \in Callers,
             \/ Request(c) \/ NextPage(c) \/ Finish(c) \/ Refuse(c)
             \/ List(c) \/ Get(c) \/ ResolveAction(c) \/ NoEffect(c)
             \/ SetPersonalState(c) \/ AcknowledgeAlert(c) \/ MarkAllRead(c)
      PROVE  IInv'
  BY <1>1, RequestOK, NextPageOK, EndOK, ListOK, ShowOneOK, SetPersonalStateOK,
     AcknowledgeAlertOK, MarkAllReadOK
<1>2. ASSUME NEW i \in Items, UpsertInboxItem(i) \/ PurgeItem(i)
      PROVE  IInv'
  BY <1>2, UpsertInboxItemOK, PurgeItemOK
<1>3. ASSUME NEW owner \in Users, SaveDelegation(owner) \/ DeleteDelegation(owner)
      PROVE  IInv'
  BY <1>3, DelegationOK
<1>4. CASE UNCHANGED vars
  <2>1. DataTyped' /\ clock \in Nat
    BY <1>4, TimesAreNumbers DEF vars, IInv, DataTyped
  <2> QED
    BY <1>4, <2>1, OthersOK DEF vars
<1> QED
  BY <1>1, <1>2, <1>3, <1>4, TickOK DEF Next

LEMMA InitOK == Init => IInv
<1> SUFFICES ASSUME Init PROVE IInv
  OBVIOUS
<1>1. clock \in Times /\ clock = 1
  BY TimesAreNumbers DEF Init
<1>2. DataTyped
  BY <1>1 DEF Init, DataTyped
<1> QED
  BY <1>1, <1>2, IdleOK DEF Init, IInv, CallTyped

LEMMA Inductive == Spec => []IInv
BY InitOK, StepOK, PTL DEF Spec

(* No step of any number of clients gives an item or a delegation a value  *)
(* it cannot have, dates a row in the future, or answers with more items   *)
(* than the page size.                                                     *)
THEOREM TypeCorrect == Spec => []TypeOK
<1>1. IInv => TypeOK
  BY DEF IInv, DataTyped, CallTyped, TypeOK
<1> QED
  BY <1>1, Inductive, PTL

(* Paging by (updated_at, id) lists every item that was in the view and    *)
(* stays untouched exactly once, for any number of items and any page      *)
(* size, whatever is rewritten meanwhile.                                  *)
THEOREM PagingIsComplete == Spec => []PagingMissesNothing
<1>1. IInv => PagingMissesNothing
  BY DEF IInv, PagingOK, PagingMissesNothing
<1> QED
  BY <1>1, Inductive, PTL

(* Whatever an answer shows, the caller was entitled to see it when the    *)
(* request for this very page was authorised.                              *)
THEOREM OnlyEntitledAccess == Spec => []AccessIsEntitled
<1>1. IInv => AccessIsEntitled
  BY DEF IInv, ScopeOK, MaySee, AccessIsEntitled
<1> QED
  BY <1>1, Inductive, PTL

(* Neither a delegate nor a manager nor the worker ever changes what the   *)
(* owner of a mailbox has read, archived or acknowledged.                  *)
THEOREM OwnersAlone == Spec => MailboxesArePersonal
<1>1. ASSUME IInv, [Next]_vars, NEW i \in Items,
             items[i] # NoItem, items'[i] # NoItem,
             \/ items'[i].read # items[i].read
             \/ items'[i].archived # items[i].archived
             \/ items'[i].alert = "acknowledged" /\ items[i].alert # "acknowledged"
      PROVE  \E c \in Callers : /\ call[c].phase = "scoped" /\ call'[c].phase = "idle"
                                /\ call[c].viewer = RecipientOf[i]
  <2>1. items \in [Items -> ItemRows \union {NoItem}] /\ items[i] \in ItemRows
        /\ call \in [Callers -> Calls]
    BY <1>1, RowOK DEF IInv, DataTyped
  <2>2. items' # items
    BY <1>1
  <2>3. ASSUME NEW c \in Callers, SetPersonalState(c) \/ AcknowledgeAlert(c)
        PROVE  /\ call[c].phase = "scoped" /\ call'[c].phase = "idle"
               /\ call[c].viewer = RecipientOf[i]
    <3>1. PICK j \in Items :
            /\ items[j] # NoItem /\ RecipientOf[j] \in Recipients(call[c])
            /\ \A k \in Items \ {j} : items'[k] = items[k]
            /\ call' = Unsteady(Answered(c), {j})
      BY <2>1, <2>3 DEF SetPersonalState, AcknowledgeAlert
    <3>2. i = j
      BY <1>1, <3>1
    <3>3. call[c].phase = "scoped" /\ call[c].op = "set"
      BY <2>3 DEF SetPersonalState, AcknowledgeAlert
    <3>4. call[c].scope = "mine"
      BY <1>1, <3>3 DEF IInv, ScopeOK
    <3>5. call'[c].phase = "idle"
      BY <2>1, <3>1 DEF Unsteady, Answered, Idle
    <3> QED
      BY <3>1, <3>2, <3>3, <3>4, <3>5 DEF Recipients
  <2>4. ASSUME NEW c \in Callers, MarkAllRead(c)
        PROVE  /\ call[c].phase = "scoped" /\ call'[c].phase = "idle"
               /\ call[c].viewer = RecipientOf[i]
    <3> DEFINE marked == {k \in Items : /\ Selected(call[c], k) /\ ~items[k].read
                                        /\ items[k].updated <= call[c].now}
    <3>1. /\ call' = Unsteady(Answered(c), marked)
          /\ items' = [k \in Items |-> IF k \in marked
                         THEN [items[k] EXCEPT !.read = TRUE, !.updated = call[c].now]
                         ELSE items[k]]
      BY <2>4 DEF MarkAllRead
    <3>2. i \in marked
      BY <1>1, <3>1
    <3>3. PersonalScope(call[c]) /\ call[c].phase = "scoped"
      BY <2>4 DEF MarkAllRead
    <3>4. RecipientOf[i] \in Recipients(call[c])
      BY <3>2 DEF Selected
    <3>5. call'[c].phase = "idle"
      BY <2>1, <3>1 DEF Unsteady, Answered, Idle
    <3> QED
      BY <3>3, <3>4, <3>5 DEF PersonalScope
  <2>5. ASSUME NEW j \in Items, UpsertInboxItem(j)
        PROVE  FALSE
    <3>1. PICK content \in Contents, t \in Times :
            items' = [items EXCEPT ![j] =
              [updated |-> t, action |-> content.action, alert |-> content.alert,
               read |-> items[j] # NoItem /\ items[j].read,
               archived |-> items[j] # NoItem /\ items[j].archived]]
      BY <2>5 DEF UpsertInboxItem
    <3>2. i = j
      BY <1>1, <2>1, <3>1
    <3>3. content.alert \in {"", "firing", "resolved"}
      BY MailboxAssumption
    <3>4. items[i].read \in BOOLEAN /\ items[i].archived \in BOOLEAN
      BY <2>1 DEF ItemRows
    <3>5. /\ items'[i].read = items[i].read
          /\ items'[i].archived = items[i].archived
          /\ items'[i].alert = content.alert
      BY <1>1, <2>1, <3>1, <3>2, <3>4
    <3> QED
      BY <1>1, <3>3, <3>5
  <2>6. ASSUME NEW j \in Items, PurgeItem(j)
        PROVE  FALSE
    BY <1>1, <2>1, <2>6 DEF PurgeItem
  <2>7. \A c \in Callers : ~(\/ Request(c) \/ NextPage(c) \/ Finish(c) \/ Refuse(c)
                            \/ List(c) \/ Get(c) \/ ResolveAction(c) \/ NoEffect(c))
    BY <2>2 DEF Request, NextPage, Finish, Refuse, List, Get, ResolveAction, NoEffect
  <2>8. /\ ~Tick /\ ~UNCHANGED vars
        /\ \A owner \in Users : ~(SaveDelegation(owner) \/ DeleteDelegation(owner))
    BY <2>2 DEF Tick, SaveDelegation, DeleteDelegation, vars
  <2> QED
    BY <1>1, <2>3, <2>4, <2>5, <2>6, <2>7, <2>8 DEF Next
<1>2. IInv /\ [Next]_vars => [\A i \in Items : OnlyTheOwnerChanges(i)]_vars
  BY <1>1 DEF OnlyTheOwnerChanges
<1> QED
  BY <1>2, Inductive, PTL DEF Spec, MailboxesArePersonal
=============================================================================

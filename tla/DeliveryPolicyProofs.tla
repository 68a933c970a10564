------------------------ MODULE DeliveryPolicyProofs ------------------------
(***************************************************************************)
(* Theorems about DeliveryPolicy, for any deliveries, evaluators, users,   *)
(* limits and windows.                                                     *)
(***************************************************************************)
EXTENDS DeliveryPolicy, FiniteSetTheorems, TLAPS

-----------------------------------------------------------------------------
(* The inductive invariant.                                                *)

\* The key of an immediate plan does not depend on its attempt.
KeyOK(k) == k \in Keys /\ (k[1] \notin Digests => k[2] = 0)

\* An evaluator at work has a subject with recipients, and has read the policy.
EvaluatorsOK ==
  \A e \in Evaluators : pc[e] # "idle" =>
    /\ KeyOK(subject[e])
    /\ Recipients[subject[e][1]] # {}
    /\ todo[e] \subseteq Recipients[subject[e][1]]
    /\ read[e] \in Limits \X BOOLEAN

\* A row says what a reservation of its delivery writes, and is the only one
\* of its key for its user.
RowsOK ==
  /\ \A r \in reservations : /\ KeyOK(r.key)
                             /\ r.channel = ChannelOf[r.key[1]]
                             /\ r.topic = TopicOf[r.key[1]]
  /\ \A r, q \in reservations : r.key = q.key /\ r.user = q.user => r = q

IInv == /\ TypeOK /\ EvaluatorsOK /\ RowsOK
        /\ IsFiniteSet(reservations)
        /\ HourlyLimitIsKept
        /\ DedupeWindowIsKept
        /\ ReservationsAreComplete

LEMMA InitInv == Init => IInv
<1>1. SUFFICES ASSUME Init PROVE IInv
  OBVIOUS
<1>2. TypeOK
  BY <1>1, PolicyAssumption, BoundAssumption DEF Init, TypeOK
<1>3. EvaluatorsOK /\ RowsOK /\ DedupeWindowIsKept /\ HourlyLimitIsKept
      /\ ReservationsAreComplete
  BY <1>1 DEF Init, EvaluatorsOK, RowsOK, DedupeWindowIsKept,
              HourlyLimitIsKept, ReservationsAreComplete
<1>4. IsFiniteSet(reservations)
  BY <1>1, FS_EmptySet DEF Init
<1>5. QED
  BY <1>2, <1>3, <1>4 DEF IInv

-----------------------------------------------------------------------------
(* What a reservation adds.                                                *)

\* Row r is what evaluator time t and limit max make of key k for user u.
NewRow(k, u, t, max) ==
  [key |-> k, user |-> u, channel |-> ChannelOf[k[1]],
   topic |-> TopicOf[k[1]], created |-> t, limit |-> max]

\* The rows are old, or a whole batch of key k has been added to them.
Added(k, t, max) ==
  /\ reservations' = reservations \union
       {NewRow(k, u, t, max) :
          u \in {v \in Recipients[k[1]] : ~Recorded(k, v)}}
  /\ \A u \in Recipients[k[1]] :
       ~Recorded(k, u) => Admissible(k[1], u, t, max)

\* What a reserving step does to the rows.
LEMMA ReserveAdds ==
  ASSUME IInv, NEW e \in Evaluators, Reserve(e)
  PROVE  /\ KeyOK(subject[e]) /\ Recipients[subject[e][1]] # {}
         /\ now[e] \in Nat /\ read[e][1] \in Limits
         /\ \/ reservations' = reservations /\ answer'.verdict # "allowed"
            \/ /\ Added(subject[e], now[e], read[e][1])
               /\ answer'.key = subject[e]
<1> DEFINE key == subject[e]
           missing == {u \in Recipients[key[1]] : ~Recorded(key, u)}
           passed == {u \in missing : Admissible(key[1], u, now[e], read[e][1])}
           rows(S) == {NewRow(key, u, now[e], read[e][1]) : u \in S}
<1>1. /\ KeyOK(key) /\ Recipients[key[1]] # {}
      /\ now[e] \in Nat /\ read[e][1] \in Limits
  BY DEF IInv, EvaluatorsOK, TypeOK, Reserve
<1>2. reservations' = reservations \union rows(Batch(missing, passed))
  BY DEF Reserve, NewRow
<1>3. CASE passed = missing
  <2>1. rows(Batch(missing, passed)) = rows(missing)
    BY <1>3 DEF Batch
  <2>2. \A u \in missing : Admissible(key[1], u, now[e], read[e][1])
    BY <1>3
  <2>3. Added(key, now[e], read[e][1])
    BY <1>2, <2>1, <2>2 DEF Added
  <2>4. answer'.key = key
    BY <1>3 DEF Reserve, Answer
  <2>5. QED
    BY <1>1, <2>3, <2>4
<1>4. CASE passed # missing
  <2>1. rows(Batch(missing, passed)) = {}
    BY <1>4 DEF Batch
  <2>2. answer'.verdict = "refused"
    BY <1>4 DEF Reserve, Answer
  <2>3. QED
    BY <1>1, <1>2, <2>1, <2>2
<1>5. QED
  BY <1>3, <1>4

\* A batch keeps the rows well formed, unique and finite.
LEMMA AddedRows ==
  ASSUME IInv, NEW k, KeyOK(k), NEW t \in Nat, NEW max \in Limits,
         Added(k, t, max)
  PROVE  RowsOK' /\ IsFiniteSet(reservations)' /\ reservations' \subseteq Rows
<1> DEFINE missing == {u \in Recipients[k[1]] : ~Recorded(k, u)}
           new == {NewRow(k, u, t, max) : u \in missing}
<1>1. k[1] \in Deliveries /\ missing \subseteq Users
  BY DeliveryAssumption DEF KeyOK, Keys
<1>2. reservations' = reservations \union new
  BY DEF Added
<1>3. \A r \in new : /\ r.key = k /\ r.channel = ChannelOf[k[1]]
                     /\ r.topic = TopicOf[k[1]]
                     /\ r.user \in missing /\ r = NewRow(k, r.user, t, max)
  BY DEF NewRow
<1>4. new \subseteq Rows
  BY <1>1, DeliveryAssumption DEF NewRow, Rows, KeyOK
<1>5. \A r \in reservations, q \in new : r.key = q.key => r.user # q.user
  BY <1>3 DEF Recorded
<1>6. RowsOK'
  BY <1>2, <1>3, <1>5 DEF RowsOK, IInv, KeyOK
<1>7. IsFiniteSet(missing)
  BY <1>1, FS_Subset, FiniteAssumption
<1>8. IsFiniteSet(new)
  <2> DEFINE f == [u \in missing |-> NewRow(k, u, t, max)]
  <2>1. f \in Surjection(missing, new)
    BY DEF Surjection
  <2>2. QED
    BY <1>7, <2>1, FS_Surjection
<1>9. IsFiniteSet(reservations')
  BY <1>2, <1>8, FS_Union DEF IInv
<1>10. QED
  BY <1>2, <1>4, <1>6, <1>9 DEF IInv, TypeOK

\* A batch keeps the dedupe window: a fresh recipient has no row at or after
\* the start of the window, not even one that is newer than the batch.
LEMMA AddedDedupe ==
  ASSUME IInv, NEW k, KeyOK(k), NEW t \in Nat, NEW max \in Limits,
         Added(k, t, max)
  PROVE  DedupeWindowIsKept'
<1> DEFINE missing == {u \in Recipients[k[1]] : ~Recorded(k, u)}
           new == {NewRow(k, u, t, max) : u \in missing}
<1>1. SUFFICES ASSUME DedupeWindow > 0,
                      NEW r \in reservations', NEW q \in reservations',
                      r.user = q.user, r.channel = q.channel,
                      r.topic = q.topic, r.topic # NoTopic, r.key # q.key
               PROVE  \/ q.created - r.created > DedupeWindow
                      \/ r.created - q.created > DedupeWindow
  BY DEF DedupeWindowIsKept
<1>2. reservations' = reservations \union new
  BY DEF Added
<1>3. \A n \in new : /\ n.key = k /\ n.channel = ChannelOf[k[1]]
                     /\ n.topic = TopicOf[k[1]] /\ n.created = t
                     /\ Fresh(k[1], n.user, t)
  BY DEF NewRow, Added, Admissible
<1>4. ASSUME NEW o \in reservations, NEW n \in new, o.user = n.user,
             o.channel = n.channel, o.topic = n.topic, o.topic # NoTopic
      PROVE  n.created - o.created > DedupeWindow
  <2>1. ~Within(o, t)
    BY <1>1, <1>3, <1>4 DEF Fresh
  <2>2. o.created \in Nat
    BY DEF IInv, TypeOK, Rows
  <2>3. QED
    BY <1>3, <2>1, <2>2, PolicyAssumption DEF Within
<1>5. CASE r \in reservations /\ q \in reservations
  BY <1>1, <1>5 DEF IInv, DedupeWindowIsKept
<1>6. CASE r \in reservations /\ q \in new
  BY <1>1, <1>4, <1>6
<1>7. CASE r \in new /\ q \in reservations
  BY <1>1, <1>4, <1>7
<1>8. CASE r \in new /\ q \in new
  BY <1>1, <1>3, <1>8
<1>9. QED
  BY <1>2, <1>5, <1>6, <1>7, <1>8

\* A batch keeps the hourly limit.  An hour that the new row n of a user
\* enters, of an old row or of n itself, is at most what the frequency check
\* counted and n; so n bears witness to it.
LEMMA AddedLimit ==
  ASSUME IInv, NEW k, KeyOK(k), NEW t \in Nat, NEW max \in Limits,
         Added(k, t, max), reservations' \subseteq Rows
  PROVE  HourlyLimitIsKept'
<1> DEFINE missing == {u \in Recipients[k[1]] : ~Recorded(k, u)}
           new == {NewRow(k, u, t, max) : u \in missing}
           counted(u) == {q \in reservations : /\ q.user = u
                                               /\ q.channel = ChannelOf[k[1]]
                                               /\ q.created >= t - Hour}
<1>1. reservations' = reservations \union new
  BY DEF Added
<1>2. \A n \in new : /\ n.channel = ChannelOf[k[1]] /\ n.created = t
                     /\ n.limit = max
                     /\ n = NewRow(k, n.user, t, max)
                     /\ Cardinality(counted(n.user)) < max
  BY DEF NewRow, Added, Admissible, WithinLimit, BelowLimit
<1>3. \A m, n \in new : m.user = n.user => m = n
  BY <1>2
<1>4. SUFFICES ASSUME NEW r \in reservations'
               PROVE  \E q \in HourOf(r)' : Cardinality(HourOf(r)') <= q.limit
  BY DEF HourlyLimitIsKept
<1>5. /\ HourOf(r)' = {q \in reservations' : /\ q.user = r.user
                                            /\ q.channel = r.channel
                                            /\ r.created - Hour <= q.created
                                            /\ q.created <= r.created}
      /\ \A q \in reservations' : q.created \in Nat /\ q.limit \in Nat
      /\ Hour \in Nat
  BY PolicyAssumption DEF HourOf, Rows
<1>6. CASE \E n \in new : n \in HourOf(r)'
  <2>1. PICK n \in new : n \in HourOf(r)'
    BY <1>6
  <2>2. ASSUME NEW q \in HourOf(r)'
        PROVE  q \in counted(n.user) \union {n}
    <3>1. /\ n.user = r.user /\ n.channel = r.channel /\ n.created <= r.created
          /\ n.channel = ChannelOf[k[1]] /\ n.created = t
      BY <1>2, <1>5, <2>1
    <3>2. /\ q \in reservations' /\ q.user = r.user /\ q.channel = r.channel
          /\ r.created - Hour <= q.created
      BY <1>5, <2>2
    <3>3. q.created >= t - Hour
      BY <1>5, <3>1, <3>2
    <3>4. CASE q \in new
      BY <1>3, <3>1, <3>2, <3>4
    <3>5. CASE q \in reservations
      BY <3>1, <3>2, <3>3, <3>5
    <3>6. QED
      BY <1>1, <3>2, <3>4, <3>5
  <2>3. /\ IsFiniteSet(counted(n.user))
        /\ Cardinality(counted(n.user)) \in Nat
    <3>1. IsFiniteSet(reservations) /\ counted(n.user) \in SUBSET reservations
      BY DEF IInv
    <3> HIDE DEF counted
    <3>2. IsFiniteSet(counted(n.user))
      BY <3>1, FS_Subset
    <3>3. QED
      BY <3>2, FS_CardinalityType
  <2>4. /\ IsFiniteSet(counted(n.user) \union {n})
        /\ Cardinality(counted(n.user) \union {n})
             <= Cardinality(counted(n.user)) + 1
    BY <2>3, FS_AddElement
  <2>5. /\ Cardinality(HourOf(r)')
             <= Cardinality(counted(n.user) \union {n})
        /\ Cardinality(HourOf(r)') \in Nat
        /\ Cardinality(counted(n.user) \union {n}) \in Nat
    <3>1. HourOf(r)' \in SUBSET (counted(n.user) \union {n})
      BY <2>2
    <3> HIDE DEF counted
    <3>2. QED
      BY <2>4, <3>1, FS_Subset, FS_CardinalityType
  <2>6. max \in Nat
    BY PolicyAssumption
  <2>7. Cardinality(HourOf(r)') <= n.limit
    BY <1>2, <2>3, <2>4, <2>5, <2>6
  <2>8. QED
    BY <2>1, <2>7
<1>7. CASE \A n \in new : n \notin HourOf(r)'
  <2>1. r \in reservations
    BY <1>1, <1>5, <1>7
  <2>2. HourOf(r)' = HourOf(r)
    BY <1>1, <1>5, <1>7 DEF HourOf
  <2>3. QED
    BY <2>1, <2>2 DEF IInv, HourlyLimitIsKept
<1>8. QED
  BY <1>6, <1>7

\* A batch is complete, and the delivery it lets pass has a row in it.
LEMMA AddedComplete ==
  ASSUME IInv, NEW k, Recipients[k[1]] # {}, NEW t, NEW max,
         Added(k, t, max), answer'.key = k
  PROVE  ReservationsAreComplete'
<1> DEFINE missing == {u \in Recipients[k[1]] : ~Recorded(k, u)}
           new == {NewRow(k, u, t, max) : u \in missing}
<1>1. reservations' = reservations \union new
  BY DEF Added
<1>2. \A r \in reservations : \A u \in Recipients[r.key[1]] :
        Recorded(r.key, u)'
  BY <1>1 DEF IInv, ReservationsAreComplete, Recorded
<1>3. \A u \in Recipients[k[1]] : Recorded(k, u)'
  <2>1. TAKE u \in Recipients[k[1]]
  <2>2. CASE Recorded(k, u)
    BY <1>1, <2>2 DEF Recorded
  <2>3. CASE ~Recorded(k, u)
    <3>1. NewRow(k, u, t, max) \in reservations'
      BY <1>1, <2>3
    <3>2. NewRow(k, u, t, max).key = k /\ NewRow(k, u, t, max).user = u
      BY DEF NewRow
    <3>3. QED
      BY <3>1, <3>2 DEF Recorded
  <2>4. QED
    BY <2>2, <2>3
<1>4. \A r \in new : r.key = k
  BY DEF NewRow
<1>5. \E r \in reservations' : r.key = answer'.key
  BY <1>3 DEF Recorded
<1>6. QED
  BY <1>1, <1>2, <1>3, <1>4, <1>5 DEF ReservationsAreComplete

-----------------------------------------------------------------------------
(* The steps of the evaluators.                                            *)

\* What the evaluators hold, and what they return.
LocalOK ==
  /\ pc \in [Evaluators -> {"idle", "preferences", "reserve"}]
  /\ subject \in [Evaluators -> Keys \union {<<>>}]
  /\ todo \in [Evaluators -> SUBSET Users]
  /\ \A e \in Evaluators : pc[e] = "preferences" <=> todo[e] # {}
  /\ now \in [Evaluators -> Nat]
  /\ read \in [Evaluators -> (Limits \X BOOLEAN) \union {<<>>}]
  /\ answer \in Answers \union {NoAnswer}

SharedOK ==
  /\ enabled \in BOOLEAN /\ quiet \in BOOLEAN /\ limit \in Limits
  /\ refuses \in [Users -> SUBSET Channels]
  /\ retries \in [Deliveries -> 0 .. MaxRetries]
  /\ clock \in Nat /\ changes \in Nat

LEMMA TypeParts ==
  TypeOK <=> LocalOK /\ SharedOK /\ reservations \subseteq Rows
  BY DEF TypeOK, LocalOK, SharedOK

\* The end of quiet hours is a time.
LEMMA QuietHoursEnd ==
  ASSUME NEW t \in Nat
  PROVE  NextQuietHoursEnd(t) \in Nat
<1>1. /\ t % Day \in 0 .. Day - 1 /\ t % Day <= t
      /\ Day \in Nat /\ QuietEnd \in Nat
  BY PolicyAssumption
<1>2. (t - (t % Day)) + QuietEnd \in Nat
  BY <1>1
<1>3. QED
  BY <1>1, <1>2 DEF NextQuietHoursEnd

\* An answering evaluator is idle and holds nothing.
LEMMA AnswerOK ==
  ASSUME LocalOK, EvaluatorsOK, NEW e \in Evaluators, NEW key \in Keys,
         NEW verdict \in {"unchecked", "suppressed", "refused", "allowed"},
         NEW at \in Nat, NEW awaits \in BOOLEAN, NEW after \in Nat,
         Answer(e, key, verdict, at, awaits, after)
  PROVE  LocalOK' /\ EvaluatorsOK'
<1>1. LocalOK'
  BY DEF LocalOK, Answer, Answers
<1>2. EvaluatorsOK'
  BY DEF LocalOK, EvaluatorsOK, Answer
<1>3. QED
  BY <1>1, <1>2

LEMMA ReadPolicyStep ==
  ASSUME IInv, NEW e \in Evaluators, NEW d \in Deliveries, ReadPolicy(e, d)
  PROVE  LocalOK' /\ EvaluatorsOK' /\ (answer' = NoAnswer \/ answer'.verdict # "allowed")
<1> DEFINE key == ReservationKey(d, retries[d])
<1>1. KeyOK(key) /\ key[1] = d /\ key \in Keys
  BY BoundAssumption DEF IInv, TypeOK, ReservationKey, KeyOK, Keys
<1>2. LocalOK /\ SharedOK /\ EvaluatorsOK
  BY TypeParts DEF IInv
<1> HIDE DEF key
<1>3. CASE Answer(e, key, "unchecked", clock, FALSE, 0)
  <2>1. LocalOK' /\ EvaluatorsOK'
    BY <1>1, <1>2, <1>3, AnswerOK DEF SharedOK
  <2>2. QED
    BY <1>3, <2>1 DEF Answer
<1>4. CASE /\ pc' = [pc EXCEPT ![e] = "preferences"]
           /\ subject' = [subject EXCEPT ![e] = key]
           /\ todo' = [todo EXCEPT ![e] = Recipients[d]]
           /\ now' = [now EXCEPT ![e] = clock]
           /\ read' = [read EXCEPT ![e] = <<limit, quiet>>]
           /\ answer' = NoAnswer
  <2>1. Recipients[d] # {} /\ Recipients[d] \subseteq Users
    BY DeliveryAssumption DEF ReadPolicy
  <2>2. LocalOK'
    BY <1>1, <1>2, <1>4, <2>1 DEF LocalOK, SharedOK
  <2>3. EvaluatorsOK'
    BY <1>1, <1>2, <1>4, <2>1 DEF LocalOK, SharedOK, EvaluatorsOK
  <2>4. QED
    BY <1>4, <2>2, <2>3
<1>5. QED
  BY <1>3, <1>4 DEF ReadPolicy, key

LEMMA ReadPreferenceStep ==
  ASSUME IInv, NEW e \in Evaluators, NEW u \in Users, ReadPreference(e, u)
  PROVE  LocalOK' /\ EvaluatorsOK' /\ (answer' = NoAnswer \/ answer'.verdict # "allowed")
<1>1. LocalOK /\ EvaluatorsOK
  BY TypeParts DEF IInv
<1>2. subject[e] \in Keys /\ now[e] \in Nat
  BY <1>1 DEF LocalOK, EvaluatorsOK, ReadPreference, KeyOK
<1>3. CASE Answer(e, subject[e], "suppressed", now[e], FALSE, 0)
  <2>1. LocalOK' /\ EvaluatorsOK'
    BY <1>1, <1>2, <1>3, AnswerOK
  <2>2. QED
    BY <1>3, <2>1 DEF Answer
<1>4. CASE /\ todo' = [todo EXCEPT ![e] = @ \ {u}]
           /\ pc' = [pc EXCEPT ![e] = IF todo'[e] = {} THEN "reserve" ELSE @]
           /\ answer' = NoAnswer
           /\ UNCHANGED <<subject, now, read>>
  <2>1. pc[e] = "preferences"
    BY DEF ReadPreference
  <2>2. LocalOK'
    BY <1>1, <1>4, <2>1 DEF LocalOK
  <2>3. EvaluatorsOK'
    BY <1>1, <1>4, <2>1 DEF LocalOK, EvaluatorsOK
  <2>4. QED
    BY <1>4, <2>2, <2>3
<1>5. QED
  BY <1>3, <1>4 DEF ReadPreference

LEMMA ReserveStep ==
  ASSUME IInv, NEW e \in Evaluators, Reserve(e)
  PROVE  LocalOK' /\ EvaluatorsOK'
<1>1. LocalOK /\ EvaluatorsOK
  BY TypeParts DEF IInv
<1>2. subject[e] \in Keys /\ now[e] \in Nat /\ read[e][2] \in BOOLEAN
  BY <1>1 DEF LocalOK, EvaluatorsOK, Reserve, KeyOK
<1>3. PICK verdict \in {"refused", "allowed"}, awaits \in BOOLEAN, after \in Nat :
        Answer(e, subject[e], verdict, now[e], awaits, after)
  BY <1>2, QuietHoursEnd DEF Reserve
<1>4. QED
  BY <1>1, <1>2, <1>3, AnswerOK

-----------------------------------------------------------------------------
(* Every step keeps the invariant.                                         *)

\* A step that leaves the rows alone, and answers nobody that he may deliver.
LEMMA RowsUnchanged ==
  ASSUME IInv, LocalOK', SharedOK', EvaluatorsOK',
         UNCHANGED reservations,
         answer' = NoAnswer \/ answer'.verdict # "allowed" \/ UNCHANGED answer
  PROVE  IInv'
<1>1. TypeOK'
  BY DEF IInv, TypeOK, LocalOK, SharedOK
<1>2. RowsOK' /\ IsFiniteSet(reservations)'
  BY DEF IInv, RowsOK
<1>3. HourlyLimitIsKept' /\ DedupeWindowIsKept'
  BY DEF IInv, HourlyLimitIsKept, HourOf, DedupeWindowIsKept
<1>4. ReservationsAreComplete'
  BY DEF IInv, ReservationsAreComplete, Recorded
<1>5. QED
  BY <1>1, <1>2, <1>3, <1>4 DEF IInv

LEMMA NextInv ==
  ASSUME IInv, [Next]_vars
  PROVE  IInv'
<1>1. LocalOK /\ SharedOK /\ EvaluatorsOK
  BY TypeParts DEF IInv
<1>2. ASSUME NEW e \in Evaluators, NEW d \in Deliveries, ReadPolicy(e, d)
      PROVE  IInv'
  <2>1. UNCHANGED <<policy, reservations, retries, clock, changes>>
    BY <1>2 DEF ReadPolicy
  <2>2. SharedOK'
    BY <1>1, <2>1 DEF SharedOK, policy
  <2>3. QED
    BY <1>2, <2>1, <2>2, ReadPolicyStep, RowsUnchanged
<1>3. ASSUME NEW e \in Evaluators, NEW u \in Users, ReadPreference(e, u)
      PROVE  IInv'
  <2>1. UNCHANGED <<policy, reservations, retries, clock, changes>>
    BY <1>3 DEF ReadPreference
  <2>2. SharedOK'
    BY <1>1, <2>1 DEF SharedOK, policy
  <2>3. QED
    BY <1>3, <2>1, <2>2, ReadPreferenceStep, RowsUnchanged
<1>4. ASSUME NEW e \in Evaluators, Reserve(e)
      PROVE  IInv'
  <2> DEFINE k == subject[e]
             max == read[e][1]
  <2>1. LocalOK' /\ EvaluatorsOK'
    BY <1>4, ReserveStep
  <2>2. SharedOK'
    BY <1>1, <1>4 DEF Reserve, SharedOK, policy
  <2>3. /\ KeyOK(k) /\ Recipients[k[1]] # {} /\ now[e] \in Nat /\ max \in Limits
        /\ \/ reservations' = reservations /\ answer'.verdict # "allowed"
           \/ Added(k, now[e], max) /\ answer'.key = k
    BY <1>4, ReserveAdds
  <2>4. CASE reservations' = reservations /\ answer'.verdict # "allowed"
    BY <2>1, <2>2, <2>4, RowsUnchanged
  <2>5. CASE Added(k, now[e], max) /\ answer'.key = k
    <3>1. RowsOK' /\ IsFiniteSet(reservations)' /\ reservations' \subseteq Rows
      BY <2>3, <2>5, AddedRows
    <3>2. TypeOK'
      BY <2>1, <2>2, <3>1 DEF TypeOK, LocalOK, SharedOK
    <3>3. DedupeWindowIsKept'
      BY <2>3, <2>5, AddedDedupe
    <3>4. HourlyLimitIsKept'
      BY <2>3, <2>5, <3>1, AddedLimit
    <3>5. ReservationsAreComplete'
      BY <2>3, <2>5, AddedComplete
    <3>6. QED
      BY <2>1, <3>1, <3>2, <3>3, <3>4, <3>5 DEF IInv
  <2>6. QED
    BY <2>3, <2>4, <2>5
<1>5. ASSUME UNCHANGED <<reservations, local>>, SharedOK',
             answer' = NoAnswer \/ UNCHANGED answer
      PROVE  IInv'
  <2>1. LocalOK' /\ EvaluatorsOK'
    BY <1>1, <1>5 DEF LocalOK, EvaluatorsOK, local
  <2>2. QED
    BY <1>5, <2>1, RowsUnchanged
<1>6. CASE \E d \in Deliveries : Reschedule(d)
  <2>1. SharedOK'
    BY <1>1, <1>6, BoundAssumption DEF SharedOK, Reschedule, policy
  <2>2. QED
    BY <1>5, <1>6, <2>1 DEF Reschedule
<1>7. CASE SavePolicy
  <2>1. SharedOK'
    BY <1>1, <1>7 DEF SharedOK, SavePolicy
  <2>2. QED
    BY <1>5, <1>7, <2>1 DEF SavePolicy
<1>8. CASE \E u \in Users : SaveRecipientPreference(u)
  <2>1. SharedOK'
    BY <1>1, <1>8 DEF SharedOK, SaveRecipientPreference
  <2>2. QED
    BY <1>5, <1>8, <2>1 DEF SaveRecipientPreference
<1>9. CASE Tick
  <2>1. SharedOK'
    BY <1>1, <1>9 DEF SharedOK, Tick, policy
  <2>2. QED
    BY <1>5, <1>9, <2>1 DEF Tick
<1>10. CASE UNCHANGED vars
  <2>1. SharedOK'
    BY <1>1, <1>10 DEF SharedOK, vars, policy
  <2>2. QED
    BY <1>5, <1>10, <2>1 DEF vars
<1>11. QED
  BY <1>2, <1>3, <1>4, <1>6, <1>7, <1>8, <1>9, <1>10 DEF Next

-----------------------------------------------------------------------------
(* Times of day.                                                           *)

LEMMA Remainder ==
  ASSUME NEW a \in Int, NEW d \in Nat \ {0}
  PROVE  /\ a % d \in 0 .. d - 1
         /\ \E q \in Int : a = d * q + (a % d)
<1>1. a % d \in 0 .. d - 1
  OBVIOUS
<1>2. a \div d \in Int /\ a = d * (a \div d) + (a % d)
  OBVIOUS
<1> QED
  BY <1>1, <1>2

LEMMA Multiple ==
  ASSUME NEW d \in Nat \ {0}, NEW k \in Int, k >= 1
  PROVE  d * k >= d
OBVIOUS

LEMMA OneRemainder ==
  ASSUME NEW d \in Nat \ {0}, NEW p \in Int, NEW q \in Int,
         NEW m \in 0 .. d - 1, NEW n \in 0 .. d - 1, d * p + m = d * q + n
  PROVE  m = n
<1>1. d * (p - q) = n - m /\ d * (q - p) = m - n
  OBVIOUS
<1>2. CASE p - q >= 1
  <2>1. d * (p - q) >= d
    BY <1>2, Multiple
  <2> QED
    BY <1>1, <2>1
<1>3. CASE q - p >= 1
  <2>1. d * (q - p) >= d
    BY <1>3, Multiple
  <2> QED
    BY <1>1, <2>1
<1> QED
  BY <1>1, <1>2, <1>3

\* The time of day of the m-th instant of a day.
LEMMA TimeOfDay ==
  ASSUME NEW d \in Nat \ {0}, NEW q \in Int, NEW m \in 0 .. d - 1,
         NEW a \in Int, a = d * q + m
  PROVE  a % d = m
<1>1. PICK p \in Int : a = d * p + (a % d)
  BY Remainder
<1>2. a % d \in 0 .. d - 1
  BY Remainder
<1> QED
  BY <1>1, <1>2, OneRemainder

LEMMA QuietConstants ==
  /\ Day \in Nat \ {0} /\ QuietStart \in Nat /\ QuietEnd \in Nat
  /\ QuietStart < Day /\ QuietEnd < Day
BY PolicyAssumption

\* A time is a time of day in a day.
LEMMA DayOf ==
  ASSUME NEW t \in Nat
  PROVE  \E q \in Int, m \in Nat : m = t % Day /\ m < Day /\ t = Day * q + m
<1>1. t \in Int /\ Day \in Nat \ {0}
  BY QuietConstants
<1>2. t % Day \in 0 .. Day - 1 /\ \E q \in Int : t = Day * q + (t % Day)
  BY <1>1, Remainder
<1>3. t % Day \in Nat /\ t % Day < Day
  BY <1>1, <1>2
<1> QED
  BY <1>2, <1>3

\* The comparison of times of day in InQuiet is the walk from QuietStart to
\* QuietEnd, over midnight or not.
LEMMA QuietIsAWalk ==
  ASSUME NEW t \in Nat, QuietStart # QuietEnd
  PROVE  InQuiet(t) <=> QuietTime(t)
<1>2. PICK q \in Int, m \in Nat : m = t % Day /\ m < Day /\ t = Day * q + m
  BY DayOf
<1>3. (t - QuietStart) % Day =
        IF QuietStart <= m THEN m - QuietStart ELSE m - QuietStart + Day
  <2>1. CASE QuietStart <= m
    <3>1. t - QuietStart = Day * q + (m - QuietStart)
      BY <1>2, QuietConstants
    <3>2. m - QuietStart \in 0 .. Day - 1 /\ t - QuietStart \in Int
      BY <1>2, <2>1, QuietConstants
    <3> QED
      BY <2>1, <3>1, <3>2, TimeOfDay, QuietConstants
  <2>2. CASE ~(QuietStart <= m)
    <3>1. t - QuietStart = Day * (q - 1) + (m - QuietStart + Day)
      BY <1>2, QuietConstants
    <3>2. /\ m - QuietStart + Day \in 0 .. Day - 1 /\ t - QuietStart \in Int
          /\ q - 1 \in Int
      BY <1>2, <2>2, QuietConstants
    <3>3. PICK p \in Int, n \in 0 .. Day - 1 :
            p = q - 1 /\ n = m - QuietStart + Day /\ t - QuietStart = Day * p + n
      BY <3>1, <3>2
    <3>4. (t - QuietStart) % Day = n
      BY <3>2, <3>3, TimeOfDay, QuietConstants
    <3> QED
      BY <2>2, <3>3, <3>4
  <2> QED
    BY <2>1, <2>2
<1>4. (QuietEnd - QuietStart) % Day =
        IF QuietStart < QuietEnd THEN QuietEnd - QuietStart
                                 ELSE QuietEnd - QuietStart + Day
  <2>1. CASE QuietStart < QuietEnd
    <3>1. /\ QuietEnd - QuietStart = Day * 0 + (QuietEnd - QuietStart)
          /\ QuietEnd - QuietStart \in 0 .. Day - 1
          /\ QuietEnd - QuietStart \in Int
      BY <2>1, QuietConstants
    <3> QED
      BY <2>1, <3>1, TimeOfDay, QuietConstants
  <2>2. CASE ~(QuietStart < QuietEnd)
    <3>1. /\ QuietEnd - QuietStart = Day * (-1) + (QuietEnd - QuietStart + Day)
          /\ QuietEnd - QuietStart + Day \in 0 .. Day - 1
          /\ QuietEnd - QuietStart \in Int
      BY <2>2, QuietConstants
    <3> QED
      BY <2>2, <3>1, TimeOfDay, QuietConstants
  <2> QED
    BY <2>1, <2>2
<1>5. InQuiet(t) <=> IF QuietStart < QuietEnd
                     THEN QuietStart <= m /\ m < QuietEnd
                     ELSE QuietStart <= m \/ m < QuietEnd
  BY <1>2 DEF InQuiet
<1> QED
  BY <1>2, <1>3, <1>4, <1>5, QuietConstants DEF QuietTime

\* NextQuietHoursEnd is the first instant that is not quiet.
LEMMA QuietHoursEndThere ==
  ASSUME NEW t \in Nat, QuietStart # QuietEnd, InQuiet(t)
  PROVE  /\ NextQuietHoursEnd(t) \in Nat /\ NextQuietHoursEnd(t) > t
         /\ \A u \in t .. NextQuietHoursEnd(t) - 1 : QuietTime(u)
         /\ ~QuietTime(NextQuietHoursEnd(t))
<1>2. PICK q \in Int, m \in Nat : m = t % Day /\ m < Day /\ t = Day * q + m
  BY DayOf
<1>3. PICK base \in Int : base = Day * q /\ t = base + m /\ base + Day = Day * (q + 1)
  BY <1>2, QuietConstants
<1>4. NextQuietHoursEnd(t) = IF QuietEnd > m THEN base + QuietEnd
                                             ELSE base + QuietEnd + Day
  <2>1. t - (t % Day) = base
    BY <1>2, <1>3
  <2>2. base + QuietEnd > t <=> QuietEnd > m
    BY <1>3, QuietConstants
  <2> QED
    BY <2>1, <2>2 DEF NextQuietHoursEnd
<1>5. IF QuietStart < QuietEnd THEN QuietStart <= m /\ m < QuietEnd
                               ELSE QuietStart <= m \/ m < QuietEnd
  BY <1>2 DEF InQuiet
<1>6. ASSUME NEW n \in 0 .. Day - 1
      PROVE  /\ (base + n) % Day = n
             /\ (base + Day + n) % Day = n
  <2>1. PICK p \in Int : p = q + 1
    OBVIOUS
  <2>2. PICK a \in Int : a = base + n
    BY QuietConstants
  <2>3. PICK b \in Int : b = base + Day + n
    BY QuietConstants
  <2>4. a = Day * q + n
    BY <1>3, <2>2
  <2>5. b = Day * p + n
    BY <1>3, <2>1, <2>3
  <2>6. a % Day = n /\ b % Day = n
    BY <2>4, <2>5, TimeOfDay, QuietConstants
  <2> QED
    BY <2>2, <2>3, <2>6
<1>7. NextQuietHoursEnd(t) % Day = QuietEnd
  <2>1. QuietEnd \in 0 .. Day - 1
    BY QuietConstants
  <2>2. base + QuietEnd + Day = base + Day + QuietEnd
    BY <1>3, QuietConstants
  <2> QED
    BY <1>4, <1>6, <2>1, <2>2
<1>8. NextQuietHoursEnd(t) \in Nat /\ NextQuietHoursEnd(t) > t
  BY <1>2, <1>3, <1>4, QuietConstants
<1>9. ~QuietTime(NextQuietHoursEnd(t))
  <2>1. ~InQuiet(NextQuietHoursEnd(t))
    BY <1>7, QuietConstants DEF InQuiet
  <2> QED
    BY <1>8, <2>1, QuietIsAWalk
<1>10. ASSUME NEW u \in t .. NextQuietHoursEnd(t) - 1 PROVE QuietTime(u)
  <2>1. u \in Nat /\ base + m <= u /\ u < NextQuietHoursEnd(t)
    BY <1>3, <1>8
  <2>2. PICK n \in 0 .. Day - 1 : \/ u = base + n /\ m <= n
                                  \/ u = base + Day + n /\ QuietEnd <= m /\ n < QuietEnd
    <3>1. CASE u < base + Day
      <4>1. u - base \in 0 .. Day - 1 /\ u = base + (u - base) /\ m <= u - base
        BY <1>3, <2>1, <3>1, QuietConstants
      <4> QED
        BY <4>1
    <3>2. CASE ~(u < base + Day)
      <4>1. QuietEnd <= m /\ u < base + QuietEnd + Day
        BY <1>3, <1>4, <2>1, <3>2, QuietConstants
      <4>2. /\ u - base - Day \in 0 .. Day - 1
            /\ u = base + Day + (u - base - Day)
            /\ u - base - Day < QuietEnd
        BY <1>3, <2>1, <3>2, <4>1, QuietConstants
      <4> QED
        BY <4>1, <4>2
    <3> QED
      BY <3>1, <3>2
  <2>3. u % Day = n
    BY <1>6, <2>2
  <2>4. u = base + n => n < QuietEnd \/ QuietEnd <= m
    BY <1>3, <1>4, <2>1, <2>2, QuietConstants
  <2>5. InQuiet(u)
    BY <1>2, <1>5, <2>2, <2>3, <2>4, QuietConstants DEF InQuiet
  <2> QED
    BY <2>1, <2>5, QuietIsAWalk
<1> QED
  BY <1>8, <1>9, <1>10

-----------------------------------------------------------------------------
(* Theorems.                                                               *)

\* The invariant is inductive: it holds in every state that evaluations,
\* saved policies and preferences, retries and time lead to.
THEOREM Inductive == Spec => []IInv
<1>1. Init => IInv
  BY InitInv
<1>2. IInv /\ [Next]_vars => IInv'
  BY NextInv
<1>3. QED
  BY <1>1, <1>2, PTL DEF Spec

\* Rows, locals and answers always have the shape the code gives them, and
\* whoever reserves has asked for every recipient's preference.
THEOREM TypeCorrect == Spec => []TypeOK
<1>1. IInv => TypeOK
  BY DEF IInv
<1>2. QED
  BY <1>1, Inductive, PTL

\* ReserveBatch keeps MaxPerRecipientPerHour, whatever evaluations run at the
\* same time, late or by an older policy.
THEOREM HourlyLimit == Spec => []HourlyLimitIsKept
<1>1. IInv => HourlyLimitIsKept
  BY DEF IInv
<1>2. QED
  BY <1>1, Inductive, PTL

\* ReserveBatch keeps the dedupe window, in whatever order concurrent
\* evaluations insert their rows.
THEOREM DedupeWindowHolds == Spec => []DedupeWindowIsKept
<1>1. IInv => DedupeWindowIsKept
  BY DEF IInv
<1>2. QED
  BY <1>1, Inductive, PTL

\* The reservation identity makes the retry of an immediate plan free.
THEOREM RetriesAreFree == Spec => []RetryReservesOnce
<1>1. IInv => RetryReservesOnce
  <2>1. SUFFICES ASSUME IInv, NEW r \in reservations, NEW q \in reservations,
                        r.user = q.user, r.key[1] = q.key[1],
                        r.key[1] \notin Digests
                 PROVE  r = q
    BY DEF RetryReservesOnce
  <2>2. r.key \in Keys /\ q.key \in Keys /\ r.key[2] = 0 /\ q.key[2] = 0
    BY <2>1 DEF IInv, RowsOK, KeyOK
  <2>3. r.key = q.key
    BY <2>1, <2>2 DEF Keys
  <2>4. QED
    BY <2>1, <2>3 DEF IInv, RowsOK
<1>2. QED
  BY <1>1, Inductive, PTL

\* ReserveBatch reserves for all recipients of a delivery or for none, and
\* EvaluateDelivery lets nothing pass without.
THEOREM BatchesAreComplete == Spec => []ReservationsAreComplete
<1>1. IInv => ReservationsAreComplete
  BY DEF IInv
<1>2. QED
  BY <1>1, Inductive, PTL

\* A delivery that is let through has been told to wait for what
\* NextQuietHoursEnd gives for the time it was judged by.
AwaitsOK ==
  answer # NoAnswer => (answer.verdict = "allowed" =>
    /\ answer.at \in Nat /\ answer.awaits \in BOOLEAN
    /\ answer.after = IF answer.awaits THEN NextQuietHoursEnd(answer.at)
                                       ELSE 0)

LEMMA AwaitsStep == IInv /\ AwaitsOK /\ [Next]_vars => AwaitsOK'
<1> SUFFICES ASSUME IInv, AwaitsOK, [Next]_vars PROVE AwaitsOK'
  OBVIOUS
<1>1. ASSUME answer' = NoAnswer \/ answer'.verdict # "allowed" \/ UNCHANGED answer
      PROVE  AwaitsOK'
  BY <1>1 DEF AwaitsOK
<1>2. ASSUME NEW e \in Evaluators, Reserve(e) PROVE AwaitsOK'
  <2>1. now[e] \in Nat /\ read[e][2] \in BOOLEAN
    BY <1>2 DEF IInv, TypeOK, EvaluatorsOK, Reserve
  <2>2. CASE Answer(e, subject[e], "refused", now[e], FALSE, 0)
    BY <1>1, <2>2 DEF Answer
  <2>3. CASE Answer(e, subject[e], "allowed", now[e], read[e][2],
                    IF read[e][2] THEN NextQuietHoursEnd(now[e]) ELSE 0)
    <3>1. PICK at \in Nat, awaits \in BOOLEAN, after \in Nat :
            /\ at = now[e] /\ awaits = read[e][2]
            /\ after = IF awaits THEN NextQuietHoursEnd(at) ELSE 0
            /\ answer' = [key |-> subject[e], verdict |-> "allowed", at |-> at,
                          awaits |-> awaits, after |-> after]
      BY <2>1, <2>3, QuietHoursEnd DEF Answer
    <3>2. answer'.at = at /\ answer'.awaits = awaits /\ answer'.after = after
      BY <3>1
    <3> QED
      BY <3>1, <3>2 DEF AwaitsOK
  <2> QED
    BY <1>2, <2>2, <2>3 DEF Reserve
<1>3. ASSUME NEW e \in Evaluators, NEW d \in Deliveries, ReadPolicy(e, d)
      PROVE  AwaitsOK'
  BY <1>1, <1>3, ReadPolicyStep
<1>4. ASSUME NEW e \in Evaluators, NEW u \in Users, ReadPreference(e, u)
      PROVE  AwaitsOK'
  BY <1>1, <1>4, ReadPreferenceStep
<1>5. CASE \/ \E d \in Deliveries : Reschedule(d)
           \/ SavePolicy \/ (\E u \in Users : SaveRecipientPreference(u)) \/ Tick
  BY <1>1, <1>5 DEF Reschedule, SavePolicy, SaveRecipientPreference, Tick
<1>6. CASE UNCHANGED vars
  BY <1>1, <1>6 DEF vars
<1> QED
  BY <1>2, <1>3, <1>4, <1>5, <1>6 DEF Next

\* EvaluateDelivery never lets a delivery go in quiet hours, and never holds it
\* back for longer than NextQuietHoursEnd has to, for quiet hours of any length,
\* over midnight or not, and at any time of any day.
THEOREM QuietHours == Spec => []QuietHoursAreKept
<1>1. Init => AwaitsOK
  BY DEF Init, AwaitsOK
<1>2. AwaitsOK => QuietHoursAreKept
  <2> SUFFICES ASSUME AwaitsOK, answer # NoAnswer, answer.verdict = "allowed",
                      QuietStart # QuietEnd
               PROVE  IF answer.after = 0
                      THEN answer.awaits => ~QuietTime(answer.at)
                      ELSE /\ answer.awaits /\ answer.after > answer.at
                           /\ \A t \in answer.at .. answer.after - 1 : QuietTime(t)
                           /\ ~QuietTime(answer.after)
    BY DEF QuietHoursAreKept
  <2>1. PICK at \in Nat, after \in Nat :
          /\ at = answer.at /\ after = answer.after /\ answer.awaits \in BOOLEAN
          /\ after = IF answer.awaits THEN NextQuietHoursEnd(at) ELSE 0
    BY QuietHoursEnd DEF AwaitsOK
  <2>2. CASE answer.awaits /\ InQuiet(at)
    BY <2>1, <2>2, QuietHoursEndThere
  <2>3. CASE answer.awaits /\ ~InQuiet(at)
    <3>1. after = 0
      BY <2>1, <2>3 DEF NextQuietHoursEnd
    <3> QED
      BY <2>1, <2>3, <3>1, QuietIsAWalk
  <2>4. CASE ~answer.awaits
    BY <2>1, <2>4
  <2> QED
    BY <2>1, <2>2, <2>3, <2>4
<1>3. IInv /\ AwaitsOK /\ [Next]_vars => AwaitsOK'
  BY AwaitsStep
<1> QED
  BY <1>1, <1>2, <1>3, Inductive, PTL DEF Spec
=============================================================================

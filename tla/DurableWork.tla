---------------------------- MODULE DurableWork ----------------------------
(***************************************************************************)
(* What the module's durable queues promise, whoever works on them: an     *)
(* item is submitted once, leased any number of times, each lease under a  *)
(* higher fence, retried only while attempts are left, and closed once.    *)
(* Channel plans implement it; so do inbox events.                         *)
(***************************************************************************)
EXTENDS Naturals

CONSTANTS Items, MaximumAttempts

VARIABLES phase, attempts, fence

work == <<phase, attempts, fence>>

Init == /\ phase = [i \in Items |-> "absent"]
        /\ attempts = [i \in Items |-> 0]
        /\ fence = [i \in Items |-> 0]

Submit(i) == /\ phase[i] = "absent"
             /\ phase' = [phase EXCEPT ![i] = "open"]
             /\ UNCHANGED <<attempts, fence>>

\* Open work is leased, and so is work whose lease has run out.
Lease(i) == /\ phase[i] \in {"open", "leased"}
            /\ phase' = [phase EXCEPT ![i] = "leased"]
            /\ fence' = [fence EXCEPT ![i] = @ + 1]
            /\ UNCHANGED attempts

\* A failed attempt: back to open while attempts are left, closed after the
\* last one.
Fail(i) == /\ phase[i] = "leased"
           /\ attempts[i] < MaximumAttempts
           /\ attempts' = [attempts EXCEPT ![i] = @ + 1]
           /\ phase' = [phase EXCEPT ![i] =
                          IF attempts[i] + 1 < MaximumAttempts
                          THEN "open" ELSE "closed"]
           /\ UNCHANGED fence

\* Leased items are finished together or not at all.
Finish(S) == /\ \A i \in S : phase[i] = "leased"
             /\ phase' = [i \in Items |-> IF i \in S THEN "closed"
                                          ELSE phase[i]]
             /\ UNCHANGED <<attempts, fence>>

Next == \/ \E i \in Items : Submit(i) \/ Lease(i) \/ Fail(i)
        \/ \E S \in SUBSET Items : Finish(S)

Spec == Init /\ [][Next]_work
=============================================================================

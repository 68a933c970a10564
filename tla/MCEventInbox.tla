---------------------------- MODULE MCEventInbox ----------------------------
(* Instances of EventInbox for TLC.                                        *)
EXTENDS EventInbox, TLC

OwnProcess == [w \in Workers |-> w]
Exponential == [a \in 1 .. MaximumAttempts |-> 2 ^ (a - 1)]

\* Everybody is told of everything, and all events are one alert.
Everybody == [e \in Events |-> Users]
OneGroup == [e \in Events |-> "disk"]
InOrder == [e \in Events |-> e]

WorkerSymmetry == Permutations(Workers)
=============================================================================

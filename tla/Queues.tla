------------------------------- MODULE Queues -------------------------------
(***************************************************************************)
(* Sequences as the loop's queues of functors.                             *)
(***************************************************************************)
EXTENDS Sequences

Occurs(f, q) == \E i \in DOMAIN q : q[i] = f

\* No element, or this one at least, is in the queue twice.
Distinct(q) == \A i, j \in DOMAIN q : q[i] = q[j] => i = j
AtMostOnce(f, q) == \A i, j \in DOMAIN q : q[i] = f /\ q[j] = f => i = j
=============================================================================

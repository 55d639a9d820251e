------------------------------ MODULE Executor ------------------------------
(***************************************************************************)
(* What an event_loop promises to the callers of queue_in_loop, whatever   *)
(* the threads, the poller and the wakeup descriptor do: a functor that is *)
(* queued runs at most once, on the loop, after every functor queued       *)
(* before it.                                                              *)
(***************************************************************************)
EXTENDS Queues

CONSTANT Tasks         \* the functors callers may queue, each at most once

VARIABLES queue,       \* functors accepted and not yet run, oldest first
          ran          \* functors run so far, in the order they ran

vars == <<queue, ran>>

Init == /\ queue = <<>>
        /\ ran = <<>>

Post(k) == /\ ~Occurs(k, queue)
           /\ ~Occurs(k, ran)
           /\ queue' = Append(queue, k)
           /\ UNCHANGED ran

Run == /\ queue # <<>>
       /\ ran' = Append(ran, Head(queue))
       /\ queue' = Tail(queue)

Next == Run \/ \E k \in Tasks : Post(k)

Spec == Init /\ [][Next]_vars
=============================================================================

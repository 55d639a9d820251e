----------------------------- MODULE EventLoop -----------------------------
(***************************************************************************)
(* One event_loop (event_loop.cc) with its eventfd (poller_waker.cc): the  *)
(* thread that owns it runs loop(), other threads queue functors and ask   *)
(* it to quit.                                                             *)
(*                                                                         *)
(* The steps that other threads can observe are separate: a caller pushes  *)
(* under the mutex (or sets quit_) and only then writes the eventfd; the   *)
(* loop polls, drains the eventfd, sets calling_pending_functor_, swaps    *)
(* the queue, runs the batch.  Callbacks return, and what a callback may   *)
(* do to its own loop is an owner action: OwnerQueueInLoop, OwnerQuit.     *)
(* run_in_loop is QueueInLoop off the loop's thread and the functor's own  *)
(* effects on it.                                                          *)
(***************************************************************************)
EXTENDS Integers, Queues

CONSTANTS Threads,     \* threads other than the loop's owner
          Tasks,       \* functors, each queued at most once
          EventfdMax   \* the eventfd's ceiling (2^64 - 2 in the kernel)

ASSUME EventfdMaxAssumption == EventfdMax \in Nat \ {0}

VARIABLES
  loopPc,                  \* where the owner stands in loop()
  quit,                    \* quit_
  calling_pending_functor, \* calling_pending_functor_
  pending_functors,        \* pending_functors_
  functors,                \* do_pending_functors' local batch, running one first
  wakeups,                 \* the eventfd's counter
  active,                  \* active_channels still to be handled
  callPc,                  \* "wake": past the push (or the flag), before the write
  ran,                     \* history: functors run, in order
  early                    \* history: functors the owner queued outside loop()

queueVars == <<pending_functors, functors, ran, early>>
vars == <<loopPc, quit, calling_pending_functor, pending_functors, functors,
          wakeups, active, callPc, ran, early>>

Channels == {"waker", "io"}     \* every descriptor but the eventfd is "io"

TypeOK ==
  /\ loopPc \in {"outside", "check", "poll", "dispatch", "begin", "swap", "run"}
  /\ quit \in BOOLEAN
  /\ calling_pending_functor \in BOOLEAN
  /\ pending_functors \in Seq(Tasks)
  /\ functors \in Seq(Tasks)
  /\ wakeups \in 0..EventfdMax
  /\ active \subseteq Channels
  /\ callPc \in [Threads -> {"idle", "wake"}]
  /\ ran \in Seq(Tasks)
  /\ early \subseteq Tasks

Init ==
  /\ loopPc = "outside"
  /\ quit = FALSE
  /\ calling_pending_functor = FALSE
  /\ pending_functors = <<>>
  /\ functors = <<>>
  /\ wakeups = 0
  /\ active = {}
  /\ callPc = [t \in Threads |-> "idle"]
  /\ ran = <<>>
  /\ early = {}

-----------------------------------------------------------------------------
(* The callers' side *)

Fresh(k) == ~Occurs(k, pending_functors) /\ ~Occurs(k, functors) /\ ~Occurs(k, ran)

\* Mutation: a counter without a ceiling.
wakeup_loop_Unbounded == wakeups' = wakeups + 1

\* A write to the non-blocking eventfd; at the ceiling it fails with EAGAIN.
wakeup_loop == wakeups' = IF wakeups < EventfdMax THEN wakeups + 1 ELSE wakeups

\* Mutation: the functor is put in front of the queue.
QueueInLoop_Front(t, k) ==
  /\ callPc[t] = "idle"
  /\ Fresh(k)
  /\ pending_functors' = <<k>> \o pending_functors
  /\ callPc' = [callPc EXCEPT ![t] = "wake"]
  /\ UNCHANGED <<loopPc, quit, calling_pending_functor, functors, wakeups,
                 active, ran, early>>

QueueInLoop(t, k) ==
  /\ callPc[t] = "idle"
  /\ Fresh(k)
  /\ pending_functors' = Append(pending_functors, k)
  /\ callPc' = [callPc EXCEPT ![t] = "wake"]
  /\ UNCHANGED <<loopPc, quit, calling_pending_functor, functors, wakeups,
                 active, ran, early>>

\* Mutation: quit() from another thread only sets the flag.
Quit_NoWakeup(t) ==
  /\ callPc[t] = "idle"
  /\ quit' = TRUE
  /\ UNCHANGED <<loopPc, calling_pending_functor, wakeups, active, callPc, queueVars>>

Quit(t) ==
  /\ callPc[t] = "idle"
  /\ quit' = TRUE
  /\ callPc' = [callPc EXCEPT ![t] = "wake"]
  /\ UNCHANGED <<loopPc, calling_pending_functor, wakeups, active, queueVars>>

WakeupLoop(t) ==
  /\ callPc[t] = "wake"
  /\ wakeup_loop
  /\ callPc' = [callPc EXCEPT ![t] = "idle"]
  /\ UNCHANGED <<loopPc, quit, calling_pending_functor, active, queueVars>>

\* The owner's own code runs before and after loop(), in the handler of an
\* active channel (the waker's handler calls nothing) and in a functor.
OwnerCanCall == \/ loopPc = "outside"
                \/ loopPc = "dispatch" /\ active = {"io"}
                \/ loopPc = "run" /\ functors # <<>>

\* Mutation: the owner never wakes itself, not even in do_pending_functors.
OwnerQueueInLoop_NoWakeup(k) ==
  /\ OwnerCanCall
  /\ Fresh(k)
  /\ pending_functors' = Append(pending_functors, k)
  /\ early' = IF loopPc = "outside" THEN early \cup {k} ELSE early
  /\ UNCHANGED <<loopPc, quit, calling_pending_functor, functors, active,
                 wakeups, callPc, ran>>

OwnerQueueInLoop(k) ==
  /\ OwnerCanCall
  /\ Fresh(k)
  /\ pending_functors' = Append(pending_functors, k)
  /\ IF calling_pending_functor THEN wakeup_loop ELSE UNCHANGED wakeups
  /\ early' = IF loopPc = "outside" THEN early \cup {k} ELSE early
  /\ UNCHANGED <<loopPc, quit, calling_pending_functor, functors, active,
                 callPc, ran>>

OwnerQuit ==
  /\ OwnerCanCall
  /\ quit' = TRUE
  /\ UNCHANGED <<loopPc, calling_pending_functor, wakeups, active, callPc, queueVars>>

-----------------------------------------------------------------------------
(* loop() *)

EnterLoop ==
  /\ loopPc = "outside"
  /\ loopPc' = "check"
  /\ quit' = FALSE
  /\ UNCHANGED <<calling_pending_functor, wakeups, active, callPc, queueVars>>

CheckQuit ==
  /\ loopPc = "check"
  /\ loopPc' = IF quit THEN "outside" ELSE "poll"
  /\ UNCHANGED <<quit, calling_pending_functor, wakeups, active, callPc, queueVars>>

\* Mutation: quit_ = false belongs to every iteration.
PollReturns_ClearsQuit(ready) ==
  /\ loopPc = "poll"
  /\ "waker" \in ready <=> wakeups > 0
  /\ active' = ready
  /\ loopPc' = "dispatch"
  /\ quit' = FALSE
  /\ UNCHANGED <<calling_pending_functor, wakeups, callPc, queueVars>>

\* poll() returns with the ready channels, or with none at the timeout.
PollReturns(ready) ==
  /\ loopPc = "poll"
  /\ "waker" \in ready <=> wakeups > 0
  /\ active' = ready
  /\ loopPc' = "dispatch"
  /\ UNCHANGED <<quit, calling_pending_functor, wakeups, callPc, queueVars>>

\* The waker registered first, so it is handled before every other channel.
HandleWaker ==
  /\ loopPc = "dispatch"
  /\ "waker" \in active
  /\ wakeups' = 0
  /\ active' = active \ {"waker"}
  /\ UNCHANGED <<loopPc, quit, calling_pending_functor, callPc, queueVars>>

HandleIo ==
  /\ loopPc = "dispatch"
  /\ active = {"io"}
  /\ active' = {}
  /\ UNCHANGED <<loopPc, quit, calling_pending_functor, wakeups, callPc, queueVars>>

DispatchDone ==
  /\ loopPc = "dispatch"
  /\ active = {}
  /\ loopPc' = "begin"
  /\ UNCHANGED <<quit, calling_pending_functor, wakeups, active, callPc, queueVars>>

-----------------------------------------------------------------------------
(* do_pending_functors() *)

BeginPending ==
  /\ loopPc = "begin"
  /\ calling_pending_functor' = TRUE
  /\ loopPc' = "swap"
  /\ UNCHANGED <<quit, wakeups, active, callPc, queueVars>>

\* Mutation: the queue is copied out instead of swapped out.
SwapPending_Copies ==
  /\ loopPc = "swap"
  /\ functors' = pending_functors
  /\ loopPc' = "run"
  /\ UNCHANGED <<quit, calling_pending_functor, pending_functors, wakeups,
                 active, callPc, ran, early>>

SwapPending ==
  /\ loopPc = "swap"
  /\ functors' = pending_functors
  /\ pending_functors' = <<>>
  /\ loopPc' = "run"
  /\ UNCHANGED <<quit, calling_pending_functor, wakeups, active, callPc, ran, early>>

FunctorReturns ==
  /\ loopPc = "run"
  /\ functors # <<>>
  /\ ran' = Append(ran, Head(functors))
  /\ functors' = Tail(functors)
  /\ UNCHANGED <<loopPc, quit, calling_pending_functor, pending_functors,
                 wakeups, active, callPc, early>>

\* Mutation: the eventfd is drained after the functors, not before them.
EndPending_Drains ==
  /\ loopPc = "run"
  /\ functors = <<>>
  /\ calling_pending_functor' = FALSE
  /\ wakeups' = 0
  /\ loopPc' = "check"
  /\ UNCHANGED <<quit, active, callPc, queueVars>>

EndPending ==
  /\ loopPc = "run"
  /\ functors = <<>>
  /\ calling_pending_functor' = FALSE
  /\ loopPc' = "check"
  /\ UNCHANGED <<quit, wakeups, active, callPc, queueVars>>

-----------------------------------------------------------------------------
DoPendingFunctors == BeginPending \/ SwapPending \/ FunctorReturns \/ EndPending
Dispatch == HandleWaker \/ HandleIo \/ DispatchDone
Caller(t) == Quit(t) \/ WakeupLoop(t) \/ \E k \in Tasks : QueueInLoop(t, k)
Owner == OwnerQuit \/ \E k \in Tasks : OwnerQueueInLoop(k)

Next ==
  \/ EnterLoop \/ CheckQuit
  \/ \E ready \in SUBSET Channels : PollReturns(ready)
  \/ Dispatch \/ DoPendingFunctors \/ Owner
  \/ \E t \in Threads : Caller(t)

\* What the scheduler and the kernel guarantee: the owner's thread runs,
\* poll() returns when the eventfd is readable, a caller finishes its call.
\* No I/O is assumed, no timeout, and nobody has to call loop() or quit().
LoopStep ==
  \/ CheckQuit \/ Dispatch \/ DoPendingFunctors
  \/ wakeups > 0 /\ \E ready \in SUBSET Channels : PollReturns(ready)

Fairness == WF_vars(LoopStep) /\ \A t \in Threads : WF_vars(WakeupLoop(t))

Spec == Init /\ [][Next]_vars
FairSpec == Spec /\ Fairness

-----------------------------------------------------------------------------
(* Properties *)

\* A wakeup is on its way: the eventfd is readable or a caller will write it.
WakeupDue == wakeups > 0 \/ \E t \in Threads : callPc[t] = "wake"

\* poller_waker.hh's promise: the loop never blocks in poll(), and never
\* stands where its next step is poll(), with a functor waiting and nothing to
\* wake it.  Functors the owner queued before loop() are the exception:
\* queue_in_loop writes no wakeup for them, and they wait for the timeout.
NoLostWakeup ==
  loopPc \in {"check", "poll"} =>
    \A k \in Tasks \ early : Occurs(k, pending_functors) => WakeupDue

\* quit() from anywhere while loop() runs is never slept through.
QuitNotMissed == loopPc = "poll" /\ quit => WakeupDue

\* No functor is both run and still queued, nor queued or run twice, although
\* callers push while the owner swaps the vector out.
ExactlyOnce == Distinct(ran \o functors \o pending_functors)

\* The loop is a first-in first-out executor across the swap.
Abstract == INSTANCE Executor WITH queue <- functors \o pending_functors
ExecutorSpec == Abstract!Spec

\* Every functor queued with a wakeup runs unless the loop is left first, on
\* wakeups alone: neither the one-second timeout nor any I/O is needed.
FunctorsRun ==
  \A k \in Tasks :
    (Occurs(k, pending_functors) /\ k \notin early /\ loopPc # "outside")
      ~> (Occurs(k, ran) \/ loopPc = "outside")

\* quit() called while loop() runs makes loop() return.
QuitStops == (quit /\ loopPc # "outside") ~> loopPc = "outside"
=============================================================================

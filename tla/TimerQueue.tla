----------------------------- MODULE TimerQueue -----------------------------
(***************************************************************************)
(* timer_queue.cc: the timers of one event_loop, its timerfd, and calls    *)
(* from the loop's own callbacks and from other threads.                   *)
(*                                                                         *)
(* Time is a counter of ticks.  The loop is seen as EventLoop promises it: *)
(* an iteration begins when poll() returns, handles the timerfd if it was  *)
(* readable (it registered before every user channel), then the other      *)
(* channels, then the functors queued before the swap, in order.  The      *)
(* user's code may let time pass anywhere in an iteration, MaxBlock ticks  *)
(* in all, though not within one of its calls of the timer queue; poll()   *)
(* itself returns as soon as it has a reason to.  Another thread may be    *)
(* held up for MaxStall ticks within a call.                               *)
(*                                                                         *)
(* A timer's object lives as long as a shared_ptr to it: in a queued add,  *)
(* in timers_, or in handle_read's batch.  timer_handle holds a plain      *)
(* reference.  Touching a freed timer is undefined behaviour, recorded in  *)
(* freedUsed and followed no further.                                      *)
(***************************************************************************)
EXTENDS Integers, Sequences, FiniteSetsExt

CONSTANTS Timers,     \* timer objects, each created at most once
          Delays,     \* delays given to run_after, and intervals of run_every
          Sec, Milli, \* a second and a millisecond, in ticks
          MaxBlock,   \* longest an iteration of the loop takes
          MaxStall,   \* longest another thread's run_after or run_every takes
          MaxClock    \* bound of the clock, for model checking

ASSUME TimeAssumption ==
  /\ Sec \in Nat
  /\ Milli \in 1..Sec
  /\ MaxBlock \in Nat \ {0}
  /\ MaxStall \in Nat
  /\ MaxClock \in Nat
  /\ Delays \subseteq Nat

None == -1    \* a timerfd that is not armed

VARIABLES
  clock,      \* clock::now()
  pc,         \* where the loop stands
  began,      \* when the iteration began
  ops,        \* add and cancel functors queued by other threads
  todo,       \* how many of them the current do_pending_functors took
  timers,     \* timers_
  batch,      \* handle_read's `expiered'
  expired,    \* the part of it still to run
  now,        \* handle_read's `now'
  deadline,   \* when the timerfd becomes, or became, readable
  expiration, \* expiration_ of each timer
  interval,   \* interval_ of each timer, 0 for a one-shot
  created,    \* timers made so far
  cancelled,  \* history: cancel_timer_in_loop has been called for these
  erased,     \* history: and has erased these from timers_
  runs,       \* history: callbacks started per timer, counted up to 2
  freedUsed   \* history: timers touched after their end

loopVars == <<pc, began, todo, now>>
timerVars == <<expiration, interval, created>>
history == <<cancelled, erased, runs, freedUsed>>
vars == <<clock, loopVars, ops, timers, batch, expired, deadline, timerVars, history>>

Op == [do : {"add", "cancel"}, timer : Timers]
\* Mutation: the queued add holds a reference instead of the shared_ptr.
Adds_NotOwned == {}

Adds == {ops[i].timer : i \in {j \in DOMAIN ops : ops[j].do = "add"}}
Live == Adds \cup timers \cup batch
Readable == deadline # None /\ clock >= deadline
Polling == pc = "poll"

TypeOK ==
  /\ clock \in 0..MaxClock /\ began \in 0..MaxClock /\ now \in 0..MaxClock
  /\ pc \in {"poll", "timerfd", "callbacks", "others", "functors"}
  /\ ops \in Seq(Op) /\ todo \in 0..Len(ops)
  /\ timers \subseteq created /\ batch \subseteq created /\ expired \subseteq batch
  /\ deadline = None \/ deadline \in Nat
  /\ expiration \in [Timers -> Nat] /\ interval \in [Timers -> Nat]
  /\ created \subseteq Timers
  /\ cancelled \subseteq created /\ erased \subseteq cancelled
  /\ runs \in [Timers -> 0..2] /\ freedUsed \subseteq created

Init ==
  /\ clock = 0 /\ began = 0 /\ now = 0
  /\ pc = "poll"
  /\ ops = <<>> /\ todo = 0
  /\ timers = {} /\ batch = {} /\ expired = {}
  /\ deadline = None
  /\ expiration = [t \in Timers |-> 0] /\ interval = [t \in Timers |-> 0]
  /\ created = {} /\ cancelled = {} /\ erased = {}
  /\ runs = [t \in Timers |-> 0] /\ freedUsed = {}

-----------------------------------------------------------------------------
(* Helpers *)

First(s) == Min({expiration[t] : t \in s})

\* timerfd_settime: zero disarms, and a negative time is refused, which leaves
\* the timerfd as it was.
reset_timerfd_time(value) ==
  CASE value > 0 -> deadline' = clock + value
    [] value = 0 -> deadline' = None
    [] value < 0 -> UNCHANGED deadline

\* Mutation: no rounding up to a millisecond.
reset_expieration_NoRounding(e) == reset_timerfd_time(e - clock)

\* At least a millisecond when less than a second remains or less than a second
\* has been missed.  A whole second missed gives a negative tv_sec.
reset_expieration_from_now(e) ==
  reset_timerfd_time(IF e - clock <= -Sec THEN e - clock ELSE Max({e - clock, Milli}))

add_timer_in_loop(t, e) ==
  /\ timers' = timers \cup {t}
  /\ IF timers = {} \/ e < First(timers) THEN reset_expieration_from_now(e)
                                         ELSE UNCHANGED deadline

\* Mutation: the timer is found and not erased.
cancel_timer_in_loop_NoErase(t) ==
  /\ UNCHANGED timers
  /\ IF t \in Live
     THEN /\ cancelled' = cancelled \cup {t}
          /\ erased' = erased \cup ({t} \cap timers)
          /\ UNCHANGED freedUsed
     ELSE freedUsed' = freedUsed \cup {t} /\ UNCHANGED <<cancelled, erased>>

\* Looks for the timer in timers_ under its expiration; the timerfd is left alone.
cancel_timer_in_loop(t) ==
  /\ timers' = timers \ {t}
  /\ IF t \in Live
     THEN /\ cancelled' = cancelled \cup {t}
          /\ erased' = erased \cup ({t} \cap timers)
          /\ UNCHANGED freedUsed
     ELSE freedUsed' = freedUsed \cup {t} /\ UNCHANGED <<cancelled, erased>>

\* run_after (periodic = FALSE) and run_every, up to run_in_loop, with the time
\* `at' that clock::now() has given them.
Create(t, d, periodic, at) ==
  /\ t \notin created
  /\ periodic => d > 0
  /\ created' = created \cup {t}
  /\ expiration' = [expiration EXCEPT ![t] = at + d]
  /\ interval' = [interval EXCEPT ![t] = IF periodic THEN d ELSE 0]

\* The loop's thread runs user code: a timer's callback, a handler, a functor.
UserCodeInLoop == \/ pc = "callbacks" /\ expired # batch
                  \/ pc \in {"others", "functors"}

-----------------------------------------------------------------------------
(* Calls *)

\* The caller has read the clock up to MaxStall ticks before its functor is in the
\* queue and the loop awake; meanwhile the timer is only its own.
AddFromThread(t, d, periodic, at) ==
  /\ clock <= at + MaxStall
  /\ Create(t, d, periodic, at)
  /\ ops' = Append(ops, [do |-> "add", timer |-> t])
  /\ UNCHANGED <<clock, loopVars, timers, batch, expired, deadline, history>>

AddInLoop(t, d, periodic) ==
  /\ UserCodeInLoop
  /\ Create(t, d, periodic, clock)
  /\ add_timer_in_loop(t, clock + d)
  /\ UNCHANGED <<clock, loopVars, ops, batch, expired, history>>

\* A client cancels a timer once.
Cancellable(t) ==
  /\ t \in created \ (cancelled \cup freedUsed)
  /\ \A i \in DOMAIN ops : ops[i] # [do |-> "cancel", timer |-> t]

CancelFromThread(t) ==
  /\ Cancellable(t)
  /\ ops' = Append(ops, [do |-> "cancel", timer |-> t])
  /\ UNCHANGED <<clock, loopVars, timers, batch, expired, deadline, timerVars, history>>

CancelInLoop(t) ==
  /\ UserCodeInLoop
  /\ Cancellable(t)
  /\ cancel_timer_in_loop(t)
  /\ UNCHANGED <<clock, loopVars, ops, batch, expired, deadline, timerVars, runs>>

-----------------------------------------------------------------------------
(* The loop *)

PollReturns ==
  /\ Polling
  /\ began' = clock
  /\ pc' = IF Readable THEN "timerfd" ELSE "others"
  /\ UNCHANGED <<clock, todo, now, ops, timers, batch, expired, deadline, timerVars, history>>

\* handle_read, up to the callbacks: the strict lower_bound leaves a timer that
\* expires right now for the next time.
HandleRead ==
  /\ pc = "timerfd"
  /\ pc' = "callbacks"
  /\ deadline' = None
  /\ now' = clock
  /\ batch' = {t \in timers : expiration[t] < clock}
  /\ expired' = batch'
  /\ timers' = timers \ batch'
  /\ UNCHANGED <<clock, began, todo, ops, timerVars, history>>

RunCallback(t) ==
  /\ pc = "callbacks"
  /\ t \in expired
  /\ expiration[t] = First(expired)
  /\ expired' = expired \ {t}
  /\ runs' = [runs EXCEPT ![t] = Min({2, @ + 1})]
  /\ UNCHANGED <<clock, loopVars, ops, timers, batch, deadline, timerVars,
                 cancelled, erased, freedUsed>>

\* The next period counts from the time the batch was popped.
restart(t) == now + interval[t]

\* Mutation: the batch is given up before its callbacks have run.
ResetTimers_Early ==
  /\ pc = "callbacks"
  /\ pc' = "others"
  /\ batch' = {}
  /\ UNCHANGED <<clock, began, todo, now, ops, timers, expired, deadline,
                 timerVars, history>>

\* reset_timers and the rest of handle_read: repeating timers go back into
\* timers_, counted from `now'; the others lose their last owner.
ResetTimers ==
  LET again == {t \in batch : interval[t] > 0} IN
  /\ pc = "callbacks"
  /\ expired = {}
  /\ pc' = "others"
  /\ expiration' = [t \in Timers |-> IF t \in again THEN restart(t) ELSE expiration[t]]
  /\ timers' = timers \cup again
  /\ batch' = {}
  /\ IF timers' = {} THEN UNCHANGED deadline
     ELSE reset_expieration_from_now(Min({expiration'[t] : t \in timers'}))
  /\ UNCHANGED <<clock, began, todo, now, ops, expired, interval, created, history>>

BeginFunctors ==
  /\ pc = "others"
  /\ pc' = "functors"
  /\ todo' = Len(ops)
  /\ UNCHANGED <<clock, began, now, ops, timers, batch, expired, deadline, timerVars, history>>

RunAdd ==
  /\ pc = "functors" /\ todo > 0
  /\ Head(ops).do = "add"
  /\ add_timer_in_loop(Head(ops).timer, expiration[Head(ops).timer])
  /\ ops' = Tail(ops)
  /\ todo' = todo - 1
  /\ UNCHANGED <<clock, pc, began, now, batch, expired, timerVars, history>>

RunCancel ==
  /\ pc = "functors" /\ todo > 0
  /\ Head(ops).do = "cancel"
  /\ cancel_timer_in_loop(Head(ops).timer)
  /\ ops' = Tail(ops)
  /\ todo' = todo - 1
  /\ UNCHANGED <<clock, pc, began, now, batch, expired, deadline, timerVars, runs>>

EndIteration ==
  /\ pc = "functors" /\ todo = 0
  /\ pc' = "poll"
  /\ UNCHANGED <<clock, began, todo, now, ops, timers, batch, expired, deadline,
                 timerVars, history>>

\* Inside handle_read only the callbacks take time.
Tick ==
  /\ clock < MaxClock
  /\ pc = "callbacks" => expired # batch
  /\ IF Polling THEN ~Readable /\ ops = <<>> ELSE clock < began + MaxBlock
  /\ clock' = clock + 1
  /\ UNCHANGED <<loopVars, ops, timers, batch, expired, deadline, timerVars, history>>

-----------------------------------------------------------------------------
Calls ==
  \E t \in Timers :
    \/ CancelFromThread(t) \/ CancelInLoop(t)
    \/ \E d \in Delays, periodic \in BOOLEAN :
         \/ AddInLoop(t, d, periodic)
         \/ \E at \in 0..clock : AddFromThread(t, d, periodic, at)

Loop == \/ PollReturns \/ HandleRead \/ ResetTimers \/ BeginFunctors
        \/ RunAdd \/ RunCancel \/ EndIteration
        \/ \E t \in Timers : RunCallback(t)

Next == Tick \/ Calls \/ Loop

Spec == Init /\ [][Next]_vars

-----------------------------------------------------------------------------
(* Properties *)

\* The timerfd is armed whenever a timer waits and handle_read is not between
\* draining it and arming it again: adding, cancelling the first and an early
\* expiry never leave timers_ unattended.
ArmedWhilePending == timers # {} /\ pc # "callbacks" => deadline # None

\* No waiting timer is four iterations, a call and a millisecond late: the call that
\* queues it, the iteration that runs then, the one it is added in, one that another
\* event starts just before the timerfd is readable, and its own, in which it may wait
\* for the callbacks before it.
MaxLate == 4 * MaxBlock + MaxStall + Milli
BoundedLateness ==
  \A t \in Adds \cup timers \cup expired : clock < expiration[t] + MaxLate

\* A one-shot timer runs once and is then gone for good.
OneShotOnce ==
  \A t \in Timers : interval[t] = 0 =>
    runs[t] <= 1 /\ (runs[t] = 1 => t \notin timers \cup expired \cup Adds)

\* A cancel that finds its timer waiting is final.
ErasedForGood == erased \cap (timers \cup batch \cup Adds) = {}

\* Cancelling touches a freed timer only when the timer is a one-shot whose
\* callback has run: a timer on its way into timers_, waiting, running or
\* repeating is still owned when the cancel reaches the loop.
OnlyFiredDangle == \A t \in freedUsed : interval[t] = 0 /\ runs[t] = 1

\* What becomes of a timer, the cancels it is still to see and those it has missed.
Stage(t) ==
  CASE t \notin created                    -> "new"
    [] t \in created \cap Adds             -> "queued"
    [] t \in timers                        -> "waiting"
    [] t \in expired                       -> "called"
    [] t \in batch \ expired               -> "ringing"
    [] t \in created \ (Live \cup expired) -> "ended"

Alarm == INSTANCE AlarmClock WITH
           Alarms <- Timers, due <- expiration, period <- interval,
           stage <- [t \in Timers |-> Stage(t)],
           asked <- {ops[i].timer : i \in {j \in DOMAIN ops : ops[j].do = "cancel"}},
           missed <- cancelled \ erased

\* Through queued functors, timers_ and the batch, and whatever callbacks add and
\* cancel, a timer is an alarm: never early, never MaxLate late, in order, ended by
\* a cancel that finds it waiting, which every cancel from another thread does, and
\* by no other.
AlarmSpec == Alarm!Spec
=============================================================================

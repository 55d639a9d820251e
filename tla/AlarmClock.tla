----------------------------- MODULE AlarmClock -----------------------------
(***************************************************************************)
(* What a timer_queue keeps to, whatever the timerfd, the queue of         *)
(* functors and the callbacks do.  An alarm rings after its time and never *)
(* before it, less than MaxLate after it, and in the order of the times.   *)
(* The alarms that are due are called together and then ring one by one;   *)
(* one with a period is set again when all have rung, one without rings    *)
(* once.                                                                   *)
(*                                                                         *)
(* A cancel ends an alarm that waits.  One asked for from another thread   *)
(* is served when the alarm waits or has ended, so it never fails.  One    *)
(* made in the loop while the alarm is on its way in, called or ringing is *)
(* missed: it changes nothing, and an alarm with a period goes on.         *)
(***************************************************************************)
EXTENDS Integers

CONSTANTS Alarms,      \* alarms, each set at most once
          Delays,      \* delays and periods they are set with
          MaxLate      \* how late a pending alarm never is

VARIABLES clock,       \* the time
          stage,       \* "new", "queued", "waiting", "called", "ringing" or "ended"
          due,         \* the time an alarm is set for
          period,      \* its period, 0 for none
          asked,       \* alarms with a cancel asked for and not served
          missed       \* alarms that a cancel in the loop has missed

vars == <<clock, stage, due, period, asked, missed>>

At(stages) == {a \in Alarms : stage[a] \in stages}
Pending == At({"queued", "waiting", "called"})

Init == /\ clock = 0
        /\ stage = [a \in Alarms |-> "new"]
        /\ due = [a \in Alarms |-> 0]
        /\ period = [a \in Alarms |-> 0]
        /\ asked = {} /\ missed = {}

\* Time passes, unless somebody has been kept waiting for too long.
Pass == /\ clock' = clock + 1
        /\ \A a \in Pending : clock' < due[a] + MaxLate
        /\ UNCHANGED <<stage, due, period, asked, missed>>

\* For a time d after the moment the call began.  In the loop an alarm waits at
\* once, from another thread when its turn comes.
Set(a, d, p) == /\ stage[a] = "new"
                /\ \E s \in {"queued", "waiting"} : stage' = [stage EXCEPT ![a] = s]
                /\ \E began \in 0..clock : /\ clock < began + d + MaxLate
                                           /\ due' = [due EXCEPT ![a] = began + d]
                /\ period' = [period EXCEPT ![a] = p]
                /\ UNCHANGED <<clock, asked, missed>>

Accept(a) == /\ stage[a] = "queued"
             /\ stage' = [stage EXCEPT ![a] = "waiting"]
             /\ UNCHANGED <<clock, due, period, asked, missed>>

\* All that wait and whose time has passed, once those called before are done.
Call == /\ At({"called", "ringing"}) = {}
        /\ stage' = [a \in Alarms |-> IF stage[a] = "waiting" /\ due[a] < clock
                                      THEN "called" ELSE stage[a]]
        /\ UNCHANGED <<clock, due, period, asked, missed>>

Ring(a) == /\ stage[a] = "called"
           /\ due[a] < clock
           /\ \A b \in At({"waiting", "called"}) : due[a] <= due[b]
           /\ stage' = [stage EXCEPT ![a] = "ringing"]
           /\ UNCHANGED <<clock, due, period, asked, missed>>

\* n is after the time of every alarm that has rung, and never in the future.
Rewind(n) ==
  /\ At({"called"}) = {}
  /\ \A a \in At({"ringing"}) : due[a] < n
  /\ stage' = [a \in Alarms |-> IF stage[a] # "ringing" THEN stage[a]
                                ELSE IF period[a] > 0 THEN "waiting" ELSE "ended"]
  /\ due' = [a \in Alarms |-> IF stage[a] = "ringing" /\ period[a] > 0
                              THEN n + period[a] ELSE due[a]]
  /\ \A a \in Alarms : stage'[a] = "waiting" => clock < due'[a] + MaxLate
  /\ UNCHANGED <<clock, period, asked, missed>>

Cancel(a) == /\ stage[a] = "waiting"
             /\ stage' = [stage EXCEPT ![a] = "ended"]
             /\ UNCHANGED <<clock, due, period, asked, missed>>

Miss(a) == /\ stage[a] \in {"queued", "called", "ringing"}
           /\ missed' = missed \cup {a}
           /\ UNCHANGED <<clock, stage, due, period, asked>>

Ask(a) == /\ stage[a] # "new"
          /\ a \notin asked
          /\ asked' = asked \cup {a}
          /\ UNCHANGED <<clock, stage, due, period, missed>>

Serve(a) == /\ a \in asked
            /\ stage[a] \in {"waiting", "ended"}
            /\ stage' = [stage EXCEPT ![a] = "ended"]
            /\ asked' = asked \ {a}
            /\ UNCHANGED <<clock, due, period, missed>>

Next ==
  \/ Pass
  \/ Call
  \/ \E a \in Alarms : \/ Accept(a) \/ Ring(a) \/ Cancel(a) \/ Miss(a) \/ Ask(a) \/ Serve(a)
                       \/ \E d \in Delays : \E p \in {0, d} : Set(a, d, p)
  \/ \E n \in 0..clock : Rewind(n)

Spec == Init /\ [][Next]_vars
=============================================================================

-------------------------- MODULE LoopThreadProofs --------------------------
(***************************************************************************)
(* Proofs about LoopThread for any set of threads and of functors.  While  *)
(* the loop exists every step of a loop_thread's life is a step of         *)
(* EventLoop or leaves its variables alone, so that what EventLoopProofs   *)
(* shows of a step carries over.  Only a write that a caller makes after   *)
(* the loop is destroyed is neither.                                       *)
(***************************************************************************)
EXTENDS LoopThread, EventLoopProofs

(***************************************************************************)
(* LiveUntilQuit is not inductive.  What Main knows when start_loop        *)
(* returns is ploop_; that it says something of the thread, and that the   *)
(* thread leaves loop() only for a quit() somebody called, is the rest.    *)
(***************************************************************************)

Published ==
  /\ mainPc = "new" => threadPc = "none"
  /\ mainPc \in {"user", "quitting", "joining", "done"} => ploop
  /\ ploop => threadPc \in {"published", "looping", "gone"}

LeftForQuit ==
  /\ threadPc # "looping" => loopPc = "outside"
  /\ quit => quitCalled
  /\ threadPc = "looping" /\ loopPc = "outside" => quitCalled
  /\ threadPc = "gone" => quitCalled

\* Nobody calls a loop whose address has not been handed out.
NotYetCalled ==
  threadPc \notin {"published", "looping", "gone"} => \A t \in Threads : callPc[t] = "idle"

LifeInv == Published /\ LeftForQuit /\ NotYetCalled

LEMMA InitLife == InitThread => TypeOKThread /\ LifeInv
BY InitTypeOK DEF InitThread, Init, TypeOKThread, LifeInv, Published, LeftForQuit, NotYetCalled

\* What a step does to the embedded loop.
LEMMA StepOfLoop ==
  ASSUME TypeOKThread, LifeInv, [NextThread]_loopThreadVars
  PROVE  [Next]_vars \/ (threadPc = "gone" /\ \E t \in Threads : CallWakesDead(t))
<1>1. CASE StartLoop \/ SpuriousWakeup \/ MainStep \/ RunInThread \/ Publish \/ DestroyLoop
  BY <1>1 DEF StartLoop, SpuriousWakeup, MainStep, CheckPublished, DestructorJoins, Joined,
              RunInThread, Publish, DestroyLoop
<1>2. CASE DestructorQuits
  <2>1. Quit(Main) \/ UNCHANGED vars
    BY <1>2 DEF DestructorQuits
  <2> QED BY <2>1, MainAssumption DEF Next, Caller
<1>3. CASE RunLoop
  BY <1>3 DEF RunLoop, Next
<1>4. CASE InLoop
  BY <1>4 DEF InLoop, Next
<1>5. CASE OwnerCalls
  BY <1>5 DEF OwnerCalls, Next, Owner
<1>6. ASSUME NEW t \in Threads,
             UserQuits(t) \/ UserTouchesDead(t) \/ CallStep(t)
               \/ \E k \in Tasks : UserQueues(t, k)
      PROVE  [Next]_vars \/ (threadPc = "gone" /\ CallWakesDead(t))
  <2>1. CASE UserQuits(t)
    BY <2>1 DEF UserQuits, Next, Caller
  <2>2. CASE UserTouchesDead(t)
    BY <2>2 DEF UserTouchesDead
  <2>3. CASE CallWakes(t)
    BY <2>3 DEF CallWakes, Next, Caller
  <2>4. CASE CallWakesDead(t)
    BY <2>4 DEF CallWakesDead, LifeInv, NotYetCalled, Alive, TypeOKThread
  <2>5. ASSUME NEW k \in Tasks, UserQueues(t, k) PROVE [Next]_vars
    BY <2>5 DEF UserQueues, Next, Caller
  <2> QED BY <1>6, <2>1, <2>2, <2>3, <2>4, <2>5 DEF CallStep
<1>7. CASE UNCHANGED loopThreadVars
  BY <1>7 DEF loopThreadVars
<1> QED BY <1>1, <1>2, <1>3, <1>4, <1>5, <1>6, <1>7 DEF NextThread

LEMMA ThreadTypeStep ==
  ASSUME TypeOKThread, LifeInv, [NextThread]_loopThreadVars
  PROVE  TypeOKThread'
<1>1. TypeOK'
  <2>1. CASE [Next]_vars
    BY <2>1, TypeStep DEF TypeOKThread
  <2>2. ASSUME NEW t \in Threads, CallWakesDead(t) PROVE TypeOK'
    BY <2>2 DEF CallWakesDead, queueVars, TypeOKThread, TypeOK
  <2> QED BY <2>1, <2>2, StepOfLoop
<1> USE <1>1 DEF TypeOKThread
<1>2. CASE StartLoop \/ SpuriousWakeup \/ MainStep \/ RunInThread \/ Publish \/ DestroyLoop
  BY <1>2 DEF StartLoop, Star, SpuriousWakeup, MainStep, CheckPublished, DestructorJoins, Joined,
              RunInThread, Publish, DestroyLoop
<1>3. CASE DestructorQuits
  BY <1>3 DEF DestructorQuits
<1>4. CASE RunLoop
  BY <1>4 DEF RunLoop, TypeOK
<1>5. CASE InLoop
  BY <1>5 DEF InLoop, lifeVars
<1>6. CASE OwnerCalls
  BY <1>6 DEF OwnerCalls
<1>7. ASSUME NEW t \in Threads,
             UserQuits(t) \/ UserTouchesDead(t) \/ CallStep(t)
               \/ \E k \in Tasks : UserQueues(t, k)
      PROVE  TypeOKThread'
  BY <1>7 DEF UserQuits, UserTouchesDead, CallStep, CallWakes, CallWakesDead, UserQueues, lifeVars
<1>8. CASE UNCHANGED loopThreadVars
  BY <1>8 DEF loopThreadVars, lifeVars
<1> QED BY <1>2, <1>3, <1>4, <1>5, <1>6, <1>7, <1>8 DEF NextThread

LEMMA LifeStep ==
  ASSUME TypeOKThread, LifeInv, [NextThread]_loopThreadVars
  PROVE  LifeInv'
<1> USE DEF LifeInv, Published, LeftForQuit, NotYetCalled
<1>1. CASE StartLoop
  BY <1>1 DEF StartLoop, Star, vars
<1>2. CASE SpuriousWakeup
  BY <1>2 DEF SpuriousWakeup, vars
<1>3. CASE CheckPublished
  BY <1>3 DEF CheckPublished, vars
<1>4. CASE DestructorJoins \/ Joined
  BY <1>4 DEF DestructorJoins, Joined, vars
<1>5. CASE DestructorQuits
  <2>1. CASE Alive
    BY <1>5, <2>1 DEF DestructorQuits, Quit, queueVars, Alive
  <2>2. CASE ~Alive
    BY <1>5, <2>2 DEF DestructorQuits, vars
  <2> QED BY <2>1, <2>2
<1>6. CASE RunInThread
  BY <1>6 DEF RunInThread, vars
<1>7. CASE Publish
  BY <1>7 DEF Publish, vars
<1>8. CASE RunLoop
  BY <1>8 DEF RunLoop, EnterLoop, queueVars
<1>9. CASE InLoop
  <2>1. threadPc = "looping" /\ UNCHANGED lifeVars
    BY <1>9 DEF InLoop
  <2>2. CASE CheckQuit
    BY <2>1, <2>2 DEF CheckQuit, queueVars, lifeVars
  <2>3. CASE Dispatch
    BY <2>1, <2>3 DEF Dispatch, HandleWaker, HandleIo, DispatchDone, queueVars, lifeVars
  <2>4. CASE DoPendingFunctors
    BY <2>1, <2>4 DEF DoPendingFunctors, BeginPending, SwapPending, FunctorReturns, EndPending,
                      queueVars, lifeVars
  <2>5. ASSUME NEW ready \in SUBSET Channels, PollReturns(ready) PROVE LifeInv'
    BY <2>1, <2>5 DEF PollReturns, queueVars, lifeVars
  <2> QED BY <1>9, <2>2, <2>3, <2>4, <2>5 DEF InLoop
<1>10. CASE DestroyLoop
  BY <1>10 DEF DestroyLoop, vars
<1>11. CASE OwnerCalls
  BY <1>11 DEF OwnerCalls, OwnerQuit, OwnerQueueInLoop, queueVars
<1>12. ASSUME NEW t \in Threads,
              UserQuits(t) \/ UserTouchesDead(t) \/ CallStep(t)
                \/ \E k \in Tasks : UserQueues(t, k)
       PROVE  LifeInv'
  <2>1. CASE UserQuits(t)
    BY <1>12, <2>1 DEF UserQuits, Quit, Alive, queueVars
  <2>2. CASE UserTouchesDead(t)
    BY <1>12, <2>2 DEF UserTouchesDead, vars
  <2>3. CASE CallWakes(t)
    BY <1>12, <2>3 DEF CallWakes, WakeupLoop, Alive, queueVars, lifeVars
  <2>4. CASE CallWakesDead(t)
    BY <1>12, <2>4 DEF CallWakesDead, TypeOKThread, TypeOK
  <2>5. ASSUME NEW k \in Tasks, UserQueues(t, k) PROVE LifeInv'
    BY <2>5 DEF UserQueues, QueueInLoop, Alive, lifeVars
  <2> QED BY <1>12, <2>1, <2>2, <2>3, <2>4, <2>5 DEF CallStep
<1>13. CASE UNCHANGED loopThreadVars
  BY <1>13 DEF loopThreadVars, vars, lifeVars
<1> QED
  BY <1>1, <1>2, <1>3, <1>4, <1>5, <1>6, <1>7, <1>8, <1>9, <1>10, <1>11, <1>12, <1>13
     DEF NextThread, MainStep

LEMMA LifeAlways == SpecThread => [](TypeOKThread /\ LifeInv)
<1>1. TypeOKThread /\ LifeInv /\ [NextThread]_loopThreadVars => (TypeOKThread /\ LifeInv)'
  BY ThreadTypeStep, LifeStep
<1> QED BY InitLife, <1>1, PTL DEF SpecThread

\* The loop's variables and the two threads' keep their types, through the
\* loop's destruction and the calls that come after it.
THEOREM ThreadTypeCorrect == SpecThread => []TypeOKThread
BY LifeAlways, PTL

\* start_loop hands out a loop that exists, and that exists until quit().
THEOREM HandedOutAlive == SpecThread => []LiveUntilQuit
<1>1. TypeOKThread /\ LifeInv => LiveUntilQuit
  BY DEF LifeInv, Published, LeftForQuit, LiveUntilQuit, Alive
<1> QED BY <1>1, LifeAlways, PTL

(***************************************************************************)
(* The loop on its own thread loses no wakeup either, whenever the thread  *)
(* comes to run it and whatever is called after its end.                   *)
(***************************************************************************)

LoopInv == threadPc # "gone" => IInv

LEMMA LoopInvStep ==
  ASSUME TypeOKThread, LifeInv, LoopInv, [NextThread]_loopThreadVars
  PROVE  LoopInv'
<1>1. threadPc' # "gone" => threadPc # "gone"
  BY DEF LifeInv, Published, NextThread, StartLoop, Star, SpuriousWakeup, MainStep, CheckPublished, DestructorJoins,
         Joined, DestructorQuits, RunInThread, Publish, RunLoop, InLoop, DestroyLoop, OwnerCalls,
         UserQuits, UserTouchesDead, CallStep, CallWakes, CallWakesDead, UserQueues, lifeVars,
         loopThreadVars
<1>2. ASSUME threadPc' # "gone" PROVE IInv'
  <2>1. IInv /\ [Next]_vars
    BY <1>1, <1>2, StepOfLoop DEF LoopInv
  <2>2. TypeOK'
    BY ThreadTypeStep DEF TypeOKThread
  <2> QED BY <2>1, <2>2, ControlStep, WakeStep DEF IInv
<1> QED BY <1>2 DEF LoopInv

THEOREM WakeupsKeptOnThread == SpecThread => []NoLostWakeup
<1>1. InitThread => LoopInv
  BY InitIInv DEF InitThread, LoopInv
<1>2. TypeOKThread /\ LifeInv /\ LoopInv /\ [NextThread]_loopThreadVars => LoopInv'
  BY LoopInvStep
<1>3. TypeOKThread /\ LifeInv /\ LoopInv => NoLostWakeup
  <2>1. IInv => NoLostWakeup
    BY DEF IInv, WakeInv, QueuedHaveWakeup, NoLostWakeup
  <2>2. LifeInv /\ threadPc = "gone" => NoLostWakeup
    BY DEF LifeInv, LeftForQuit, NoLostWakeup
  <2> QED BY <2>1, <2>2 DEF LoopInv
<1> QED BY <1>1, <1>2, <1>3, LifeAlways, PTL DEF SpecThread

\* quit() wakes the loop on its thread as well: ~loop_thread's join waits for no
\* timeout.
THEOREM QuitKeptOnThread == SpecThread => []QuitNotMissed
<1>1. InitThread => LoopInv
  BY InitIInv DEF InitThread, LoopInv
<1>2. TypeOKThread /\ LifeInv /\ LoopInv /\ [NextThread]_loopThreadVars => LoopInv'
  BY LoopInvStep
<1>3. LifeInv /\ LoopInv => QuitNotMissed
  BY DEF LoopInv, IInv, LifeInv, LeftForQuit, QuitNotMissed
<1> QED BY <1>1, <1>2, <1>3, LifeAlways, PTL DEF SpecThread

(***************************************************************************)
(* The loop on its own thread is still an Executor, and still runs every   *)
(* functor at most once, through its destruction and the calls after it:   *)
(* the write into a destroyed loop is the only step that is not EventLoop's*)
(* and it leaves the queue alone.                                          *)
(***************************************************************************)

LEMMA ControlOnThread ==
  ASSUME TypeOKThread, LifeInv, Control, [NextThread]_loopThreadVars
  PROVE  Control'
<1>1. CASE [Next]_vars
  BY <1>1, ControlStep DEF TypeOKThread
<1>2. ASSUME NEW t \in Threads, CallWakesDead(t) PROVE Control'
  BY <1>2 DEF CallWakesDead, queueVars, Control
<1> QED BY <1>1, <1>2, StepOfLoop

LEMMA ControlAlwaysOnThread == SpecThread => [](TypeOKThread /\ LifeInv /\ Control)
<1>1. InitThread => Control
  BY InitIInv DEF InitThread, IInv
<1>2. TypeOKThread /\ LifeInv /\ Control /\ [NextThread]_loopThreadVars => Control'
  BY ControlOnThread
<1> QED BY <1>1, <1>2, LifeAlways, PTL DEF SpecThread

\* A loop_thread's loop is a first-in first-out executor for the threads its
\* address was handed to, whenever it is started, asked to quit and destroyed.
THEOREM ThreadImplementsExecutor == SpecThread => ExecutorSpec
<1>1. InitThread => Abstract!Init
  BY InitRefines DEF InitThread
<1>2. ASSUME TypeOKThread, LifeInv, Control, [NextThread]_loopThreadVars
      PROVE  [Abstract!Next]_(Abstract!vars)
  <2>1. CASE [Next]_vars
    BY <1>2, <2>1, StepRefines DEF TypeOKThread
  <2>2. ASSUME NEW t \in Threads, CallWakesDead(t) PROVE UNCHANGED Abstract!vars
    BY <2>2 DEF CallWakesDead, queueVars, Abstract!vars
  <2> QED BY <1>2, <2>1, <2>2, StepOfLoop
<1>3. TypeOKThread /\ LifeInv /\ Control /\ [NextThread]_loopThreadVars
        => [Abstract!Next]_(Abstract!vars)
  BY <1>2
<1> QED BY <1>1, <1>3, ControlAlwaysOnThread, PTL DEF SpecThread, ExecutorSpec, Abstract!Spec

\* No functor queued on a loop_thread's loop runs twice, or is still queued
\* when it has run.
THEOREM RunsAtMostOnceOnThread == SpecThread => []ExactlyOnce
<1>1. InitThread => ExactlyOnce
  BY InitHistory DEF InitThread
<1>2. ASSUME TypeOKThread, LifeInv, Control, ExactlyOnce, [NextThread]_loopThreadVars
      PROVE  ExactlyOnce'
  <2>1. CASE [Next]_vars
    BY <1>2, <2>1, HistoryStep DEF TypeOKThread
  <2>2. ASSUME NEW t \in Threads, CallWakesDead(t) PROVE ExactlyOnce'
    BY <1>2, <2>2 DEF CallWakesDead, queueVars, ExactlyOnce
  <2> QED BY <1>2, <2>1, <2>2, StepOfLoop
<1>3. TypeOKThread /\ LifeInv /\ Control /\ ExactlyOnce /\ [NextThread]_loopThreadVars
        => ExactlyOnce'
  BY <1>2
<1> QED BY <1>1, <1>3, ControlAlwaysOnThread, PTL DEF SpecThread

(***************************************************************************)
(* What Main waits for.  That start_loop and ~loop_thread return is        *)
(* liveness; what has to hold for it are invariants: Main sleeps only      *)
(* while the publication is to come, and a quit() that loop() has not      *)
(* overwritten stays in quit_ for as long as there is a loop to read it.   *)
(***************************************************************************)

QuitRemembered ==
  /\ quitCalled \/ threadPc \in {"published", "looping", "gone"} => ploop
  /\ quitCalled /\ ~quitErased /\ Alive => quit
  /\ mainPc \in {"quitting", "joining", "done"} => quitCalled

\* While ~loop_thread joins, the loop is gone or has quit_ set and is on its way
\* to read it, unless that quit_ was overwritten before loop() began.
JoinIsHeard ==
  mainPc = "joining" /\ ~quitErased =>
    threadPc = "gone" \/ (quit /\ (loopPc = "poll" => WakeupDue))

\* While start_loop sleeps, the thread that is to wake it has yet to publish its
\* loop: Main has not slept through the one notification.
SleepIsHeard ==
  mainPc = "sleeping" => ~ploop /\ threadPc \in {"failed", "created", "constructing"}

\* Nobody has used a destroyed loop before somebody has called quit().
SafeUntilQuit == touchedDead => quitCalled

Starts == mainPc = "new" <=> threadPc = "none"

EndInv == QuitRemembered /\ SafeUntilQuit /\ SleepIsHeard /\ Starts

LEMMA EndStep ==
  ASSUME TypeOKThread, LifeInv, EndInv, [NextThread]_loopThreadVars
  PROVE  EndInv'
<1> USE DEF EndInv, QuitRemembered, SafeUntilQuit, SleepIsHeard, Starts, Alive
<1>1. CASE StartLoop \/ SpuriousWakeup \/ MainStep \/ RunInThread
  BY <1>1 DEF StartLoop, Star, SpuriousWakeup, MainStep, CheckPublished, DestructorJoins, Joined,
              RunInThread, vars, TypeOKThread
<1>2. CASE Publish
  BY <1>2 DEF Publish, vars, LifeInv, Published
<1>3. CASE DestructorQuits
  BY <1>3 DEF DestructorQuits, Quit, vars, LifeInv, Published
<1>4. CASE RunLoop
  BY <1>4 DEF RunLoop, EnterLoop, LifeInv, LeftForQuit, TypeOKThread, TypeOK
<1>5. CASE InLoop
  BY <1>5 DEF InLoop, CheckQuit, Dispatch, HandleWaker, HandleIo, DispatchDone, DoPendingFunctors,
              BeginPending, SwapPending, FunctorReturns, EndPending, PollReturns, lifeVars
<1>6. CASE DestroyLoop
  BY <1>6 DEF DestroyLoop, vars
<1>7. CASE OwnerCalls
  BY <1>7 DEF OwnerCalls, OwnerQuit, OwnerQueueInLoop, LifeInv, LeftForQuit
<1>8. ASSUME NEW t \in Threads,
             UserQuits(t) \/ UserTouchesDead(t) \/ CallStep(t)
               \/ \E k \in Tasks : UserQueues(t, k)
      PROVE  EndInv'
  BY <1>8 DEF UserQuits, Quit, UserTouchesDead, CallStep, CallWakes, WakeupLoop, CallWakesDead,
              UserQueues, QueueInLoop, vars, lifeVars, LifeInv, Published, LeftForQuit, NotYetCalled
<1>9. CASE UNCHANGED loopThreadVars
  BY <1>9 DEF loopThreadVars, vars, lifeVars
<1> QED BY <1>1, <1>2, <1>3, <1>4, <1>5, <1>6, <1>7, <1>8, <1>9 DEF NextThread

LEMMA EndAlways == SpecThread => [](LifeInv /\ EndInv)
<1>1. InitThread => EndInv
  BY DEF InitThread, EndInv, QuitRemembered, SafeUntilQuit, SleepIsHeard, Starts
<1>2. TypeOKThread /\ LifeInv /\ EndInv /\ [NextThread]_loopThreadVars => EndInv'
  BY EndStep
<1> QED BY <1>1, <1>2, LifeAlways, PTL DEF SpecThread

\* start_loop never sleeps through the publication of the loop, however often it
\* wakes for nothing: the safety half of its returning.
THEOREM StartHeard == SpecThread => []SleepIsHeard
BY EndAlways, PTL DEF EndInv

\* ~loop_thread never joins a loop that sleeps through its quit(): the safety
\* half of its returning.
THEOREM DestructorHeard == SpecThread => []JoinIsHeard
<1>1. LifeInv /\ EndInv /\ QuitNotMissed => JoinIsHeard
  BY DEF LifeInv, Published, EndInv, QuitRemembered, QuitNotMissed, JoinIsHeard, Alive
<1> QED BY <1>1, EndAlways, QuitKeptOnThread, PTL

\* A loop_thread's loop is used after its destruction only if somebody has
\* called quit() on it before ~loop_thread did, or raced with it.
THEOREM UsedDeadOnlyAfterQuit == SpecThread => []SafeUntilQuit
BY EndAlways, PTL DEF EndInv
=============================================================================

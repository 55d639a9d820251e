----------------------------- MODULE LoopThread -----------------------------
(***************************************************************************)
(* A loop_thread (loop_thread.cc): Main starts a thread whose stack holds  *)
(* the event_loop, waits until its address is published, hands it out, and *)
(* ends it in ~loop_thread with quit() and join().  The loop itself is     *)
(* EventLoop; its owner is the started thread, and this module adds its    *)
(* birth and its death to that module's actions.                           *)
(*                                                                         *)
(* Clients start the thread once, and begin no call on the loop after the  *)
(* destructor has begun.  They may call quit() themselves, as              *)
(* test/04_loop_thread.cc does.                                            *)
(***************************************************************************)
EXTENDS EventLoop

CONSTANT Main              \* the thread that owns the loop_thread object

ASSUME MainAssumption == Main \in Threads

VARIABLES
  threadPc,    \* the started thread: "gone" is past the end of `loop'
  mainPc,      \* Main, in start_loop, in between, and in ~loop_thread
  ploop,       \* ploop_ # nullptr
  quitCalled,  \* history: somebody has called quit()
  quitErased,  \* history: loop() has overwritten a quit_ that was set
  touchedDead  \* history: somebody has used the loop after its destructor

lifeVars == <<threadPc, mainPc, ploop, quitCalled, quitErased, touchedDead>>
loopThreadVars == <<vars, lifeVars>>

Alive == threadPc \in {"published", "looping"}

TypeOKThread ==
  /\ TypeOK
  /\ threadPc \in {"none", "failed", "created", "constructing", "published", "looping", "gone"}
  /\ mainPc \in {"new", "checking", "sleeping", "user", "quitting", "joining", "done"}
  /\ <<ploop, quitCalled, quitErased, touchedDead>> \in BOOLEAN \X BOOLEAN \X BOOLEAN \X BOOLEAN

InitThread ==
  /\ Init
  /\ threadPc = "none"
  /\ mainPc = "new"
  /\ ploop = FALSE
  /\ quitCalled = FALSE
  /\ quitErased = FALSE
  /\ touchedDead = FALSE

-----------------------------------------------------------------------------
(* start_loop(), called by Main.  Whoever holds mutex_ runs to its release *)
(* in one step: Main up to sleeping in wait(), the thread up to notify.    *)

\* star() reports that no thread could be created on the terminal only.
Star == threadPc' = "created" \/ threadPc' = "failed"

StartLoop ==
  /\ mainPc = "new"
  /\ mainPc' = "checking"
  /\ Star
  /\ UNCHANGED <<vars, ploop, quitCalled, quitErased, touchedDead>>

\* Mutation: wait() without a predicate.
CheckPublished_NoPredicate ==
  /\ mainPc = "checking"
  /\ mainPc' = "user"
  /\ UNCHANGED <<vars, threadPc, ploop, quitCalled, quitErased, touchedDead>>

CheckPublished ==
  /\ mainPc = "checking"
  /\ mainPc' = IF ploop THEN "user" ELSE "sleeping"
  /\ UNCHANGED <<vars, threadPc, ploop, quitCalled, quitErased, touchedDead>>

SpuriousWakeup ==
  /\ mainPc = "sleeping"
  /\ mainPc' = "checking"
  /\ UNCHANGED <<vars, threadPc, ploop, quitCalled, quitErased, touchedDead>>

(* run_in_thread() and start_loop_in_thred(), the started thread *)

RunInThread ==
  /\ threadPc = "created"
  /\ threadPc' = "constructing"
  /\ UNCHANGED <<vars, mainPc, ploop, quitCalled, quitErased, touchedDead>>

\* Mutation: the address is published without a notification.
Publish_NoNotify ==
  /\ threadPc = "constructing"
  /\ ploop' = TRUE
  /\ threadPc' = "published"
  /\ UNCHANGED <<vars, mainPc, quitCalled, quitErased, touchedDead>>

Publish ==
  /\ threadPc = "constructing"
  /\ ploop' = TRUE
  /\ threadPc' = "published"
  /\ mainPc' = IF mainPc = "sleeping" THEN "checking" ELSE mainPc
  /\ UNCHANGED <<vars, quitCalled, quitErased, touchedDead>>

RunLoop ==
  /\ threadPc = "published"
  /\ EnterLoop
  /\ threadPc' = "looping"
  /\ quitErased' = (quitErased \/ quit)
  /\ UNCHANGED <<mainPc, ploop, quitCalled, touchedDead>>

InLoop ==
  /\ threadPc = "looping"
  /\ \/ CheckQuit \/ Dispatch \/ DoPendingFunctors
     \/ \E ready \in SUBSET Channels : PollReturns(ready)
  /\ UNCHANGED lifeVars

\* loop() has returned: `loop' is destroyed and the thread ends.  ploop_ keeps
\* its address.
DestroyLoop ==
  /\ threadPc = "looping"
  /\ loopPc = "outside"
  /\ threadPc' = "gone"
  /\ UNCHANGED <<vars, mainPc, ploop, quitCalled, quitErased, touchedDead>>

\* Handlers and functors, which only run inside loop().
OwnerCalls ==
  /\ loopPc # "outside"
  /\ \/ OwnerQuit /\ quitCalled' = TRUE
     \/ (\E k \in Tasks : OwnerQueueInLoop(k)) /\ UNCHANGED quitCalled
  /\ UNCHANGED <<threadPc, mainPc, ploop, quitErased, touchedDead>>

-----------------------------------------------------------------------------
(* Calls on the loop that was handed out.  On a destroyed loop they are    *)
(* undefined behaviour, recorded in touchedDead and followed no further.   *)

UserQueues(t, k) ==
  /\ mainPc = "user"
  /\ Alive
  /\ QueueInLoop(t, k)
  /\ UNCHANGED lifeVars

UserQuits(t) ==
  /\ mainPc = "user"
  /\ Alive
  /\ Quit(t)
  /\ quitCalled' = TRUE
  /\ UNCHANGED <<threadPc, mainPc, ploop, quitErased, touchedDead>>

UserTouchesDead(t) ==
  /\ mainPc = "user"
  /\ callPc[t] = "idle"
  /\ ~Alive
  /\ touchedDead' = TRUE
  /\ UNCHANGED <<vars, threadPc, mainPc, ploop, quitCalled, quitErased>>

CallWakes(t) ==
  /\ Alive
  /\ WakeupLoop(t)
  /\ UNCHANGED lifeVars

CallWakesDead(t) ==
  /\ ~Alive
  /\ callPc[t] = "wake"
  /\ callPc' = [callPc EXCEPT ![t] = "idle"]
  /\ touchedDead' = TRUE
  /\ UNCHANGED <<loopPc, quit, calling_pending_functor, wakeups, active, queueVars,
                 threadPc, mainPc, ploop, quitCalled, quitErased>>

(* ~loop_thread(), called by Main *)

\* Mutation: the destructor joins without asking the loop to quit.
DestructorQuits_Omitted ==
  /\ mainPc = "user"
  /\ \A t \in Threads : callPc[t] = "idle"
  /\ mainPc' = "quitting"
  /\ UNCHANGED <<vars, threadPc, ploop, quitCalled, quitErased, touchedDead>>

DestructorQuits ==
  /\ mainPc = "user"
  /\ \A t \in Threads : callPc[t] = "idle"
  /\ mainPc' = "quitting"
  /\ quitCalled' = TRUE
  /\ IF Alive THEN Quit(Main) /\ UNCHANGED touchedDead
              ELSE touchedDead' = TRUE /\ UNCHANGED vars
  /\ UNCHANGED <<threadPc, ploop, quitErased>>

DestructorJoins ==
  /\ mainPc = "quitting"
  /\ callPc[Main] = "idle"
  /\ mainPc' = "joining"
  /\ UNCHANGED <<vars, threadPc, ploop, quitCalled, quitErased, touchedDead>>

Joined ==
  /\ mainPc = "joining"
  /\ threadPc = "gone"
  /\ mainPc' = "done"
  /\ UNCHANGED <<vars, threadPc, ploop, quitCalled, quitErased, touchedDead>>

-----------------------------------------------------------------------------
MainStep == CheckPublished \/ DestructorJoins \/ Joined
CallStep(t) == CallWakes(t) \/ CallWakesDead(t)

NextThread ==
  \/ StartLoop \/ SpuriousWakeup \/ MainStep \/ DestructorQuits
  \/ RunInThread \/ Publish \/ RunLoop \/ InLoop \/ DestroyLoop \/ OwnerCalls
  \/ \E t \in Threads :
       \/ UserQuits(t) \/ UserTouchesDead(t) \/ CallStep(t)
       \/ \E k \in Tasks : UserQueues(t, k)

\* Both threads are scheduled; poll() returns when the eventfd is readable.
ThreadStep ==
  \/ RunInThread \/ Publish \/ RunLoop \/ DestroyLoop
  \/ threadPc = "looping" /\ LoopStep /\ UNCHANGED lifeVars

SpecThread ==
  /\ InitThread
  /\ [][NextThread]_loopThreadVars
  /\ WF_loopThreadVars(ThreadStep)
  /\ WF_loopThreadVars(MainStep)
  /\ \A t \in Threads : WF_loopThreadVars(CallStep(t))

-----------------------------------------------------------------------------
(* Properties *)

\* start_loop hands out a loop that exists and that keeps existing until
\* somebody calls quit(): the wait is not fooled by a spurious wakeup.
LiveUntilQuit == mainPc = "user" /\ ~quitCalled => Alive

\* start_loop returns: the notification cannot fall between Main's test of
\* ploop_ and its sleep.  If the thread could not be created, which star() does
\* not pass on, Main waits for ever for a loop that will never be.
StartReturns == mainPc = "checking" ~> mainPc = "user" \/ threadPc = "failed"

\* ~loop_thread returns unless the quit() it relies on came between the
\* publication and loop()'s own quit_ = false, which erases it, or the loop was
\* used after its end.
DestructorReturns ==
  mainPc = "quitting" ~> (mainPc = "done" \/ quitErased \/ touchedDead)

\* The handle wakeup_loop asserts to be reading belongs to a loop that still
\* exists, and so does quit_ when quit() sets it.
NoUseAfterDestroy == ~touchedDead
=============================================================================

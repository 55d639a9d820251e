-------------------------- MODULE EventLoopProofs --------------------------
(***************************************************************************)
(* Proofs about EventLoop for any set of callers and of functors and any   *)
(* positive ceiling of the eventfd.                                        *)
(***************************************************************************)
EXTENDS EventLoop, QueueFacts

(***************************************************************************)
(* Type correctness.                                                       *)
(***************************************************************************)

LEMMA InitTypeOK == Init => TypeOK
<1> SUFFICES ASSUME Init PROVE TypeOK
  OBVIOUS
<1>1. <<>> \in Seq(Tasks)
  BY EmptySeq
<1>2. 0 \in 0..EventfdMax
  BY EventfdMaxAssumption
<1> QED BY <1>1, <1>2 DEF Init, TypeOK

LEMMA TypeStep == TypeOK /\ [Next]_vars => TypeOK'
<1> SUFFICES ASSUME TypeOK, [Next]_vars PROVE TypeOK'
  OBVIOUS
<1> USE EventfdMaxAssumption DEF TypeOK
<1>1. CASE EnterLoop
  BY <1>1 DEF EnterLoop, queueVars
<1>2. CASE CheckQuit
  BY <1>2 DEF CheckQuit, queueVars
<1>3. ASSUME NEW ready \in SUBSET Channels, PollReturns(ready) PROVE TypeOK'
  BY <1>3 DEF PollReturns, queueVars
<1>4. CASE HandleWaker
  BY <1>4 DEF HandleWaker, queueVars
<1>5. CASE HandleIo
  BY <1>5 DEF HandleIo, queueVars
<1>6. CASE DispatchDone
  BY <1>6 DEF DispatchDone, queueVars
<1>7. CASE BeginPending
  BY <1>7 DEF BeginPending, queueVars
<1>8. CASE SwapPending
  BY <1>8 DEF SwapPending
<1>9. CASE FunctorReturns
  <2>1. /\ Head(functors) \in Tasks
        /\ Tail(functors) \in Seq(Tasks)
    BY <1>9, HeadTailProperties DEF FunctorReturns
  <2>2. Append(ran, Head(functors)) \in Seq(Tasks)
    BY <2>1, AppendProperties
  <2> QED BY <1>9, <2>1, <2>2 DEF FunctorReturns
<1>10. CASE EndPending
  BY <1>10 DEF EndPending, queueVars
<1>11. CASE OwnerQuit
  BY <1>11 DEF OwnerQuit, queueVars
<1>12. ASSUME NEW k \in Tasks, OwnerQueueInLoop(k) PROVE TypeOK'
  <2>1. Append(pending_functors, k) \in Seq(Tasks)
    BY AppendProperties
  <2>2. wakeups' \in 0..EventfdMax
    BY <1>12 DEF OwnerQueueInLoop, wakeup_loop
  <2> QED BY <1>12, <2>1, <2>2 DEF OwnerQueueInLoop
<1>13. ASSUME NEW t \in Threads, Caller(t) PROVE TypeOK'
  <2>1. CASE Quit(t)
    BY <2>1 DEF Quit, queueVars
  <2>2. CASE WakeupLoop(t)
    BY <2>2 DEF WakeupLoop, wakeup_loop, queueVars
  <2>3. ASSUME NEW k \in Tasks, QueueInLoop(t, k) PROVE TypeOK'
    <3>1. Append(pending_functors, k) \in Seq(Tasks)
      BY AppendProperties
    <3> QED BY <2>3, <3>1 DEF QueueInLoop
  <2> QED BY <1>13, <2>1, <2>2, <2>3 DEF Caller
<1>14. CASE UNCHANGED vars
  BY <1>14 DEF vars
<1> QED
  BY <1>1, <1>2, <1>3, <1>4, <1>5, <1>6, <1>7, <1>8, <1>9, <1>10, <1>11,
     <1>12, <1>13, <1>14 DEF Next, Dispatch, DoPendingFunctors, Owner

\* Every variable keeps its type, whatever callers, owner and poller do.
THEOREM TypeCorrect == Spec => []TypeOK
BY InitTypeOK, TypeStep, PTL DEF Spec

(***************************************************************************)
(* Wakeups.  NoLostWakeup is not inductive: it speaks of two control       *)
(* points, and holds there because of what happens at the others.  The     *)
(* strengthening follows a queued functor around the loop.  From the swap  *)
(* on (which empties the queue) every functor pushed comes with a write of *)
(* the eventfd, by its caller or, because calling_pending_functor is set,  *)
(* by the owner; and only HandleWaker, which is always followed by the     *)
(* next swap, consumes a write.                                            *)
(***************************************************************************)

Control ==
  /\ calling_pending_functor <=> loopPc \in {"swap", "run"}
  /\ functors # <<>> => loopPc = "run"
  /\ active # {} => loopPc = "dispatch"

QueuedHaveWakeup ==
  \A k \in Tasks \ early : Occurs(k, pending_functors) => WakeupDue

WakeInv ==
  loopPc \in {"outside", "check", "poll", "run"} => QueuedHaveWakeup

IInv == TypeOK /\ Control /\ WakeInv /\ QuitNotMissed

LEMMA OccursEmpty == \A x : ~Occurs(x, <<>>)
BY DEF Occurs

\* A write makes the eventfd readable, at the ceiling too.
LEMMA WriteWakes ==
  ASSUME TypeOK, wakeup_loop
  PROVE  wakeups' > 0
BY EventfdMaxAssumption DEF TypeOK, wakeup_loop

\* A step that touches neither the eventfd nor a caller keeps a wakeup due.
LEMMA WakeupDueStable ==
  ASSUME UNCHANGED <<wakeups, callPc>>
  PROVE  WakeupDue' = WakeupDue
BY DEF WakeupDue

LEMMA InitIInv == Init => IInv
<1> SUFFICES ASSUME Init PROVE IInv
  OBVIOUS
<1>1. TypeOK
  BY InitTypeOK
<1>2. Control
  BY DEF Init, Control
<1>3. WakeInv /\ QuitNotMissed
  BY OccursEmpty DEF Init, WakeInv, QueuedHaveWakeup, QuitNotMissed
<1> QED BY <1>1, <1>2, <1>3 DEF IInv

LEMMA ControlStep ==
  ASSUME TypeOK, Control, [Next]_vars
  PROVE  Control'
<1> USE DEF Control
<1>1. CASE EnterLoop
  BY <1>1 DEF EnterLoop, queueVars
<1>2. CASE CheckQuit
  BY <1>2 DEF CheckQuit, queueVars
<1>3. ASSUME NEW ready \in SUBSET Channels, PollReturns(ready) PROVE Control'
  BY <1>3 DEF PollReturns, queueVars
<1>4. CASE HandleWaker
  BY <1>4 DEF HandleWaker, queueVars
<1>5. CASE HandleIo
  BY <1>5 DEF HandleIo, queueVars
<1>6. CASE DispatchDone
  BY <1>6 DEF DispatchDone, queueVars
<1>7. CASE BeginPending
  BY <1>7 DEF BeginPending, queueVars
<1>8. CASE SwapPending
  BY <1>8 DEF SwapPending
<1>9. CASE FunctorReturns
  BY <1>9 DEF FunctorReturns
<1>10. CASE EndPending
  BY <1>10 DEF EndPending, queueVars
<1>11. CASE OwnerQuit
  BY <1>11 DEF OwnerQuit, queueVars
<1>12. ASSUME NEW k \in Tasks, OwnerQueueInLoop(k) PROVE Control'
  BY <1>12 DEF OwnerQueueInLoop
<1>13. ASSUME NEW t \in Threads, Caller(t) PROVE Control'
  BY <1>13 DEF Caller, Quit, WakeupLoop, QueueInLoop, queueVars
<1>14. CASE UNCHANGED vars
  BY <1>14 DEF vars
<1> QED
  BY <1>1, <1>2, <1>3, <1>4, <1>5, <1>6, <1>7, <1>8, <1>9, <1>10, <1>11,
     <1>12, <1>13, <1>14 DEF Next, Dispatch, DoPendingFunctors, Owner

LEMMA WakeStep ==
  ASSUME TypeOK, Control, WakeInv, QuitNotMissed, [Next]_vars
  PROVE  WakeInv' /\ QuitNotMissed'
<1> USE DEF WakeInv, QueuedHaveWakeup, QuitNotMissed
<1>1. CASE EnterLoop
  BY <1>1, WakeupDueStable DEF EnterLoop, queueVars
<1>2. CASE CheckQuit
  BY <1>2, WakeupDueStable DEF CheckQuit, queueVars
<1>3. ASSUME NEW ready \in SUBSET Channels, PollReturns(ready)
      PROVE  WakeInv' /\ QuitNotMissed'
  BY <1>3 DEF PollReturns
<1>4. CASE HandleWaker
  BY <1>4 DEF HandleWaker
<1>5. CASE HandleIo
  BY <1>5 DEF HandleIo
<1>6. CASE DispatchDone
  BY <1>6 DEF DispatchDone
<1>7. CASE BeginPending
  BY <1>7 DEF BeginPending
<1>8. CASE SwapPending
  BY <1>8, OccursEmpty DEF SwapPending
<1>9. CASE FunctorReturns
  BY <1>9, WakeupDueStable DEF FunctorReturns
<1>10. CASE EndPending
  BY <1>10, WakeupDueStable DEF EndPending, queueVars
<1>11. CASE OwnerQuit
  BY <1>11, WakeupDueStable DEF OwnerQuit, OwnerCanCall, queueVars
<1>12. ASSUME NEW k \in Tasks, OwnerQueueInLoop(k)
      PROVE  WakeInv' /\ QuitNotMissed'
  <2>1. \A x : Occurs(x, pending_functors') => Occurs(x, pending_functors) \/ x = k
    BY <1>12, AppendFacts DEF OwnerQueueInLoop, TypeOK
  <2>2. CASE loopPc = "outside"
    BY <1>12, <2>1, <2>2, WakeupDueStable DEF OwnerQueueInLoop, Control
  <2>3. CASE loopPc = "dispatch"
    BY <1>12, <2>3 DEF OwnerQueueInLoop
  <2>4. CASE loopPc = "run"
    <3>1. wakeups' > 0
      BY <1>12, <2>4, WriteWakes DEF OwnerQueueInLoop, Control
    <3> QED BY <1>12, <2>4, <3>1 DEF OwnerQueueInLoop, WakeupDue
  <2> QED BY <1>12, <2>2, <2>3, <2>4 DEF OwnerQueueInLoop, OwnerCanCall
<1>13. ASSUME NEW t \in Threads, Caller(t)
      PROVE  WakeInv' /\ QuitNotMissed'
  <2>1. WakeupDue'
    <3>1. CASE Quit(t)
      BY <3>1 DEF Quit, WakeupDue, TypeOK
    <3>2. CASE WakeupLoop(t)
      BY <3>2, WriteWakes DEF WakeupLoop, WakeupDue
    <3>3. ASSUME NEW k \in Tasks, QueueInLoop(t, k) PROVE WakeupDue'
      BY <3>3 DEF QueueInLoop, WakeupDue, TypeOK
    <3> QED BY <1>13, <3>1, <3>2, <3>3 DEF Caller
  <2> QED BY <2>1
<1>14. CASE UNCHANGED vars
  BY <1>14, WakeupDueStable DEF vars
<1> QED
  BY <1>1, <1>2, <1>3, <1>4, <1>5, <1>6, <1>7, <1>8, <1>9, <1>10, <1>11,
     <1>12, <1>13, <1>14 DEF Next, Dispatch, DoPendingFunctors, Owner

LEMMA IInvAlways == Spec => []IInv
<1>1. IInv /\ TypeOK' /\ [Next]_vars => IInv'
  BY ControlStep, WakeStep DEF IInv
<1> QED BY InitIInv, TypeCorrect, <1>1, PTL DEF Spec

\* queue_in_loop's wakeups are never lost: with a functor queued (other than
\* by the owner before loop()), poll() will be or has been made to return.
THEOREM WakeupsKept == Spec => []NoLostWakeup
<1>1. IInv => NoLostWakeup
  BY DEF IInv, WakeInv, QueuedHaveWakeup, NoLostWakeup
<1> QED BY IInvAlways, <1>1, PTL

\* The loop never blocks in poll() with quit_ set and no wakeup due.
THEOREM QuitKept == Spec => []QuitNotMissed
<1>1. IInv => QuitNotMissed
  BY DEF IInv
<1> QED BY IInvAlways, <1>1, PTL

(***************************************************************************)
(* The loop implements Executor: the queue callers see is the batch being  *)
(* run followed by the functors pushed since the swap.                     *)
(***************************************************************************)

\* A push is a Post, from whatever thread.
LEMMA PushRefinesPost ==
  ASSUME TypeOK, NEW k \in Tasks, Fresh(k),
         pending_functors' = Append(pending_functors, k),
         UNCHANGED <<functors, ran>>
  PROVE  Abstract!Post(k)
<1> USE DEF TypeOK
<1>1. functors' \o pending_functors' = Append(functors \o pending_functors, k)
  BY AppendConcat
<1>2. ~Occurs(k, functors \o pending_functors)
  BY OccursConcat DEF Fresh
<1> QED BY <1>1, <1>2 DEF Fresh, Abstract!Post, Occurs, Abstract!Occurs

LEMMA StepRefines ==
  ASSUME TypeOK, Control, [Next]_vars
  PROVE  [Abstract!Next]_(Abstract!vars)
<1> USE DEF Abstract!vars
<1>1. CASE EnterLoop
  BY <1>1 DEF EnterLoop, queueVars
<1>2. CASE CheckQuit
  BY <1>2 DEF CheckQuit, queueVars
<1>3. ASSUME NEW ready \in SUBSET Channels, PollReturns(ready)
      PROVE  UNCHANGED Abstract!vars
  BY <1>3 DEF PollReturns, queueVars
<1>4. CASE HandleWaker
  BY <1>4 DEF HandleWaker, queueVars
<1>5. CASE HandleIo
  BY <1>5 DEF HandleIo, queueVars
<1>6. CASE DispatchDone
  BY <1>6 DEF DispatchDone, queueVars
<1>7. CASE BeginPending
  BY <1>7 DEF BeginPending, queueVars
<1>8. CASE SwapPending
  <2>1. functors = <<>>
    BY <1>8 DEF SwapPending, Control
  <2>2. functors' \o pending_functors' = functors \o pending_functors
    BY <1>8, <2>1, ConcatEmptySeq DEF SwapPending, TypeOK
  <2> QED BY <1>8, <2>2 DEF SwapPending
<1>9. CASE FunctorReturns
  <2>1. /\ functors \o pending_functors # <<>>
        /\ Head(functors \o pending_functors) = Head(functors)
        /\ Tail(functors \o pending_functors) = Tail(functors) \o pending_functors
    BY <1>9, HeadTailConcat DEF FunctorReturns, TypeOK
  <2>2. Abstract!Run
    BY <1>9, <2>1 DEF FunctorReturns, Abstract!Run
  <2> QED BY <2>2 DEF Abstract!Next
<1>10. CASE EndPending
  BY <1>10 DEF EndPending, queueVars
<1>11. CASE OwnerQuit
  BY <1>11 DEF OwnerQuit, queueVars
<1>12. ASSUME NEW k \in Tasks, OwnerQueueInLoop(k) PROVE Abstract!Next
  BY <1>12, PushRefinesPost DEF OwnerQueueInLoop, Abstract!Next
<1>13. ASSUME NEW t \in Threads, Caller(t) PROVE [Abstract!Next]_(Abstract!vars)
  <2>1. CASE Quit(t)
    BY <2>1 DEF Quit, queueVars
  <2>2. CASE WakeupLoop(t)
    BY <2>2 DEF WakeupLoop, queueVars
  <2>3. ASSUME NEW k \in Tasks, QueueInLoop(t, k) PROVE Abstract!Next
    BY <2>3, PushRefinesPost DEF QueueInLoop, Abstract!Next
  <2> QED BY <1>13, <2>1, <2>2, <2>3 DEF Caller
<1>14. CASE UNCHANGED vars
  BY <1>14 DEF vars
<1> QED
  BY <1>1, <1>2, <1>3, <1>4, <1>5, <1>6, <1>7, <1>8, <1>9, <1>10, <1>11,
     <1>12, <1>13, <1>14 DEF Next, Dispatch, DoPendingFunctors, Owner

LEMMA InitRefines == Init => Abstract!Init
<1>1. <<>> \o <<>> = <<>>
  BY EmptySeq, ConcatEmptySeq
<1> QED BY <1>1 DEF Init, Abstract!Init

\* Seen from outside, the loop is a first-in first-out executor: nothing queued
\* is dropped, reordered or run twice by the swap of do_pending_functors.
THEOREM ImplementsExecutor == Spec => ExecutorSpec
<1>1. IInv /\ [Next]_vars => [Abstract!Next]_(Abstract!vars)
  BY StepRefines DEF IInv
<1> QED BY InitRefines, <1>1, IInvAlways, PTL DEF Spec, ExecutorSpec, Abstract!Spec

(***************************************************************************)
(* Exactly once.  Every functor ever queued stands once in the sequence    *)
(* run so far, running, waiting: pushes extend it with a fresh functor and *)
(* no other step changes it.                                               *)
(***************************************************************************)

History == ran \o functors \o pending_functors

\* Running the head moves the border between two parts of the history.
LEMMA MoveHead ==
  ASSUME NEW S, NEW r \in Seq(S), NEW f \in Seq(S), f # <<>>
  PROVE  Append(r, Head(f)) \o Tail(f) = r \o f
<1>1. /\ Head(f) \in S
      /\ Tail(f) \in Seq(S)
  BY HeadTailProperties
<1>2. /\ <<Head(f)>> \in Seq(S)
      /\ Append(r, Head(f)) = r \o <<Head(f)>>
  BY <1>1, AppendIsConcat
<1>3. f = <<Head(f)>> \o Tail(f)
  <2>1. /\ Len(f) \in Nat \ {0}
        /\ Len(Tail(f)) = Len(f) - 1
        /\ \A i \in 1 .. Len(Tail(f)) : Tail(f)[i] = f[i+1]
    BY EmptySeq, HeadTailProperties
  <2>2. /\ <<Head(f)>> \o Tail(f) \in Seq(S)
        /\ Len(<<Head(f)>> \o Tail(f)) = 1 + Len(Tail(f))
        /\ \A i \in 1 .. 1 + Len(Tail(f)) : (<<Head(f)>> \o Tail(f))[i] =
              IF i <= 1 THEN <<Head(f)>>[i] ELSE Tail(f)[i - 1]
    BY <1>1, <1>2, ConcatProperties
  <2>3. ASSUME NEW i \in 1 .. Len(f)
        PROVE  f[i] = (<<Head(f)>> \o Tail(f))[i]
    BY <2>1, <2>2
  <2> QED BY <2>1, <2>2, <2>3, SeqEqual
<1> QED BY <1>1, <1>2, <1>3, ConcatAssociative

LEMMA PushExtendsHistory ==
  ASSUME TypeOK, ExactlyOnce, NEW k \in Tasks, Fresh(k),
         pending_functors' = Append(pending_functors, k),
         UNCHANGED <<functors, ran>>
  PROVE  ExactlyOnce'
<1> USE DEF TypeOK
<1>1. ran \o functors \in Seq(Tasks) /\ History \in Seq(Tasks)
  BY ConcatProperties DEF History
<1>2. History' = Append(History, k)
  BY <1>1, AppendConcat DEF History
<1>3. ~Occurs(k, History)
  BY <1>1, OccursConcat DEF Fresh, History
<1>4. Distinct(History)
  BY DEF ExactlyOnce, History
<1>5. Distinct(History')
  BY <1>1, <1>2, <1>3, <1>4, AppendFacts
<1> QED BY <1>5 DEF ExactlyOnce, History

LEMMA HistoryStep ==
  ASSUME TypeOK, Control, ExactlyOnce, [Next]_vars
  PROVE  ExactlyOnce'
<1>0. ASSUME History' = History PROVE ExactlyOnce'
  BY <1>0 DEF History, ExactlyOnce
<1> USE DEF History
<1>1. CASE EnterLoop
  BY <1>0, <1>1 DEF EnterLoop, queueVars
<1>2. CASE CheckQuit
  BY <1>0, <1>2 DEF CheckQuit, queueVars
<1>3. ASSUME NEW ready \in SUBSET Channels, PollReturns(ready) PROVE ExactlyOnce'
  BY <1>0, <1>3 DEF PollReturns, queueVars
<1>4. CASE HandleWaker
  BY <1>0, <1>4 DEF HandleWaker, queueVars
<1>5. CASE HandleIo
  BY <1>0, <1>5 DEF HandleIo, queueVars
<1>6. CASE DispatchDone
  BY <1>0, <1>6 DEF DispatchDone, queueVars
<1>7. CASE BeginPending
  BY <1>0, <1>7 DEF BeginPending, queueVars
<1>8. CASE SwapPending
  <2>1. functors = <<>>
    BY <1>8 DEF SwapPending, Control
  <2>2. ran \o functors = ran
    BY <2>1, ConcatEmptySeq DEF TypeOK
  <2>3. ran \o pending_functors \in Seq(Tasks)
    BY ConcatProperties DEF TypeOK
  <2>4. (ran \o pending_functors) \o <<>> = ran \o pending_functors
    BY <2>3, ConcatEmptySeq
  <2> QED BY <1>0, <1>8, <2>2, <2>4 DEF SwapPending
<1>9. CASE FunctorReturns
  <2>1. ran' \o functors' = ran \o functors
    BY <1>9, MoveHead DEF FunctorReturns, TypeOK
  <2> QED BY <1>0, <1>9, <2>1 DEF FunctorReturns
<1>10. CASE EndPending
  BY <1>0, <1>10 DEF EndPending, queueVars
<1>11. CASE OwnerQuit
  BY <1>0, <1>11 DEF OwnerQuit, queueVars
<1>12. ASSUME NEW k \in Tasks, OwnerQueueInLoop(k) PROVE ExactlyOnce'
  BY <1>12, PushExtendsHistory DEF OwnerQueueInLoop
<1>13. ASSUME NEW t \in Threads, Caller(t) PROVE ExactlyOnce'
  <2>1. CASE Quit(t)
    BY <1>0, <2>1 DEF Quit, queueVars
  <2>2. CASE WakeupLoop(t)
    BY <1>0, <2>2 DEF WakeupLoop, queueVars
  <2>3. ASSUME NEW k \in Tasks, QueueInLoop(t, k) PROVE ExactlyOnce'
    BY <2>3, PushExtendsHistory DEF QueueInLoop
  <2> QED BY <1>13, <2>1, <2>2, <2>3 DEF Caller
<1>14. CASE UNCHANGED vars
  BY <1>0, <1>14 DEF vars
<1> QED
  BY <1>1, <1>2, <1>3, <1>4, <1>5, <1>6, <1>7, <1>8, <1>9, <1>10, <1>11,
     <1>12, <1>13, <1>14 DEF Next, Dispatch, DoPendingFunctors, Owner

LEMMA InitHistory == Init => ExactlyOnce
<1>1. <<>> \o <<>> \o <<>> = <<>>
  BY EmptySeq, ConcatEmptySeq
<1> QED BY <1>1 DEF Init, ExactlyOnce, Distinct

\* A functor queued once runs at most once, and is never both run and queued.
THEOREM RunsAtMostOnce == Spec => []ExactlyOnce
<1>1. IInv /\ ExactlyOnce /\ [Next]_vars => ExactlyOnce'
  BY HistoryStep DEF IInv
<1> QED BY InitHistory, <1>1, IInvAlways, PTL DEF Spec
=============================================================================

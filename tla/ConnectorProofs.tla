-------------------------- MODULE ConnectorProofs --------------------------
(***************************************************************************)
(* Proofs about Connector for any descriptors and any number of calls.     *)
(***************************************************************************)
EXTENDS Connector, QueueFacts, FiniteSetTheorems

(***************************************************************************)
(* The queue as a whole.                                                   *)
(***************************************************************************)

ConnectTask == <<"connect", NoFd>>
Remove(fd) == <<"remove", fd>>

LEMMA TaskFacts ==
  /\ ConnectTask \in Tasks
  /\ \A fd \in Fds : Remove(fd) \in Tasks /\ Remove(fd) # ConnectTask
  /\ \A fd, fe \in Fds : Remove(fd) = Remove(fe) => fd = fe
  /\ \A task \in Tasks : \/ task = ConnectTask /\ task[1] = "connect"
                         \/ \E fd \in Fds : task = Remove(fd) /\ task[1] = "remove" /\ task[2] = fd
BY DEF Tasks, ConnectTask, Remove

LEMMA Queueing ==
  ASSUME functors \in Seq(Tasks), pending \in Seq(Tasks), NEW task \in Tasks,
         pending' = Append(pending, task), functors' = functors
  PROVE  /\ Queue \in Seq(Tasks) /\ Queue' = Append(Queue, task)
         /\ \A g : /\ Occurs(g, Queue') <=> Occurs(g, Queue) \/ g = task
                   /\ AtMostOnce(g, Queue) /\ (task = g => ~Occurs(g, Queue)) => AtMostOnce(g, Queue')
<1>1. Queue \in Seq(Tasks)
  BY ConcatProperties DEF Queue
<1>2. Queue' = Append(Queue, task)
  BY AppendConcat DEF Queue
<1> QED BY <1>1, <1>2, AppendFacts, AppendOnce

LEMMA Taking ==
  ASSUME functors \in Seq(Tasks), pending \in Seq(Tasks), functors # <<>>,
         functors' = Tail(functors), pending' = pending
  PROVE  /\ Queue \in Seq(Tasks) /\ Queue # <<>> /\ Queue' = Tail(Queue)
         /\ Head(functors) \in Tasks /\ Occurs(Head(functors), Queue)
         /\ functors' \in Seq(Tasks)
         /\ \A g : /\ Occurs(g, Queue') => Occurs(g, Queue)
                   /\ Occurs(g, Queue) /\ g # Head(functors) => Occurs(g, Queue')
                   /\ AtMostOnce(g, Queue) /\ g = Head(functors) => ~Occurs(g, Queue')
                   /\ AtMostOnce(g, Queue) => AtMostOnce(g, Queue')
<1>1. Queue \in Seq(Tasks)
  BY ConcatProperties DEF Queue
<1>2. Queue # <<>> /\ Head(Queue) = Head(functors) /\ Queue' = Tail(Queue)
  BY HeadTailConcat DEF Queue
<1>3. Head(functors) \in Tasks /\ Tail(functors) \in Seq(Tasks)
  BY HeadTailProperties
<1>4. Occurs(Head(Queue), Queue)
  BY <1>1, <1>2, LenProperties, EmptySeq DEF Occurs
<1>5. \A g : /\ Occurs(g, Tail(Queue)) => Occurs(g, Queue)
             /\ Occurs(g, Queue) /\ g # Head(Queue) => Occurs(g, Tail(Queue))
             /\ AtMostOnce(g, Queue) /\ g = Head(Queue) => ~Occurs(g, Tail(Queue))
             /\ AtMostOnce(g, Queue) => AtMostOnce(g, Tail(Queue))
  BY <1>1, <1>2, TailOnce
<1> QED BY <1>1, <1>2, <1>3, <1>4, <1>5

(***************************************************************************)
(* An attempt gets under way, meets the handle that is there, or leaves    *)
(* nothing but perhaps a retry.                                            *)
(***************************************************************************)

UnderWay(scheduled) ==
  /\ pollHd = NoFd
  /\ \E fd \in Fds \ registered : /\ psocket' = fd /\ pollHd' = fd
                                  /\ registered' = registered \cup {fd}
                                  /\ writing' = writing \cup {fd}
  /\ timers' = scheduled /\ ended' = ended

Asserts(scheduled) ==
  /\ pollHd # NoFd
  /\ psocket' \in Fds /\ ended' = "assertion" /\ timers' = scheduled
  /\ UNCHANGED <<pollHd, registered, writing>>

GivesUp(scheduled) ==
  /\ psocket' = NoFd
  /\ timers' = scheduled + 1 \/ (timers' = scheduled /\ (gaveUp' \/ state = "stop"))
  /\ UNCHANGED <<pollHd, registered, writing, ended>>

LEMMA Attempting ==
  ASSUME TypeOK, NEW scheduled \in Nat, ConnectInLoop(scheduled)
  PROVE  /\ UnderWay(scheduled) \/ Asserts(scheduled) \/ GivesUp(scheduled)
         /\ connFd' = connFd /\ timers' \in Nat
         /\ state' \in {"stop", "connected", "connecting", "disconnected"}
         /\ delay' \in {500, 1000, 2000, 3000} /\ gaveUp' \in BOOLEAN
         /\ state # "stop" => state' # "stop"
<1>1. /\ state \in {"stop", "connected", "connecting", "disconnected"}
      /\ delay \in {500, 1000, 2000, 3000} /\ gaveUp \in BOOLEAN
  BY DEF TypeOK
<1>2. Doubled(delay) \in {500, 1000, 2000, 3000}
  BY <1>1 DEF Doubled
<1>3. CASE WaitWritable(scheduled)
  BY <1>1, <1>3 DEF WaitWritable, Register, UnderWay, Asserts
<1>4. CASE Refused(scheduled)
  BY <1>1, <1>2, <1>4 DEF Refused, RetryConnect, RetryIf, GivesUp
<1>5. CASE Forbidden(scheduled)
  BY <1>1, <1>5 DEF Forbidden, GivesUp
<1> QED BY <1>3, <1>4, <1>5 DEF ConnectInLoop

(***************************************************************************)
(* The handles: poll_hd_'s is the only one that can become writable or     *)
(* carry the connection, and a handle is to be removed once, after         *)
(* poll_hd_ has let it go.                                                 *)
(***************************************************************************)

Handles ==
  /\ phase = "dispatch" => functors = <<>>
  /\ writing \subseteq {pollHd} \ {NoFd}
  /\ connFd # NoFd => connFd = pollHd /\ writing = {}
  /\ \A fd \in Fds : /\ Occurs(Remove(fd), Queue) => fd \in registered /\ fd # pollHd
                     /\ AtMostOnce(Remove(fd), Queue)
  /\ OneHandle

Shape == TypeOK /\ Handles

LEMMA EmptyQueue == <<>> \o <<>> = <<>> /\ \A g : ~Occurs(g, <<>>) /\ AtMostOnce(g, <<>>)
BY ConcatEmptySeq, EmptySeq DEF Occurs, AtMostOnce

LEMMA InitShape == Init => Shape
<1> SUFFICES ASSUME Init PROVE Shape
  OBVIOUS
<1>1. <<>> \in Seq(Tasks) /\ 0 \in 0 .. MaxConnects
  BY EmptySeq, ConnectorAssumption
<1>2. TypeOK
  BY <1>1 DEF Init, TypeOK, RETRY_DELAY_MS
<1>3. Handles
  BY EmptyQueue DEF Init, Handles, OneHandle, Queue
<1> QED BY <1>2, <1>3 DEF Shape

\* An attempt that leaves the queue as it is, or has just been taken from it.
LEMMA AttemptShape ==
  ASSUME Shape, NEW scheduled \in Nat, ConnectInLoop(scheduled),
         functors' \in Seq(Tasks), pending' \in Seq(Tasks), UNCHANGED phase,
         phase = "dispatch" => functors' = <<>>,
         connects' \in 0 .. MaxConnects,
         \A fd \in Fds : /\ Occurs(Remove(fd), Queue') <=> Occurs(Remove(fd), Queue)
                         /\ AtMostOnce(Remove(fd), Queue')
  PROVE  Shape'
<1>1. /\ UnderWay(scheduled) \/ Asserts(scheduled) \/ GivesUp(scheduled)
      /\ connFd' = connFd /\ timers' \in Nat
      /\ state' \in {"stop", "connected", "connecting", "disconnected"}
      /\ delay' \in {500, 1000, 2000, 3000} /\ gaveUp' \in BOOLEAN
  BY Attempting DEF Shape
<1>2. TypeOK'
  BY <1>1 DEF Shape, TypeOK, UnderWay, Asserts, GivesUp
<1>3. CASE UnderWay(scheduled)
  <2>1. PICK fd \in Fds \ registered : /\ psocket' = fd /\ pollHd' = fd
                                       /\ registered' = registered \cup {fd}
                                       /\ writing' = writing \cup {fd}
    BY <1>3 DEF UnderWay
  <2>2. fd # NoFd /\ writing = {} /\ connFd = NoFd
    BY <1>3, ConnectorAssumption DEF UnderWay, Shape, Handles
  <2>3. \A fe \in Fds : Occurs(Remove(fe), Queue') => fe \in registered' /\ fe # pollHd'
    BY <2>1 DEF Shape, Handles
  <2>4. \A fe \in registered' \ {pollHd'} : Occurs(Remove(fe), Queue')
    <3> SUFFICES ASSUME NEW fe \in registered' \ {pollHd'} PROVE Occurs(Remove(fe), Queue')
      OBVIOUS
    <3>1. fe \in registered /\ fe \in Fds /\ fe # pollHd
      BY <1>3, <2>1, ConnectorAssumption DEF UnderWay, Shape, TypeOK
    <3> QED BY <3>1 DEF Shape, Handles, OneHandle, Remove
  <2> QED BY <1>1, <1>2, <2>1, <2>2, <2>3, <2>4 DEF Shape, Handles, OneHandle, Remove
<1>4. CASE Asserts(scheduled) \/ GivesUp(scheduled)
  <2>1. UNCHANGED <<pollHd, registered, writing>>
    BY <1>4 DEF Asserts, GivesUp
  <2> QED BY <1>1, <1>2, <2>1 DEF Shape, Handles, OneHandle, Remove, TypeOK
<1> QED BY <1>1, <1>3, <1>4

LEMMA ShapeStep == Shape /\ [Next]_vars => Shape'
<1> SUFFICES ASSUME Shape, [Next]_vars PROVE Shape'
  OBVIOUS
<1> USE DEF sockVars, retryVars, loopVars
<1>1. functors \in Seq(Tasks) /\ pending \in Seq(Tasks) /\ timers \in Nat
      /\ connects \in 0 .. MaxConnects /\ MaxConnects \in Nat
  BY ConnectorAssumption DEF Shape, TypeOK
<1>2. CASE UNCHANGED vars
  BY <1>2 DEF vars, Shape, TypeOK, Handles, OneHandle, Queue
<1>3. CASE ConnectOnLoop
  <2>1. connects' \in 0 .. MaxConnects
    BY <1>1, <1>3 DEF ConnectOnLoop
  <2>2. /\ ConnectInLoop(timers) /\ UNCHANGED <<phase, functors, pending>>
    BY <1>3 DEF ConnectOnLoop
  <2>3. Queue' = Queue
    BY <2>2 DEF Queue
  <2> QED BY <1>1, <2>1, <2>2, <2>3, AttemptShape DEF Shape, Handles
<1>4. CASE ConnectFromThread
  <2>1. connects' \in 0 .. MaxConnects
    BY <1>1, <1>4 DEF ConnectFromThread
  <2>2. pending' = Append(pending, ConnectTask) /\ functors' = functors
    BY <1>4 DEF ConnectFromThread, ConnectTask
  <2>3. pending' \in Seq(Tasks)
    BY <1>1, <2>2, TaskFacts, AppendProperties
  <2>4. \A fd \in Fds : /\ Occurs(Remove(fd), Queue') <=> Occurs(Remove(fd), Queue)
                        /\ AtMostOnce(Remove(fd), Queue) => AtMostOnce(Remove(fd), Queue')
    BY <1>1, <2>2, TaskFacts, Queueing
  <2>5. TypeOK'
    BY <1>4, <2>1, <2>3 DEF ConnectFromThread, Shape, TypeOK
  <2>6. Handles'
    BY <1>4, <2>4 DEF ConnectFromThread, Shape, TypeOK, Handles, OneHandle, Remove
  <2> QED BY <2>5, <2>6 DEF Shape
<1>5. CASE Stop
  BY <1>5 DEF Stop, Shape, TypeOK, Handles, OneHandle, Queue
<1>6. CASE TimerFires
  <2>1. ConnectInLoop(timers - 1) /\ UNCHANGED <<phase, functors, pending, connects>>
    BY <1>6 DEF TimerFires
  <2>2. timers - 1 \in Nat
    BY <1>1, <1>6 DEF TimerFires
  <2>3. Queue' = Queue
    BY <2>1 DEF Queue
  <2> QED BY <1>1, <2>1, <2>2, <2>3, AttemptShape DEF Shape, Handles
<1>7. CASE HandleWrite
  <2>1. psocket = pollHd /\ writing' = {} /\ psocket # NoFd
    BY <1>7 DEF HandleWrite, Shape, Handles
  <2>2. Queue' = Queue
    BY <1>7 DEF HandleWrite, Queue
  <2> QED BY <1>7, <2>1, <2>2 DEF HandleWrite, Shape, TypeOK, Handles, OneHandle
<1>8. CASE HandleError
  <2>1. /\ writing = {pollHd} /\ pollHd \in Fds /\ pollHd \in registered /\ connFd = NoFd
        /\ pollHd # NoFd
    BY <1>8, ConnectorAssumption DEF HandleError, ErrorLeaving, Shape, TypeOK, Handles
  <2>2. pending' = Append(pending, Remove(pollHd)) /\ functors' = functors
    <3>1. pending' = pending \o <<Remove(pollHd)>>
      BY <1>8 DEF HandleError, ErrorLeaving, Remove
    <3> QED BY <1>1, <1>8, <2>1, <3>1, TaskFacts, AppendIsConcat DEF HandleError, ErrorLeaving
  <2>3. pending' \in Seq(Tasks)
    BY <1>1, <2>1, <2>2, TaskFacts, AppendProperties
  <2>4. \A g : /\ Occurs(g, Queue') <=> Occurs(g, Queue) \/ g = Remove(pollHd)
               /\ AtMostOnce(g, Queue) /\ (Remove(pollHd) = g => ~Occurs(g, Queue))
                    => AtMostOnce(g, Queue')
    BY <1>1, <2>1, <2>2, TaskFacts, Queueing
  <2>5. /\ writing' = {} /\ pollHd' = NoFd /\ psocket' = NoFd
        /\ UNCHANGED <<registered, connFd, phase, connects, gaveUp>>
    BY <1>8, <2>1 DEF HandleError, ErrorLeaving
  <2>6. /\ state' \in {"stop", "connected", "connecting", "disconnected"}
        /\ timers' \in Nat /\ delay' \in {500, 1000, 2000, 3000}
        /\ ended' \in {"no", "assertion", "null", "timer"}
    <3>1. delay \in {500, 1000, 2000, 3000}
      BY DEF Shape, TypeOK
    <3>2. Doubled(delay) \in {500, 1000, 2000, 3000}
      BY <3>1 DEF Doubled
    <3> QED BY <1>8, <3>2 DEF HandleError, ErrorLeaving, RetryConnect, RetryIf, Shape, TypeOK
  <2>7. TypeOK'
    BY <1>1, <2>2, <2>3, <2>5, <2>6 DEF Shape, TypeOK
  <2>8. \A fd \in Fds : /\ Occurs(Remove(fd), Queue') => fd \in registered'
                        /\ AtMostOnce(Remove(fd), Queue')
    BY <2>1, <2>4, <2>5, TaskFacts DEF Shape, Handles
  <2>9. OneHandle'
    BY <2>4, <2>5 DEF Shape, Handles, OneHandle, Remove
  <2>10. NoFd \notin Fds
    BY ConnectorAssumption
  <2> QED BY <2>1, <2>2, <2>5, <2>7, <2>8, <2>9, <2>10 DEF Shape, Handles
<1>9. CASE ConnectionCloses
  <2>1. Queue' = Queue
    BY <1>9 DEF ConnectionCloses, Queue
  <2> QED BY <1>9, <2>1 DEF ConnectionCloses, Shape, TypeOK, Handles, OneHandle
<1>10. CASE SwapPending
  <2>1. functors = <<>> /\ functors' = pending /\ pending' = <<>> /\ phase' = "run"
    BY <1>10 DEF SwapPending, Shape, Handles
  <2>2. Queue' = Queue /\ <<>> \in Seq(Tasks)
    BY <1>1, <2>1, ConcatEmptySeq, EmptySeq DEF Queue
  <2> QED BY <1>10, <2>1, <2>2 DEF SwapPending, Shape, TypeOK, Handles, OneHandle
<1>11. CASE RunFunctor
  <2> DEFINE task == Head(functors)
  <2>1. /\ phase = "run" /\ functors # <<>> /\ functors' = Tail(functors)
        /\ UNCHANGED <<phase, pending, connects>>
    BY <1>11 DEF RunFunctor
  <2>2. /\ task \in Tasks /\ Occurs(task, Queue) /\ functors' \in Seq(Tasks)
        /\ \A g : /\ Occurs(g, Queue') => Occurs(g, Queue)
                  /\ Occurs(g, Queue) /\ g # task => Occurs(g, Queue')
                  /\ AtMostOnce(g, Queue) /\ g = task => ~Occurs(g, Queue')
                  /\ AtMostOnce(g, Queue) => AtMostOnce(g, Queue')
    BY <1>1, <2>1, Taking
  <2>3. CASE task[1] = "connect"
    <3>1. task = ConnectTask /\ ConnectInLoop(timers)
      BY <1>11, <2>2, <2>3, TaskFacts DEF RunFunctor
    <3>2. \A fd \in Fds : /\ Occurs(Remove(fd), Queue') <=> Occurs(Remove(fd), Queue)
                          /\ AtMostOnce(Remove(fd), Queue')
      BY <2>2, <3>1, TaskFacts DEF Shape, Handles
    <3> QED BY <1>1, <2>1, <2>2, <3>1, <3>2, AttemptShape
  <2>4. CASE task[1] = "remove"
    <3>1. PICK fd \in Fds : task = Remove(fd) /\ task[2] = fd
      BY <2>2, <2>4, TaskFacts
    <3>2. /\ registered' = registered \ {fd}
          /\ UNCHANGED <<state, psocket, pollHd, writing, connFd, timers, delay, ended, gaveUp>>
      BY <1>11, <2>4, <3>1 DEF RunFunctor
    <3>3. fd \in registered /\ fd # pollHd /\ ~Occurs(Remove(fd), Queue')
      BY <2>2, <3>1 DEF Shape, Handles
    <3>4. TypeOK'
      BY <2>1, <2>2, <3>2, <3>3 DEF Shape, TypeOK, Handles
    <3>5. \A fe \in Fds : /\ Occurs(Remove(fe), Queue') => fe \in registered' /\ fe # pollHd'
                          /\ AtMostOnce(Remove(fe), Queue')
      BY <2>2, <3>2, <3>3 DEF Shape, Handles
    <3>6. \A fe \in registered' \ {pollHd'} : Occurs(Remove(fe), Queue')
      <4> SUFFICES ASSUME NEW fe \in registered' \ {pollHd'} PROVE Occurs(Remove(fe), Queue')
        OBVIOUS
      <4>1. fe \in Fds /\ fe # fd /\ fe \in registered \ {pollHd}
        BY <3>2 DEF Shape, TypeOK
      <4>2. Occurs(Remove(fe), Queue) /\ Remove(fe) # task
        BY <3>1, <4>1, TaskFacts DEF Shape, Handles, OneHandle, Remove
      <4> QED BY <2>2, <4>2
    <3> QED BY <2>1, <3>2, <3>4, <3>5, <3>6 DEF Shape, Handles, OneHandle, Remove
  <2> QED BY <2>2, <2>3, <2>4, TaskFacts
<1>12. CASE EndPending
  BY <1>12 DEF EndPending, Shape, TypeOK, Handles, OneHandle, Queue
<1> QED
  BY <1>2, <1>3, <1>4, <1>5, <1>6, <1>7, <1>8, <1>9, <1>10, <1>11, <1>12 DEF Next

LEMMA ShapeAlways == Spec => []Shape
BY InitShape, ShapeStep, PTL DEF Spec

\* Every variable keeps its type.
THEOREM TypeCorrect == Spec => []TypeOK
BY ShapeAlways, PTL DEF Shape

\* A handle in the poller is the one of poll_hd_ or about to be removed.
THEOREM HandlesAccounted == Spec => []OneHandle
<1>1. Shape => OneHandle
  BY DEF Shape, Handles
<1> QED BY <1>1, ShapeAlways, PTL

(***************************************************************************)
(* One call of connect().  Its attempt is in one place at a time: the      *)
(* queue, a timer, the handle that waits to be writable, the connection.   *)
(* While it waits to be made poll_hd_ is null, so no assertion fails; once *)
(* made it has a socket, so handle_error finds one.  And it is always in   *)
(* one of them: connect_in_loop and handle_error give it up only for good, *)
(* since stop(), after which they would, ends the program.                 *)
(***************************************************************************)

Waits == timers > 0 \/ Occurs(ConnectTask, Queue)

Single == connects <= 1 =>
  /\ timers <= 1 /\ AtMostOnce(ConnectTask, Queue)
  /\ ~(timers > 0 /\ Occurs(ConnectTask, Queue))
  /\ Waits => pollHd = NoFd
  /\ connects = 0 => ~Waits /\ pollHd = NoFd
  /\ connects = 1 /\ Running /\ ~gaveUp => Waits \/ pollHd # NoFd
  /\ Running => state # "stop"
  /\ writing # {} => psocket # NoFd
  /\ ended \notin {"assertion", "null"}

LEMMA InitSingle == Init => Single
BY EmptyQueue DEF Init, Single, Waits, Queue

\* An attempt made by the first call, by its functor or by its only retry.
LEMMA AttemptSingle ==
  ASSUME Shape, NEW scheduled \in Nat, ConnectInLoop(scheduled), connects' = 1,
         scheduled = 0, pollHd = NoFd, Running => state # "stop", ended \notin {"assertion", "null"},
         AtMostOnce(ConnectTask, Queue'), ~Occurs(ConnectTask, Queue')
  PROVE  Single'
<1>1. /\ UnderWay(scheduled) \/ Asserts(scheduled) \/ GivesUp(scheduled)
      /\ timers' \in Nat
      /\ state # "stop" => state' # "stop"
  BY Attempting DEF Shape
<1>2. writing = {}
  BY DEF Shape, Handles
<1>3. CASE UnderWay(scheduled)
  <2>1. psocket' # NoFd /\ pollHd' # NoFd /\ timers' = 0 /\ ended' = ended
    BY <1>3, ConnectorAssumption DEF UnderWay
  <2> QED BY <1>1, <2>1 DEF Single, Waits, Running
<1>4. CASE Asserts(scheduled)
  BY <1>4 DEF Asserts
<1>5. CASE GivesUp(scheduled)
  <2>1. /\ timers' \in {0, 1} /\ pollHd' = NoFd /\ writing' = {} /\ ended' = ended
        /\ Running => timers' = 1 \/ gaveUp'
    BY <1>2, <1>5 DEF GivesUp, Running
  <2> QED BY <1>1, <2>1 DEF Single, Waits, Running
<1> QED BY <1>1, <1>3, <1>4, <1>5

LEMMA SingleStep == Shape /\ Single /\ [Next]_vars => Single'
<1> SUFFICES ASSUME Shape, Single, [Next]_vars, connects' <= 1 PROVE Single'
  BY DEF Single
<1> USE DEF sockVars, retryVars, loopVars
<1>1. functors \in Seq(Tasks) /\ pending \in Seq(Tasks) /\ timers \in Nat /\ connects \in Nat
  BY ConnectorAssumption DEF Shape, TypeOK
<1>2. CASE UNCHANGED vars
  BY <1>2 DEF vars, Single, Waits, Queue, Running
<1>3. CASE ConnectOnLoop
  <2>1. connects = 0 /\ connects' = 1 /\ ConnectInLoop(timers)
    BY <1>1, <1>3 DEF ConnectOnLoop
  <2>2. Queue' = Queue
    BY <1>3 DEF ConnectOnLoop, Queue
  <2>3. timers = 0 /\ pollHd = NoFd /\ ~Occurs(ConnectTask, Queue)
        /\ AtMostOnce(ConnectTask, Queue) /\ ended \notin {"assertion", "null"}
        /\ (Running => state # "stop")
    BY <1>1, <2>1 DEF Single, Waits
  <2> QED BY <1>1, <2>1, <2>2, <2>3, AttemptSingle
<1>4. CASE ConnectFromThread
  <2>1. connects = 0 /\ connects' = 1
    BY <1>1, <1>4 DEF ConnectFromThread
  <2>2. pending' = Append(pending, ConnectTask) /\ functors' = functors
    BY <1>4 DEF ConnectFromThread, ConnectTask
  <2>3. timers = 0 /\ pollHd = NoFd /\ ~Occurs(ConnectTask, Queue)
        /\ AtMostOnce(ConnectTask, Queue) /\ ended \notin {"assertion", "null"}
        /\ (Running => state # "stop")
    BY <1>1, <2>1 DEF Single, Waits
  <2>4. AtMostOnce(ConnectTask, Queue')
    BY <1>1, <2>2, <2>3, TaskFacts, Queueing
  <2>5. writing = {}
    BY <2>3 DEF Shape, Handles
  <2>6. Occurs(ConnectTask, Queue')
    BY <1>1, <2>2, TaskFacts, Queueing
  <2>7. UNCHANGED <<state, pollHd, writing, timers, ended, gaveUp>>
    BY <1>4 DEF ConnectFromThread
  <2> QED BY <2>1, <2>3, <2>4, <2>5, <2>6, <2>7 DEF Single, Waits, Running
<1>5. CASE Stop
  <2>1. /\ UNCHANGED <<psocket, pollHd, writing, timers, connects>> /\ Queue' = Queue
        /\ ended' = "timer"
    BY <1>5 DEF Stop, Queue
  <2> QED BY <2>1 DEF Single, Waits, Running
<1>6. CASE TimerFires
  <2>1. ConnectInLoop(timers - 1) /\ timers > 0 /\ connects' = connects /\ ended = "no"
    BY <1>6 DEF TimerFires, Running
  <2>2. Queue' = Queue
    BY <1>6 DEF TimerFires, Queue
  <2>3. /\ timers - 1 = 0 /\ connects = 1 /\ pollHd = NoFd
        /\ ~Occurs(ConnectTask, Queue) /\ AtMostOnce(ConnectTask, Queue)
        /\ (Running => state # "stop")
    BY <1>1, <2>1 DEF Single, Waits
  <2> QED BY <2>1, <2>2, <2>3, AttemptSingle
<1>7. CASE HandleWrite
  <2>1. /\ writing' = {} /\ Queue' = Queue
        /\ UNCHANGED <<state, pollHd, timers, ended, connects, gaveUp>>
    BY <1>7 DEF HandleWrite, Queue, Shape, Handles
  <2> QED BY <2>1 DEF Single, Waits, Running
<1>8. CASE HandleError
  <2>1. /\ writing = {pollHd} /\ pollHd \in Fds /\ pollHd # NoFd
    BY <1>8, ConnectorAssumption DEF HandleError, ErrorLeaving, Shape, TypeOK, Handles
  <2>2. ~Waits /\ timers = 0 /\ psocket # NoFd /\ connects' = connects /\ connects = 1
        /\ ended = "no" /\ AtMostOnce(ConnectTask, Queue) /\ state # "stop"
    BY <1>1, <1>8, <2>1 DEF HandleError, ErrorLeaving, Running, Single, Waits
  <2>3. /\ pollHd' = NoFd /\ writing' = {} /\ timers' = 1 /\ ended' = ended
        /\ state' = "disconnected"
    BY <1>8, <2>1, <2>2 DEF HandleError, ErrorLeaving, RetryConnect, RetryIf
  <2>4. pending' = Append(pending, Remove(pollHd)) /\ functors' = functors
    <3>1. pending' = pending \o <<Remove(pollHd)>>
      BY <1>8 DEF HandleError, ErrorLeaving, Remove
    <3> QED BY <1>1, <1>8, <2>1, <3>1, TaskFacts, AppendIsConcat DEF HandleError, ErrorLeaving
  <2>5. ~Occurs(ConnectTask, Queue') /\ AtMostOnce(ConnectTask, Queue')
    BY <1>1, <2>1, <2>2, <2>4, TaskFacts, Queueing DEF Waits
  <2> QED BY <2>2, <2>3, <2>5 DEF Single, Waits
<1>9. CASE ConnectionCloses
  <2>1. /\ writing' = {} /\ Queue' = Queue
        /\ UNCHANGED <<state, pollHd, timers, ended, connects, gaveUp>>
    BY <1>9 DEF ConnectionCloses, Queue, Shape, Handles
  <2> QED BY <2>1 DEF Single, Waits, Running
<1>10. CASE SwapPending
  <2>1. functors = <<>> /\ functors' = pending /\ pending' = <<>>
    BY <1>10 DEF SwapPending, Shape, Handles
  <2>2. Queue' = Queue
    BY <1>1, <2>1, ConcatEmptySeq DEF Queue
  <2> QED BY <1>10, <2>2 DEF SwapPending, Single, Waits, Running
<1>11. CASE RunFunctor
  <2> DEFINE task == Head(functors)
  <2>1. /\ functors # <<>> /\ functors' = Tail(functors) /\ ended = "no"
        /\ UNCHANGED <<phase, pending, connects>>
    BY <1>11 DEF RunFunctor, Running
  <2>2. /\ task \in Tasks /\ Occurs(task, Queue)
        /\ \A g : /\ Occurs(g, Queue') => Occurs(g, Queue)
                  /\ Occurs(g, Queue) /\ g # task => Occurs(g, Queue')
                  /\ AtMostOnce(g, Queue) /\ g = task => ~Occurs(g, Queue')
                  /\ AtMostOnce(g, Queue) => AtMostOnce(g, Queue')
    BY <1>1, <2>1, Taking
  <2>3. /\ AtMostOnce(ConnectTask, Queue) /\ AtMostOnce(ConnectTask, Queue')
        /\ state # "stop"
    BY <2>1, <2>2 DEF Single, Running
  <2>4. CASE task[1] = "connect"
    <3>1. task = ConnectTask /\ ConnectInLoop(timers)
      BY <1>11, <2>2, <2>4, TaskFacts DEF RunFunctor
    <3>2. timers = 0 /\ pollHd = NoFd /\ connects = 1 /\ ~Occurs(ConnectTask, Queue')
      BY <1>1, <2>1, <2>2, <2>3, <3>1 DEF Single, Waits
    <3> QED BY <2>1, <2>3, <3>1, <3>2, AttemptSingle
  <2>5. CASE task[1] = "remove"
    <3>1. UNCHANGED <<state, psocket, pollHd, writing, timers, ended, gaveUp>>
      BY <1>11, <2>5 DEF RunFunctor
    <3>2. Occurs(ConnectTask, Queue') <=> Occurs(ConnectTask, Queue)
      BY <2>2, <2>5, TaskFacts
    <3> QED BY <2>1, <2>3, <3>1, <3>2 DEF Single, Waits, Running
  <2> QED BY <2>2, <2>4, <2>5, TaskFacts
<1>12. CASE EndPending
  BY <1>12 DEF EndPending, Single, Waits, Queue, Running
<1> QED
  BY <1>2, <1>3, <1>4, <1>5, <1>6, <1>7, <1>8, <1>9, <1>10, <1>11, <1>12 DEF Next

LEMMA SingleAlways == Spec => [](Shape /\ Single)
<1>1. Init => Shape /\ Single
  BY InitShape, InitSingle
<1>2. Shape /\ Single /\ [Next]_vars => (Shape /\ Single)'
  BY ShapeStep, SingleStep
<1> QED BY <1>1, <1>2, PTL DEF Spec

\* How many calls are queued, from whether one is.
LEMMA QueuedCount ==
  ASSUME AtMostOnce(ConnectTask, Queue)
  PROVE  Queued = IF Occurs(ConnectTask, Queue) THEN 1 ELSE 0
<1> DEFINE P == {i \in DOMAIN Queue : Queue[i] = <<"connect", NoFd>>}
<1>1. CASE Occurs(ConnectTask, Queue)
  <2>1. PICK i \in DOMAIN Queue : Queue[i] = ConnectTask
    BY <1>1 DEF Occurs
  <2>2. P = {i}
    BY <2>1 DEF AtMostOnce, ConnectTask
  <2> QED BY <1>1, <2>2, FS_Singleton DEF Queued
<1>2. CASE ~Occurs(ConnectTask, Queue)
  <2>1. P = {}
    BY <1>2 DEF Occurs, ConnectTask
  <2> QED BY <1>2, <2>1, FS_EmptySet DEF Queued
<1> QED BY <1>1, <1>2

\* One connect() has at most one attempt, retry, queued call or connection, and
\* loses none of them, whatever the network, the timers and the queue do.
THEOREM AttemptsOnce == Spec => []OneAttempt
<1>1. Shape /\ Single => OneAttempt
  <2> SUFFICES ASSUME Shape, Single, connects <= 1
               PROVE  /\ Attempts + Count(connFd # NoFd \/ Succeeded) <= 1
                      /\ connects = 1 /\ Running /\ ~gaveUp => Attempts + Count(Succeeded) = 1
    BY DEF OneAttempt
  <2>1. timers \in {0, 1} /\ ~(timers > 0 /\ Occurs(ConnectTask, Queue))
    BY DEF Shape, TypeOK, Single
  <2>2. Queued = IF Occurs(ConnectTask, Queue) THEN 1 ELSE 0
    BY QueuedCount DEF Single
  <2>3. Waits => writing = {} /\ connFd = NoFd /\ ~Succeeded
    BY DEF Shape, Handles, Single, Succeeded
  <2>4. ~(writing # {} /\ (connFd # NoFd \/ Succeeded))
    BY DEF Shape, Handles, Succeeded
  <2>5. connects = 1 /\ Running /\ ~gaveUp => Waits \/ writing # {} \/ Succeeded
    BY DEF Single, Succeeded
  <2> QED BY <2>1, <2>2, <2>3, <2>4, <2>5 DEF Attempts, Count, Waits
<1> QED BY <1>1, SingleAlways, PTL

\* And it fails no assertion and uses no null socket.
THEOREM OneCallIsSafe == Spec => []FailsOnlyIfCalledAgain
<1>1. Shape /\ Single => FailsOnlyIfCalledAgain
  <2>1. Shape => connects \in Nat
    BY ConnectorAssumption DEF Shape, TypeOK
  <2> QED BY <2>1 DEF Single, FailsOnlyIfCalledAgain
<1> QED BY <1>1, SingleAlways, PTL
=============================================================================

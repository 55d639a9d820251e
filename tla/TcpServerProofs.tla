-------------------------- MODULE TcpServerProofs --------------------------
(***************************************************************************)
(* Proofs about TcpServer for any descriptors, any number of threads and   *)
(* any backlog.                                                            *)
(***************************************************************************)
EXTENDS TcpServer, QueueFacts

(***************************************************************************)
(* The queues: no functor is in a queue twice.                             *)
(***************************************************************************)

LEMMA FunctorFacts ==
  ASSUME NEW n \in {"establish", "remove", "close"}, NEW m \in {"establish", "remove", "close"},
         NEW fd \in Fds, NEW gd \in Fds
  PROVE  /\ Functor(n, fd) \in Functors
         /\ Functor(n, fd) = Functor(m, gd) <=> n = m /\ fd = gd
<1>1. Functor(n, fd).name = n /\ Functor(n, fd).fd = fd
  BY DEF Functor
<1>2. Functor(m, gd).name = m /\ Functor(m, gd).fd = gd
  BY DEF Functor
<1>3. Functor(n, fd) \in Functors
  BY DEF Functor, Functors
<1> QED BY <1>1, <1>2, <1>3

QueuesDistinct == \A l \in Loops : Distinct(queue[l])
QueueType == queue \in [Loops -> Seq(Functors)]

\* A functor pushed on one loop's queue.
LEMMA Push ==
  ASSUME QueueType, QueuesDistinct, NEW k \in Loops, NEW f \in Functors, ~Queued(k, f),
         queue' = [queue EXCEPT ![k] = Append(@, f)]
  PROVE  /\ QueueType' /\ QueuesDistinct'
         /\ \A l \in Loops : \A g : Queued(l, g)' <=> Queued(l, g) \/ (l = k /\ g = f)
<1>1. queue[k] \in Seq(Functors)
  BY DEF QueueType
<1>2. queue'[k] = Append(queue[k], f) /\ \A l \in Loops : l # k => queue'[l] = queue[l]
  BY DEF QueueType
<1>3. ~Occurs(f, queue[k])
  BY DEF Queued, Occurs
<1>4. /\ Append(queue[k], f) \in Seq(Functors)
      /\ \A g : Occurs(g, Append(queue[k], f)) <=> Occurs(g, queue[k]) \/ g = f
      /\ Distinct(Append(queue[k], f))
  BY <1>1, <1>3, AppendFacts DEF QueuesDistinct
<1>5. QueueType'
  BY <1>4 DEF QueueType
<1>6. QueuesDistinct'
  BY <1>2, <1>4 DEF QueuesDistinct
<1>7. ASSUME NEW l \in Loops, NEW g PROVE Queued(l, g)' <=> Queued(l, g) \/ (l = k /\ g = f)
  BY <1>2, <1>4 DEF Queued, Occurs
<1> QED BY <1>5, <1>6, <1>7

\* The first functor of one loop's queue taken off it.
LEMMA Pop ==
  ASSUME QueueType, QueuesDistinct, NEW k \in Loops, NEW f, queue[k] # <<>>, Head(queue[k]) = f,
         queue' = [queue EXCEPT ![k] = Tail(@)]
  PROVE  /\ QueueType' /\ QueuesDistinct' /\ Queued(k, f)
         /\ \A l \in Loops : \A g : Queued(l, g)' <=> Queued(l, g) /\ ~(l = k /\ g = f)
<1>1. queue[k] \in Seq(Functors)
  BY DEF QueueType
<1>2. queue'[k] = Tail(queue[k]) /\ \A l \in Loops : l # k => queue'[l] = queue[l]
  BY DEF QueueType
<1>3. /\ Tail(queue[k]) \in Seq(Functors)
      /\ Occurs(f, queue[k])
      /\ \A g : Occurs(g, Tail(queue[k])) <=> Occurs(g, queue[k]) /\ g # f
      /\ Distinct(Tail(queue[k]))
  BY <1>1, TailFacts DEF QueuesDistinct
<1>4. QueueType'
  BY <1>3 DEF QueueType
<1>5. QueuesDistinct'
  BY <1>2, <1>3 DEF QueuesDistinct
<1>6. ASSUME NEW l \in Loops, NEW g PROVE Queued(l, g)' <=> Queued(l, g) /\ ~(l = k /\ g = f)
  <2>1. CASE l = k
    <3>1. Queued(k, g)' <=> Occurs(g, Tail(queue[k]))
      BY <1>2 DEF Queued, Occurs
    <3>2. Queued(k, g) <=> Occurs(g, queue[k])
      BY DEF Queued, Occurs
    <3> QED BY <1>3, <2>1, <3>1, <3>2
  <2>2. CASE l # k
    BY <1>2, <2>2 DEF Queued
  <2> QED BY <2>1, <2>2
<1>7. Queued(k, f)
  BY <1>3 DEF Queued, Occurs
<1> QED BY <1>4, <1>5, <1>6, <1>7

(***************************************************************************)
(* The invariant.  A descriptor that nobody holds is closed because of     *)
(* what each stage of its connection implies: before handle_close the map  *)
(* or register_connection has it, and while it closes it is either in handle_close or in the      *)
(* queued functor that ends it.  That in turn needs to know which functors *)
(* a connection can have queued at which stage, on which loop, and each at *)
(* most once: the name of a descriptor comes back, its functors must not.  *)
(***************************************************************************)

Startup == ~started_ => loops_ = 0 /\ stopped = 0 /\ next_thread_idx_ = 0

QueuedAtStage ==
  \A l \in Loops, fd \in Fds :
    /\ Queued(l, Functor("establish", fd)) => stage[fd] = "new" /\ owner[fd] = l
    /\ Queued(l, Functor("close", fd)) =>
         stage[fd] = "closing" /\ owner[fd] = l /\ closing_on[l] # fd
    /\ Queued(l, Functor("remove", fd)) =>
         /\ l = 0 /\ stage[fd] \in {"closing", "closed"}
         /\ phase = "open" => fd \in connections_map_

InHandleClose ==
  \A l \in Loops, fd \in Fds : closing_on[l] = fd => stage[fd] = "closing" /\ owner[fd] = l

ClosingIsQueued ==
  \A fd \in Fds : stage[fd] = "closing" =>
    closing_on[owner[fd]] = fd \/ Queued(owner[fd], Functor("close", fd))

HeldUntilDestruction ==
  phase \in {"open", "left"} =>
    \A fd \in Fds : stage[fd] \in {"new", "open"} => fd \in Kept

\* register_connection is part of one of the loop's handlers.
RegisteringInLoop == registering # NoFd => phase = "open"

Lifetimes ==
  /\ QueuesDistinct /\ QueuedAtStage /\ InHandleClose /\ ClosingIsQueued
  /\ HeldUntilDestruction /\ RegisteringInLoop /\ OnlyDestructionDangles

IInv == TypeOK /\ Startup /\ Lifetimes

LEMMA LoopsFacts ==
  ASSUME TypeOK
  PROVE  /\ 0 \in Loops
         /\ \A fd \in Fds : owner[fd] \in Loops
         /\ NextLoop \in Loops /\ NextLoop \in 0..loops_
         /\ NextIndex \in Nat /\ (NextIndex < loops_ \/ NextIndex = 0)
<1>1. MaxThreads \in Nat /\ loops_ \in 0..MaxThreads /\ next_thread_idx_ \in Nat
  BY BoundAssumption DEF TypeOK, Loops
<1>2. \A fd \in Fds : owner[fd] \in 0..loops_
  BY DEF TypeOK
<1>3. next_thread_idx_ < loops_ \/ next_thread_idx_ = 0
  BY DEF TypeOK
<1> QED BY <1>1, <1>2, <1>3 DEF Loops, NextLoop, NextIndex, AdvanceIndex

LEMMA InitIInv == Init => IInv
<1> SUFFICES ASSUME Init PROVE IInv
  OBVIOUS
<1>1. <<>> \in Seq(Functors) /\ 0 \in Loops /\ 0 \in 0..MaxBacklog
  BY EmptySeq, BoundAssumption DEF Loops
<1>2. TypeOK
  <2>1. /\ phase = "open" /\ thread_num_ \in Loops /\ loops_ = 0 /\ stopped = 0
        /\ next_thread_idx_ = 0 /\ started_ = FALSE /\ reading = FALSE /\ backlog = 0
        /\ connections_map_ = {} /\ registering = NoFd /\ shared = {} /\ ended = "no"
    BY DEF Init
  <2>2. /\ stage \in [Fds -> {"new", "open", "closing", "closed"}]
        /\ owner \in [Fds -> 0..0]
    BY DEF Init
  <2>3. /\ queue \in [Loops -> Seq(Functors)]
        /\ spent \in [Loops -> SUBSET Fds]
        /\ closing_on \in [Loops -> Fds \cup {NoFd}]
    BY <1>1 DEF Init
  <2>4. /\ stopped \in 0..loops_ /\ next_thread_idx_ \in Nat
        /\ owner \in [Fds -> 0..loops_]
    BY <2>1, <2>2
  <2>5. loops_ \in Loops /\ backlog \in 0..MaxBacklog
    BY <1>1, <2>1
  <2> QED BY <2>1, <2>2, <2>3, <2>4, <2>5 DEF TypeOK
<1>3. \A l \in Loops : \A f : ~Queued(l, f)
  BY DEF Init, Queued
<1>4. QueuesDistinct
  BY DEF Init, QueuesDistinct, Distinct
<1>5. InHandleClose
  BY BoundAssumption DEF Init, InHandleClose
<1> QED
  BY <1>2, <1>3, <1>4, <1>5 DEF IInv, Init, Startup, Lifetimes, QueuedAtStage, ClosingIsQueued,
     HeldUntilDestruction, RegisteringInLoop, OnlyDestructionDangles

(***************************************************************************)
(* One lemma per kind of step.                                             *)
(***************************************************************************)

\* A descriptor that accept() may give out: nothing of it is left anywhere.
LEMMA FreeFacts ==
  ASSUME TypeOK, Lifetimes, phase = "open", NEW fd \in Free
  PROVE  /\ stage[fd] = "closed"
         /\ \A l \in Loops : closing_on[l] # fd
         /\ \A l \in Loops, n \in {"establish", "remove", "close"} : ~Queued(l, Functor(n, fd))
<1>1. fd \in Fds /\ ~Held(fd) /\ \A l \in Loops : closing_on[l] # fd
  BY DEF Free
<1>2. owner[fd] \in Loops /\ 0 \in Loops /\ stage[fd] \in {"new", "open", "closing", "closed"}
  BY <1>1, LoopsFacts DEF TypeOK
<1>3. stage[fd] \notin {"new", "open"}
  BY <1>1 DEF Lifetimes, HeldUntilDestruction, Held, Kept
<1>4. stage[fd] # "closing"
  BY <1>1, <1>2 DEF Lifetimes, ClosingIsQueued, Held
<1>5. stage[fd] = "closed"
  BY <1>2, <1>3, <1>4
<1>6. ASSUME NEW l \in Loops PROVE /\ ~Queued(l, Functor("establish", fd))
                                   /\ ~Queued(l, Functor("close", fd))
                                   /\ ~Queued(l, Functor("remove", fd))
  BY <1>1, <1>5 DEF Lifetimes, QueuedAtStage, Held
<1> QED BY <1>1, <1>5, <1>6

LEMMA RegisterKeeps ==
  ASSUME IInv, phase = "open", registering = NoFd, NEW fd \in Free, register_connection(fd),
         Running,
         UNCHANGED <<phase, thread_num_, loops_, stopped, started_, reading, connections_map_,
                     shared, spent, closing_on, ended>>,
         backlog' \in 0..MaxBacklog
  PROVE  IInv'
<1> DEFINE k == NextLoop
<1>1. /\ fd \in Fds /\ TypeOK /\ Lifetimes /\ QueueType /\ QueuesDistinct
  BY DEF IInv, Free, QueueType, TypeOK, Lifetimes
<1>2. /\ k \in Loops /\ k \in 0..loops_
      /\ NextIndex \in Nat /\ (NextIndex < loops_ \/ NextIndex = 0)
  BY <1>1, LoopsFacts
<1>3. /\ next_thread_idx_' = NextIndex
      /\ stage' = [stage EXCEPT ![fd] = "new"]
      /\ owner' = [owner EXCEPT ![fd] = k]
      /\ queue' = [queue EXCEPT ![k] = Append(@, Functor("establish", fd))]
      /\ registering' = fd /\ Kept' = Kept \cup {fd}
  BY <1>1, BoundAssumption DEF register_connection, Kept
<1> HIDE DEF k
<1>4. /\ stage[fd] = "closed"
      /\ \A l \in Loops : closing_on[l] # fd
      /\ \A l \in Loops, n \in {"establish", "remove", "close"} : ~Queued(l, Functor(n, fd))
  BY <1>1, FreeFacts
<1>5. /\ QueueType' /\ QueuesDistinct'
      /\ \A l \in Loops : \A g :
           Queued(l, g)' <=> Queued(l, g) \/ (l = k /\ g = Functor("establish", fd))
  BY <1>1, <1>2, <1>3, <1>4, FunctorFacts, Push
<1>6. /\ stage'[fd] = "new" /\ owner'[fd] = k
      /\ \A g \in Fds : g # fd => stage'[g] = stage[g] /\ owner'[g] = owner[g]
  BY <1>1, <1>3 DEF TypeOK
<1>7. TypeOK'
  BY <1>1, <1>2, <1>3, <1>5 DEF TypeOK, QueueType
<1>8. Startup'
  BY <1>3 DEF IInv, Startup, NextIndex
<1>9. QueuedAtStage'
  <2> SUFFICES ASSUME NEW l \in Loops, NEW g \in Fds
               PROVE  /\ Queued(l, Functor("establish", g))' => stage'[g] = "new" /\ owner'[g] = l
                      /\ Queued(l, Functor("close", g))' =>
                           stage'[g] = "closing" /\ owner'[g] = l /\ closing_on[l] # g
                      /\ Queued(l, Functor("remove", g))' =>
                           /\ l = 0 /\ stage'[g] \in {"closing", "closed"}
                           /\ g \in connections_map_'
    BY DEF QueuedAtStage
  <2>1. CASE g = fd
    BY <1>1, <1>4, <1>5, <1>6, <2>1, FunctorFacts
  <2>2. CASE g # fd
    BY <1>1, <1>3, <1>5, <1>6, <2>2, FunctorFacts DEF Lifetimes, QueuedAtStage
  <2> QED BY <2>1, <2>2
<1>10. InHandleClose'
  BY <1>1, <1>4, <1>6 DEF Lifetimes, InHandleClose
<1>11. ClosingIsQueued'
  <2>1. \A g \in Fds : owner[g] \in Loops
    BY <1>1, LoopsFacts
  <2> QED BY <1>1, <1>5, <1>6, <2>1 DEF Lifetimes, ClosingIsQueued
<1>12. HeldUntilDestruction'
  BY <1>1, <1>3, <1>6 DEF Lifetimes, HeldUntilDestruction
<1>13. RegisteringInLoop' /\ OnlyDestructionDangles'
  BY DEF Running, RegisteringInLoop, OnlyDestructionDangles
<1> QED BY <1>5, <1>7, <1>8, <1>9, <1>10, <1>11, <1>12, <1>13 DEF IInv, Lifetimes

\* A step that leaves the connections' stages, owners, holders and functors alone,
\* but for a connection that comes into the map, and the server in a phase that
\* promises no more.
LEMMA OtherSteps ==
  ASSUME Lifetimes, UNCHANGED <<stage, owner, queue, closing_on>>, TypeOK',
         ended = "no", ended' = ended, registering' \in {registering, NoFd},
         \/ phase' = phase /\ Kept' = Kept /\ connections_map_ \subseteq connections_map_'
         \/ phase' = "left" /\ phase = "open" /\ Kept' = Kept /\ registering = NoFd
         \/ phase' \in {"cleared", "gone"} /\ registering = NoFd
  PROVE  Lifetimes'
<1>1. \A l \in Loops : \A g : Queued(l, g)' <=> Queued(l, g)
  BY DEF Queued
<1>2. QueuesDistinct'
  BY DEF Lifetimes, QueuesDistinct
<1>3. QueuedAtStage'
  BY <1>1 DEF Lifetimes, QueuedAtStage
<1>4. InHandleClose'
  BY DEF Lifetimes, InHandleClose
<1>5. ClosingIsQueued'
  BY DEF Lifetimes, ClosingIsQueued, Queued
<1>6. HeldUntilDestruction'
  BY DEF Lifetimes, HeldUntilDestruction
<1>7. RegisteringInLoop' /\ OnlyDestructionDangles'
  BY DEF Lifetimes, RegisteringInLoop, OnlyDestructionDangles
<1> QED BY <1>2, <1>3, <1>4, <1>5, <1>6, <1>7 DEF Lifetimes

LEMMA HandleReadKeeps == ASSUME IInv, HandleRead PROVE IInv'
<1>1. /\ phase = "open" /\ registering = NoFd /\ Running /\ TypeOK /\ backlog' \in 0..MaxBacklog
      /\ UNCHANGED <<phase, thread_num_, loops_, stopped, started_, reading, connections_map_,
                     shared, spent, closing_on, ended>>
  BY BoundAssumption DEF HandleRead, InEvents, Turns, IInv, TypeOK
<1>2. PICK fd \in accept :
        IF fd = NoFd THEN UNCHANGED <<next_thread_idx_, registering, connVars, queue>>
                     ELSE register_connection(fd)
  BY DEF HandleRead
<1>3. CASE fd = NoFd
  <2>1. UNCHANGED <<next_thread_idx_, registering, stage, owner, queue>>
    BY <1>2, <1>3 DEF connVars
  <2>2. TypeOK' /\ Kept' = Kept
    BY <1>1, <2>1 DEF TypeOK, Kept
  <2> QED BY <1>1, <2>1, <2>2, OtherSteps DEF IInv, Startup, Running
<1>4. CASE fd # NoFd
  <2>1. fd \in Free /\ register_connection(fd)
    BY <1>2, <1>4 DEF accept
  <2> QED BY <1>1, <2>1, RegisterKeeps
<1> QED BY <1>3, <1>4

LEMMA RunEstablishKeeps ==
  ASSUME IInv, NEW k \in Loops, NEW fd \in Fds, RunEstablish(k, fd)
  PROVE  IInv'
<1> DEFINE f == Functor("establish", fd)
<1>1. /\ TypeOK /\ QueueType /\ QueuesDistinct /\ Lifetimes /\ ended = "no"
      /\ queue[k] # <<>> /\ Head(queue[k]) = f /\ queue' = [queue EXCEPT ![k] = Tail(@)]
      /\ UNCHANGED <<phase, thread_num_, next_thread_idx_, loops_, stopped, started_, reading,
                     backlog, connections_map_, registering, owner, spent, closing_on>>
      /\ k = 0 => phase = "open"
      /\ k # 0 => phase # "gone" /\ k \in (stopped + 1)..loops_
  BY DEF RunEstablish, Runs, Turns, Running, poolVars, acceptorVars, mapVars, IInv, Lifetimes, QueueType,
         TypeOK
<1>2. /\ QueueType' /\ QueuesDistinct' /\ Queued(k, f)
      /\ \A l \in Loops : \A g : Queued(l, g)' <=> Queued(l, g) /\ ~(l = k /\ g = f)
  BY <1>1, Pop
<1>3. stage[fd] = "new" /\ owner[fd] = k
  BY <1>1, <1>2 DEF Lifetimes, QueuedAtStage
<1>4. \/ stage' = [stage EXCEPT ![fd] = "open"] /\ ended' = "no"
         /\ shared' \in {shared, shared \cup ({fd} \ {registering})}
      \/ ~Held(fd) /\ ended' = "dangling" /\ UNCHANGED <<stage, shared>>
  BY <1>1 DEF RunEstablish, Callback
<1>5. TypeOK' /\ Startup'
  BY <1>1, <1>2, <1>4 DEF IInv, TypeOK, QueueType, Startup
<1>6. /\ \A g \in Fds : g # fd => stage'[g] = stage[g]
      /\ stage'[fd] \in {"new", "open"}
  BY <1>1, <1>3, <1>4 DEF TypeOK
<1>7. QueuedAtStage'
  <2> SUFFICES ASSUME NEW l \in Loops, NEW g \in Fds
               PROVE  /\ Queued(l, Functor("establish", g))' => stage'[g] = "new" /\ owner'[g] = l
                      /\ Queued(l, Functor("close", g))' =>
                           stage'[g] = "closing" /\ owner'[g] = l /\ closing_on'[l] # g
                      /\ Queued(l, Functor("remove", g))' =>
                           /\ l = 0 /\ stage'[g] \in {"closing", "closed"}
                           /\ phase' = "open" => g \in connections_map_'
    BY DEF QueuedAtStage
  <2>1. CASE g = fd
    BY <1>1, <1>2, <1>3, <2>1 DEF Lifetimes, QueuedAtStage
  <2>2. CASE g # fd
    BY <1>1, <1>2, <1>6, <2>2 DEF Lifetimes, QueuedAtStage
  <2> QED BY <2>1, <2>2
<1>8. InHandleClose'
  BY <1>1, <1>3, <1>6 DEF Lifetimes, InHandleClose
<1>9. ClosingIsQueued'
  <2>1. \A g \in Fds : owner[g] \in Loops /\ Functor("close", g) # f
    BY <1>1, LoopsFacts, FunctorFacts
  <2> QED BY <1>1, <1>2, <1>6, <2>1 DEF Lifetimes, ClosingIsQueued
<1>10. HeldUntilDestruction' /\ RegisteringInLoop'
  BY <1>1, <1>3, <1>6 DEF Lifetimes, HeldUntilDestruction, RegisteringInLoop, Kept
<1>11. OnlyDestructionDangles'
  <2>1. CASE ended' = "no"
    BY <2>1 DEF OnlyDestructionDangles
  <2>2. CASE ~Held(fd) /\ ended' = "dangling"
    <3>1. phase \notin {"open", "left"}
      BY <1>1, <1>3, <2>2 DEF Lifetimes, HeldUntilDestruction, Held, Kept
    <3>2. phase = "cleared" /\ loops_ > 0
      BY <1>1, <3>1 DEF TypeOK, Loops
    <3> QED BY <1>1, <2>2, <3>2 DEF OnlyDestructionDangles
  <2> QED BY <1>4, <2>1, <2>2
<1> QED BY <1>2, <1>5, <1>7, <1>8, <1>9, <1>10, <1>11 DEF IInv, Lifetimes

LEMMA HandleCloseKeeps ==
  ASSUME IInv, NEW k \in Loops, NEW fd \in Fds, HandleClose(k, fd)
  PROVE  IInv'
<1> DEFINE f == Functor("remove", fd)
<1>1. /\ TypeOK /\ QueueType /\ QueuesDistinct /\ Lifetimes /\ ended = "no"
      /\ closing_on[k] = NoFd /\ owner[fd] = k /\ stage[fd] = "open"
      /\ UNCHANGED <<phase, thread_num_, next_thread_idx_, loops_, stopped, started_, reading,
                     backlog, registering, owner, shared, spent>>
      /\ k = 0 => phase = "open" /\ registering = NoFd
      /\ k # 0 => phase # "gone" /\ k \in (stopped + 1)..loops_
  BY DEF HandleClose, CloseLeaving, InEvents, Turns, Running, poolVars, acceptorVars, mapVars, IInv,
         Lifetimes, QueueType, TypeOK
<1>2. CASE ~(Held(fd) /\ fd # registering)
  <2>1. /\ ended' = IF Held(fd) THEN "callback" ELSE "dangling"
        /\ UNCHANGED <<stage, closing_on, connections_map_, queue>>
    BY <1>2 DEF HandleClose, CloseLeaving
  <2>2. ~Held(fd) => phase \notin {"open", "left"}
    BY <1>1 DEF Lifetimes, HeldUntilDestruction, Held
  <2>3. ~Held(fd) => phase = "cleared" /\ loops_ > 0
    BY <1>1, <2>2 DEF TypeOK, Loops
  <2>4. OnlyDestructionDangles'
    BY <1>1, <2>1, <2>3 DEF OnlyDestructionDangles
  <2>5. TypeOK' /\ Startup'
    BY <1>1, <2>1 DEF IInv, TypeOK, Startup
  <2>6. \A l \in Loops : \A g : Queued(l, g)' <=> Queued(l, g)
    BY <2>1 DEF Queued
  <2>7. QueuesDistinct' /\ QueuedAtStage'
    BY <1>1, <2>1, <2>6 DEF Lifetimes, QueuesDistinct, QueuedAtStage
  <2>8. InHandleClose' /\ HeldUntilDestruction' /\ RegisteringInLoop'
    BY <1>1, <2>1 DEF Lifetimes, InHandleClose, HeldUntilDestruction, RegisteringInLoop, Kept
  <2>9. ClosingIsQueued'
    BY <1>1, <2>1 DEF Lifetimes, ClosingIsQueued, Queued
  <2> QED BY <2>4, <2>5, <2>7, <2>8, <2>9 DEF IInv, Lifetimes
<1>3. CASE Held(fd) /\ fd # registering
  <2>1. /\ stage' = [stage EXCEPT ![fd] = "closing"]
        /\ closing_on' = [closing_on EXCEPT ![k] = fd]
        /\ k = 0 => Removal(fd) /\ UNCHANGED queue
        /\ k # 0 => /\ queue' = [queue EXCEPT ![0] = Append(@, f)]
                    /\ UNCHANGED <<connections_map_, ended>>
    BY <1>1, <1>3 DEF HandleClose, CloseLeaving
  <2>2. phase = "open" => fd \in connections_map_
    BY <1>1, <1>3 DEF Lifetimes, HeldUntilDestruction, Kept
  <2>3. /\ ended' = "no" /\ \A g \in Fds : g # fd => (g \in connections_map_' <=> g \in connections_map_)
        /\ k # 0 => connections_map_' = connections_map_
        /\ connections_map_' \subseteq Fds
    BY <1>1, <2>1, <2>2 DEF Removal, TypeOK
  <2>4. /\ stage'[fd] = "closing" /\ closing_on'[k] = fd
        /\ \A g \in Fds : g # fd => stage'[g] = stage[g]
        /\ \A l \in Loops : l # k => closing_on'[l] = closing_on[l]
    BY <1>1, <2>1 DEF TypeOK
  <2>5. \A l \in Loops, n \in {"establish", "remove", "close"} : ~Queued(l, Functor(n, fd))
    <3>1. ASSUME NEW l \in Loops PROVE /\ ~Queued(l, Functor("establish", fd))
                                       /\ ~Queued(l, Functor("close", fd))
                                       /\ ~Queued(l, Functor("remove", fd))
      BY <1>1 DEF Lifetimes, QueuedAtStage
    <3> QED BY <3>1
  <2>6. /\ QueueType' /\ QueuesDistinct'
        /\ \A l \in Loops : \A g :
             Queued(l, g)' <=> Queued(l, g) \/ (l = 0 /\ k # 0 /\ g = f)
    <3>1. CASE k = 0
      BY <1>1, <2>1, <3>1 DEF QueueType, QueuesDistinct, Queued
    <3>2. CASE k # 0
      <4>1. 0 \in Loops /\ f \in Functors /\ ~Queued(0, f)
        BY <1>1, <2>5, LoopsFacts, FunctorFacts
      <4> HIDE DEF f
      <4>2. queue' = [queue EXCEPT ![0] = Append(@, f)]
        BY <2>1, <3>2
      <4> QED BY <1>1, <3>2, <4>1, <4>2, Push
    <3> QED BY <3>1, <3>2
  <2>7. TypeOK' /\ Startup'
    BY <1>1, <2>1, <2>3, <2>6 DEF IInv, TypeOK, QueueType, Startup
  <2>8. QueuedAtStage'
    <3> SUFFICES ASSUME NEW l \in Loops, NEW g \in Fds
                 PROVE  /\ Queued(l, Functor("establish", g))' => stage'[g] = "new" /\ owner'[g] = l
                        /\ Queued(l, Functor("close", g))' =>
                             stage'[g] = "closing" /\ owner'[g] = l /\ closing_on'[l] # g
                        /\ Queued(l, Functor("remove", g))' =>
                             /\ l = 0 /\ stage'[g] \in {"closing", "closed"}
                             /\ phase' = "open" => g \in connections_map_'
      BY DEF QueuedAtStage
    <3>1. CASE g = fd
      BY <1>1, <2>2, <2>3, <2>4, <2>5, <2>6, <3>1, FunctorFacts
    <3>2. CASE g # fd
      <4>1. \A n \in {"establish", "remove", "close"} :
              Queued(l, Functor(n, g))' <=> Queued(l, Functor(n, g))
        BY <2>6, <3>2, FunctorFacts
      <4>2. closing_on[l] # g => closing_on'[l] # g
        BY <2>4, <3>2
      <4> QED BY <1>1, <2>3, <2>4, <3>2, <4>1, <4>2 DEF Lifetimes, QueuedAtStage
    <3> QED BY <3>1, <3>2
  <2>9. InHandleClose'
    BY <1>1, <2>4 DEF Lifetimes, InHandleClose
  <2>10. ClosingIsQueued'
    <3> SUFFICES ASSUME NEW g \in Fds, stage'[g] = "closing"
                 PROVE  closing_on'[owner[g]] = g \/ Queued(owner[g], Functor("close", g))'
      BY <1>1 DEF ClosingIsQueued, Queued
    <3>1. CASE g = fd
      BY <1>1, <2>4, <3>1
    <3>2. CASE g # fd
      <4>1. owner[g] \in Loops /\ g # NoFd
        BY <1>1, LoopsFacts, BoundAssumption
      <4>2. closing_on[owner[g]] = g \/ Queued(owner[g], Functor("close", g))
        BY <1>1, <2>4, <3>2 DEF Lifetimes, ClosingIsQueued
      <4> QED BY <1>1, <2>4, <2>6, <4>1, <4>2
    <3> QED BY <3>1, <3>2
  <2>11. HeldUntilDestruction' /\ RegisteringInLoop'
    BY <1>1, <2>3, <2>4 DEF Lifetimes, HeldUntilDestruction, RegisteringInLoop, Kept
  <2>12. OnlyDestructionDangles'
    BY <2>3 DEF OnlyDestructionDangles
  <2> QED BY <2>6, <2>7, <2>8, <2>9, <2>10, <2>11, <2>12 DEF IInv, Lifetimes
<1> QED BY <1>2, <1>3

LEMMA QueueCloseKeeps ==
  ASSUME IInv, NEW k \in Loops, NEW fd \in Fds, QueueClose(k, fd)
  PROVE  IInv'
<1> DEFINE f == Functor("close", fd)
<1>1. /\ TypeOK /\ QueueType /\ QueuesDistinct /\ Lifetimes /\ ended = "no"
      /\ closing_on[k] = fd /\ owner[fd] = k /\ stage[fd] = "closing"
      /\ UNCHANGED <<phase, thread_num_, next_thread_idx_, loops_, stopped, started_, reading,
                     backlog, connections_map_, registering, stage, owner, shared, spent>>
  BY DEF QueueClose, Running, poolVars, acceptorVars, mapVars, connVars, IInv, Lifetimes, InHandleClose,
         QueueType, TypeOK
<1>2. CASE ~Held(fd)
  <2>1. ended' = "expired" /\ UNCHANGED <<closing_on, queue>>
    BY <1>2 DEF QueueClose
  <2>2. TypeOK' /\ Startup'
    BY <1>1, <2>1 DEF IInv, TypeOK, Startup
  <2>3. \A l \in Loops : \A g : Queued(l, g)' <=> Queued(l, g)
    BY <2>1 DEF Queued
  <2>4. QueuesDistinct' /\ QueuedAtStage'
    BY <1>1, <2>1, <2>3 DEF Lifetimes, QueuesDistinct, QueuedAtStage
  <2>5. InHandleClose' /\ HeldUntilDestruction' /\ RegisteringInLoop' /\ OnlyDestructionDangles'
    BY <1>1, <2>1 DEF Lifetimes, InHandleClose, HeldUntilDestruction, RegisteringInLoop,
     OnlyDestructionDangles, Kept
  <2>6. ClosingIsQueued'
    BY <1>1, <2>1 DEF Lifetimes, ClosingIsQueued, Queued
  <2> QED BY <2>2, <2>4, <2>5, <2>6 DEF IInv, Lifetimes
<1>3. CASE Held(fd)
  <2>1. /\ closing_on' = [closing_on EXCEPT ![k] = NoFd]
        /\ queue' = [queue EXCEPT ![k] = Append(@, f)]
        /\ ended' = "no"
    BY <1>1, <1>3 DEF QueueClose
  <2>2. f \in Functors /\ ~Queued(k, f)
    BY <1>1, FunctorFacts DEF Lifetimes, QueuedAtStage
  <2> HIDE DEF f
  <2>3. /\ QueueType' /\ QueuesDistinct'
        /\ \A l \in Loops : \A g : Queued(l, g)' <=> Queued(l, g) \/ (l = k /\ g = f)
    BY <1>1, <2>1, <2>2, Push
  <2>4. /\ closing_on'[k] = NoFd /\ \A l \in Loops : l # k => closing_on'[l] = closing_on[l]
        /\ NoFd \notin Fds
    BY <1>1, <2>1, BoundAssumption DEF TypeOK
  <2>5. TypeOK' /\ Startup'
    BY <1>1, <2>1, <2>3 DEF IInv, TypeOK, QueueType, Startup
  <2>6. QueuedAtStage'
    <3> SUFFICES ASSUME NEW l \in Loops, NEW g \in Fds
                 PROVE  /\ Queued(l, Functor("establish", g))' => stage'[g] = "new" /\ owner'[g] = l
                        /\ Queued(l, Functor("close", g))' =>
                             stage'[g] = "closing" /\ owner'[g] = l /\ closing_on'[l] # g
                        /\ Queued(l, Functor("remove", g))' =>
                             /\ l = 0 /\ stage'[g] \in {"closing", "closed"}
                             /\ phase' = "open" => g \in connections_map_'
      BY DEF QueuedAtStage
    <3>1. /\ Queued(l, Functor("establish", g))' => Queued(l, Functor("establish", g))
          /\ Queued(l, Functor("remove", g))' => Queued(l, Functor("remove", g))
          /\ Queued(l, Functor("close", g))' =>
               Queued(l, Functor("close", g)) \/ (l = k /\ g = fd)
      BY <2>3, FunctorFacts DEF f
    <3>2. closing_on[l] # g => closing_on'[l] # g
      BY <2>4
    <3> QED BY <1>1, <2>4, <3>1, <3>2 DEF Lifetimes, QueuedAtStage
  <2>7. InHandleClose'
    BY <1>1, <2>4 DEF Lifetimes, InHandleClose
  <2>8. ClosingIsQueued'
    <3> SUFFICES ASSUME NEW g \in Fds, stage[g] = "closing"
                 PROVE  closing_on'[owner[g]] = g \/ Queued(owner[g], Functor("close", g))'
      BY <1>1 DEF ClosingIsQueued, Queued
    <3>1. owner[g] \in Loops
      BY <1>1, LoopsFacts
    <3>2. CASE g = fd
      BY <1>1, <2>3, <3>1, <3>2 DEF f
    <3>3. CASE g # fd
      BY <1>1, <2>3, <2>4, <3>1, <3>3 DEF Lifetimes, ClosingIsQueued
    <3> QED BY <3>2, <3>3
  <2>9. HeldUntilDestruction' /\ RegisteringInLoop' /\ OnlyDestructionDangles'
    BY <1>1, <2>1 DEF Lifetimes, HeldUntilDestruction, RegisteringInLoop,
     OnlyDestructionDangles, Kept
  <2> QED BY <2>3, <2>5, <2>6, <2>7, <2>8, <2>9 DEF IInv, Lifetimes
<1> QED BY <1>2, <1>3

LEMMA RunRemoveKeeps ==
  ASSUME IInv, NEW fd \in Fds, RunRemove(fd)
  PROVE  IInv'
<1> DEFINE f == Functor("remove", fd)
<1>1. /\ TypeOK /\ QueueType /\ QueuesDistinct /\ Lifetimes /\ ended = "no"
      /\ 0 \in Loops /\ phase = "open"
      /\ queue[0] # <<>> /\ Head(queue[0]) = f /\ queue' = [queue EXCEPT ![0] = Tail(@)]
      /\ spent' = [spent EXCEPT ![0] = @ \cup {fd}]
      /\ Removal(fd)
      /\ UNCHANGED <<phase, thread_num_, next_thread_idx_, loops_, stopped, started_, reading,
                     backlog, registering, stage, owner, shared, closing_on>>
  BY LoopsFacts DEF RunRemove, Runs, Turns, Running, poolVars, acceptorVars, mapVars, connVars, IInv,
     Lifetimes, QueueType, TypeOK
<1>2. /\ QueueType' /\ QueuesDistinct' /\ Queued(0, f)
      /\ \A l \in Loops : \A g : Queued(l, g)' <=> Queued(l, g) /\ ~(l = 0 /\ g = f)
  BY <1>1, Pop
<1>3. stage[fd] \in {"closing", "closed"} /\ fd \in connections_map_
  BY <1>1, <1>2 DEF Lifetimes, QueuedAtStage
<1>4. ended' = "no" /\ connections_map_' = connections_map_ \ {fd}
  BY <1>1, <1>3 DEF Removal
<1>5. TypeOK' /\ Startup'
  BY <1>1, <1>2, <1>4 DEF IInv, TypeOK, QueueType, Startup
<1>6. QueuedAtStage'
  <2> SUFFICES ASSUME NEW l \in Loops, NEW g \in Fds
               PROVE  /\ Queued(l, Functor("establish", g))' => stage'[g] = "new" /\ owner'[g] = l
                      /\ Queued(l, Functor("close", g))' =>
                           stage'[g] = "closing" /\ owner'[g] = l /\ closing_on'[l] # g
                      /\ Queued(l, Functor("remove", g))' =>
                           /\ l = 0 /\ stage'[g] \in {"closing", "closed"}
                           /\ phase' = "open" => g \in connections_map_'
    BY DEF QueuedAtStage
  <2> QED BY <1>1, <1>2, <1>4 DEF Lifetimes, QueuedAtStage
<1>7. InHandleClose' /\ HeldUntilDestruction' /\ RegisteringInLoop' /\ OnlyDestructionDangles'
  BY <1>1, <1>3, <1>4 DEF Lifetimes, InHandleClose, HeldUntilDestruction, RegisteringInLoop,
     OnlyDestructionDangles, Kept
<1>8. ClosingIsQueued'
  <2>1. \A g \in Fds : owner[g] \in Loops /\ Functor("close", g) # f
    BY <1>1, LoopsFacts, FunctorFacts
  <2> QED BY <1>1, <1>2, <2>1 DEF Lifetimes, ClosingIsQueued
<1> QED BY <1>2, <1>5, <1>6, <1>7, <1>8 DEF IInv, Lifetimes

LEMMA RunCloseKeeps ==
  ASSUME IInv, NEW k \in Loops, NEW fd \in Fds, RunClose(k, fd)
  PROVE  IInv'
<1> DEFINE f == Functor("close", fd)
<1>1. /\ TypeOK /\ QueueType /\ QueuesDistinct /\ Lifetimes /\ ended = "no" /\ ended' = "no"
      /\ queue[k] # <<>> /\ Head(queue[k]) = f /\ queue' = [queue EXCEPT ![k] = Tail(@)]
      /\ stage' = [stage EXCEPT ![fd] = "closed"]
      /\ spent' = [spent EXCEPT ![k] = @ \cup {fd}]
      /\ shared' \in {shared, shared \cup ({fd} \ {registering})}
      /\ UNCHANGED <<phase, thread_num_, next_thread_idx_, loops_, stopped, started_, reading,
                     backlog, connections_map_, registering, owner, closing_on>>
  BY DEF RunClose, Runs, Turns, Running, Callback, poolVars, acceptorVars, mapVars, IInv,
     Lifetimes, QueueType, TypeOK
<1>2. /\ QueueType' /\ QueuesDistinct' /\ Queued(k, f)
      /\ \A l \in Loops : \A g : Queued(l, g)' <=> Queued(l, g) /\ ~(l = k /\ g = f)
  BY <1>1, Pop
<1>3. stage[fd] = "closing" /\ owner[fd] = k /\ closing_on[k] # fd
  BY <1>1, <1>2 DEF Lifetimes, QueuedAtStage
<1>4. /\ stage'[fd] = "closed" /\ \A g \in Fds : g # fd => stage'[g] = stage[g]
      /\ \A l \in Loops : closing_on[l] # fd
  BY <1>1, <1>3 DEF TypeOK, Lifetimes, InHandleClose
<1>5. TypeOK' /\ Startup'
  BY <1>1, <1>2 DEF IInv, TypeOK, QueueType, Startup
<1>6. QueuedAtStage'
  <2> SUFFICES ASSUME NEW l \in Loops, NEW g \in Fds
               PROVE  /\ Queued(l, Functor("establish", g))' => stage'[g] = "new" /\ owner'[g] = l
                      /\ Queued(l, Functor("close", g))' =>
                           stage'[g] = "closing" /\ owner'[g] = l /\ closing_on'[l] # g
                      /\ Queued(l, Functor("remove", g))' =>
                           /\ l = 0 /\ stage'[g] \in {"closing", "closed"}
                           /\ phase' = "open" => g \in connections_map_'
    BY DEF QueuedAtStage
  <2>1. CASE g = fd
    BY <1>1, <1>2, <1>3, <1>4, <2>1 DEF Lifetimes, QueuedAtStage
  <2>2. CASE g # fd
    BY <1>1, <1>2, <1>4, <2>2 DEF Lifetimes, QueuedAtStage
  <2> QED BY <2>1, <2>2
<1>7. InHandleClose' /\ HeldUntilDestruction' /\ RegisteringInLoop' /\ OnlyDestructionDangles'
  BY <1>1, <1>4 DEF Lifetimes, InHandleClose, HeldUntilDestruction, RegisteringInLoop,
     OnlyDestructionDangles, Kept
<1>8. ClosingIsQueued'
  <2>1. \A g \in Fds : owner[g] \in Loops /\ (g # fd => Functor("close", g) # f)
    BY <1>1, LoopsFacts, FunctorFacts
  <2> QED BY <1>1, <1>2, <1>4, <2>1 DEF Lifetimes, ClosingIsQueued
<1> QED BY <1>2, <1>5, <1>6, <1>7, <1>8 DEF IInv, Lifetimes

\* The loop that is joined takes its functors, and the stages of its connections
\* with them; every other connection is another loop's.
LEMMA JoinKeeps == ASSUME IInv, JoinThread PROVE IInv'
<1> DEFINE k == stopped + 1
<1>1. /\ TypeOK /\ QueueType /\ QueuesDistinct /\ Lifetimes /\ ended = "no"
      /\ phase = "cleared" /\ k \in Loops /\ k # 0 /\ k \in 0..loops_ /\ closing_on[k] = NoFd
      /\ stopped' = k
      /\ queue' = [queue EXCEPT ![k] = <<>>]
      /\ stage' = [fd \in Fds |-> IF owner[fd] = k THEN "closed" ELSE stage[fd]]
      /\ UNCHANGED <<phase, thread_num_, next_thread_idx_, loops_, started_, reading, backlog,
                     connections_map_, registering, owner, shared, spent, closing_on, ended>>
  BY BoundAssumption DEF JoinThread, InEvents, Turns, Running, acceptorVars, mapVars, IInv,
     Lifetimes, QueueType, TypeOK, Loops
<1> HIDE DEF k
<1>2. <<>> \in Seq(Functors) /\ Distinct(<<>>)
  BY EmptySeq DEF Distinct
<1>3. queue'[k] = <<>> /\ \A l \in Loops : l # k => queue'[l] = queue[l]
  BY <1>1 DEF QueueType
<1>4. TypeOK'
  BY <1>1, <1>2 DEF TypeOK
<1>5. Startup'
  BY <1>1, BoundAssumption DEF IInv, Startup, TypeOK
<1>6. QueuesDistinct'
  BY <1>1, <1>2, <1>3 DEF QueuesDistinct
<1>7. \A l \in Loops : \A g : Queued(l, g)' <=> Queued(l, g) /\ l # k
  BY <1>3 DEF Queued
<1>8. \A fd \in Fds : stage'[fd] = IF owner[fd] = k THEN "closed" ELSE stage[fd]
  BY <1>1
<1>9. QueuedAtStage'
  <2> SUFFICES ASSUME NEW l \in Loops, NEW g \in Fds
               PROVE  /\ Queued(l, Functor("establish", g))' => stage'[g] = "new" /\ owner'[g] = l
                      /\ Queued(l, Functor("close", g))' =>
                           stage'[g] = "closing" /\ owner'[g] = l /\ closing_on'[l] # g
                      /\ Queued(l, Functor("remove", g))' =>
                           /\ l = 0 /\ stage'[g] \in {"closing", "closed"}
                           /\ phase' = "open" => g \in connections_map_'
    BY DEF QueuedAtStage
  <2> QED BY <1>1, <1>7, <1>8 DEF Lifetimes, QueuedAtStage
<1>10. InHandleClose'
  BY <1>1, <1>8, BoundAssumption DEF Lifetimes, InHandleClose
<1>11. ClosingIsQueued'
  <2>1. \A g \in Fds : owner[g] \in Loops
    BY <1>1, LoopsFacts
  <2> QED BY <1>1, <1>7, <1>8, <2>1 DEF Lifetimes, ClosingIsQueued
<1>12. HeldUntilDestruction' /\ RegisteringInLoop' /\ OnlyDestructionDangles'
  BY <1>1 DEF Lifetimes, HeldUntilDestruction, RegisteringInLoop, OnlyDestructionDangles
<1> QED BY <1>4, <1>5, <1>6, <1>9, <1>10, <1>11, <1>12 DEF IInv, Lifetimes

LEMMA StepIInv == IInv /\ [Next]_vars => IInv'
<1> SUFFICES ASSUME IInv, [Next]_vars PROVE IInv'
  OBVIOUS
<1> USE DEF poolVars, acceptorVars, mapVars, connVars, loopVars
<1>1. CASE Start
  <2>1. TypeOK' /\ Startup' /\ Kept' = Kept
    BY <1>1, BoundAssumption DEF Start, star, Listen, IInv, TypeOK, Startup, Loops, Kept
  <2> QED BY <1>1, <2>1, OtherSteps DEF Start, Turns, Running, IInv
<1>2. CASE PeerConnects
  <2>1. TypeOK' /\ Startup' /\ Kept' = Kept
    BY <1>2, BoundAssumption DEF PeerConnects, IInv, TypeOK, Startup, Kept
  <2> QED BY <1>2, <2>1, OtherSteps DEF PeerConnects, Running, IInv
<1>3. CASE HandleRead
  BY <1>3, HandleReadKeeps
<1>4. CASE LoopReturns
  <2>1. TypeOK' /\ Startup' /\ Kept' = Kept
    BY <1>4 DEF LoopReturns, IInv, TypeOK, Startup, Kept
  <2> QED BY <1>4, <2>1, OtherSteps DEF LoopReturns, InEvents, Turns, Running, IInv
<1>5. CASE DestroyConnections
  <2>1. /\ phase' = "cleared" /\ connections_map_' = {} /\ reading' = FALSE /\ backlog' = 0
        /\ 0 \in 0..MaxBacklog
    BY <1>5, BoundAssumption DEF DestroyConnections
  <2>2. TypeOK' /\ Startup'
    BY <1>5, <2>1 DEF DestroyConnections, IInv, TypeOK, Startup
  <2>3. registering = NoFd
    BY <1>5 DEF DestroyConnections, IInv, Lifetimes, RegisteringInLoop
  <2> QED BY <1>5, <2>2, <2>3, OtherSteps DEF DestroyConnections, Running, IInv
<1>6. CASE JoinThread
  BY <1>6, JoinKeeps
<1>7. CASE ServerGone
  <2>1. TypeOK' /\ Startup'
    BY <1>7 DEF ServerGone, IInv, TypeOK, Startup
  <2>2. registering = NoFd
    BY <1>7 DEF ServerGone, IInv, Lifetimes, RegisteringInLoop
  <2> QED BY <1>7, <2>1, <2>2, OtherSteps DEF ServerGone, Running, IInv
<1>8. ASSUME NEW fd \in Fds, UserDrops(fd) PROVE IInv'
  <2>1. TypeOK' /\ Startup' /\ Kept' = Kept
    BY <1>8 DEF UserDrops, IInv, TypeOK, Startup, Kept
  <2> QED BY <1>8, <2>1, OtherSteps DEF UserDrops, Running, IInv
<1>9. ASSUME NEW l \in Loops, RunsFunctor(l) PROVE IInv'
  BY <1>9, RunEstablishKeeps, RunCloseKeeps, RunRemoveKeeps DEF RunsFunctor
<1>10. ASSUME NEW l \in Loops, ClosesOn(l) PROVE IInv'
  BY <1>10, QueueCloseKeeps DEF ClosesOn
<1>11. ASSUME NEW l \in Loops, EndBatch(l) PROVE IInv'
  <2>1. TypeOK' /\ Startup' /\ Kept' = Kept
    BY <1>11 DEF EndBatch, IInv, TypeOK, Startup, Kept
  <2> QED BY <1>11, <2>1, OtherSteps DEF EndBatch, Turns, Running, IInv
<1>12. ASSUME NEW l \in Loops, NEW fd \in Fds, HandleClose(l, fd) PROVE IInv'
  BY <1>12, HandleCloseKeeps
<1>13. CASE SaveConnection
  <2>1. /\ connections_map_' = connections_map_ \cup {registering} /\ registering' = NoFd
        /\ registering \in Fds /\ ended = "no"
        /\ UNCHANGED <<phase, poolVars, acceptorVars, connVars, shared, loopVars, ended>>
    BY <1>13 DEF SaveConnection, SaveLeaving, Running, IInv, TypeOK
  <2>2. TypeOK' /\ Startup' /\ Kept' = Kept
    BY <2>1, BoundAssumption DEF IInv, TypeOK, Startup, Kept
  <2> QED BY <2>1, <2>2, OtherSteps DEF IInv
<1>14. CASE UNCHANGED vars
  BY <1>14 DEF vars, IInv, TypeOK, Startup, Lifetimes, QueuesDistinct, QueuedAtStage, Queued,
     InHandleClose, ClosingIsQueued, HeldUntilDestruction, RegisteringInLoop,
     OnlyDestructionDangles, Kept
<1> QED
  BY <1>1, <1>2, <1>3, <1>4, <1>5, <1>6, <1>7, <1>8, <1>9, <1>10, <1>11, <1>12, <1>13, <1>14
     DEF Next, Destructor

LEMMA Invariance == Spec => []IInv
BY InitIInv, StepIInv, PTL DEF Spec

\* Queues, stages, owners and the pool's index keep their types: a connection is
\* always given to a loop that has been started.
THEOREM TypeCorrect == Spec => []TypeOK
<1>1. IInv => TypeOK
  BY DEF IInv
<1> QED BY <1>1, Invariance, PTL

\* The server holds every connection that has not begun to close.
THEOREM ServerHolds == Spec => []HeldByServer
<1>1. IInv => HeldByServer
  BY DEF IInv, Lifetimes, HeldUntilDestruction, HeldByServer
<1> QED BY <1>1, Invariance, PTL

\* A descriptor is given out again only when every loop has forgotten it.
THEOREM ReuseIsSafe == Spec => []FreeIsForgotten
<1>1. IInv => FreeIsForgotten
  BY FreeFacts DEF IInv, FreeIsForgotten
<1> QED BY <1>1, Invariance, PTL

\* remove_connection_in_loop's assertion never fails, and a connection that is gone
\* is used only by a pool's loop that outlives ~tcp_server's map.
THEOREM DanglesOnlyAtTheEnd == Spec => []OnlyDestructionDangles
<1>1. IInv => OnlyDestructionDangles
  BY DEF IInv, Lifetimes
<1> QED BY <1>1, Invariance, PTL

(***************************************************************************)
(* The server implements ConnectionLife.  Its queues give the stages their *)
(* order: the functor that runs next says at which stage its connection    *)
(* is, and a connection is told of on one loop only, its own.              *)
(***************************************************************************)

\* A connection moves to a stage, and no other one does.
LEMMA Moving ==
  ASSUME NEW fd \in Fds, NEW v, Seen'[fd] = v, \A g \in Fds : g # fd => Seen'[g] = Seen[g]
  PROVE  Seen' = [Seen EXCEPT ![fd] = v]
BY DEF Seen

LEMMA SeenAt ==
  /\ \A fd \in Fds : Seen[fd] = IF Telling(fd) /\ stage[fd] = "closing" THEN "ending" ELSE stage[fd]
  /\ \A fd \in Fds :
       Seen'[fd] = IF Telling(fd)' /\ stage'[fd] = "closing" THEN "ending" ELSE stage'[fd]
BY DEF Seen

LEMMA UnseenStep ==
  ASSUME UNCHANGED <<stage, closing_on, Kept>>, Over' = Over,
         \A fd \in Fds :
           Queued(0, Functor("remove", fd))' <=> Queued(0, Functor("remove", fd))
  PROVE  UNCHANGED Lifetime!vars
<1>1. Seen' = Seen
  BY DEF Seen, Telling
<1>2. Removing' = Removing
  BY DEF Removing
<1> QED BY <1>1, <1>2 DEF Lifetime!vars

LEMMA OnlyOwnerTells ==
  ASSUME IInv, NEW fd \in Fds
  PROVE  /\ Telling(fd) => stage[fd] = "closing" /\ closing_on[owner[fd]] = fd
         /\ \A l \in Loops : Queued(l, Functor("close", fd)) => ~Telling(fd)
BY DEF IInv, Lifetimes, InHandleClose, QueuedAtStage, Telling

LEMMA ConstructStep ==
  ASSUME IInv, HandleRead
  PROVE  Lifetime!Next \/ UNCHANGED Lifetime!vars
<1>1. /\ phase = "open" /\ registering = NoFd
      /\ TypeOK /\ Lifetimes /\ QueueType /\ QueuesDistinct
      /\ UNCHANGED <<phase, closing_on, connections_map_>>
  BY DEF HandleRead, InEvents, Turns, IInv, Lifetimes, TypeOK, QueueType
<1>2. PICK fd \in accept :
        IF fd = NoFd THEN UNCHANGED <<next_thread_idx_, registering, connVars, queue>>
                     ELSE register_connection(fd)
  BY DEF HandleRead
<1>3. CASE fd = NoFd
  <2>1. UNCHANGED <<Kept, stage, queue>>
    BY <1>1, <1>2, <1>3 DEF connVars, Kept
  <2> QED BY <1>1, <2>1, UnseenStep DEF Queued, Over
<1>4. CASE fd # NoFd
  <2>1. fd \in Free /\ fd \in Fds /\ ~Held(fd)
    BY <1>2, <1>4 DEF accept, Free
  <2>2. /\ stage' = [stage EXCEPT ![fd] = "new"]
        /\ queue' = [queue EXCEPT ![NextLoop] = Append(@, Functor("establish", fd))]
        /\ Kept' = Kept \cup {fd}
    BY <1>1, <1>2, <1>4 DEF register_connection, Kept
  <2>3. /\ stage[fd] = "closed" /\ ~Telling(fd)
        /\ \A l \in Loops, n \in {"establish", "remove", "close"} : ~Queued(l, Functor(n, fd))
    BY <1>1, <2>1, FreeFacts DEF Telling
  <2>4. \A g \in Fds : Queued(0, Functor("remove", g))' <=> Queued(0, Functor("remove", g))
    <3> DEFINE k == NextLoop
               f == Functor("establish", fd)
    <3>1. k \in Loops /\ 0 \in Loops /\ f \in Functors /\ ~Queued(k, f)
      BY <1>1, <2>1, <2>3, LoopsFacts, FunctorFacts
    <3> HIDE DEF k, f
    <3>2. \A l \in Loops : \A g : Queued(l, g)' <=> Queued(l, g) \/ (l = k /\ g = f)
      BY <1>1, <2>2, <3>1, Push DEF k, f
    <3> QED BY <2>1, <3>1, <3>2, FunctorFacts DEF f
  <2>5. Removing' = Removing /\ Over' = Over /\ ~Over
    BY <1>1, <2>4 DEF Removing, Over
  <2>6. \A g \in Fds : Telling(g)' <=> Telling(g)
    BY <1>1 DEF Telling
  <2>7. /\ stage'[fd] = "new" /\ \A g \in Fds : g # fd => stage'[g] = stage[g]
    BY <1>1, <2>1, <2>2 DEF TypeOK
  <2>8. Seen[fd] = "closed" /\ Seen' = [Seen EXCEPT ![fd] = "new"]
    BY <2>1, <2>3, <2>6, <2>7, Moving, SeenAt
  <2>9. fd \notin Kept \cup Removing
    BY <2>1 DEF Removing, Held
  <2>10. Lifetime!Construct(fd)
    BY <2>2, <2>5, <2>8, <2>9 DEF Lifetime!Construct, Lifetime!Moves
  <2> QED BY <2>1, <2>10 DEF Lifetime!Next
<1> QED BY <1>3, <1>4

LEMMA EstablishStep ==
  ASSUME IInv, NEW k \in Loops, NEW fd \in Fds, RunEstablish(k, fd)
  PROVE  Lifetime!Next \/ UNCHANGED Lifetime!vars
<1> DEFINE f == Functor("establish", fd)
<1>1. /\ TypeOK /\ QueueType /\ QueuesDistinct /\ Lifetimes
      /\ queue[k] # <<>> /\ Head(queue[k]) = f /\ queue' = [queue EXCEPT ![k] = Tail(@)]
      /\ UNCHANGED <<phase, Kept, closing_on>>
      /\ 0 \in Loops
  BY LoopsFacts DEF RunEstablish, Runs, mapVars, Kept, IInv, Lifetimes, QueueType, TypeOK
<1>2. /\ Queued(k, f)
      /\ \A l \in Loops : \A g : Queued(l, g)' <=> Queued(l, g) /\ ~(l = k /\ g = f)
  BY <1>1, Pop
<1>3. stage[fd] = "new"
  BY <1>1, <1>2 DEF Lifetimes, QueuedAtStage
<1>4. \A g \in Fds : Queued(0, Functor("remove", g))' <=> Queued(0, Functor("remove", g))
  BY <1>1, <1>2, FunctorFacts
<1>5. Over' = Over /\ Removing' = Removing /\ \A g \in Fds : Telling(g)' <=> Telling(g)
  BY <1>1, <1>4 DEF Over, Removing, Telling
<1>6. CASE UNCHANGED stage
  BY <1>1, <1>4, <1>5, <1>6, UnseenStep
<1>7. CASE stage' = [stage EXCEPT ![fd] = "open"]
  <2>1. stage'[fd] = "open" /\ \A g \in Fds : g # fd => stage'[g] = stage[g]
    BY <1>1, <1>7 DEF TypeOK
  <2>2. Seen[fd] = "new" /\ Seen' = [Seen EXCEPT ![fd] = "open"]
    BY <1>3, <1>5, <2>1, Moving, SeenAt
  <2>3. fd \in Kept \/ Over
    BY <1>1, <1>3 DEF Lifetimes, HeldUntilDestruction, Over, TypeOK
  <2>4. Lifetime!Establish(fd)
    BY <1>1, <1>5, <2>2, <2>3 DEF Lifetime!Establish, Lifetime!Moves
  <2> QED BY <2>4 DEF Lifetime!Next
<1> QED BY <1>6, <1>7 DEF RunEstablish

LEMMA CloseStep ==
  ASSUME IInv, NEW k \in Loops, NEW fd \in Fds, HandleClose(k, fd)
  PROVE  Lifetime!Next \/ UNCHANGED Lifetime!vars
<1> DEFINE f == Functor("remove", fd)
<1>1. /\ TypeOK /\ QueueType /\ QueuesDistinct /\ Lifetimes
      /\ closing_on[k] = NoFd /\ stage[fd] = "open" /\ phase' = phase /\ 0 \in Loops
      /\ NoFd \notin Fds /\ registering' = registering /\ (k = 0 => registering = NoFd)
  BY LoopsFacts, BoundAssumption
     DEF HandleClose, CloseLeaving, InEvents, Turns, IInv, Lifetimes, QueueType, TypeOK
<1>2. CASE ~(Held(fd) /\ fd # registering)
  <2>1. UNCHANGED <<stage, closing_on, Kept, queue>>
    BY <1>1, <1>2 DEF HandleClose, CloseLeaving, Kept
  <2> QED BY <1>1, <2>1, UnseenStep DEF Queued, Over
<1>3. CASE Held(fd) /\ fd # registering
  <2>1. /\ stage' = [stage EXCEPT ![fd] = "closing"]
        /\ closing_on' = [closing_on EXCEPT ![k] = fd]
        /\ k = 0 => Kept' = Kept \ {fd} /\ UNCHANGED queue
        /\ k # 0 => /\ queue' = [queue EXCEPT ![0] = Append(@, f)]
                    /\ UNCHANGED Kept
    BY <1>1, <1>3 DEF HandleClose, CloseLeaving, Removal, Kept
  <2>2. /\ stage'[fd] = "closing" /\ closing_on'[k] = fd
        /\ \A g \in Fds : g # fd => stage'[g] = stage[g]
        /\ \A l \in Loops : l # k => closing_on'[l] = closing_on[l]
    BY <1>1, <2>1 DEF TypeOK
  <2>3. Telling(fd)' /\ \A g \in Fds : g # fd => (Telling(g)' <=> Telling(g))
    BY <1>1, <2>2 DEF Telling
  <2>4. Seen[fd] = "open" /\ Seen' = [Seen EXCEPT ![fd] = "ending"]
    BY <1>1, <2>2, <2>3, Moving, SeenAt
  <2>5. Over' = Over
    BY <1>1 DEF Over
  <2>6. fd \in Kept \/ Over
    BY <1>1 DEF Lifetimes, HeldUntilDestruction, Over, TypeOK
  <2>7. \/ Kept' = Kept \ {fd} /\ Removing' = Removing
        \/ Removing' = Removing \cup {fd} /\ Kept' = Kept
    <3>1. CASE k = 0
      BY <2>1, <3>1 DEF Removing, Queued
    <3>2. CASE k # 0
      <4>1. f \in Functors /\ ~Queued(0, f)
        BY <1>1, FunctorFacts DEF Lifetimes, QueuedAtStage
      <4>2. queue' = [queue EXCEPT ![0] = Append(@, f)]
        BY <2>1, <3>2
      <4> HIDE DEF f
      <4>3. \A g : Queued(0, g)' <=> Queued(0, g) \/ g = f
        BY <1>1, <4>1, <4>2, Push
      <4>4. \A g \in Fds : Queued(0, Functor("remove", g))' <=>
                             Queued(0, Functor("remove", g)) \/ g = fd
        BY <4>3, FunctorFacts DEF f
      <4> QED BY <2>1, <3>2, <4>4 DEF Removing
    <3> QED BY <3>1, <3>2
  <2>8. Lifetime!HandleClose(fd)
    BY <2>4, <2>5, <2>6, <2>7 DEF Lifetime!HandleClose, Lifetime!Moves
  <2> QED BY <2>8 DEF Lifetime!Next
<1> QED BY <1>2, <1>3

LEMMA ToldStep ==
  ASSUME IInv, NEW k \in Loops, NEW fd \in Fds, QueueClose(k, fd)
  PROVE  Lifetime!Next \/ UNCHANGED Lifetime!vars
<1> DEFINE f == Functor("close", fd)
<1>1. /\ TypeOK /\ QueueType /\ QueuesDistinct /\ Lifetimes
      /\ closing_on[k] = fd /\ owner[fd] = k /\ stage[fd] = "closing" /\ 0 \in Loops
      /\ NoFd \notin Fds
      /\ UNCHANGED <<phase, Kept, stage>>
  BY LoopsFacts, BoundAssumption
     DEF QueueClose, mapVars, Kept, connVars, IInv, Lifetimes, InHandleClose, QueueType, TypeOK
<1>2. CASE ~Held(fd)
  <2>1. UNCHANGED <<closing_on, queue>>
    BY <1>2 DEF QueueClose
  <2> QED BY <1>1, <2>1, UnseenStep DEF Queued, Over
<1>3. CASE Held(fd)
  <2>1. /\ closing_on' = [closing_on EXCEPT ![k] = NoFd]
        /\ queue' = [queue EXCEPT ![k] = Append(@, f)]
    BY <1>1, <1>3 DEF QueueClose
  <2>2. f \in Functors /\ ~Queued(k, f)
    BY <1>1, FunctorFacts DEF Lifetimes, QueuedAtStage
  <2>3. \A g \in Fds : Queued(0, Functor("remove", g))' <=> Queued(0, Functor("remove", g))
    <3> HIDE DEF f
    <3>1. \A g : Queued(0, g)' <=> Queued(0, g) \/ (0 = k /\ g = f)
      BY <1>1, <2>1, <2>2, Push
    <3> QED BY <3>1, FunctorFacts DEF f
  <2>4. closing_on'[k] = NoFd /\ \A l \in Loops : l # k => closing_on'[l] = closing_on[l]
    BY <1>1, <2>1 DEF TypeOK
  <2>5. Telling(fd) /\ ~Telling(fd)'
    <3>1. \A l \in Loops : l # k => closing_on[l] # fd
      BY <1>1 DEF Lifetimes, InHandleClose
    <3> QED BY <1>1, <2>4, <3>1 DEF Telling
  <2>6. \A g \in Fds : g # fd => (Telling(g)' <=> Telling(g))
    BY <1>1, <2>4 DEF Telling
  <2>7. Seen[fd] = "ending" /\ Seen' = [Seen EXCEPT ![fd] = "closing"]
    BY <1>1, <2>5, <2>6, Moving, SeenAt
  <2>8. Over' = Over /\ Removing' = Removing
    BY <1>1, <2>3 DEF Over, Removing
  <2>9. Lifetime!QueueClose(fd)
    BY <1>1, <2>7, <2>8 DEF Lifetime!QueueClose, Lifetime!Moves
  <2> QED BY <2>9 DEF Lifetime!Next
<1> QED BY <1>2, <1>3

LEMMA RemoveStep ==
  ASSUME IInv, NEW fd \in Fds, RunRemove(fd)
  PROVE  Lifetime!Next
<1> DEFINE f == Functor("remove", fd)
<1>1. /\ TypeOK /\ QueueType /\ QueuesDistinct /\ Lifetimes /\ 0 \in Loops /\ phase = "open"
      /\ queue[0] # <<>> /\ Head(queue[0]) = f /\ queue' = [queue EXCEPT ![0] = Tail(@)]
      /\ Kept' = Kept \ {fd}
      /\ UNCHANGED <<phase, stage, closing_on>>
  BY LoopsFacts DEF RunRemove, Removal, Runs, Turns, connVars, Kept, IInv, Lifetimes, QueueType,
     TypeOK
<1>2. /\ Queued(0, f)
      /\ \A l \in Loops : \A g : Queued(l, g)' <=> Queued(l, g) /\ ~(l = 0 /\ g = f)
  BY <1>1, Pop
<1>3. fd \in Kept \cap Removing
  BY <1>1, <1>2 DEF Kept, Lifetimes, QueuedAtStage, Removing
<1>4. \A g \in Fds : Queued(0, Functor("remove", g))' <=>
                       Queued(0, Functor("remove", g)) /\ g # fd
  BY <1>1, <1>2, FunctorFacts
<1>5. Removing' = Removing \ {fd}
  BY <1>4 DEF Removing
<1>6. Seen' = Seen /\ Over' = Over
  BY <1>1 DEF Seen, Telling, Over
<1>7. Lifetime!Remove(fd)
  BY <1>1, <1>3, <1>5, <1>6 DEF Lifetime!Remove
<1> QED BY <1>7 DEF Lifetime!Next

LEMMA DestroyedStep ==
  ASSUME IInv, NEW k \in Loops, NEW fd \in Fds, RunClose(k, fd)
  PROVE  Lifetime!Next
<1> DEFINE f == Functor("close", fd)
<1>1. /\ TypeOK /\ QueueType /\ QueuesDistinct /\ Lifetimes /\ 0 \in Loops
      /\ queue[k] # <<>> /\ Head(queue[k]) = f /\ queue' = [queue EXCEPT ![k] = Tail(@)]
      /\ stage' = [stage EXCEPT ![fd] = "closed"]
      /\ UNCHANGED <<phase, Kept, closing_on>>
  BY LoopsFacts DEF RunClose, Runs, mapVars, Kept, IInv, Lifetimes, QueueType, TypeOK
<1>2. /\ Queued(k, f)
      /\ \A l \in Loops : \A g : Queued(l, g)' <=> Queued(l, g) /\ ~(l = k /\ g = f)
  BY <1>1, Pop
<1>3. stage[fd] = "closing" /\ ~Telling(fd)
  BY <1>1, <1>2, OnlyOwnerTells DEF Lifetimes, QueuedAtStage
<1>4. \A g \in Fds : Queued(0, Functor("remove", g))' <=> Queued(0, Functor("remove", g))
  BY <1>1, <1>2, FunctorFacts
<1>5. Over' = Over /\ Removing' = Removing /\ \A g \in Fds : Telling(g)' <=> Telling(g)
  BY <1>1, <1>4 DEF Over, Removing, Telling
<1>6. stage'[fd] = "closed" /\ \A g \in Fds : g # fd => stage'[g] = stage[g]
  BY <1>1 DEF TypeOK
<1>7. Seen[fd] = "closing" /\ Seen' = [Seen EXCEPT ![fd] = "closed"]
  BY <1>3, <1>5, <1>6, Moving, SeenAt
<1>8. Lifetime!Destroyed(fd)
  BY <1>1, <1>5, <1>7 DEF Lifetime!Destroyed, Lifetime!Moves
<1> QED BY <1>8 DEF Lifetime!Next

LEMMA JoinStep == ASSUME IInv, JoinThread PROVE Lifetime!Next
<1> DEFINE k == stopped + 1
           here == {fd \in Fds : owner[fd] = k}
<1>1. /\ TypeOK /\ phase = "cleared" /\ k # 0
      /\ queue' = [queue EXCEPT ![k] = <<>>]
      /\ stage' = [fd \in Fds |-> IF owner[fd] = k THEN "closed" ELSE stage[fd]]
      /\ UNCHANGED <<phase, Kept, closing_on>>
  BY DEF JoinThread, mapVars, Kept, IInv, TypeOK
<1> HIDE DEF k
<1>2. queue'[0] = queue[0]
  BY <1>1, LoopsFacts DEF TypeOK
<1>3. Removing' = Removing /\ Over /\ Over'
  BY <1>1, <1>2 DEF Removing, Queued, Over
<1>4. \A fd \in Fds : Telling(fd)' <=> Telling(fd)
  BY <1>1 DEF Telling
<1>5. Seen' = [fd \in Fds |-> IF fd \in here THEN "closed" ELSE Seen[fd]]
  BY <1>1, <1>4 DEF Seen
<1>6. here \in SUBSET Fds
  OBVIOUS
<1> HIDE DEF here
<1>7. Lifetime!LoopEnds(here)
  BY <1>1, <1>3, <1>5 DEF Lifetime!LoopEnds, Over
<1> QED BY <1>6, <1>7 DEF Lifetime!Next

LEMMA LifeStep ==
  ASSUME IInv, [Next]_vars
  PROVE  Lifetime!Next \/ UNCHANGED Lifetime!vars
<1> USE DEF poolVars, acceptorVars, mapVars, connVars, loopVars
<1>1. CASE Start \/ PeerConnects \/ SaveConnection \/ LoopReturns \/ ServerGone
           \/ (\E fd \in Fds : UserDrops(fd)) \/ (\E l \in Loops : EndBatch(l)) \/ UNCHANGED vars
  <2>1. UNCHANGED <<stage, closing_on, Kept, queue>>
    BY <1>1 DEF Start, PeerConnects, SaveConnection, SaveLeaving, LoopReturns, ServerGone,
       UserDrops, EndBatch, vars, mapVars, Kept
  <2>2. Over' = Over
    BY <1>1 DEF Start, PeerConnects, SaveConnection, SaveLeaving, LoopReturns, InEvents, Turns, ServerGone, UserDrops,
       EndBatch, vars, Over
  <2> QED BY <2>1, <2>2, UnseenStep DEF Queued
<1>2. CASE HandleRead
  BY <1>2, ConstructStep
<1>3. CASE DestroyConnections
  <2>1. /\ phase = "left" /\ phase' = "cleared" /\ Kept' = {}
        /\ UNCHANGED <<stage, closing_on, queue>>
    BY <1>3 DEF DestroyConnections, Kept, IInv, Lifetimes, RegisteringInLoop
  <2>2. Seen' = Seen /\ Removing' = Removing /\ ~Over /\ Over' = TRUE
    BY <2>1 DEF Seen, Telling, Removing, Queued, Over
  <2>3. Lifetime!HostEnds
    BY <2>1, <2>2 DEF Lifetime!HostEnds
  <2> QED BY <2>3 DEF Lifetime!Next
<1>4. CASE JoinThread
  BY <1>4, JoinStep
<1>5. ASSUME NEW l \in Loops, RunsFunctor(l) PROVE Lifetime!Next \/ UNCHANGED Lifetime!vars
  BY <1>5, EstablishStep, DestroyedStep, RemoveStep DEF RunsFunctor
<1>6. ASSUME NEW l \in Loops, ClosesOn(l) PROVE Lifetime!Next \/ UNCHANGED Lifetime!vars
  BY <1>6, ToldStep DEF ClosesOn
<1>7. ASSUME NEW l \in Loops, NEW fd \in Fds, HandleClose(l, fd)
      PROVE  Lifetime!Next \/ UNCHANGED Lifetime!vars
  BY <1>7, CloseStep
<1> QED BY <1>1, <1>2, <1>3, <1>4, <1>5, <1>6, <1>7 DEF Next, Destructor

\* The server, its pool and the connections on their loops implement ConnectionLife:
\* a connection is established and ends only in the hands of its host or after it,
\* is told of before its functor is queued, is removed once, and has a name that
\* comes back only when both the map and the loop are done with it.
THEOREM ImplementsConnectionLife == Spec => LifeSpec
<1>1. Init => Lifetime!Init
  <2> SUFFICES ASSUME Init PROVE Lifetime!Init
    OBVIOUS
  <2>1. /\ stage = [fd \in Fds |-> "closed"] /\ Kept = {} /\ phase = "open"
        /\ \A l \in Loops : queue[l] = <<>>
    BY DEF Init, Kept
  <2>2. Seen = [fd \in Fds |-> "closed"]
    BY <2>1 DEF Seen
  <2>3. Removing = {}
    BY <2>1, BoundAssumption DEF Removing, Queued, Loops
  <2> QED BY <2>1, <2>2, <2>3 DEF Lifetime!Init, Over
<1>2. IInv /\ [Next]_vars => [Lifetime!Next]_Lifetime!vars
  BY LifeStep
<1> QED BY <1>1, <1>2, Invariance, PTL DEF Spec, LifeSpec, Lifetime!Spec

(***************************************************************************)
(* What the map holds follows from ConnectionLife alone, and with it that  *)
(* no connection that closes is left behind by either of the two loops:    *)
(* the safety half of DescriptorsReturn.                                   *)
(***************************************************************************)

LifeStages == {"new", "open", "ending", "closing", "closed"}

\* HeldExactly is inductive once a removal is known to follow handle_close.
LifeInv ==
  /\ Seen \in [Fds -> LifeStages]
  /\ Removing \subseteq {fd \in Fds : Seen[fd] \notin {"new", "open"}}
  /\ Lifetime!HeldExactly

LEMMA LifeKeeps == LifeInv /\ [Lifetime!Next]_Lifetime!vars => LifeInv'
<1> SUFFICES ASSUME LifeInv, [Lifetime!Next]_Lifetime!vars PROVE LifeInv'
  OBVIOUS
<1> USE DEF LifeInv, Lifetime!HeldExactly
<1>1. ASSUME NEW fd \in Fds, Lifetime!Construct(fd) PROVE LifeInv'
  BY <1>1 DEF Lifetime!Construct, Lifetime!Moves, LifeStages
<1>2. ASSUME NEW fd \in Fds, Lifetime!Establish(fd) PROVE LifeInv'
  BY <1>2 DEF Lifetime!Establish, Lifetime!Moves, LifeStages
<1>3. ASSUME NEW fd \in Fds, Lifetime!HandleClose(fd) PROVE LifeInv'
  BY <1>3 DEF Lifetime!HandleClose, Lifetime!Moves, LifeStages
<1>4. ASSUME NEW fd \in Fds, Lifetime!Remove(fd) PROVE LifeInv'
  BY <1>4 DEF Lifetime!Remove
<1>5. ASSUME NEW fd \in Fds, Lifetime!QueueClose(fd) \/ Lifetime!Destroyed(fd) PROVE LifeInv'
  BY <1>5 DEF Lifetime!QueueClose, Lifetime!Destroyed, Lifetime!Moves, LifeStages
<1>6. CASE Lifetime!HostEnds
  BY <1>6 DEF Lifetime!HostEnds
<1>7. ASSUME NEW here \in SUBSET Fds, Lifetime!LoopEnds(here) PROVE LifeInv'
  BY <1>7 DEF Lifetime!LoopEnds, LifeStages
<1>8. CASE UNCHANGED Lifetime!vars
  BY <1>8 DEF Lifetime!vars
<1> QED BY <1>1, <1>2, <1>3, <1>4, <1>5, <1>6, <1>7, <1>8 DEF Lifetime!Next

\* Until ~tcp_server, connections_map_ and register_connection have the connections
\* that have not begun to close and those whose removal is queued, and no other.
THEOREM MapIsExact == Spec => []Lifetime!HeldExactly
<1>1. Lifetime!Init => LifeInv
  BY DEF Lifetime!Init, LifeInv, LifeStages, Lifetime!HeldExactly
<1>2. LifeInv => Lifetime!HeldExactly
  BY DEF LifeInv
<1>3. LifeSpec => []Lifetime!HeldExactly
  BY <1>1, <1>2, LifeKeeps, PTL DEF LifeSpec, Lifetime!Spec
<1> QED BY <1>3, ImplementsConnectionLife, PTL

\* A connection that closes is in its handle_close or has the functor that removes
\* it from its loop queued, and while the server holds it, its removal is queued.
ReturnsDue ==
  phase \in {"open", "left"} => \A fd \in Fds :
    /\ stage[fd] = "closing" =>
         closing_on[owner[fd]] = fd \/ Queued(owner[fd], Functor("close", fd))
    /\ fd \in Kept /\ stage[fd] \notin {"new", "open"} =>
         Queued(0, Functor("remove", fd))

THEOREM ClosingNeverForgotten == Spec => []ReturnsDue
<1>1. IInv /\ Lifetime!HeldExactly => ReturnsDue
  <2> SUFFICES ASSUME IInv, Lifetime!HeldExactly, phase \in {"open", "left"}, NEW fd \in Fds
               PROVE  /\ stage[fd] = "closing" =>
                           closing_on[owner[fd]] = fd \/ Queued(owner[fd], Functor("close", fd))
                      /\ fd \in Kept /\ stage[fd] \notin {"new", "open"} =>
                           Queued(0, Functor("remove", fd))
    BY DEF ReturnsDue
  <2>1. Seen[fd] \in {"new", "open"} => stage[fd] \in {"new", "open"}
    BY SeenAt
  <2> QED BY <2>1 DEF IInv, Lifetimes, ClosingIsQueued, Lifetime!HeldExactly, Over, Removing
<1> QED BY <1>1, Invariance, MapIsExact, PTL
=============================================================================

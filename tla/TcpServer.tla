------------------------------ MODULE TcpServer ------------------------------
(***************************************************************************)
(* A tcp_server (tcp_server.cc) with its acceptor, its loop_thread_pool    *)
(* and all of its connections: how many of them there are, which loop owns *)
(* which, who holds them, and what becomes of their descriptors, from      *)
(* start() to the end of ~tcp_server.                                      *)
(*                                                                         *)
(* Loop 0 is the server's own, 1, 2, ... are the pool's.  EventLoop shows  *)
(* that a loop runs its functors in order; here it is a queue of them, and *)
(* a step handles one event or runs one functor.  Of a connection, which   *)
(* TcpConnection follows in detail, only what other connections and the    *)
(* server see is kept.  A connection has the name of its descriptor: the   *)
(* same one is given out again once nobody holds the connection it had.    *)
(* The program is one that destroys the server after its loop has          *)
(* returned, as the tests and the example do.                              *)
(***************************************************************************)
EXTENDS Integers, Sequences

CONSTANTS Fds,          \* descriptors accept() may give out
          MaxThreads,   \* bound on the number given to set_thread_num
          MaxBacklog,   \* bound on the peers waiting in the kernel
          NoFd          \* no descriptor

ASSUME BoundAssumption == MaxThreads \in Nat /\ MaxBacklog \in Nat /\ NoFd \notin Fds

VARIABLES
  phase,             \* of the server's own thread: "open" up to the return of loop(),
                     \* then "left", "cleared" past ~acceptor, "gone" past ~tcp_server
  thread_num_, next_thread_idx_,
  loops_,            \* loops_.size(): the pool's loops are 1..loops_
  stopped,           \* how many of them the pool's destructor has joined
  started_,
  reading,           \* the acceptor listens and its handle's reading is enabled
  backlog,           \* peers the kernel has connected and accept() has not returned
  connections_map_,
  registering,       \* the connection that only register_connection's pointer holds: made,
                     \* and in neither the map nor the reach of a callback
  stage,             \* of each descriptor's connection: "new" until it is established,
                     \* "open", "closing" from handle_close on, "closed" with no handle
  owner,             \* its loop
  shared,            \* connections a user holds
  queue,             \* of each loop: pending_functors_, and what is left of the batch
  spent,             \* of each loop: connections held by functors of the batch that have run
  closing_on,        \* of each loop: the connection whose handle_close is at close_cb_'s return
  ended              \* "no", or what the program ended with: remove_connection_in_loop's
                     \* assertion, a callback that is not set yet, handle_close on a
                     \* connection nobody holds, or any other use of one

poolVars == <<thread_num_, next_thread_idx_, loops_, stopped, started_>>
acceptorVars == <<reading, backlog>>
mapVars == <<connections_map_, registering>>
connVars == <<stage, owner>>
loopVars == <<queue, spent, closing_on>>
vars == <<phase, poolVars, acceptorVars, mapVars, connVars, shared, loopVars, ended>>

Loops == 0..MaxThreads
Functors == [name : {"establish", "remove", "close"}, fd : Fds]
Functor(name, fd) == [name |-> name, fd |-> fd]

TypeOK ==
  /\ phase \in {"open", "left", "cleared", "gone"}
  /\ thread_num_ \in Loops /\ loops_ \in Loops /\ stopped \in 0..loops_
  /\ next_thread_idx_ \in Nat /\ (next_thread_idx_ < loops_ \/ next_thread_idx_ = 0)
  /\ started_ \in BOOLEAN /\ reading \in BOOLEAN
  /\ backlog \in 0..MaxBacklog
  /\ connections_map_ \subseteq Fds /\ registering \in Fds \cup {NoFd}
  /\ shared \subseteq Fds
  /\ stage \in [Fds -> {"new", "open", "closing", "closed"}]
  /\ owner \in [Fds -> 0..loops_]
  /\ queue \in [Loops -> Seq(Functors)]
  /\ spent \in [Loops -> SUBSET Fds]
  /\ closing_on \in [Loops -> Fds \cup {NoFd}]
  /\ ended \in {"no", "dropped", "callback", "expired", "dangling"}

Init ==
  /\ phase = "open"
  /\ thread_num_ \in Loops /\ loops_ = 0 /\ stopped = 0 /\ next_thread_idx_ = 0
  /\ started_ = FALSE /\ reading = FALSE /\ backlog = 0
  /\ connections_map_ = {} /\ registering = NoFd /\ shared = {}
  /\ stage = [fd \in Fds |-> "closed"] /\ owner = [fd \in Fds |-> 0]
  /\ queue = [l \in Loops |-> <<>>]
  /\ spent = [l \in Loops |-> {}]
  /\ closing_on = [l \in Loops |-> NoFd]
  /\ ended = "no"

Running == ended = "no"

\* f is among the functors l has still to run.
Queued(l, f) == \E i \in DOMAIN queue[l] : queue[l][i] = f

\* What the server's own thread holds.
Kept == connections_map_ \cup ({registering} \ {NoFd})

\* Somebody holds a shared_ptr to the connection.  Mutation: the functor that
\* handle_close queues captures no reference.
Held_NoLifetime(fd) ==
  \/ fd \in Kept \cup shared
  \/ Queued(0, Functor("remove", fd))
  \/ \E l \in Loops : fd \in spent[l]

Held(fd) ==
  \/ fd \in Kept \cup shared
  \/ Queued(0, Functor("remove", fd))
  \/ \E l \in Loops : fd \in spent[l] \/ Queued(l, Functor("close", fd))

\* A descriptor is closed with its connection.  One whose handle_close is about
\* to use a connection that is gone is not followed into its next use.
Free == {fd \in Fds : ~Held(fd) /\ \A l \in Loops : closing_on[l] # fd}

\* The loop can turn to its next event or functor.
Turns(l) ==
  /\ Running
  /\ closing_on[l] = NoFd
  /\ IF l = 0 THEN phase = "open" /\ registering = NoFd
              ELSE phase # "gone" /\ l \in (stopped + 1)..loops_

\* The loop is in poll() or handling its events: the last batch has run.
InEvents(l) == Turns(l) /\ spent[l] = {}

-----------------------------------------------------------------------------
(* start() and the acceptor *)

\* Mutation: listen() does not enable reading.
Listen_NotReading == reading' = FALSE
Listen == reading' = TRUE

\* Every loop of the pool is up when start_loop() returns (LoopThread).  The
\* pool's own started_ is never set; only the server's makes star() run once.
star == loops_' = thread_num_

Start ==
  /\ Turns(0) /\ ~started_
  /\ star /\ started_' = TRUE
  /\ Listen
  /\ UNCHANGED <<phase, thread_num_, next_thread_idx_, stopped, backlog, mapVars,
                 connVars, shared, loopVars, ended>>

PeerConnects ==
  /\ Running /\ started_ /\ phase \in {"open", "left"} /\ backlog < MaxBacklog
  /\ backlog' = backlog + 1
  /\ UNCHANGED <<phase, poolVars, reading, mapVars, connVars, shared, loopVars, ended>>

\* Mutation: the index goes one past the last loop.
AdvanceIndex_TooFar ==
  IF next_thread_idx_ + 1 > loops_ THEN 0 ELSE next_thread_idx_ + 1

AdvanceIndex ==
  IF next_thread_idx_ + 1 >= loops_ THEN 0 ELSE next_thread_idx_ + 1

\* get_next_loop, and the index it leaves.
NextLoop == IF loops_ = 0 THEN 0 ELSE next_thread_idx_ + 1
NextIndex == IF loops_ = 0 THEN next_thread_idx_ ELSE AdvanceIndex

\* register_connection, up to where make_shared returns: the constructor's functor
\* is queued, and another loop may run it from now on.
register_connection(fd) ==
  /\ next_thread_idx_' = NextIndex
  /\ stage' = [stage EXCEPT ![fd] = "new"]
  /\ owner' = [owner EXCEPT ![fd] = NextLoop]
  /\ queue' = [queue EXCEPT ![NextLoop] = Append(@, Functor("establish", fd))]
  /\ registering' = fd

\* The rest of it, which sets the callbacks, in terms of the map it leaves.
SaveLeaving(map) ==
  /\ Running /\ registering # NoFd
  /\ connections_map_' = map
  /\ registering' = NoFd
  /\ UNCHANGED <<phase, poolVars, acceptorVars, connVars, shared, loopVars, ended>>

\* Mutation: every connection is given the same name.
SaveConnection_SameName == SaveLeaving({registering})

SaveConnection == SaveLeaving(connections_map_ \cup {registering})

\* accept(): a descriptor for a new socket, or none if the peer has gone while it
\* waited.  With no descriptor left the peer goes on waiting, and nothing changes.
accept == IF Free = {} THEN {} ELSE Free \cup {NoFd}

HandleRead ==
  /\ InEvents(0) /\ reading /\ backlog > 0
  /\ \E fd \in accept :
       IF fd = NoFd THEN UNCHANGED <<next_thread_idx_, registering, connVars, queue>>
                    ELSE register_connection(fd)
  /\ backlog' = backlog - 1
  /\ UNCHANGED <<phase, thread_num_, loops_, stopped, started_, reading, connections_map_,
                 shared, spent, closing_on, ended>>

-----------------------------------------------------------------------------
(* The connections *)

Runs(l, name, fd) ==
  /\ Turns(l) /\ queue[l] # <<>> /\ Head(queue[l]) = Functor(name, fd)
  /\ queue' = [queue EXCEPT ![l] = Tail(@)]

\* The user may keep the connection in the callback, if there is one by now.
Callback(fd) == shared' \in {shared, shared \cup ({fd} \ {registering})}

\* The constructor's functor, which holds no reference.
RunEstablish(l, fd) ==
  /\ Runs(l, "establish", fd)
  /\ IF Held(fd)
     THEN /\ stage' = [stage EXCEPT ![fd] = "open"]
          /\ Callback(fd)
          /\ UNCHANGED ended
     ELSE ended' = "dangling" /\ UNCHANGED <<stage, shared>>
  /\ UNCHANGED <<phase, poolVars, acceptorVars, mapVars, owner, spent, closing_on>>

\* remove_connection_in_loop.
Removal(fd) ==
  /\ connections_map_' = connections_map_ \ {fd}
  /\ ended' = IF fd \in connections_map_ THEN ended ELSE "dropped"

\* An event of an established connection that changes anything here: the end of
\* the stream, up to close_cb_'s return; or any event, if no callback is set yet, or
\* the connection is gone and its handle is not (poll() at least reports that it is
\* not open).
CloseLeaving(l, fd, left) ==
  /\ InEvents(l) /\ owner[fd] = l /\ stage[fd] = "open"
  /\ IF Held(fd) /\ fd # registering
     THEN /\ stage' = [stage EXCEPT ![fd] = left]
          /\ closing_on' = [closing_on EXCEPT ![l] = fd]
          /\ IF l = 0
             THEN Removal(fd) /\ UNCHANGED queue
             ELSE /\ queue' = [queue EXCEPT ![0] = Append(@, Functor("remove", fd))]
                  /\ UNCHANGED <<connections_map_, ended>>
     ELSE /\ ended' = IF Held(fd) THEN "callback" ELSE "dangling"
          /\ UNCHANGED <<stage, closing_on, connections_map_, queue>>
  /\ UNCHANGED <<phase, poolVars, acceptorVars, registering, owner, shared, spent>>

\* Mutation: reading stays enabled.
HandleClose_KeepsReading(l, fd) == CloseLeaving(l, fd, "open")

HandleClose(l, fd) == CloseLeaving(l, fd, "closing")

\* The rest of handle_close needs the connection, which the shared_ptr given to
\* close_cb_ no longer keeps.
QueueClose(l, fd) ==
  /\ Running /\ closing_on[l] = fd
  /\ IF Held(fd)
     THEN /\ closing_on' = [closing_on EXCEPT ![l] = NoFd]
          /\ queue' = [queue EXCEPT ![l] = Append(@, Functor("close", fd))]
          /\ UNCHANGED ended
     ELSE ended' = "expired" /\ UNCHANGED <<closing_on, queue>>
  /\ UNCHANGED <<phase, poolVars, acceptorVars, mapVars, connVars, shared, spent>>

\* Mutation: the map keeps its entry.
RunRemove_Kept(fd) ==
  /\ Runs(0, "remove", fd)
  /\ spent' = [spent EXCEPT ![0] = @ \cup {fd}]
  /\ UNCHANGED <<phase, poolVars, acceptorVars, mapVars, connVars, shared, closing_on,
                 ended>>

RunRemove(fd) ==
  /\ Runs(0, "remove", fd)
  /\ Removal(fd)
  /\ spent' = [spent EXCEPT ![0] = @ \cup {fd}]
  /\ UNCHANGED <<phase, poolVars, acceptorVars, registering, connVars, shared, closing_on>>

\* handle_close's functor.
RunClose(l, fd) ==
  /\ Runs(l, "close", fd)
  /\ stage' = [stage EXCEPT ![fd] = "closed"]
  /\ spent' = [spent EXCEPT ![l] = @ \cup {fd}]
  /\ Callback(fd)
  /\ UNCHANGED <<phase, poolVars, acceptorVars, mapVars, owner, closing_on, ended>>

\* do_pending_functors returns and its functors are destroyed.
EndBatch(l) ==
  /\ Turns(l) /\ spent[l] # {}
  /\ spent' = [spent EXCEPT ![l] = {}]
  /\ UNCHANGED <<phase, poolVars, acceptorVars, mapVars, connVars, shared, queue,
                 closing_on, ended>>

UserDrops(fd) ==
  /\ Running /\ fd \in shared
  /\ shared' = shared \ {fd}
  /\ UNCHANGED <<phase, poolVars, acceptorVars, mapVars, connVars, loopVars, ended>>

-----------------------------------------------------------------------------
(* The end of the server *)

LoopReturns ==
  /\ InEvents(0)
  /\ phase' = "left"
  /\ UNCHANGED <<poolVars, acceptorVars, mapVars, connVars, shared, loopVars, ended>>

\* ~tcp_server destroys connections_map_, then acceptor_ ...
DestroyConnections ==
  /\ Running /\ phase = "left"
  /\ phase' = "cleared"
  /\ connections_map_' = {}
  /\ reading' = FALSE /\ backlog' = 0
  /\ UNCHANGED <<poolVars, registering, connVars, shared, loopVars, ended>>

\* ... and loop_thread_pool_, which quits and joins one thread after the other.
\* The loop takes its functors and its handles with it.
JoinThread ==
  /\ Running /\ phase = "cleared" /\ stopped < loops_
  /\ InEvents(stopped + 1)
  /\ stopped' = stopped + 1
  /\ queue' = [queue EXCEPT ![stopped + 1] = <<>>]
  /\ stage' = [fd \in Fds |-> IF owner[fd] = stopped + 1 THEN "closed" ELSE stage[fd]]
  /\ UNCHANGED <<phase, thread_num_, next_thread_idx_, loops_, started_, acceptorVars,
                 mapVars, owner, shared, spent, closing_on, ended>>

ServerGone ==
  /\ Running /\ phase = "cleared" /\ stopped = loops_
  /\ phase' = "gone"
  /\ UNCHANGED <<poolVars, acceptorVars, mapVars, connVars, shared, loopVars, ended>>

-----------------------------------------------------------------------------
RunsFunctor(l) ==
  \E fd \in Fds : RunEstablish(l, fd) \/ RunClose(l, fd) \/ (l = 0 /\ RunRemove(fd))
ClosesOn(l) == \E fd \in Fds : QueueClose(l, fd)
Destructor == DestroyConnections \/ JoinThread \/ ServerGone

Next ==
  \/ Start \/ PeerConnects \/ HandleRead \/ SaveConnection \/ LoopReturns \/ Destructor
  \/ \E fd \in Fds : UserDrops(fd)
  \/ \E l \in Loops :
       RunsFunctor(l) \/ ClosesOn(l) \/ EndBatch(l) \/ \E fd \in Fds : HandleClose(l, fd)

\* Every iteration of a loop handles the events that are there, runs the functors
\* it finds queued and lets them go; nobody has to connect, close or leave loop().
Spec ==
  /\ Init /\ [][Next]_vars
  /\ WF_vars(Destructor) /\ SF_vars(HandleRead) /\ WF_vars(SaveConnection)
  /\ \A l \in Loops : WF_vars(ClosesOn(l)) /\ SF_vars(RunsFunctor(l)) /\ WF_vars(EndBatch(l))

-----------------------------------------------------------------------------
(* Properties *)

\* While the server is open it holds every connection that has not begun to close,
\* also the ones whose establishment, queued without a reference, has yet to run, or
\* runs before they are in the map: no use of a connection before its handle_close
\* depends on its users.
HeldByServer ==
  phase = "open" => \A fd \in Fds : stage[fd] \in {"new", "open"} => fd \in Kept

\* While the server is open, whoever lets a connection go last, in whichever
\* thread, its descriptor is closed, and may be given out again, only when the
\* loop has forgotten it: no handle is registered for it and no functor left,
\* unless its handle_close is about to end the program.
FreeIsForgotten ==
  phase = "open" => \A fd \in Free : stage[fd] = "closed"

\* A connection is never removed from the map twice, and none that is gone is
\* used, until ~tcp_server drops the connections before it stops the pool's loops.
OnlyDestructionDangles ==
  /\ ended # "dropped"
  /\ ended = "dangling" => phase = "cleared" /\ loops_ > 0

\* A full backlog drains while there is a descriptor to accept a peer with.
BacklogDrains ==
  backlog = MaxBacklog ~> backlog < MaxBacklog \/ Free = {} \/ phase # "open" \/ ~Running

\* A connection that begins to close gives its descriptor back, through the queues
\* of two loops, unless a user keeps it or the server closes.
DescriptorsReturn ==
  \A fd \in Fds :
    stage[fd] = "closing" ~> ~Held(fd) \/ fd \in shared \/ phase # "open" \/ ~Running

\* tcp_server.cc says of the removal that "the lifetime of p_ccnn will be extended
\* at least until connection_destroyed() finished", and the tests' callbacks expect
\* to hear of a connection that is down: it outlives its own handle_close.
OutlivesItsClose == ended # "expired"

\* handle_close has told the host and has yet to queue its functor.
Telling(fd) == \E l \in Loops : closing_on[l] = fd

\* What the server and the loops agree on.
Seen == [fd \in Fds |-> IF Telling(fd) /\ stage[fd] = "closing" THEN "ending" ELSE stage[fd]]
Removing == {fd \in Fds : Queued(0, Functor("remove", fd))}
Over == phase \in {"cleared", "gone"}

Lifetime == INSTANCE ConnectionLife WITH
              Conns <- Fds, stage <- Seen, held <- Kept,
              removing <- Removing, over <- Over

\* Each descriptor sees one connection's life after the other: whatever the loops,
\* the pool and the users do, the server holds a connection from its accept() to
\* its removal, and accept() gives the descriptor out when both ends are done.
LifeSpec == Lifetime!Spec
=============================================================================

---------------------------- MODULE TcpConnection ----------------------------
(***************************************************************************)
(* One tcp_connection (tcp_connection.cc) from its construction to its     *)
(* removal, with the part of its loop it lives on, its host (a tcp_client  *)
(* or a tcp_server on the same loop, or a tcp_server whose pool gave the   *)
(* connection to an I/O thread), and its users: the callbacks, other       *)
(* handlers of the loop, and other threads.                                *)
(*                                                                         *)
(* One action per handler, functor or step of another thread; a callback   *)
(* is a phase of its own, in which the user makes calls.  A failed         *)
(* assertion, an uncaught exception or undefined behaviour ends the        *)
(* program, with its cause in ended.  Bytes are counted, not kept.  Linux  *)
(* reports POLLHUP only with POLLIN while reading is enabled, so           *)
(* handle_close is reached through handle_read alone.                      *)
(***************************************************************************)
EXTENDS Buffer, Sequences, SequencesExt

CONSTANTS Callers,     \* threads other than the loop's, one call each
          Hosts,       \* the hosts to consider, of {"same", "io"}
          Lengths,     \* lengths of the messages sent
          MaxUnsent,   \* bound on the bytes not yet written when a user on the loop sends
          MaxPending   \* bound on the queue when a user on the loop sends

ASSUME HostAssumption == Hosts \subseteq {"same", "io"}
ASSUME LengthAssumption == Lengths \subseteq Nat /\ {MaxUnsent, MaxPending} \subseteq Nat

VARIABLES
  host,
  cbs,         \* how many of connection_cb_, message_cb_, close_cb_ are set, in that order
  held,        \* the host's shared_ptr: register_connection's and then
               \* connections_map_'s, or the client's conn_
  removals,    \* remove_connection_in_loop calls queued on the server's own loop
  state, handle, events, inp, oup,     \* state_, *poll_hd_ and its events_, the buffers
  phase, revents, callback,            \* where the loop is
  functors, pending,                   \* being run, and queued
  callPc, shared,                      \* the other threads, the users' shared_ptr
  ended,       \* "no", or what the program ended with: an assertion on state_, on the
               \* host's reference ("dropped"), on the events at the removal, in the
               \* buffer, or on what write() returned; an unset callback; or the use
               \* of a destroyed handle, message or connection ("object", and
               \* "expired" where handle_close outlives its own connection)
  unread,      \* history: bytes read and not retrieved
  unsent,      \* history: bytes given to send_in_loop and not written
  finSent,     \* history: the socket has been shut down for writing
  closing,     \* history: handle_close has run
  lateCall,    \* history: a call of another thread was queued after handle_close
  lateSend,    \* history: send_in_loop has run after handle_close
  ups, downs   \* history: connection_cb_ on establishment, on destruction

hostVars == <<host, cbs, held, removals>>
connVars == <<state, handle, events, inp, oup>>
loopVars == <<phase, revents, callback, functors, pending>>
callVars == <<callPc, shared>>
history == <<unread, unsent, finSent, closing, lateCall, lateSend, ups, downs>>
vars == <<hostVars, connVars, loopVars, callVars, ended, history>>

NONE == "none"
TaskNames == {"establish", "send", "shutdown", "complete", "close"}
Tasks == [name : TaskNames, caller : Callers \cup {NONE}]
Task(name) == [name |-> name, caller |-> NONE]

TypeOK ==
  /\ host \in Hosts /\ cbs \in 0..3 /\ held \in BOOLEAN /\ removals \in Nat
  /\ state \in {"none", "connecting", "connected", "disconnecting", "disconnected"}
  /\ handle \in {"none", "registered", "removed"}
  /\ events \subseteq {"read", "write"} /\ revents \subseteq {"read", "write"}
  /\ inp \in Buffers /\ oup \in Buffers
  /\ phase \in {"poll", "read", "closing", "write", "swap", "run", "callback"}
  /\ callback \in {NONE, "connection", "message", "complete", "written"}
  /\ functors \in Seq(Tasks) /\ pending \in Seq(Tasks)
  /\ callPc \in [Callers -> {"idle", "send", "sent", "shut", "shutting", "done"}]
  /\ ended \in {"no", "state", "callback", "dropped", "events", "buffer", "write",
               "handle", "message", "object", "expired"}
  /\ unread \in Nat /\ unsent \in Int /\ ups \in Nat /\ downs \in Nat
  /\ <<shared, finSent, closing, lateCall, lateSend>>
       \in BOOLEAN \X BOOLEAN \X BOOLEAN \X BOOLEAN \X BOOLEAN

Init ==
  /\ host \in Hosts
  /\ cbs = 0 /\ held = FALSE /\ removals = 0
  /\ state = "none" /\ handle = "none" /\ events = {}
  /\ inp = NewBuffer /\ oup = NewBuffer
  /\ phase = "poll" /\ revents = {} /\ callback = NONE
  /\ functors = <<>> /\ pending = <<>>
  /\ callPc = [c \in Callers |-> "idle"] /\ shared = FALSE
  /\ ended = "no"
  /\ unread = 0 /\ unsent = 0 /\ ups = 0 /\ downs = 0
  /\ finSent = FALSE /\ closing = FALSE /\ lateCall = FALSE /\ lateSend = FALSE

End(cause) == ended' = cause
Running == ended = "no"

\* The connection object exists as long as somebody holds a shared_ptr to it.
Alive ==
  \/ held \/ removals > 0 \/ shared \/ phase = "callback"
  \/ \E c \in Callers : callPc[c] \notin {"idle", "done"}
  \/ \E task \in Range(functors \o pending) : task.name \in {"shutdown", "close"}

-----------------------------------------------------------------------------
(* The host *)

\* Where the loop is its own, the host sets every callback before the loop can run
\* the constructor's functor.
CallbacksSet == IF host = "io" THEN 0 ELSE 3

\* register_connection and handle_new_sock.  On the loop's own thread they are
\* part of a handler; on the server's thread the callbacks are set while the
\* I/O thread may already run the establishment the constructor has queued.
ConstructLeaving(st, hd, evs, tasks) ==
  /\ Running /\ state = "none"
  /\ host # "io" => phase = "swap"
  /\ state' = st /\ handle' = hd /\ events' = evs
  /\ pending' = pending \o tasks
  /\ held' = TRUE
  /\ cbs' = CallbacksSet
  /\ UNCHANGED <<host, removals, inp, oup, phase, revents, callback, functors,
                 callVars, ended, history>>

\* Mutation: the constructor runs the establishment with run_in_loop, on its own
\* loop before make_shared has returned and a callback is set.
Construct_RunInLoop ==
  IF host = "io" THEN ConstructLeaving("connecting", handle, events, <<Task("establish")>>)
                 ELSE ConstructLeaving("connected", "registered", {"read"}, <<>>)

Construct == ConstructLeaving("connecting", handle, events, <<Task("establish")>>)

SetCallback ==
  /\ Running /\ held /\ cbs < 3
  /\ cbs' = cbs + 1
  /\ UNCHANGED <<host, held, removals, connVars, loopVars, callVars, ended, history>>

\* remove_connection_in_loop and close_connection drop the host's reference,
\* and assert that it was there.
DropHeld ==
  /\ held' = FALSE
  /\ ended' = IF held THEN ended ELSE "dropped"

RemoveInLoop ==
  /\ Running /\ removals > 0
  /\ removals' = removals - 1
  /\ DropHeld
  /\ UNCHANGED <<host, cbs, connVars, loopVars, callVars, history>>

-----------------------------------------------------------------------------
(* What send and shotdown do on the loop's thread *)

\* write() of len bytes: some are taken, or the call fails.
WriteResults(len) ==
  IF len = 0 THEN {0} ELSE IF finSent THEN {-1} ELSE {-1} \cup 1..len

\* send_in_loop, up to where its callback is queued.  A failed write is
\* 2^w - 1 once it is a size_t, and so more than was to be written.  The user of any
\* host may have set write_complete_cb_ by now, or not.
SendInLoop(len) ==
  /\ lateSend' = (lateSend \/ closing)
  /\ IF handle = "removed"
     THEN End("handle") /\ UNCHANGED <<oup, events, pending, unsent>>
     ELSE \E result \in IF "write" \in events \/ readable_bytes(oup) > 0
                        THEN {0} ELSE WriteResults(len) :
       LET num_remain == Minus(len, result % Word)
           appended == append(oup, num_remain)
       IN
       IF num_remain > len
       THEN End("write") /\ UNCHANGED <<oup, events, pending, unsent>>
       ELSE IF num_remain = 0
       THEN /\ pending' \in {pending, Append(pending, Task("complete"))}
            /\ UNCHANGED <<oup, events, unsent, ended>>
       ELSE /\ unsent' = unsent + num_remain
            /\ oup' = appended.buf
            /\ IF appended.fault = "none"
               THEN events' = events \cup {"write"} /\ UNCHANGED ended
               ELSE End("buffer") /\ UNCHANGED events
            /\ UNCHANGED pending

\* Mutation: shutdown without looking at the output that waits.
ShutdownInLoop_Always ==
  IF handle = "removed"
  THEN End("handle") /\ UNCHANGED finSent
  ELSE finSent' = TRUE /\ UNCHANGED ended

ShutdownInLoop ==
  IF handle = "removed"
  THEN End("handle") /\ UNCHANGED finSent
  ELSE /\ finSent' = (finSent \/ "write" \notin events)
       /\ UNCHANGED ended

-----------------------------------------------------------------------------
(* The loop: poll, this connection's events, then the functors.  In phase  *)
(* "swap" it is handling the events of other descriptors.                  *)

AfterRead(ready) == IF "write" \in ready THEN "write" ELSE "swap"

PollReturns ==
  /\ Running /\ phase = "poll"
  /\ \E ready \in SUBSET events :
       /\ revents' = ready
       /\ phase' = IF "read" \in ready THEN "read" ELSE AfterRead(ready)
  /\ UNCHANGED <<hostVars, connVars, callback, functors, pending, callVars, ended, history>>

\* handle_read with bytes, or with the failure that read_socket takes for many.
HandleRead ==
  /\ Running /\ phase = "read"
  /\ \E result \in {-1} \cup 1..(writeable_bytes(inp) + EXTRA_SIZE) :
       LET read == read_socket(inp, result % Word) IN
       /\ inp' = read.buf
       /\ IF read.fault # "none" \/ cbs < 2
          THEN /\ End(IF read.fault # "none" THEN "buffer" ELSE "callback")
               /\ UNCHANGED <<phase, callback, unread>>
          ELSE /\ unread' = unread + result
               /\ phase' = "callback" /\ callback' = "message"
               /\ UNCHANGED ended
  /\ UNCHANGED <<hostVars, state, handle, events, oup, revents, functors, pending,
                 callVars, unsent, finSent, closing, lateCall, lateSend, ups, downs>>

\* handle_close, reached at the end of the stream, up to where close_cb_ returns,
\* in terms of the events and the handle it leaves.
CloseLeaving(evs, hd) ==
  /\ Running /\ phase = "read"
  /\ closing' = TRUE
  /\ events' = evs
  /\ handle' = hd
  /\ phase' = "closing"
  /\ IF state \notin {"connected", "disconnecting"}
     THEN End("state") /\ UNCHANGED <<held, removals>>
     ELSE IF cbs < 3 THEN End("callback") /\ UNCHANGED <<held, removals>>
     ELSE IF host = "io" THEN removals' = removals + 1 /\ UNCHANGED <<held, ended>>
     ELSE DropHeld /\ UNCHANGED removals
  /\ UNCHANGED <<host, cbs, state, inp, oup, revents, callback, functors, pending, callVars,
                 unread, unsent, finSent, lateCall, lateSend, ups, downs>>

\* Mutations: handle_close leaves the events enabled; removes the handle at once.
HandleClose_KeepsEvents == CloseLeaving(events, handle)
HandleClose_RemovesHandle == CloseLeaving({}, "removed")

HandleClose == CloseLeaving({}, handle)

\* The rest of handle_close.  The shared_ptr it gave to close_cb_ was a
\* temporary: unless somebody besides the host holds the connection, or the
\* server's thread has yet to drop it, the connection is gone by now.
CloseQueueing(tasks) ==
  /\ Running /\ phase = "closing"
  /\ IF Alive
     THEN /\ phase' = AfterRead(revents)
          /\ pending' = pending \o tasks
          /\ UNCHANGED ended
     ELSE End("expired") /\ UNCHANGED <<phase, pending>>
  /\ UNCHANGED <<hostVars, connVars, revents, callback, functors, callVars, history>>

\* Mutation: handle_close queues nothing.
QueueClose_Nothing == CloseQueueing(<<>>)

QueueClose == CloseQueueing(<<Task("close")>>)

\* handle_write offers every writable byte behind peek(), not the readable ones.
HandleWrite ==
  /\ Running /\ phase = "write"
  /\ \E result \in IF "write" \in events THEN WriteResults(writeable_bytes(oup)) ELSE {0} :
       LET left == retrieve(oup, result) IN
       IF result <= 0
       THEN /\ phase' = "swap"
            /\ UNCHANGED <<oup, events, callback, ended, unsent>>
       ELSE /\ unsent' = unsent - result
            /\ oup' = left.buf
            /\ IF left.fault # "none"
               THEN End("buffer") /\ UNCHANGED <<phase, events, callback>>
               ELSE IF readable_bytes(left.buf) > 0
               THEN phase' = "swap" /\ UNCHANGED <<events, callback, ended>>
               ELSE /\ events' = events \ {"write"}
                    /\ phase' = "callback" /\ callback' = "written"
                    /\ UNCHANGED ended
  /\ UNCHANGED <<hostVars, state, handle, inp, revents, functors, pending, callVars,
                 unread, finSent, closing, lateCall, lateSend, ups, downs>>

SwapPending ==
  /\ Running /\ phase = "swap"
  /\ phase' = "run"
  /\ functors' = pending
  /\ pending' = <<>>
  /\ revents' = {}
  /\ UNCHANGED <<hostVars, connVars, callback, callVars, ended, history>>

EndPending ==
  /\ Running /\ phase = "run" /\ functors = <<>>
  /\ phase' = "poll"
  /\ UNCHANGED <<hostVars, connVars, revents, callback, functors, pending, callVars,
                 ended, history>>

Runs(name) ==
  /\ Running /\ phase = "run" /\ functors # <<>>
  /\ Head(functors).name = name
  /\ functors' = Tail(functors)

\* The constructor's functor; connection_cb_ is called only if it is set.
RunEstablish ==
  /\ Runs("establish")
  /\ handle' = "registered"
  /\ IF state # "connecting"
     THEN End("state") /\ UNCHANGED <<state, events, phase, callback, ups>>
     ELSE /\ state' = "connected"
          /\ events' = {"read"}
          /\ IF cbs > 0
             THEN phase' = "callback" /\ callback' = "connection" /\ ups' = ups + 1
             ELSE UNCHANGED <<phase, callback, ups>>
          /\ UNCHANGED ended
  /\ UNCHANGED <<hostVars, inp, oup, revents, pending, callVars,
                 unread, unsent, finSent, closing, lateCall, lateSend, downs>>

\* handle_close's functor: remove_poll_handle, which asserts that no event is
\* enabled, and connection_destroyed.
RunClose ==
  /\ Runs("close")
  /\ IF events # {}
     THEN End("events") /\ UNCHANGED <<handle, state, phase, callback, downs>>
     ELSE /\ handle' = "removed"
          /\ state' = "disconnected"
          /\ phase' = "callback" /\ callback' = "connection"
          /\ downs' = downs + 1
          /\ UNCHANGED ended
  /\ UNCHANGED <<hostVars, events, inp, oup, revents, pending, callVars,
                 unread, unsent, finSent, closing, lateCall, lateSend, ups>>

\* send's functor refers to the caller's message and to a local of send: both
\* are gone once send has returned.
RunSend ==
  /\ Runs("send")
  /\ IF callPc[Head(functors).caller] # "sent"
     THEN End("message") /\ UNCHANGED <<oup, events, pending, unsent, lateSend>>
     ELSE \E len \in Lengths : SendInLoop(len)
  /\ UNCHANGED <<hostVars, state, handle, inp, phase, revents, callback, callVars,
                 unread, finSent, closing, lateCall, ups, downs>>

RunShutdown ==
  /\ Runs("shutdown")
  /\ ShutdownInLoop
  /\ UNCHANGED <<hostVars, connVars, phase, revents, callback, pending, callVars,
                 unread, unsent, closing, lateCall, lateSend, ups, downs>>

\* send_in_loop's functor, which holds no reference to the connection.
RunComplete ==
  /\ Runs("complete")
  /\ IF Alive THEN phase' = "callback" /\ callback' = "complete" /\ UNCHANGED ended
              ELSE End("object") /\ UNCHANGED <<phase, callback>>
  /\ UNCHANGED <<hostVars, connVars, revents, pending, callVars, history>>

\* What follows the callback: the rest of handle_event, of handle_write, or of
\* the functors.
CallbackReturns ==
  /\ Running /\ phase = "callback"
  /\ callback' = NONE
  /\ phase' = CASE callback = "message" -> AfterRead(revents)
                [] callback = "written" -> "swap"
                [] OTHER -> "run"
  /\ IF callback = "written" /\ state = "disconnecting"
     THEN ShutdownInLoop ELSE UNCHANGED <<finSent, ended>>
  /\ UNCHANGED <<hostVars, connVars, revents, functors, pending, callVars,
                 unread, unsent, closing, lateCall, lateSend, ups, downs>>

-----------------------------------------------------------------------------
(* The user on the loop's thread: in this connection's callbacks, in the   *)
(* handlers of other descriptors and in functors of its own.               *)

OnLoop == Running /\ (phase = "callback" \/ (phase \in {"swap", "run"} /\ shared))

RetrieveAll ==
  /\ Running /\ phase = "callback" /\ callback = "message"
  /\ inp' = retrieve_all(inp)
  /\ unread' = 0
  /\ UNCHANGED <<hostVars, state, handle, events, oup, loopVars, callVars, ended,
                 unsent, finSent, closing, lateCall, lateSend, ups, downs>>

\* A user who retrieves all that is readable by its length meets the assertion.
Retrieve ==
  /\ Running /\ phase = "callback" /\ callback = "message"
  /\ \E len \in 1..unread :
       LET left == retrieve(inp, len) IN
       /\ inp' = left.buf
       /\ IF left.fault = "none" THEN unread' = unread - len /\ UNCHANGED ended
                                 ELSE End("buffer") /\ UNCHANGED unread
  /\ UNCHANGED <<hostVars, state, handle, events, oup, loopVars, callVars,
                 unsent, finSent, closing, lateCall, lateSend, ups, downs>>

UserSends ==
  /\ OnLoop /\ state = "connected" /\ Len(pending) < MaxPending
  /\ \E len \in Lengths : unsent + len <= MaxUnsent /\ SendInLoop(len)
  /\ UNCHANGED <<hostVars, state, handle, inp, phase, revents, callback, functors, callVars,
                 unread, finSent, closing, lateCall, ups, downs>>

UserShutsDown ==
  /\ OnLoop /\ state = "connected"
  /\ state' = "disconnecting"
  /\ ShutdownInLoop
  /\ UNCHANGED <<hostVars, handle, events, inp, oup, loopVars, callVars,
                 unread, unsent, closing, lateCall, lateSend, ups, downs>>

UserKeeps ==
  /\ Running /\ phase = "callback" /\ ~shared
  /\ shared' = TRUE
  /\ UNCHANGED <<hostVars, connVars, loopVars, callPc, ended, history>>

UserDrops ==
  /\ Running /\ shared
  /\ \A c \in Callers : callPc[c] \in {"idle", "done"}
  /\ shared' = FALSE
  /\ UNCHANGED <<hostVars, connVars, loopVars, callPc, ended, history>>

-----------------------------------------------------------------------------
(* send and shotdown on other threads: what they read of state_ is stale   *)
(* when they queue.                                                        *)

Steps(c, from, to) == Running /\ callPc[c] = from /\ callPc' = [callPc EXCEPT ![c] = to]

Enqueue(task) ==
  /\ pending' = Append(pending, task)
  /\ lateCall' = (lateCall \/ closing)

BeginCall(c) ==
  /\ shared /\ state = "connected"
  /\ Steps(c, "idle", "send") \/ Steps(c, "idle", "shut")
  /\ UNCHANGED <<hostVars, connVars, loopVars, shared, ended, history>>

QueueSend(c) ==
  /\ Steps(c, "send", "sent")
  /\ Enqueue([name |-> "send", caller |-> c])
  /\ UNCHANGED <<hostVars, connVars, phase, revents, callback, functors, shared, ended,
                 unread, unsent, finSent, closing, lateSend, ups, downs>>

SendReturns(c) ==
  /\ Steps(c, "sent", "done")
  /\ UNCHANGED <<hostVars, connVars, loopVars, shared, ended, history>>

SetDisconnecting(c) ==
  /\ Steps(c, "shut", "shutting")
  /\ state' = "disconnecting"
  /\ UNCHANGED <<hostVars, handle, events, inp, oup, loopVars, shared, ended, history>>

\* Mutation: the shutdown is left to the writable event.
QueueShutdown_Forgets(c) ==
  /\ Steps(c, "shutting", "done")
  /\ UNCHANGED <<hostVars, connVars, loopVars, shared, ended, history>>

QueueShutdown(c) ==
  /\ Steps(c, "shutting", "done")
  /\ Enqueue(Task("shutdown"))
  /\ UNCHANGED <<hostVars, connVars, phase, revents, callback, functors, shared, ended,
                 unread, unsent, finSent, closing, lateSend, ups, downs>>

-----------------------------------------------------------------------------
Functors == RunEstablish \/ RunClose \/ RunSend \/ RunShutdown \/ RunComplete
Loop ==
  \/ PollReturns \/ HandleRead \/ HandleClose \/ QueueClose \/ HandleWrite
  \/ SwapPending \/ Functors \/ EndPending \/ CallbackReturns
Host == Construct \/ SetCallback \/ RemoveInLoop
User == RetrieveAll \/ Retrieve \/ UserSends \/ UserShutsDown \/ UserKeeps \/ UserDrops
Finish(c) == QueueSend(c) \/ SendReturns(c) \/ SetDisconnecting(c) \/ QueueShutdown(c)
Next == Loop \/ Host \/ User \/ \E c \in Callers : BeginCall(c) \/ Finish(c)

\* The loop and the server's thread go on, callbacks and calls return; nobody
\* has to connect, send, shut down or close.
Spec ==
  /\ Init /\ [][Next]_vars
  /\ WF_vars(Loop) /\ WF_vars(SetCallback) /\ WF_vars(RemoveInLoop)
  /\ \A c \in Callers : WF_vars(Finish(c))

-----------------------------------------------------------------------------
(* Properties *)

\* What the input buffer holds is what was read and not retrieved, whatever the
\* mixture of partial and complete retrievals, until an operation fails.
InputConserved == Running => readable_bytes(inp) = unread

\* connection_cb_ hears of at most one establishment and one destruction, and of
\* the second only after the first, unless the establishment overtook
\* set_connection_callback on an I/O thread.
AnnouncedInPairs ==
  /\ ups <= 1 /\ downs <= ups + 1
  /\ host # "io" => downs <= ups
  /\ downs <= 1

\* What of the protocol can fail.  The assertions on the connection's state and
\* on the host's reference never do.  Only a send between handle_close and its
\* functor lets that functor find an event enabled, or leaves a write-complete
\* functor behind it, for a connection that may be gone.  A callback is missing
\* only where they are set while the I/O thread runs.  The end of a connection
\* inside its own handle_close is what TcpServer's OutlivesItsClose is about.
OnlyKnownFailures ==
  /\ ended \notin {"state", "dropped"}
  /\ ended \in {"events", "object"} => lateSend
  /\ ended = "callback" => host = "io"

\* The removed poll_handle is used only by a call of another thread queued after
\* handle_close; nothing on the loop's own thread comes that late.
OnlyLateCallsDangle == ended = "handle" => lateCall

\* tcp_connection.hh: shotdown does not shut a socket down that is writing.  No
\* byte accepted for output is cut off by it, except after the peer's end of
\* stream, when handle_close has already given the output up.
FinAfterFlush == [][finSent' /\ ~finSent => unsent = 0 \/ closing]_vars

\* A connection that begins to close is removed from the loop and let go by its
\* host, whichever thread's queue is slower.
ClosedIsReleased == closing ~> (handle = "removed" /\ ~held) \/ ~Running

\* A shutdown asked for happens, unless output waits or the peer closes first.
ShutdownHappens ==
  state = "disconnecting" ~> finSent \/ closing \/ "write" \in events \/ ~Running

\* tcp_connection.hh: "the remaining msg will be stroed in buffer, and the
\* writeable event will be listened": what the event writes was once sent.
PeerGetsOnlySent == unsent >= 0

\* What the host and the loop agree on.  A handle_close that finds no close_cb_
\* ends the program before the host has been told.
Told == closing /\ ended # "callback"
Stage == CASE state = "none"       -> "closed"
           [] state = "connecting" -> "new"
           [] OTHER -> IF handle = "removed"     THEN "closed"
                       ELSE IF ~Told             THEN "open"
                       ELSE IF phase = "closing" THEN "ending" ELSE "closing"

Lifetime == INSTANCE ConnectionLife WITH
              Conns <- {"this"}, stage <- [c \in {"this"} |-> Stage],
              held <- {c \in {"this"} : held},
              removing <- {c \in {"this"} : removals > 0}, over <- FALSE

\* In every host, on one thread or two, the connection goes through the stages
\* that TcpServer gives it, and is held and let go when TcpServer says so.
LifeSpec == Lifetime!Spec
=============================================================================

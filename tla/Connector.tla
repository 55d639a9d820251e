------------------------------ MODULE Connector ------------------------------
(***************************************************************************)
(* The connector of a tcp_client (connector.cc, tcp_client.cc) on its      *)
(* loop: attempts to connect, the poll_handle of the one under way, the    *)
(* retry timers, and the connection that takes socket and handle over.     *)
(* The loop handles events and timers in phase "dispatch", queued functors *)
(* in phase "run".                                                         *)
(*                                                                         *)
(* Users call connect() on the loop or on another thread, and stop() on    *)
(* the loop.  new_connection_cb_ is the client's and always set.  An error *)
(* that handle_write finds changes nothing and has no action; what becomes *)
(* of a released socket object's descriptor is left out.                   *)
(***************************************************************************)
EXTENDS Integers, FiniteSets, Queues

CONSTANTS Fds,          \* names for descriptors; one without a handle is reused
          NoFd,
          MaxConnects   \* bound on the calls of connect()

ASSUME ConnectorAssumption == NoFd \notin Fds /\ MaxConnects \in Nat

RETRY_DELAY_MS == 500

VARIABLES
  state,        \* state_
  psocket,      \* the descriptor of psocket_, NoFd for nullptr
  pollHd,       \* the descriptor of *poll_hd_, NoFd for nullptr
  registered,   \* descriptors with a handle in the loop's poller
  writing,      \* those whose handle has its write event enabled
  timers,       \* how many retries are scheduled
  delay,        \* retry_delay_ms
  connFd,       \* descriptor of the client's connection
  phase, functors, pending,
  ended,        \* "no", or what the program ended with
  connects,     \* history: calls of connect()
  gaveUp        \* history: an attempt failed for good

sockVars == <<state, psocket, pollHd, registered, writing, connFd>>
retryVars == <<timers, delay>>
loopVars == <<phase, functors, pending>>
vars == <<sockVars, retryVars, loopVars, ended, connects, gaveUp>>

Tasks == {<<"connect", NoFd>>} \cup ({"remove"} \X Fds)

TypeOK ==
  /\ state \in {"stop", "connected", "connecting", "disconnected"}
  /\ {psocket, pollHd, connFd} \subseteq Fds \cup {NoFd}
  /\ registered \subseteq Fds /\ writing \subseteq registered
  /\ timers \in Nat
  /\ delay \in {500, 1000, 2000, 3000}
  /\ phase \in {"dispatch", "run"} /\ functors \in Seq(Tasks) /\ pending \in Seq(Tasks)
  /\ ended \in {"no", "assertion", "null", "timer"}
  /\ connects \in 0..MaxConnects /\ gaveUp \in BOOLEAN

Init ==
  /\ state = "disconnected"
  /\ psocket = NoFd /\ pollHd = NoFd /\ connFd = NoFd
  /\ registered = {} /\ writing = {}
  /\ timers = 0 /\ delay = RETRY_DELAY_MS
  /\ phase = "dispatch" /\ functors = <<>> /\ pending = <<>>
  /\ ended = "no" /\ connects = 0 /\ gaveUp = FALSE

Running == ended = "no"

-----------------------------------------------------------------------------
(* connect_in_loop, with scheduled retries besides the one it stems from   *)

Doubled(d) == IF d * 2 < 3000 THEN d * 2 ELSE 3000

RetryIf(wanted, next, scheduled) ==
  IF wanted THEN /\ state' = "disconnected"
                 /\ timers' = scheduled + 1
                 /\ delay' = next
            ELSE timers' = scheduled /\ UNCHANGED <<state, delay>>

\* Mutations: the delay has no ceiling; only an attempt that did not get as far
\* as poll is retried.
RetryConnect_Unbounded(scheduled) == RetryIf(state # "stop", delay * 2, scheduled)
RetryConnect_OnlyRefused(scheduled) == RetryIf(state = "disconnected", Doubled(delay), scheduled)

RetryConnect(scheduled) == RetryIf(state # "stop", Doubled(delay), scheduled)

Register(fd) ==
  IF pollHd # NoFd
  THEN ended' = "assertion" /\ UNCHANGED <<pollHd, registered, writing>>
  ELSE /\ pollHd' = fd
       /\ registered' = registered \cup {fd}
       /\ writing' = writing \cup {fd}
       /\ UNCHANGED ended

\* Mutation: the case falls through to the next, which releases the socket and
\* schedules a retry.
WaitWritable_FallsThrough(scheduled) ==
  /\ \E fd \in Fds \ registered : Register(fd)
  /\ psocket' = NoFd
  /\ RetryConnect(scheduled)
  /\ UNCHANGED <<connFd, gaveUp>>

\* The connection is under way: wait_writable.
WaitWritable(scheduled) ==
  /\ \E fd \in Fds \ registered : psocket' = fd /\ Register(fd)
  /\ state' = "connecting"
  /\ timers' = scheduled
  /\ UNCHANGED <<delay, connFd, gaveUp>>

\* The errors after which the connector tries again, and those after which not.
Refused(scheduled) ==
  /\ psocket' = NoFd
  /\ RetryConnect(scheduled)
  /\ UNCHANGED <<pollHd, registered, writing, connFd, ended, gaveUp>>

Forbidden(scheduled) ==
  /\ psocket' = NoFd
  /\ timers' = scheduled
  /\ gaveUp' = TRUE
  /\ UNCHANGED <<state, pollHd, registered, writing, connFd, delay, ended>>

ConnectInLoop(scheduled) ==
  WaitWritable(scheduled) \/ Refused(scheduled) \/ Forbidden(scheduled)

-----------------------------------------------------------------------------
(* Calls of the user *)

ConnectOnLoop ==
  /\ Running /\ phase = "dispatch" /\ connects < MaxConnects
  /\ connects' = connects + 1
  /\ ConnectInLoop(timers)
  /\ UNCHANGED loopVars

ConnectFromThread ==
  /\ Running /\ connects < MaxConnects
  /\ connects' = connects + 1
  /\ pending' = Append(pending, <<"connect", NoFd>>)
  /\ UNCHANGED <<sockVars, retryVars, phase, functors, ended, gaveUp>>

\* stop() cancels through retry_timer_, which is null before the first retry and
\* points at a timer_handle that has left its scope after it.
Stop ==
  /\ Running /\ phase = "dispatch"
  /\ state' = "stop"
  /\ ended' = "timer"
  /\ UNCHANGED <<psocket, pollHd, registered, writing, connFd, retryVars, loopVars,
                 connects, gaveUp>>

-----------------------------------------------------------------------------
(* Events of the loop *)

TimerFires ==
  /\ Running /\ phase = "dispatch" /\ timers > 0
  /\ ConnectInLoop(timers - 1)
  /\ UNCHANGED <<loopVars, connects>>

\* handle_write without an error: the client's handle_new_sock takes the socket
\* over, and the connection the handle, which stays in poll_hd_.
HandleWrite ==
  /\ Running /\ phase = "dispatch"
  /\ psocket \in writing /\ state = "connecting"
  /\ writing' = writing \ {psocket}
  /\ connFd' = psocket
  /\ psocket' = NoFd
  /\ UNCHANGED <<state, pollHd, registered, retryVars, loopVars, ended, connects, gaveUp>>

\* handle_error: the attempt has failed, or its socket has been replaced and
\* closed (POLLNVAL).  The events that follow in handle_event find state_ changed.
ErrorLeaving(hd, tasks) ==
  /\ Running /\ phase = "dispatch" /\ writing # {}
  /\ writing' = writing \ {pollHd}
  /\ pending' = pending \o tasks
  /\ pollHd' = hd
  /\ psocket' = NoFd
  /\ IF psocket = NoFd THEN ended' = "null" /\ UNCHANGED <<state, retryVars>>
                       ELSE RetryConnect(timers) /\ UNCHANGED ended
  /\ UNCHANGED <<registered, connFd, phase, functors, connects, gaveUp>>

\* Mutations: poll_hd_ keeps the handle that is to be removed; the handle is
\* forgotten but not removed.
HandleError_KeepsHandle == ErrorLeaving(pollHd, <<<<"remove", pollHd>>>>)
HandleError_NotRemoved == ErrorLeaving(NoFd, <<>>)

HandleError == ErrorLeaving(NoFd, <<<<"remove", pollHd>>>>)

\* The connection has closed: close_connection, and its functor that removes the
\* handle.  poll_hd_ is left as it is.
ConnectionCloses ==
  /\ Running /\ phase = "run" /\ connFd # NoFd
  /\ connFd' = NoFd
  /\ registered' = registered \ {connFd}
  /\ writing' = writing \ {connFd}
  /\ UNCHANGED <<state, psocket, pollHd, retryVars, loopVars, ended, connects, gaveUp>>

SwapPending ==
  /\ Running /\ phase = "dispatch"
  /\ phase' = "run" /\ functors' = pending /\ pending' = <<>>
  /\ UNCHANGED <<sockVars, retryVars, ended, connects, gaveUp>>

RunFunctor ==
  /\ Running /\ phase = "run" /\ functors # <<>>
  /\ functors' = Tail(functors)
  /\ \/ /\ Head(functors)[1] = "connect"
        /\ ConnectInLoop(timers)
     \/ /\ Head(functors)[1] = "remove"
        /\ registered' = registered \ {Head(functors)[2]}
        /\ UNCHANGED <<state, psocket, pollHd, writing, connFd, retryVars, ended, gaveUp>>
  /\ UNCHANGED <<phase, pending, connects>>

EndPending ==
  /\ Running /\ phase = "run" /\ functors = <<>>
  /\ phase' = "dispatch"
  /\ UNCHANGED <<sockVars, retryVars, functors, pending, ended, connects, gaveUp>>

Next ==
  \/ ConnectOnLoop \/ ConnectFromThread \/ Stop
  \/ TimerFires \/ HandleWrite \/ HandleError \/ ConnectionCloses
  \/ SwapPending \/ RunFunctor \/ EndPending

\* The loop goes round.  Of the network: when retries come to an attempt again
\* and again, one of them gets under way, and one under way succeeds.
Spec ==
  /\ Init /\ [][Next]_vars
  /\ WF_vars(SwapPending \/ RunFunctor \/ EndPending)
  /\ SF_vars(TimerFires /\ psocket' # NoFd) /\ SF_vars(HandleWrite)

-----------------------------------------------------------------------------
(* Properties *)

Count(P) == IF P THEN 1 ELSE 0
Queue == functors \o pending
Queued == Cardinality({i \in DOMAIN Queue : Queue[i] = <<"connect", NoFd>>})

\* What leads to a connection: queued calls, scheduled retries, and the attempt
\* under way.
Attempts == timers + Queued + Count(writing # {})

\* poll_hd_ keeps the handle of the attempt that has led to a connection.
Succeeded == pollHd # NoFd /\ writing = {}

\* After one connect() there is at most one of them, or a connection and none of
\* them; and until an attempt fails for good there is no moment without: the call
\* is never lost between the queue, the timer, the handle and the connection.
OneAttempt == connects <= 1 =>
  /\ Attempts + Count(connFd # NoFd \/ Succeeded) <= 1
  /\ connects = 1 /\ Running /\ ~gaveUp => Attempts + Count(Succeeded) = 1

\* The handle of a failed attempt is removed before a retry registers its own,
\* however often connect() is called: the client has one handle in the poller,
\* besides those being removed.
OneHandle == \A fd \in registered \ {pollHd} : Occurs(<<"remove", fd>>, Queue)

\* The retries of one connect() fail no assertion and use no null socket; only
\* a further connect() makes them do so (and stop() ends the program by itself).
FailsOnlyIfCalledAgain ==
  ended \in {"assertion", "null"} => connects > 1

\* An attempt of a single connect() leads to a connection, through however many
\* retries, unless an error it does not retry or a further call comes in between.
KeepsTrying ==
  connects = 1 /\ Attempts > 0 ~> connFd # NoFd \/ gaveUp \/ ~Running \/ connects > 1
=============================================================================

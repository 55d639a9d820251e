# M-Server: a verification project

M-Server (`src/`) is a small reactor-style TCP library in C++: an event loop per
thread around `poll(2)`, timers on a `timerfd`, cross-thread calls through a queue
and an `eventfd`, and TCP servers, clients and connections on top. This directory
holds TLA+ models of its parts, the TLC configurations that check them on small
instances, and TLAPS proofs about each of the models for every instance.

Paths below are relative to `src/src/net/source/` unless they say otherwise.

* [1. The system](#1-the-system): components, state, operations, interactions
* [2. The modules](#2-the-modules): which module models which code, and how
* [3. What is checked](#3-what-is-checked): runs, bounds, fairness
* [4. What is proved](#4-what-is-proved)
* [5. Where the code disagrees with itself](#5-where-the-code-disagrees-with-itself)
* [6. What is not modelled](#6-what-is-not-modelled)
* [7. Plan](#7-plan)

Two facts about the build matter everywhere. `CMakeLists.txt` sets no build type,
so `NDEBUG` is not defined and every `assert` is live: a failed assertion ends the
program, and the models treat it so. And no exception is caught, so `std::length_error`
or `std::bad_function_call` ends it too.

## 1. The system

### Components

| component | state it keeps | operations | what makes it correct |
|---|---|---|---|
| **event_loop** (`event_loop.cc`) | `quit_`, `calling_pending_functor_`, `pending_functors_` under `mutex_`, the poller's active channels | `loop`, `quit`, `run_in_loop`, `queue_in_loop`, `do_pending_functors`, `run_at/after/every` (forwarded to timer_queue) | a queued functor runs exactly once, in order, without waiting for a timeout; `quit()` stops the loop from any thread |
| **poller_waker** (`poller_waker.cc`) | the eventfd's counter | `wakeup_loop`, `handle_read` | a wakeup written after `poll()` was entered ends it, at the counter's ceiling too |
| **loop_thread** (`loop_thread.cc`) | `ploop_`, `mutex_`, `cond_`, the thread | `start_loop`, `start_loop_in_thred`, the destructor | `start_loop` returns a loop that lives; the destructor ends it and joins |
| **thread** (`base/source/thread.cc`) | the `std::thread`, flags | `star`, `join` | one start, one join |
| **timer_queue**, **timer** (`timer_queue.cc`, `timer.cc`) | `timers_` ordered by expiration, the timerfd; per timer its expiration and interval | `add_timer`, `cancel_timer` (both from any thread), `handle_read`, `reset_timers` | the timerfd is armed while a timer waits; nothing runs early, far too late, twice, or after a cancel that found it |
| **poller / spoller** (`poller.cc`, `poll/spoller.cc`) | `handles_` by descriptor, `pollfds_`, each handle's `index_` | `register_polling`, `update_handle`, `remove_handle`, `poll`, `find_active_handles` | slot and handle agree, so exactly what is enabled is polled |
| **poll_handle** (`poll_handle.cc`) | `events_`, `revents_`, callbacks | `enable_*`, `disable_*`, `handle_event` | callbacks in order close, error, read, write |
| **buffer** (`buffer.cc`, `buffer.hh`) | the vector, `read_idx_`, `write_idx_` | `append`, `retrieve*`, `read_socket`, `make_space` | bytes come out as they went in |
| **tcp_connection** (`tcp_connection.cc`) | `state_`, `poll_hd_`, two buffers, four callbacks | `send`, `shotdown`, `handle_read/write/close`, `connection_established/destroyed` | announced once, closed once, released; output complete before the FIN; nothing dangling |
| **tcp_server** (`tcp_server.cc`) | `connections_map_`, its acceptor and loop pool | `start`, `register_connection`, `remove_connection` | each connection in the map until it has closed, and removed on the server's loop |
| **acceptor** (`acceptor.cc`) | listening socket and handle | `listen`, `handle_read` | every accepted socket handed over |
| **loop_thread_pool** (`loop_thread_pool.cc`) | the loop threads, `next_thread_idx_` | `star`, `get_next_loop` | round robin over live loops |
| **connector** (`connector.cc`) | `state_`, `psocket_`, `poll_hd_`, `retry_delay_ms`, `retry_timer_` | `connect`, `stop`, `handle_write`, `handle_error`, `retry_connect` | one attempt at a time; retries lead to a connection |
| **tcp_client** (`tcp_client.cc`) | its connector and its `connection_` | `connect`, `handle_new_sock`, `close_connection` | takes over what the connector made |
| socket, uninet, inet_address | a descriptor or an address | wrappers of system calls | - |
| epoller | - | unfinished, never created | - |
| latch, logger, current_thread, copytype | - | formatting, thread identity | - |

### How they interact

* **Calls from another thread** reach a loop only as functors: push under the mutex,
  then write the eventfd. The loop's side is: `poll()`, handle active channels (the
  waker first: it registered first), then swap the queue out and run the batch.
* **Timers and connections** are handlers of channels on a loop. Their thread-safe
  entry points (`add_timer`, `cancel_timer`, `send`, `shotdown`, `connect`) test
  something on the caller's thread and queue the rest.
* **tcp_server** lives on one loop, its connections on that loop or on a pool's I/O
  thread. Closing goes through both queues: the connection's own functor on its loop,
  `remove_connection_in_loop` on the server's.
* **connector → tcp_client → tcp_connection**: when the socket becomes writable the
  client builds a connection around the socket, which takes over the poll_handle the
  connector leaves in the poller.
* **Lifetime** is shared: `connections_map_` / `connection_`, queued functors and the
  user hold `shared_ptr`s to a connection; the queued write-complete functor and every
  `poll_handle` callback hold only `this`.

### What is hard here

The hazards (40 of them, each at its line) are listed in `PROJECT.json`. The main kinds:

* *Interleavings of callers with the loop*: a push or a `quit()` between any two steps
  of `loop()`; functors queued from functors after the swap; callbacks set on the
  server's thread while the I/O thread already establishes the connection.
* *State tested on one thread and used on another later*: `state_` in `send` and
  `shotdown`, the timer behind a `timer_handle`, the loop behind a `loop_thread`'s pointer.
* *Lifetime*: a connection held by the map, by queued functors of two loops and by its users,
  whose last reference may go in the middle of its own `handle_close`; descriptors that are
  given out again.
* *Ordering*: the close functor against sends of the same iteration, a cancel against a
  queued add, removal of poll handles in an order other than last-in first-out.
* *Numeric edges*: `-1` stored in a `size_t`, a negative `tv_sec`, a timerfd set to zero,
  buffer indices that wrap, strict assertions that fail at equality.
* *Liveness*: a wakeup, a quit, a shutdown, a close or a retry that must take effect.

## 2. The modules

| module | code | role |
|---|---|---|
| `Executor` | `event_loop.hh` (what `queue_in_loop` promises) | abstract specification: a FIFO of functors, each run once |
| `AlarmClock` | `timer_queue.hh` (what its users rely on) | abstract specification: alarms that ring after their time, in order and not too late; a cancel from another thread always ends one, a cancel in the loop only one that waits |
| `ConnectionLife` | `tcp_connection.hh`, `tcp_server.cc` (what host and loop agree on) | abstract specification: a connection's stages, who holds it, and when its name comes back |
| `EventLoop` | `event_loop.cc`, `poller_waker.cc` | the loop, its eventfd, its callers; implements `Executor` |
| `LoopThread` | `loop_thread.cc`, `thread.cc` | EXTENDS `EventLoop`: the thread on whose stack the loop lives |
| `TimerQueue` | `timer_queue.cc`, `timer.cc`, `sys_fd.cc` | timers, timerfd, clock; implements `AlarmClock` |
| `Poller` | `poll/spoller.cc`, `poll_handle.cc` | the slots of `poll(2)` |
| `Buffer` | `buffer.cc`, `buffer.hh` | operators on sizes and indices |
| `TcpConnection` | `tcp_connection.cc`, parts of `tcp_server.cc`, `tcp_client.cc` | EXTENDS `Buffer`: one connection with its host and its users; implements `ConnectionLife` |
| `TcpServer` | `tcp_server.cc`, `acceptor.cc`, `loop_thread_pool.cc`, the ends of `tcp_connection.cc` | a server from `start()` to its destructor, with all its connections and their loops; implements `ConnectionLife` |
| `Connector` | `connector.cc`, `tcp_client.cc` | connection attempts and retries |
| `Queues` | - | occurrences in a queue: `Occurs`, `Distinct`, `AtMostOnce` |
| `QueueFacts` | - | lemmas on appending to a queue, taking its head and joining two |
| `EventLoopProofs`, `LoopThreadProofs`, `PollerProofs`, `TimerQueueProofs`, `TcpConnectionProofs`, `TcpServerProofs`, `ConnectorProofs` | - | theorems about the module of that name |
| `MC*` | - | instances for TLC |

Composition: `LoopThread` uses every action of `EventLoop` and adds the loop's birth and
death. `TimerQueue`, `TcpConnection`, `TcpServer` and `Connector` see the loop in the form that
`EventLoop` shows it to have: an iteration is events first, then the functors queued
before the swap, first in first out; a functor queued meanwhile waits for the next
iteration. That `TcpServer` sees a connection as `TcpConnection` has it is what `ConnectionLife` is
for: the module says how the host and the loop of a connection go on together, and both
implement it, the one for each of its descriptors, the other in every detail of one.

Operators whose name ends in a suffix after an underscore and whose comment says *Mutation* are faulty variants of the operator they precede, kept to show that the
properties notice them; no specification uses them.

### EventLoop

`loopPc` is the owner's place in `loop()`: `outside`, `check` (the test of `quit_`),
`poll`, `dispatch` (handlers of active channels), `begin` / `swap` / `run` (the three
steps of `do_pending_functors`). A caller's two steps are separate: `QueueInLoop` or `Quit`
(push, or set the flag), then `WakeupLoop` (write the eventfd), with `callPc` in between.
What handlers and functors do to their own loop is `OwnerQueueInLoop` and `OwnerQuit`.
`wakeups` is the eventfd's counter: a write at `EventfdMax` fails, a read empties it.
`run_in_loop` is `QueueInLoop` off the loop's thread and a plain call on it.
`ran` and `early` (functors the owner queued before `loop()`, which get no
wakeup) are history.

### LoopThread

`threadPc` follows the started thread (`constructing` the loop, `published`, `looping`,
`gone`), `mainPc` the thread that owns the object through `start_loop` (with the
condition variable, spurious wakeups included) and the destructor (`quitting`,
`joining`, `done`). `star()` may fail to create the thread (`threadPc = "failed"`): the
exception of `std::thread` is caught there and not passed on, so `start_loop` waits for ever. Critical sections are one step. A use of the loop after its
destruction sets `touchedDead` and is followed no further. Clients start the thread once
and begin no call after the destructor has begun; they may call `quit()` themselves, as
`src/test/04_loop_thread.cc` does.

### TimerQueue

Time is a counter of ticks, `Sec` and `Milli` of which make a second and a millisecond. The
loop goes through `poll`, `timerfd` (`handle_read` up to the batch), `callbacks`, `others`
(other channels), `functors`. `Tick` lets time pass in user code, `MaxBlock` ticks per
iteration; `poll()` does not oversleep. `deadline` is when the timerfd becomes readable.
`reset_expieration_from_now` computes what `timerfd_settime` gets: at least `Milli`, unless a
whole second has been missed, when the negative `tv_sec` makes the call fail and the
timerfd stays as it was. `ops` is the queue of adds and cancels of other threads. A timer
object is `Live` while a queued add, `timers_` or the batch owns it; use of another is
recorded in `freedUsed`.

A call of another thread may be held up for `MaxStall` ticks between `clock::now()` and the moment
its functor is queued and the loop awake: `AddFromThread` takes the time `at` it has read, and its
last conjunct is the push. A call made in the loop reads the clock, inserts and arms in one instant.

Its refinement of `AlarmClock` looks through all this at one timer (`Stage`): queued, waiting
(in `timers_`), called (in the batch before its callback), ringing (in the batch, after it)
or ended. Popping the batch is `Call`, `reset_timers` is `Rewind`; the iteration and the timerfd
are stutters. A cancel that finds its timer is `Cancel`, or `Serve` when it comes from another
thread. `cancel_timer_in_loop` looks in `timers_` only: a cancel made in the loop while the timer's
add is queued, or while `handle_read`'s batch has it, is `Miss`, and is remembered in `missed`.

### Poller

`handles` maps a descriptor to its handle's `index_` (from 1 here) and `events_`; `pollfds` is
the vector. An access out of bounds, or through `handles_.end()`, sets `undefined`. The
clients' rules are in the guards: the eventfd and the timerfd stay; other handles are
removed with no event enabled, and from a functor, never while results of `poll()` are being
handled. `disordered` records that a handle other than the vector's last was removed.

### Buffer and TcpConnection

`Buffer` keeps the vector's size and the two indices, modulo `Word`, as `size_t` does, and
gives each operation the fault it can end in: an assertion, `length_error`, or a copy past the
end. `append` does not advance `write_idx_`, and the assertions of `retrieve` and
`ensure_writeable_bytes` are strict, as in the code.

`TcpConnection` is one connection, `host` being a server or a client on the same loop (`same`) or a
server that gave it to an I/O thread (`io`). The two on the same loop do the same to it:
they construct it, set its callbacks before its loop goes on, and drop it from `close_cb_` in
place. Under either the user may have set a write-complete callback, which `set_write_complete_callback`
lets anybody do, so each send chooses whether its functor is queued. `phase` is where its loop is;
each callback is a phase of its own, in which the user may retrieve, send, shut down, keep
or drop the `shared_ptr`. Users also act in other handlers and functors of the loop, and on
other threads (`callPc`: the test of `state_`, the assignment, the push and the return are
separate steps). `handle_close` is two steps: up to the return of `close_cb_` (phase
`closing` follows), and the push of its functor, which needs the connection still to be
there (`ended = "expired"` if it is not). `cbs` counts the callbacks already set, in `register_connection`'s order:
on an I/O thread the constructor's functor may run before them. `ended` names what ended the
program: an assertion on `state_`, on the host's reference (`dropped`), on enabled events at
the removal, in the buffer, on `write()`'s result; an empty callback; or a use of a destroyed
`handle`, `message` or `object`. Bytes are counted (`unread`, `unsent`), not kept. `unsent`
can become negative: bytes written that nobody sent.

The refinement of `ConnectionLife` takes the stage from `state_`, the handle, and whether the host
has been told (`Told`). `state_` alone would not do: `send` and `shotdown` on other threads
change it at any time. `over` is `FALSE`: this host never ends.

### TcpServer

Loop 0 is the server's own, loops 1 to `loops_` are the pool's. `phase` follows the server's
thread: `open` until `loop()` returns, `left`, `cleared` once the destructor has emptied
`connections_map_` and ended the acceptor, `gone` when the pool's threads are joined. The
program destroys its server after the loop has returned, as the tests and the example do.

A connection has the name of its descriptor, and `stage` (`new`, `open`, `closing`, `closed`),
`owner` (its loop) and `queue` (per loop, functors of three names) are what the server and other
connections see of it; its input, output and users' calls are `TcpConnection`'s, the slots of
its handle `Poller`'s. `Held` lists who has a `shared_ptr`: the map, users, the queued removal
and close functors, and the functors of a batch that have run (`spent`), which are destroyed
only with the batch (`EndBatch`). A descriptor is `Free`, and may be returned by `accept()`
again, when nobody holds its connection. `closing_on` is the connection that stands
between `close_cb_`'s return and the rest of `handle_close` on a loop: it belongs to the event
under way, and no other step of that loop comes in between. That moment is the stage `ending` of
`ConnectionLife`; its `removing` are the removals in loop 0's queue, and `over` holds from the
destructor's `connections_map_.clear()` on.

`Start` is `star()` and `listen()`, `HandleRead` one `accept()` with every outcome: a new
descriptor, none because the peer has gone, none because no descriptor is left, when the
peer stays in the backlog. `register_connection` is two steps. The first takes `get_next_loop`'s
loop, constructs the connection and queues the establishment, which holds no reference; the second
(`SaveConnection`) puts it in the map and sets its callbacks. In between only
`register_connection`'s pointer holds it (`registering`; `Kept` is that and the map), an I/O
thread may already run the establishment, unheard by the user, and an event
there ends the program with a callback that is still empty (`ended = "callback"`). `HandleClose`, `QueueClose`, `RunRemove` and `RunClose`
are the two halves of a close and the functors of two loops they queue; `DestroyConnections`, `JoinThread`
and `ServerGone` are the destructor, member by member, with the pool's loops running.

### Connector

The attempt under way (`psocket`, `pollHd`), handles in the poller, scheduled retries
(`timers`), the client's connection (`connFd`) and the loop's queue (`functors \o pending`). Each of `connect_in_loop`'s three groups
of errno is an alternative (`WaitWritable`, `Refused`, `Forbidden`). `retry_delay_ms` has its
real values 500, 1000, 2000, 3000: the code's ceiling is the literal 3000, its constant
`MAX_RETRY_DELAY_MS` (30000) is unused. `stop()` ends the program, because
`retry_timer_` is null before the first retry and afterwards the address of a local
variable of `retry_connect`; `reconnect()` is `assert(false)` and has no action.

## 3. What is checked

### Runs

Runs marked *violation* show a disagreement between code and documentation (section 5).

| run | module | instance | states | shows |
|---|---|---|---|---|
| `event_loop` | EventLoop | 2 callers, 3 functors, eventfd ceiling 2 | 55,107 | `NoLostWakeup`: the loop never blocks on a queued functor with no wakeup due. `QuitNotMissed`. `ExactlyOnce`. `ExecutorSpec`: implements the FIFO executor. `FunctorsRun`, `QuitStops`: both without the timeout and without I/O |
| `loop_thread` | LoopThread | owner and one more thread, 2 functors | 7,246 | `LiveUntilQuit`: the loop handed out lives until somebody quits it. `StartReturns`: no missed notification. `DestructorReturns`, except in the two cases it names |
| `loop_thread_lifetime` | LoopThread | 1 functor | violation | `NoUseAfterDestroy` |
| `timer_queue` | TimerQueue | 2 timers, delays 0 and 2, second 4, millisecond 1, iterations and calls up to 1, clock to 7 | 1,682,497 | `ArmedWhilePending`; `OnlyFiredDangle`: only a fired one-shot can be cancelled after its end; `AlarmSpec`: implements the alarm clock: no timer early, none four iterations, a call and a millisecond late, all in order, one-shots once; none after a cancel that was queued or found it waiting, while the other cancels miss (section 5) |
| `timer_queue_stall` | TimerQueue | 1 timer, iterations up to 4 ticks (over a second) | violation | `ArmedWhilePending` |
| `poller` | Poller | eventfd, timerfd and 3 descriptors that come and go | 135,658 | `SizesAgree`; `PermanentPolled`: the loop's own slots survive everything; `MirroredWhileOrdered`: all slots are right under last-in first-out removal |
| `poller_removed` | Poller | the same | violation | `RemovedNotPolled` |
| `tcp_connection` | TcpConnection | two hosts, 2 other threads, messages of 1 and 2, buffers of 1+2, word 16 | 721,075 | see below |
| `tcp_connection_output` | TcpConnection | messages of 2, buffers of 1+3, one more unsent byte | violation | `PeerGetsOnlySent` |
| `tcp_server` | TcpServer | 2 descriptors, 0 to 2 I/O threads, backlog 2 | 31,269 | see below |
| `tcp_server_expired` | TcpServer | the same | violation | `OutlivesItsClose` |
| `connector` | Connector | 3 descriptors, 3 calls of `connect` | 12,630 | `OneAttempt`: the retries of one `connect()` never overlap, and none is lost; `OneHandle`: however often it is called, a handle in the poller is `poll_hd_`'s or queued to be removed; `FailsOnlyIfCalledAgain`; `KeepsTrying` |

Every passing run also checks its module's type invariant. What `tcp_connection` shows:

* `InputConserved`: the input buffer holds what was read and not retrieved.
* `AnnouncedInPairs`: at most one establishment and one destruction reach the user, in
  that order (on an I/O thread the first may be missed, never the order of the rest).
* `OnlyKnownFailures`: the assertions on `state_` and on the host's map never fail. The
  assertion on enabled events at the removal and the use of a released connection need a
  send between `handle_close` and its functor. An empty callback is called only
  on an I/O thread. (The end of a connection inside its own `handle_close` is `tcp_server_expired`'s.)
* `OnlyLateCallsDangle`: the removed poll_handle is used only by a call that another thread
  queued after `handle_close`.
* `LifeSpec`: under each kind of host it implements `ConnectionLife`, so `TcpServer`'s view of
  it is right.
* `FinAfterFlush`: the FIN does not cut accepted output off, unless the peer's end of
  stream came first: `handle_close` gives pending output up.
* `ClosedIsReleased`, `ShutdownHappens`: a closing connection leaves the loop and its host;
  a shutdown asked for happens, unless output waits, the peer closes first or the program ends.

All causes of `ended` other than `state` and `dropped`, which the property excludes, are reachable in this
instance, so the implications are not vacuous.

What `tcp_server` shows:

* `HeldByServer`: while the server is open, the map, or `register_connection` before the map does, holds every
  connection that has not begun to close. The establishment functor holds no reference, and needs
  none because of this, even when an I/O thread runs it before the connection is in the map.
* `FreeIsForgotten`: whoever lets a connection go last, on whichever thread, its descriptor
  is closed only when the loop has neither a handle nor a functor left for it, so the next
  connection to get the same descriptor meets nothing of this one.
* `OnlyDestructionDangles`: `remove_connection_in_loop`'s assertion never fails; a
  connection that is gone is used by an event or functor only in the destructor's window,
  with the map gone and the pool's loops still running. That window is real: TLC finds
  `ended = "dangling"` there.
* `LifeSpec`: every descriptor goes through one connection's life after the other, as
  `ConnectionLife` has it, over both loops' queues and through the destructor.
* `BacklogDrains`: peers are accepted while there is a descriptor; with none left they wait (and
  the loop spins, which the model does not count).
* `DescriptorsReturn`: a connection that begins to close is let go through the
  queues of both loops, unless a user keeps it or the server closes.

### Bounds

* *Two callers* make every race of push, swap, drain and write between callers; a third adds
  no new pair, and the proofs in section 4 remove the bound. *Ceiling 2* lets the eventfd
  saturate. A functor is queued at most once: the functors of a run are instances, not
  functions, and three suffice for order and for one queued in each of loop, caller and functor.
* *Timers*: two timers give earlier-than-first, equal, and batches of two; delay 0 gives an
  expiration already past; the clock ends after two seconds, when both timers can have
  repeated. `2 * MaxBlock + MaxStall < Sec` keeps the passing run where no whole second is missed; the
  violation run removes just that. The proof in section 4 removes the other bounds. Lateness counts
  the call that queues a timer, the iteration that runs then, the one it is added in, one that another event
  starts just before the timerfd is readable, and its own: less than four iterations and a call, and `Milli` for the rounding.
* *Poller*: three transient descriptors are the least for which a removal moves a slot and
  the moved handle is removed in turn with another in between.
* *Connection*: `Word = 16` lets indices wrap and `length_error` occur; messages of 1 and 2 in a
  buffer of 2 can be written in part, fit, fill it, and grow it. `MaxUnsent` and `MaxPending` bound
  only what a user on the loop starts; other threads have one call each.
* *Server*: two descriptors, so that one can be used again while the other's connection lives;
  no, one or two I/O threads, so that the removal runs in place, crosses one queue, and the
  round robin comes round; a backlog of two, so that one peer can still wait when the last
  descriptor is taken. Descriptors are reused without end, so the number of
  connections is not bounded.
* *Connector*: three calls, so that one can collide with the outcome of two others; three descriptors, since at
  most two have a handle at a time during the retries of one call.

Symmetry is not used: most runs check liveness or distinguish the elements.

### Fairness

* `EventLoop`: weak fairness of the loop's steps, where `poll()` is assumed to return only
  when the eventfd is readable, so no timeout and no I/O helps; and of a
  caller's second step. Nobody must call `loop()`, `queue_in_loop()` or `quit()`.
* `LoopThread`: the same, and of both threads' own steps: threads are scheduled.
* `TcpConnection`: the loop and the server's thread go on, callbacks and begun calls return.
  No user and no peer has to do anything.
* `Connector`: the loop goes round. *Strong* fairness on a scheduled retry getting under way
  and on an attempt succeeding is an assumption about the network (attempts that come
  again and again are not all refused), without which no retry could promise anything.
* `TcpServer`: every loop comes back to its events and functors, finishes a `handle_close` and
  a `register_connection`, ends its batch, and the destructor goes on: weak fairness. Running functors and
  accepting have *strong* fairness, since other events of the loop disable them again and again;
  an iteration of the loop handles all that `poll()` reported, which is level-triggered, and all
  that was queued before its swap, so neither can be passed over for ever.
* `TimerQueue` and `Poller` have safety properties only; `AlarmClock` bounds
  how late a timer may be, which is what liveness would leave open.

### Deadlock

`EventLoop` and `Poller` are checked for deadlock. The others stop where the
system does: `LoopThread` when the destructor has returned, `TimerQueue` at the end of the
bounded clock, `TcpConnection` and `Connector` when the program has ended, `TcpServer` when it
has or when the server is gone.

### Mutants

For each property of each passing run `PROJECT.json` names a faulty variant of one modelled
definition (a lost wakeup after a push from a functor, the eventfd drained after the functors, a wait without predicate,
no rounding to a millisecond, an index off by one, events left enabled by
`handle_close`, a round robin that goes one loop too far, a functor that captures no reference, and so on) under which the property fails in the run's own configuration.

## 4. What is proved

The theorems hold for every value of the constants that the modules' named assumptions allow:
any number of threads, functors, timers, descriptors, messages and calls, any buffer sizes.

| module | theorem | property | meaning |
|---|---|---|---|
| `EventLoopProofs` | `TypeCorrect` | `TypeOK` | the eventfd's counter, too, stays within its ceiling |
| | `WakeupsKept` | `NoLostWakeup` | no wakeup is lost |
| | `QuitKept` | `QuitNotMissed` | no `quit()` is slept through |
| | `ImplementsExecutor` | `ExecutorSpec` | the loop with its swap is a FIFO executor |
| | `RunsAtMostOnce` | `ExactlyOnce` | no functor runs or waits twice |
| `LoopThreadProofs` | `ThreadTypeCorrect` | `TypeOKThread` | types, through the loop's end |
| | `HandedOutAlive` | `LiveUntilQuit` | the loop handed out lives until a quit |
| | `WakeupsKeptOnThread` | `NoLostWakeup` \* | `EventLoop`'s result holds for a loop that is born and ends |
| | `QuitKeptOnThread` | `QuitNotMissed` \* | so does this one |
| | `ThreadImplementsExecutor` | `ExecutorSpec` \* | and the refinement, through the loop's start and destruction |
| | `RunsAtMostOnceOnThread` | `ExactlyOnce` \* | and this |
| | `StartHeard` | `SleepIsHeard` \* | `start_loop` sleeps only while it is still to be notified |
| | `DestructorHeard` | `JoinIsHeard` \* | the destructor joins no loop that sleeps through its quit |
| | `UsedDeadOnlyAfterQuit` | `SafeUntilQuit` \* | a destroyed loop is used only after somebody called `quit()` |
| `TimerQueueProofs` | `TypeCorrect` | `TypeOK` | types |
| | `OneShotsRunOnce` | `OneShotOnce` \* | a one-shot runs once and is gone |
| | `CancelsAreFinal` | `ErasedForGood` \* | a timer that a cancel found waiting never comes back |
| | `OwnedUntilFired` | `OnlyFiredDangle` | only a fired one-shot is used after its end |
| | `TimerfdArmed` | `ArmedWhilePending` | the timerfd is armed while a timer waits |
| | `LatenessBounded` | `BoundedLateness` \* | less than four iterations, a call and a millisecond late |
| | `ImplementsAlarmClock` | `AlarmSpec` | the timer queue is an alarm clock, down to which cancels miss |
| `PollerProofs` | `TypeCorrect` | `TypeOK` | types |
| | `SlotPerHandle` | `SizesAgree` | one slot per handle |
| | `OwnHandlesPolled` | `PermanentPolled` | no removal disturbs the loop's own slots |
| | `MirroredInOrder` | `MirroredWhileOrdered` | all slots are right under last-in first-out removal |
| `TcpConnectionProofs` | `TypeCorrect` | `TypeOK` | types; the input buffer's indices never wrap |
| | `InputKept` | `InputConserved` | input is what was read and not retrieved |
| | `AnnouncedOnce` | `AnnouncedInPairs` | one establishment, then one destruction |
| | `AssertionsHold` | `OnlyKnownFailures` | which failures are possible, and after what |
| | `CallsInTimeAreSafe` | `OnlyLateCallsDangle` | a call queued before `handle_close` finds the handle |
| | `FinWaits` | `FinAfterFlush` | `shotdown` cuts no accepted output off |
| | `ImplementsConnectionLife` | `LifeSpec` | the detailed connection goes through the stages its host relies on |
| | `ShutdownNeverForgotten` | `ShutdownDue` \* | a shutdown asked for always has somebody who will see to it |
| | `ReleaseNeverForgotten` | `ReleaseDue` \* | so has a connection that closes, on its loop and with its host |
| `TcpServerProofs` | `TypeCorrect` | `TypeOK` | a connection's loop has been started |
| | `ServerHolds` | `HeldByServer` | the map or `register_connection` holds what has not begun to close |
| | `ReuseIsSafe` | `FreeIsForgotten` | a descriptor comes back forgotten |
| | `DanglesOnlyAtTheEnd` | `OnlyDestructionDangles` | nothing dangles before the destructor |
| | `ImplementsConnectionLife` | `LifeSpec` | so does every descriptor of the server, again and again |
| | `MapIsExact` | `HeldExactly` \* | they hold what has not begun to close and what is queued to be removed, and no more |
| | `ClosingNeverForgotten` | `ReturnsDue` \* | a connection that closes has its functor and its removal queued |
| `ConnectorProofs` | `TypeCorrect` | `TypeOK` | types |
| | `HandlesAccounted` | `OneHandle` | every handle is `poll_hd_`'s or queued to be removed |
| | `AttemptsOnce` | `OneAttempt` | one `connect()`, at most one attempt, and never none before it fails for good |
| | `OneCallIsSafe` | `FailsOnlyIfCalledAgain` | one `connect()` fails no assertion |

Every invariant and action property that a passing run checks is thus also proved, and so are the
four refinements. The properties marked \* are in no run of their own: those of `LoopThread`
and `TimerQueue` follow from properties that are, by `EventLoop`'s and `AlarmClock`'s step;
the others are the safety halves of the leads-to properties of the runs (`StartReturns`,
`DestructorReturns`, `ShutdownHappens`, `ClosedIsReleased`, `DescriptorsReturn`, and in `OneAttempt` of
`KeepsTrying`): what must happen is never lost, so that only fairness is left for it to happen.

### Assumptions

`EventfdMaxAssumption` (a positive ceiling), `MainAssumption` (the loop_thread's owner is a
thread), `TimeAssumption` (`Milli` is at least a tick and at most `Sec`; iterations take
time, and calls of other threads may), `FdAssumption` (the loop's own descriptors are distinct, and neither transient nor the
ignored one), `BufferAssumption` (the initial sizes fit in half of `size_t`),
`HostAssumption`, `LengthAssumption`, `BoundAssumption` and `ConnectorAssumption` (the kinds of
host, numbers are numbers, `NoFd` is none). TLC evaluates each of them. Three theorems have a
hypothesis more: `TimerfdArmed`, `LatenessBounded` and `ImplementsAlarmClock` need
`ShortIterations == 2 * MaxBlock + MaxStall < Sec`, which is no assumption of `TimerQueue` because the run
`timer_queue_stall` is about what happens without it.

### EventLoop

`NoLostWakeup` speaks of two control points, `check` and `poll`, and is not
inductive. `IInv == TypeOK /\ Control /\ WakeInv /\ QuitNotMissed` is:

* `Control`: `calling_pending_functor_` is set exactly in `swap` and `run`; a batch exists
  only in `run`; active channels only in `dispatch`.
* `WakeInv`: at `outside`, `check`, `poll` and `run` every waiting functor not queued early has a
  wakeup due (`QueuedHaveWakeup`).

The argument follows a functor once round the loop. The swap empties the queue, so `WakeInv` holds
when `run` begins. Whatever is pushed from then on comes with a write: by its caller,
or by the owner, since `calling_pending_functor_` is still set. Only `HandleWaker` consumes a
write, and it is followed by the next swap before any of the four control points comes
again. A write at the ceiling fails but leaves the eventfd readable (`WriteWakes`). Had the
flag been set after the swap, or the eventfd drained after the functors, the step lemma
for that action would not hold.

The refinement maps the abstract queue to `functors \o pending_functors`. Pushes append at
the end, `FunctorReturns` takes the head, and the swap, which moves the whole vector
while `functors` is empty (`Control`), leaves the concatenation as it is. `RunsAtMostOnce`
follows from guards that queue a functor only once, through `QueueFacts`, which relates
occurrences in a queue to those in its tail, its extension and its parts.

### LoopThread

While the loop exists, every step is a step of `EventLoop` or leaves its variables alone
(`StepOfLoop`); the one exception is a write that a caller makes after the loop's end. So
`EventLoop`'s step lemmas carry over. `LifeInv` adds what ties the two threads: `Published` (the
owner goes on only with `ploop_` set, which says how far the thread is), `LeftForQuit` (the thread leaves
`loop()` only for a `quit()` somebody called) and `NotYetCalled` (nobody calls a loop not handed out).

`EndInv` is about the end: `QuitRemembered` says that a `quit()` somebody called is still in `quit_`
while the loop lives, unless `loop()` overwrote it, so with `QuitNotMissed` the loop that the
destructor joins is on its way out. `SleepIsHeard` excludes the missed notification:
`start_loop` tests `ploop_` and goes to sleep in one critical section, in which the thread cannot publish.
The refinement of `Executor` is `EventLoop`'s own, step for step; the destruction of the loop
changes neither of its variables.

### TimerQueue

* `Ownership` gives each timer object at most one owner among queued adds, `timers_` and the batch,
  and `Ends` follows a one-shot through its only callback and an erased timer out of all of
  them; the first three safety theorems follow.
* `OnTime` bounds, at every point of an iteration, how long ago each timer expired, according to who
  holds it: `PoppedAtNow` (the batch), `QueuedOnTime` (a queued add waits for this iteration or the
  next), `LeftForNext`, `ArmedInTime` (the timerfd's deadline is past no expiration by more than two
  iterations and the rounding), `WaitingOnTime`, `RunningOnTime`. Since two iterations and a caller's stall are
  together shorter than a second, no parsed duration has a negative `tv_sec`, so `timerfd_settime`
  never fails, which is what keeps the timerfd armed. That a finite set of expirations has a least
  one is proved with the library's finite-set theorems.
* `ImplementsAlarmClock` needs both: `Ownership` gives each timer one stage, and `OnTime` the
  bound on `Pass`. Five steps are not a matter of the mapping alone. `HandleRead` calls a batch only when
  none is out, and `CancelInLoop` misses only a timer that is not in `timers_`. `RunCallback` takes the first of
  a batch, which must be before everything in `timers_` as well. `ResetTimers` ends or
  sets again all that rang in one step. `RunCancel` must find its timer waiting or ended: the batch is
  empty when functors run, and an add stands before every cancel of its timer in the queue.

### Poller

The removal leaves a stale `index_`, so slots and handles do not agree in general (section 5). What
survives is proved from `Behind` (every transient handle's index, stale or not, is behind the loop's own
slots), `OwnSlots` and `Sizes`. While removals are last-in first-out, `Ordered` adds that
indices are one to one with slots. `SwapPop` is the lemma on the vector's swap and `pop_back`.

### TcpConnection

Two invariants. `Input`: while the program runs, the input buffer fits its size and holds `unread` bytes;
it rests on lemmas about `size_t` arithmetic and each operation of `Buffer`. `Life`, over
`Queue == functors \o pending`: nothing but the establishment is queued before it (`Unborn`,
`Unbuilt`, `Born`); events are enabled only on a registered handle, and after `handle_close` only by
a late send (`Polled`); the close functor is queued once, after `handle_close` (`ClosedOnce`);
what was queued in time stands before it (`Timely`); the host holds the connection until it is
told, once (`Hosted`); and a batch lasts as long as its phase (`Batched`). When the program
has ended only what is `Promised` remains: `Control == IF Running THEN Life ELSE Promised`.

`FinWaits` is an action property. Its invariant `Flushed` says that output which waits keeps the write
event enabled until `handle_close`. It holds because `retrieve`'s strict assertion never lets
`handle_write` find the buffer empty (`NeverDrained`): the branch that disables the event, and with it
a shutdown asked for while output waits, is never reached.

`ImplementsConnectionLife` follows from `Life`: `Unborn` and `Born` let the establishment run once, `ClosedOnce`
makes the close functor that runs the only one, and `Hosted` makes the removal find the connection
with its host. `Quiet` names what the rest of the steps, by far the most, have in common. `ShutdownDue` is
inductive together with `Control`: most steps leave the obligation where it is (`DueKept`), and
in the others whoever takes it over does so in the step in which the last one lets it go, from the
caller to the queue, to the writable event, to `handle_write`'s callback. `ReleaseDue` adds to `Life` only what the host's thread owes (`LetGo`).

### TcpServer

A descriptor nobody holds must be forgotten, and its name comes back while functors of other
connections wait. The invariant therefore says which functors a connection can have queued at
each stage, on which loop (`QueuedAtStage`), each at most once (`QueuesDistinct`); that a
connection in stage `closing` is inside `handle_close` (`InHandleClose`) or in the queued functor
that ends it (`ClosingIsQueued`), which holds it; and that before that the map or
`register_connection` does (`HeldUntilDestruction`), the latter only while the server's loop is in
a handler of its own (`RegisteringInLoop`). `Startup` keeps the pool empty before `start()`.

The same invariant carries the refinement of `ConnectionLife`. `MapIsExact` is then proved of
`ConnectionLife`, where its invariant `LifeInv` has three conjuncts, and holds of the
server because the server implements it.

### Connector

`Shape`, for any number of calls: `poll_hd_`'s handle is the only one that can become writable or
carry the connection, and each handle is queued for removal at most once, after `poll_hd_` has
let it go (`Handles`). `Single`, up to a second call: queued calls, scheduled retries, the
attempt under way and the connection are at most one in all, which excludes the assertion on
`poll_hd_` and a null `psocket_`; and one of them is there until an attempt fails for good, since
`handle_error` and `handle_write` find a `state_` other than `stop` and so never let
the attempt go without a retry or a connection.

### Only model-checked

Liveness (`FunctorsRun`, `QuitStops`, and all leads-to properties), which needs `ENABLED` and
fairness, beyond the prover's reach, though of most the safety half is proved; and the
violations, whose evidence is a trace. No module declares a RECURSIVE operator.

## 5. Where the code disagrees with itself

The first five have a run with a counterexample.

1. **A loop is used after its end** (`loop_thread.cc:18`, run `loop_thread_lifetime`). `quit()`
   sets `quit_` and only then wakes the loop. The loop may see the flag first and be
   destroyed with its thread's stack; the same `quit()` then writes through its handle. Calling `quit()`
   and then the destructor, as `src/test/04_loop_thread.cc` does, uses it a second time.
2. **The timerfd is left unarmed** (`timer_queue.cc:127`, run `timer_queue_stall`). A timer added
   from another thread while the loop is busy for more than a second beyond its expiration
   gives a negative `tv_sec`; `timerfd_settime` fails and nobody looks. No timer runs until an
   earlier one is added. A caller that is itself held up for a second between `clock::now()` and the
   push of its functor gets there with any loop: the theorems about the timerfd
   therefore bound both (`ShortIterations`).
3. **A removed descriptor stays polled** (`poll/spoller.cc:111`, run `poller_removed`).
   Removing a handle moves the last slot into its place but does not update the moved
   handle's `index_`. Its own removal then drops another handle's slot.
4. **The peer gets bytes nobody sent** (`tcp_connection.cc:117`, run `tcp_connection_output`).
   After a partial write, `append` copies the rest without advancing `write_idx_`, and
   `handle_write` writes `writeable_bytes()`, not `readable_bytes()`; then the strict
   assertion in `retrieve` ends the program.
5. **A connection ends inside its own `handle_close`** (`tcp_connection.cc:157`, run
   `tcp_server_expired`). `close_cb_` gets a temporary `shared_ptr`. When the server's loop
   removes the connection before `close_cb_` returns, that temporary is the last reference, and the
   next line takes `shared_from_this()` of a destroyed object. On the server's own loop (no I/O threads), and in
   `tcp_client`, this is every close of a connection no user keeps; with I/O threads it is a race.
6. **A cancel may remove nothing** (`timer_queue.cc:114`). `timer_queue.hh:52` calls `cancel_timer` a
   *thread-safe function to remove timer*. Made in the loop it acts at once, and on `timers_` only. A
   repeating timer that is cancelled in its own callback, or in that of another timer of the same batch, is
   not there, and `reset_timers` puts it back: it repeats for ever. A timer whose add another
   thread has queued is not there either, and is added afterwards. This one has no
   run of its own, and no property of the passing runs claims otherwise: `AlarmClock` has it
   as `Miss`, which `AlarmSpec` allows for exactly these cancels. All others end their timer.

Behaviour the models contain without a finding, since no comment or test promises
otherwise: `EAGAIN` from `write()` or `readv()` becomes a huge `size_t` and ends the program at
an assertion or an exception; `send` from another thread queues references to the caller's string and to
a local, which dangle when it returns first (`ended = "message"`); a further `connect()`
fails the assertion on `poll_hd_`; a failed attempt leaks its descriptor.

## 6. What is not modelled

| part | why |
|---|---|
| a failing `poll()` | `reserve(-1)` throws and the process ends; nothing to interleave |
| a `bind` or `listen` that fails | only logged; the server then behaves as one no peer reaches |
| destroying a server while its loop runs | the tests and the example never do |
| `thread`'s detaching destructor and its `started()` flag | loop_thread always joins and does not read the flag |
| destroying a loop_thread never started | dereferences a null pointer at once |
| negative delays | nobody in the repository passes them |
| high-watermark callback | set by nobody in `src/src` |
| `tcp_connection::handle_error` | only logs |
| `tcp_client`'s destruction; `disconnect`, `stop` | the former happens only after `loop()`, as the program ends; the latter have no definition |
| socket, uninet, inet_address | system-call wrappers; of them the models have the life of a descriptor from `accept()` to `~socket` and the results of `write()`, `readv()`, `accept()` and `connect()` |
| epoller | unfinished; `create_poller` makes an spoller |
| latch | constructed by `thread`, its calls commented out |
| logger, current_thread, copytype | no state other components depend on |

The bytes of messages, names, addresses and log lines are abstracted everywhere. Uses that
fail at once and that no comment or test promises to work (`connector::stop()`, a `send` from
another thread that outlives its string, `write()` returning -1) end the model with their cause and have no property.

## 7. Plan

Done, in this order: EventLoop (the mechanism everything else relies on) with its abstract
specification and proofs, LoopThread, TimerQueue, Poller, Buffer and TcpConnection, Connector,
TcpServer with the acceptor and the pool; then proofs about each of them.

What would add most from here:

1. **tcp_client's destruction** with a connection or an attempt under way, composed
   with Connector and TcpConnection.
2. **The remaining safety halves**: that a peer in the backlog, or a functor and a timer of a loop that
   runs, always has the event that brings it on (`BacklogDrains`).
3. **An abstract specification of the poller** (a set of descriptors with their events), which `Poller`
   implements as long as removals are last-in first-out.

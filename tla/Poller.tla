------------------------------- MODULE Poller -------------------------------
(***************************************************************************)
(* The poll(2) poller (spoller.cc, poll_handle.cc): handles_ maps a        *)
(* descriptor to its poll_handle, pollfds_ is the vector given to poll(),  *)
(* and a handle's index_ is its place in that vector (1-based here).       *)
(*                                                                         *)
(* The clients are the rest of the library.  The eventfd and the timerfd   *)
(* are registered by the loop's constructor and stay; connections and      *)
(* connectors come and go, disable every event before they remove their    *)
(* handle, and remove it in a queued functor, so never while poll's result *)
(* is being handled.  An access beyond the vector, or through the end of   *)
(* handles_, is undefined behaviour, recorded in undefined and followed no *)
(* further.                                                                *)
(***************************************************************************)
EXTENDS Integers, Sequences, FiniteSets, Functions

CONSTANTS Permanent,   \* descriptors the loop registers first and never removes
          Transient,   \* descriptors of connections and connectors, reusable
          IGNORED_FD

ASSUME FdAssumption ==
  /\ Permanent \in Seq(Range(Permanent)) /\ IsInjective(Permanent)
  /\ Range(Permanent) \cap Transient = {}
  /\ IGNORED_FD \notin Range(Permanent) \cup Transient

Fds == Range(Permanent) \cup Transient
Events == SUBSET {"read", "write"}

VARIABLES handles,    \* handles_: per descriptor, the handle's index_ and events_
          pollfds,    \* pollfds_
          undefined,  \* history: an access out of bounds has been made
          disordered  \* history: a handle other than the vector's last was removed

vars == <<handles, pollfds, undefined, disordered>>

Handle == [index : Nat \ {0}, events : Events]
Slot == [fd : Fds \cup {IGNORED_FD}, events : Events]
Ignored == [fd |-> IGNORED_FD, events |-> {}]
SlotOf(fd, events) == IF events = {} THEN Ignored ELSE [fd |-> fd, events |-> events]

TypeOK ==
  /\ DOMAIN handles \subseteq Fds
  /\ \A fd \in DOMAIN handles : handles[fd] \in Handle
  /\ pollfds \in Seq(Slot)
  /\ undefined \in BOOLEAN /\ disordered \in BOOLEAN

\* After the constructors of poller_waker and timer_queue, which enable reading.
Init ==
  /\ handles = [fd \in Range(Permanent) |->
                  [index |-> CHOOSE i \in DOMAIN Permanent : Permanent[i] = fd,
                   events |-> {"read"}]]
  /\ pollfds = [i \in DOMAIN Permanent |-> [fd |-> Permanent[i], events |-> {"read"}]]
  /\ undefined = FALSE
  /\ disordered = FALSE

-----------------------------------------------------------------------------
\* Mutation: index_ keeps the value the handle's constructor gave it.
register_polling_NoIndex(fd) ==
  /\ fd \notin DOMAIN handles
  /\ handles' = [f \in DOMAIN handles \cup {fd} |->
                   IF f = fd THEN [index |-> 0, events |-> {}] ELSE handles[f]]
  /\ pollfds' = Append(pollfds, Ignored)
  /\ UNCHANGED <<undefined, disordered>>

\* Mutation: the index is that of the slot before.
register_polling_OffByOne(fd) ==
  /\ fd \notin DOMAIN handles
  /\ handles' = [f \in DOMAIN handles \cup {fd} |->
                   IF f = fd THEN [index |-> Len(pollfds), events |-> {}]
                             ELSE handles[f]]
  /\ pollfds' = Append(pollfds, Ignored)
  /\ UNCHANGED <<undefined, disordered>>

\* A second registration returns the handle that is there: a connection takes
\* over the handle its connector left behind.
register_polling(fd) ==
  /\ fd \notin DOMAIN handles
  /\ handles' = [f \in DOMAIN handles \cup {fd} |->
                   IF f = fd THEN [index |-> Len(pollfds) + 1, events |-> {}]
                             ELSE handles[f]]
  /\ pollfds' = Append(pollfds, Ignored)
  /\ UNCHANGED <<undefined, disordered>>

\* Mutation: a disabled slot never gets its descriptor back.
update_handle_EventsOnly(fd, events) ==
  LET idx == handles[fd].index IN
  /\ fd \in DOMAIN handles
  /\ handles' = [handles EXCEPT ![fd].events = events]
  /\ IF idx <= Len(pollfds)
     THEN /\ pollfds' = [pollfds EXCEPT ![idx].events = events]
          /\ UNCHANGED undefined
     ELSE undefined' = TRUE /\ UNCHANGED pollfds
  /\ UNCHANGED disordered

\* enable_reading, enable_writing, disable_writing and disable_all.
update_handle(fd, events) ==
  LET idx == handles[fd].index IN
  /\ fd \in DOMAIN handles
  /\ handles' = [handles EXCEPT ![fd].events = events]
  /\ IF idx <= Len(pollfds)
     THEN /\ pollfds' = [pollfds EXCEPT ![idx] = SlotOf(fd, events)]
          /\ UNCHANGED undefined
     ELSE undefined' = TRUE /\ UNCHANGED pollfds
  /\ UNCHANGED disordered

\* Mutation: the removed handle's slot is only moved to the end.
remove_handle_NoPop(fd) ==
  LET idx == handles[fd].index
      tail == Len(pollfds)
  IN
  /\ fd \in DOMAIN handles
  /\ handles[fd].events = {}
  /\ IF idx <= tail
     THEN pollfds' = [pollfds EXCEPT ![idx] = pollfds[tail], ![tail] = pollfds[idx]]
     ELSE UNCHANGED pollfds
  /\ undefined' = (undefined \/ idx > tail)
  /\ handles' = Restrict(handles, DOMAIN handles \ {fd})
  /\ disordered' = (disordered \/ idx # tail)

remove_handle(fd) ==
  LET idx == handles[fd].index
      tail == Len(pollfds)
      swapped == [pollfds EXCEPT ![idx] = pollfds[tail], ![tail] = pollfds[idx]]
  IN
  /\ fd \in DOMAIN handles
  /\ handles[fd].events = {}
  /\ pollfds' = SubSeq(IF idx <= tail THEN swapped ELSE pollfds, 1, tail - 1)
  /\ undefined' = (undefined \/ idx > tail)
  /\ handles' = Restrict(handles, DOMAIN handles \ {fd})
  /\ disordered' = (disordered \/ idx # tail)

\* find_active_handles looks up the descriptor of a slot with events.
find_active_handles(idx) ==
  /\ pollfds[idx].fd # IGNORED_FD
  /\ undefined' = (undefined \/ pollfds[idx].fd \notin DOMAIN handles)
  /\ UNCHANGED <<handles, pollfds, disordered>>

\* The waker and the timer queue leave their handles as the constructors did.
Next ==
  \/ \E fd \in Transient : register_polling(fd) \/ remove_handle(fd)
  \/ \E fd \in Transient, events \in Events : update_handle(fd, events)
  \/ \E idx \in DOMAIN pollfds : find_active_handles(idx)

Spec == Init /\ [][Next]_vars

-----------------------------------------------------------------------------
(* Properties *)

Mirrored(fd) ==
  /\ handles[fd].index <= Len(pollfds)
  /\ pollfds[handles[fd].index] = SlotOf(fd, handles[fd].events)

\* register_polling's assertion: one slot per handle, however handles come and go.
SizesAgree == Cardinality(DOMAIN handles) = Len(pollfds)

\* The eventfd and the timerfd stay polled for reading in their own slots,
\* first in the vector, whatever stale indices later removals leave behind.
PermanentPolled == \A fd \in Range(Permanent) : Mirrored(fd)

\* As long as only the last handle of the vector was ever removed, every handle
\* is polled for exactly its own events and nothing is out of bounds.
MirroredWhileOrdered ==
  ~disordered => ~undefined /\ \A fd \in DOMAIN handles : Mirrored(fd)

\* spoller.cc: "remove channel from pollfds_".  What was removed is not polled,
\* in behaviours without an access out of bounds.
RemovedNotPolled ==
  ~undefined => \A i \in DOMAIN pollfds : pollfds[i].fd \in DOMAIN handles \cup {IGNORED_FD}
=============================================================================

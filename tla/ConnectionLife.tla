--------------------------- MODULE ConnectionLife ---------------------------
(***************************************************************************)
(* The life of a tcp_connection as its host and its loop agree on it: who  *)
(* does what, in which order, whatever threads, queues and callbacks are   *)
(* between them.  The host holds a connection from its construction to its *)
(* removal; the loop establishes it, hears of its end, tells the host, and *)
(* then removes it; the name is used again when both are done with it.     *)
(* Only the end of the host may drop a connection that has not closed, and *)
(* then the end of its loop is the end of the connection.                  *)
(***************************************************************************)
EXTENDS Integers

CONSTANT Conns         \* names of connections, one after the other for each

VARIABLES stage,       \* "new", "open", "ending" while the host is told, "closing"
                       \* from then on, and "closed" when the loop is done with it
          held,        \* connections the host holds
          removing,    \* removals on their way to a host on another thread
          over         \* the host is being destroyed

vars == <<stage, held, removing, over>>

Init == /\ stage = [c \in Conns |-> "closed"]
        /\ held = {} /\ removing = {}
        /\ over = FALSE

Moves(c, from, to) == stage[c] = from /\ stage' = [stage EXCEPT ![c] = to]

Construct(c) == /\ ~over
                /\ c \notin held \cup removing
                /\ Moves(c, "closed", "new")
                /\ held' = held \cup {c}
                /\ UNCHANGED <<removing, over>>

Establish(c) == /\ c \in held \/ over
                /\ Moves(c, "new", "open")
                /\ UNCHANGED <<held, removing, over>>

\* A host on the connection's thread drops it at once, another one is sent a removal.
HandleClose(c) == /\ c \in held \/ over
                  /\ Moves(c, "open", "ending")
                  /\ \/ held' = held \ {c} /\ UNCHANGED removing
                     \/ removing' = removing \cup {c} /\ UNCHANGED held
                  /\ UNCHANGED over

Remove(c) == /\ c \in removing \cap held
             /\ held' = held \ {c}
             /\ removing' = removing \ {c}
             /\ UNCHANGED <<stage, over>>

QueueClose(c) == /\ Moves(c, "ending", "closing")
                 /\ UNCHANGED <<held, removing, over>>

Destroyed(c) == /\ Moves(c, "closing", "closed")
                /\ UNCHANGED <<held, removing, over>>

HostEnds == /\ ~over
            /\ over' = TRUE
            /\ held' = {}
            /\ UNCHANGED <<stage, removing>>

\* A loop ends with the connections on it.
LoopEnds(here) == /\ over
                  /\ stage' = [c \in Conns |-> IF c \in here THEN "closed" ELSE stage[c]]
                  /\ UNCHANGED <<held, removing, over>>

Next ==
  \/ \E c \in Conns : \/ Construct(c) \/ Establish(c) \/ HandleClose(c) \/ Remove(c)
                      \/ QueueClose(c) \/ Destroyed(c)
  \/ HostEnds
  \/ \E here \in SUBSET Conns : LoopEnds(here)

Spec == Init /\ [][Next]_vars

-----------------------------------------------------------------------------
(* What follows from it *)

\* Until it ends, the host holds the connections that have not begun to close and
\* those whose removal it has yet to carry out, and no other.
HeldExactly ==
  ~over => held = {c \in Conns : stage[c] \in {"new", "open"}} \cup removing
=============================================================================

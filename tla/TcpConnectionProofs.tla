------------------------- MODULE TcpConnectionProofs -------------------------
(***************************************************************************)
(* Proofs about TcpConnection for any callers, hosts, messages, sizes of   *)
(* the buffer and width of size_t.  The input buffer comes first, since    *)
(* TypeOK needs that its indices never wrap.  The protocol's properties    *)
(* follow from Life, which says where in the connection's life each task   *)
(* can be queued, and what the host, the handle and the loop then hold.    *)
(***************************************************************************)
EXTENDS TcpConnection, QueueFacts

(***************************************************************************)
(* The arithmetic of size_t, and what the buffer's operations keep.        *)
(***************************************************************************)

LEMMA Sizes ==
  /\ Word \in Nat \ {0} /\ PRETEND_SIZE \in Nat \ {0} /\ INIT_SIZE \in Nat \ {0}
  /\ EXTRA_SIZE \in Nat \ {0} /\ 2 * (PRETEND_SIZE + INIT_SIZE + EXTRA_SIZE) < Word
<1>1. /\ Word \in Nat \ {0} /\ PRETEND_SIZE \in Nat \ {0} /\ INIT_SIZE \in Nat \ {0}
      /\ EXTRA_SIZE \in Nat \ {0} /\ PRETEND_SIZE + INIT_SIZE + EXTRA_SIZE < Word \div 2
  BY BufferAssumption
<1>2. Word \div 2 \in Nat /\ 2 * (Word \div 2) <= Word
  BY <1>1
<1> QED BY <1>1, <1>2

LEMMA Wraps ==
  ASSUME NEW x \in Int
  PROVE  x % Word \in Size
<1>1. Word \in Nat /\ Word > 0
  BY Sizes
<1> QED BY <1>1 DEF Size

LEMMA Unwrapped ==
  ASSUME NEW x \in Int
  PROVE  /\ 0 <= x /\ x < Word => x % Word = x
         /\ 0 - Word <= x /\ x < 0 => x % Word = x + Word
<1>1. Word \in Nat /\ Word > 0
  BY Sizes
<1> QED BY <1>1

LEMMA BufferTypes ==
  ASSUME NEW b \in Buffers, NEW len \in Size
  PROVE  /\ append(b, len).buf \in Buffers
         /\ ensure_writeable_bytes(b, len).buf \in Buffers
         /\ retrieve(b, len).buf \in Buffers
<1>1. /\ b.size \in Size /\ b.read \in Size /\ b.write \in Size /\ PRETEND_SIZE \in Size
      /\ len \in Int /\ PRETEND_SIZE \in Int /\ Size \subseteq Int
  BY Sizes DEF Buffers, Size
<1>2. \A x, y \in Int : Plus(x, y) \in Size /\ Minus(x, y) \in Size
  BY Wraps DEF Plus, Minus
<1>3. make_space(b, len).buf \in Buffers
  <2> DEFINE moved == [b EXCEPT !.read = PRETEND_SIZE,
                                !.write = Plus(PRETEND_SIZE, writeable_bytes(b))]
             wanted == Plus(len, PRETEND_SIZE)
  <2>1. writeable_bytes(b) \in Int /\ Plus(PRETEND_SIZE, writeable_bytes(b)) \in Size
        /\ wanted \in Size
    BY <1>1, <1>2 DEF writeable_bytes
  <2>2. moved \in Buffers /\ [b EXCEPT !.size = wanted] \in Buffers
    BY <1>1, <2>1 DEF Buffers
  <2> HIDE DEF moved, wanted
  <2>3. \/ make_space(b, len).buf = b \/ make_space(b, len).buf = moved
        \/ make_space(b, len).buf = [b EXCEPT !.size = wanted]
    BY DEF make_space, Fails, Returns, moved, wanted
  <2> QED BY <2>2, <2>3
<1>4. ensure_writeable_bytes(b, len).buf \in Buffers
  BY <1>3 DEF ensure_writeable_bytes, Fails, Returns
<1>5. append(b, len).buf \in Buffers
  BY <1>4 DEF append, Fails
<1>6. retrieve(b, len).buf \in Buffers
  BY <1>1, <1>2 DEF retrieve, Fails, Returns, Buffers
<1> QED BY <1>4, <1>5, <1>6

LEMMA ReadTypes ==
  ASSUME NEW b \in Buffers, NEW total \in Size
  PROVE  read_socket(b, total).buf \in Buffers
<1>1. /\ b.size \in Size /\ b.read \in Size /\ b.write \in Size /\ Size \subseteq Int
  BY DEF Buffers, Size
<1>2. writeable_bytes(b) \in Size /\ Plus(b.write, total) \in Size
      /\ Minus(total, writeable_bytes(b)) \in Size
  <2>1. \A x, y \in Int : Plus(x, y) \in Size /\ Minus(x, y) \in Size
    BY Wraps DEF Plus, Minus
  <2>2. writeable_bytes(b) \in Size
    BY <1>1, <2>1 DEF writeable_bytes
  <2> QED BY <1>1, <2>1, <2>2
<1>3. [b EXCEPT !.write = Plus(b.write, total)] \in Buffers /\ [b EXCEPT !.write = b.size] \in Buffers
  BY <1>1, <1>2 DEF Buffers
<1>4. append([b EXCEPT !.write = b.size], Minus(total, writeable_bytes(b))).buf \in Buffers
  BY <1>2, <1>3, BufferTypes
<1> QED BY <1>3, <1>4 DEF read_socket, Returns, Fails

(***************************************************************************)
(* Type correctness.                                                       *)
(***************************************************************************)

LEMMA TaskTypes ==
  /\ \A name \in TaskNames : Task(name) \in Tasks /\ Task(name).name = name
  /\ \A name \in TaskNames, c \in Callers :
       [name |-> name, caller |-> c] \in Tasks
BY DEF Tasks, Task

\* What send_in_loop may do.
LEMMA Sending ==
  ASSUME TypeOK, NEW len \in Lengths, SendInLoop(len)
  PROVE  /\ lateSend' = (lateSend \/ closing)
         /\ oup' \in Buffers /\ unsent' \in Int
         /\ \/ /\ handle = "removed" /\ ended' = "handle" /\ UNCHANGED <<events, pending>>
            \/ /\ handle # "removed" /\ ended' \in {"write", "buffer"}
               /\ UNCHANGED <<events, pending>>
            \/ /\ handle # "removed" /\ ended' = ended /\ events' = events
               /\ \/ pending' = pending
                  \/ pending' = Append(pending, Task("complete"))
            \/ /\ handle # "removed" /\ ended' = ended /\ events' = events \cup {"write"}
               /\ pending' = pending
<1>1. oup \in Buffers /\ unsent \in Int /\ len \in Nat
  BY LengthAssumption DEF TypeOK
<1>2. CASE handle = "removed"
  BY <1>1, <1>2 DEF SendInLoop, End
<1>3. CASE handle # "removed"
  <2>1. PICK result \in IF "write" \in events \/ readable_bytes(oup) > 0
                        THEN {0} ELSE WriteResults(len) :
          LET num_remain == Minus(len, result % Word)
              appended == append(oup, num_remain)
          IN
          IF num_remain > len
          THEN End("write") /\ UNCHANGED <<oup, events, pending, unsent>>
          ELSE IF num_remain = 0
          THEN /\ pending' \in {pending, Append(pending, Task("complete"))}
               /\ UNCHANGED <<oup, events, unsent, ended>>
          ELSE /\ unsent' = unsent + num_remain
               /\ oup' = appended.buf
               /\ IF appended.fault = "none"
                  THEN events' = events \cup {"write"} /\ UNCHANGED ended
                  ELSE End("buffer") /\ UNCHANGED events
               /\ UNCHANGED pending
    BY <1>3 DEF SendInLoop
  <2>2. result \in Int
    BY <1>1 DEF WriteResults
  <2>3. PICK n \in Size : n = Minus(len, result % Word)
    <3>1. result % Word \in Int
      BY <2>2, Wraps DEF Size
    <3> QED BY <1>1, <3>1, Wraps DEF Minus
  <2>4. append(oup, n).buf \in Buffers
    BY <1>1, BufferTypes
  <2>5. n \in Int /\ unsent + n \in Int
    BY <1>1 DEF Size
  <2>6. lateSend' = (lateSend \/ closing)
    BY DEF SendInLoop
  <2>7. CASE n > len
    BY <1>1, <1>3, <2>1, <2>3, <2>6, <2>7 DEF End
  <2>8. CASE ~(n > len) /\ n = 0
    BY <1>1, <1>3, <2>1, <2>3, <2>6, <2>8
  <2>9. CASE ~(n > len) /\ n # 0
    BY <1>3, <2>1, <2>3, <2>4, <2>5, <2>6, <2>9 DEF End
  <2> QED BY <2>7, <2>8, <2>9
<1> QED BY <1>2, <1>3

LEMMA ShuttingDown ==
  ASSUME ShutdownInLoop
  PROVE  \/ handle = "removed" /\ ended' = "handle" /\ finSent' = finSent
         \/ handle # "removed" /\ ended' = ended /\ finSent' = (finSent \/ "write" \notin events)
BY DEF ShutdownInLoop, End


(***************************************************************************)
(* The input buffer.  A read that the buffer has room for moves its write  *)
(* index; every other one, the failed read among them, ends the program.   *)
(* So the buffer keeps its first size, and its indices never wrap.         *)
(***************************************************************************)

Fits(b) == /\ b \in Buffers /\ b.size = PRETEND_SIZE + INIT_SIZE
           /\ PRETEND_SIZE <= b.read /\ b.read <= b.write /\ b.write <= b.size

LEMMA FitFacts ==
  ASSUME NEW b, Fits(b)
  PROVE  /\ {b.size, b.read, b.write} \subseteq Nat /\ b.size < Word
         /\ writeable_bytes(b) = b.size - b.write
         /\ readable_bytes(b) = b.write - b.read
<1>1. {b.size, b.read, b.write} \subseteq Nat /\ b.size < Word /\ Word \in Nat
  BY Sizes DEF Fits, Buffers, Size
<1>2. /\ b.size - b.write \in Int /\ 0 <= b.size - b.write /\ b.size - b.write < Word
      /\ b.write - b.read \in Int /\ 0 <= b.write - b.read /\ b.write - b.read < Word
  BY <1>1, Sizes DEF Fits
<1> QED BY <1>1, <1>2, Unwrapped DEF writeable_bytes, readable_bytes, Minus

\* Appending behind a buffer that is full fails, however it is made to fit.
LEMMA FullFails ==
  ASSUME NEW b, Fits(b), b.write = b.size, NEW len \in Size
  PROVE  append(b, len).fault # "none"
<1>1. /\ b.size \in Nat /\ b.read \in Nat /\ b.size > PRETEND_SIZE /\ PRETEND_SIZE \in Nat
      /\ writeable_bytes(b) = 0 /\ len \in Nat /\ Word \in Nat /\ b.size < Word
      /\ b.size = PRETEND_SIZE + INIT_SIZE /\ INIT_SIZE > 0
  BY FitFacts, Sizes DEF Fits, Size
<1>2. CASE len = 0
  <2>1. ensure_writeable_bytes(b, len).fault = "assertion"
    BY <1>1, <1>2 DEF ensure_writeable_bytes, Returns, Fails
  <2> QED BY <2>1 DEF append
<1>3. CASE len > 0
  <2> DEFINE wanted == Plus(len, PRETEND_SIZE)
             moved == [b EXCEPT !.read = PRETEND_SIZE,
                                !.write = Plus(PRETEND_SIZE, writeable_bytes(b))]
             made == make_space(b, len)
  <2>1. wanted \in Nat /\ wanted <= len + PRETEND_SIZE
    <3>1. CASE len + PRETEND_SIZE < Word
      <4>1. wanted = len + PRETEND_SIZE
        BY <1>1, <3>1, Unwrapped DEF Plus
      <4> QED BY <1>1, <4>1
    <3>2. CASE ~(len + PRETEND_SIZE < Word)
      <4>1. wanted \in Size
        BY <1>1, Wraps DEF Plus
      <4> QED BY <1>1, <3>2, <4>1 DEF Size
    <3> QED BY <3>1, <3>2
  <2>2. moved.size = b.size /\ moved.write = PRETEND_SIZE
    <3>1. Plus(PRETEND_SIZE, writeable_bytes(b)) = PRETEND_SIZE
      BY <1>1, Unwrapped DEF Plus
    <3> QED BY <3>1 DEF Fits, Buffers
  <2>3. writeable_bytes(moved) # writeable_bytes(b)
    <3>1. writeable_bytes(moved) = (b.size - PRETEND_SIZE) % Word
      BY <2>2 DEF writeable_bytes, Minus
    <3>2. (b.size - PRETEND_SIZE) % Word = INIT_SIZE
      <4>1. b.size - PRETEND_SIZE = INIT_SIZE /\ INIT_SIZE \in Nat /\ INIT_SIZE < Word
        BY <1>1, Sizes
      <4> QED BY <4>1, Unwrapped
    <3> QED BY <1>1, <3>1, <3>2
  <2>4. [b EXCEPT !.size = wanted].size = wanted /\ [b EXCEPT !.size = wanted].write = b.write
    BY DEF Fits, Buffers
  <2> HIDE DEF wanted, moved
  <2>5. made.fault # "none" \/ made = Returns([b EXCEPT !.size = wanted])
    BY <2>3 DEF make_space, Returns, Fails, wanted, moved
  <2>6. ensure_writeable_bytes(b, len).fault # "none" \/ ensure_writeable_bytes(b, len) = made
    BY <1>1, <1>3 DEF ensure_writeable_bytes, Returns, Fails
  <2> HIDE DEF made
  <2>7. CASE made = Returns([b EXCEPT !.size = wanted])
    <3>1. made.buf.write + len > made.buf.size
      <4>1. made.buf.write = b.size /\ made.buf.size = wanted
        BY <2>4, <2>7 DEF Returns, Fails
      <4> QED BY <1>1, <2>1, <4>1
    <3> QED BY <2>6, <3>1 DEF append, Fails
  <2>8. CASE made.fault # "none"
    BY <2>6, <2>8 DEF append, Fails
  <2> QED BY <2>5, <2>7, <2>8
<1> QED BY <1>1, <1>2, <1>3

LEMMA Reading ==
  ASSUME NEW b, Fits(b), NEW result \in {-1} \cup 1 .. (writeable_bytes(b) + EXTRA_SIZE),
         read_socket(b, result % Word).fault = "none"
  PROVE  LET buf == read_socket(b, result % Word).buf IN
         result \in Nat /\ Fits(buf) /\ buf.write = b.write + result /\ buf.read = b.read
<1> DEFINE total == result % Word
           full == [b EXCEPT !.write = b.size]
<1>1. /\ b.size \in Nat /\ b.read \in Nat /\ b.write \in Nat /\ Word \in Nat /\ b.write <= b.size
      /\ writeable_bytes(b) = b.size - b.write /\ EXTRA_SIZE \in Nat
      /\ b.size + EXTRA_SIZE < Word /\ b.size + 1 < Word
  BY FitFacts, Sizes DEF Fits
<1>2. total = IF result = -1 THEN Word - 1 ELSE result
  <2>1. result = -1 \/ result \in 1 .. (b.size + EXTRA_SIZE)
    BY <1>1
  <2>2. CASE result = -1
    <3>1. 0 - Word <= -1 /\ -1 < 0 /\ -1 \in Int
      BY <1>1
    <3>2. (-1) % Word = -1 + Word
      BY <3>1, Unwrapped
    <3> QED BY <1>1, <2>2, <3>2
  <2>3. CASE result \in 1 .. (b.size + EXTRA_SIZE)
    <3>1. result \in Int /\ 0 <= result /\ result < Word
      BY <1>1, <2>3
    <3> QED BY <3>1, Unwrapped
  <2> QED BY <2>1, <2>2, <2>3
<1>3. total # 0 /\ total \in Nat /\ total < Word
  BY <1>1, <1>2
<1>4. writeable_bytes(b) > total
  <2> SUFFICES ASSUME ~(writeable_bytes(b) > total) PROVE FALSE
    OBVIOUS
  <2>1. Fits(full) /\ full.write = full.size
    <3>1. b.size \in Size
      BY DEF Fits, Buffers
    <3> QED BY <1>1, <3>1 DEF Fits, Buffers
  <2>2. Minus(total, writeable_bytes(b)) \in Size
    BY <1>1, <1>3, Wraps DEF Minus
  <2> HIDE DEF full
  <2>3. append(full, Minus(total, writeable_bytes(b))).fault # "none"
    BY <2>1, <2>2, FullFails
  <2> HIDE DEF total
  <2> QED BY <1>3, <2>3 DEF read_socket, full, total
<1>5. result \in Nat /\ total = result /\ b.write + result <= b.size
  BY <1>1, <1>2, <1>4
<1>6. Plus(b.write, total) = b.write + result
  BY <1>1, <1>5, Unwrapped DEF Plus
<1>7. read_socket(b, total).buf = [b EXCEPT !.write = b.write + result]
  BY <1>3, <1>4, <1>6 DEF read_socket, Returns, Fails
<1>8. Fits([b EXCEPT !.write = b.write + result])
  BY <1>1, <1>5 DEF Fits, Buffers, Size
<1> QED BY <1>5, <1>7, <1>8 DEF Fits, Buffers

LEMMA Retrieving ==
  ASSUME NEW b, Fits(b), NEW len \in Nat, retrieve(b, len).fault = "none"
  PROVE  LET buf == retrieve(b, len).buf IN
         Fits(buf) /\ buf.write = b.write /\ buf.read = b.read + len
<1>1. /\ b.size \in Nat /\ b.read \in Nat /\ b.write \in Nat /\ Word \in Nat /\ b.write <= b.size
      /\ readable_bytes(b) = b.write - b.read /\ b.size < Word
  BY FitFacts, Sizes DEF Fits
<1>2. len < b.write - b.read
  BY <1>1 DEF retrieve, Fails
<1>3. Plus(b.read, len) = b.read + len
  BY <1>1, <1>2, Unwrapped DEF Plus
<1>4. retrieve(b, len).buf = [b EXCEPT !.read = b.read + len]
  BY <1>1, <1>2, <1>3 DEF retrieve, Returns, Fails
<1> DEFINE moved == [b EXCEPT !.read = b.read + len]
<1>5. b.read + len \in Size /\ b.read + len <= b.write /\ PRETEND_SIZE <= b.read + len
  BY <1>1, <1>2, Sizes DEF Fits, Size
<1>6. moved \in Buffers /\ moved.size = b.size /\ moved.read = b.read + len /\ moved.write = b.write
  BY <1>5 DEF Fits, Buffers
<1>7. Fits(moved)
  BY <1>5, <1>6 DEF Fits
<1> QED BY <1>4, <1>6, <1>7

Input == Running => Fits(inp) /\ unread = inp.write - inp.read

\* TypeOK by the owner of the variables.
HostTyped == host \in Hosts /\ cbs \in 0..3 /\ held \in BOOLEAN /\ removals \in Nat
ConnTyped ==
  /\ state \in {"none", "connecting", "connected", "disconnecting", "disconnected"}
  /\ handle \in {"none", "registered", "removed"}
  /\ events \subseteq {"read", "write"} /\ inp \in Buffers /\ oup \in Buffers
LoopTyped ==
  /\ revents \subseteq {"read", "write"}
  /\ phase \in {"poll", "read", "closing", "write", "swap", "run", "callback"}
  /\ callback \in {NONE, "connection", "message", "complete", "written"}
  /\ functors \in Seq(Tasks) /\ pending \in Seq(Tasks)
CallTyped ==
  /\ callPc \in [Callers -> {"idle", "send", "sent", "shut", "shutting", "done"}]
  /\ shared \in BOOLEAN
EndTyped ==
  ended \in {"no", "state", "callback", "dropped", "events", "buffer", "write",
             "handle", "message", "object", "expired"}
HistoryTyped ==
  /\ unread \in Nat /\ unsent \in Int /\ ups \in Nat /\ downs \in Nat
  /\ finSent \in BOOLEAN /\ closing \in BOOLEAN /\ lateCall \in BOOLEAN /\ lateSend \in BOOLEAN

LEMMA TypeParts ==
  TypeOK <=> HostTyped /\ ConnTyped /\ LoopTyped /\ CallTyped /\ EndTyped /\ HistoryTyped
<1>1. <<shared, finSent, closing, lateCall, lateSend>>
        \in BOOLEAN \X BOOLEAN \X BOOLEAN \X BOOLEAN \X BOOLEAN
      <=> shared \in BOOLEAN /\ finSent \in BOOLEAN /\ closing \in BOOLEAN
          /\ lateCall \in BOOLEAN /\ lateSend \in BOOLEAN
  OBVIOUS
<1> QED BY <1>1 DEF TypeOK, HostTyped, ConnTyped, LoopTyped, CallTyped, EndTyped, HistoryTyped

LEMMA NextParts ==
  HostTyped' /\ ConnTyped' /\ LoopTyped' /\ CallTyped' /\ EndTyped' /\ HistoryTyped' => TypeOK'
<1>1. shared' \in BOOLEAN /\ finSent' \in BOOLEAN /\ closing' \in BOOLEAN
          /\ lateCall' \in BOOLEAN /\ lateSend' \in BOOLEAN
      => <<shared', finSent', closing', lateCall', lateSend'>>
           \in BOOLEAN \X BOOLEAN \X BOOLEAN \X BOOLEAN \X BOOLEAN
  OBVIOUS
<1> QED BY <1>1 DEF TypeOK, HostTyped, ConnTyped, LoopTyped, CallTyped, EndTyped, HistoryTyped

LEMMA InitTypeOK == Init => TypeOK
<1> SUFFICES ASSUME Init PROVE TypeOK
  OBVIOUS
<1>1. NewBuffer \in Buffers
  BY Sizes DEF NewBuffer, Buffers, Size
<1>2. ConnTyped
  BY <1>1 DEF Init, ConnTyped
<1>3. LoopTyped
  BY EmptySeq DEF Init, LoopTyped
<1>4. CallTyped
  BY DEF Init, CallTyped
<1>5. HostTyped
  <2>1. host \in Hosts /\ cbs = 0 /\ held = FALSE /\ removals = 0
    BY DEF Init
  <2>2. 0 \in 0 .. 3 /\ 0 \in Nat
    OBVIOUS
  <2> QED BY <2>1, <2>2, Zenon DEF HostTyped
<1>6. EndTyped
  <2>1. ended = "no"
    BY DEF Init
  <2> QED BY <2>1 DEF EndTyped
<1>7. HistoryTyped
  <2>1. unread = 0 /\ unsent = 0 /\ ups = 0 /\ downs = 0
    BY DEF Init
  <2>2. finSent = FALSE /\ closing = FALSE /\ lateCall = FALSE /\ lateSend = FALSE
    BY DEF Init
  <2>3. 0 \in Nat /\ 0 \in Int
    OBVIOUS
  <2> QED BY <2>1, <2>2, <2>3, Zenon DEF HistoryTyped
<1> QED BY <1>2, <1>3, <1>4, <1>5, <1>6, <1>7, TypeParts

\* The head of the batch that a functor's action takes.
LEMMA Runnable ==
  ASSUME TypeOK, NEW name, Runs(name)
  PROVE  /\ Running /\ phase = "run" /\ functors # <<>> /\ functors' = Tail(functors)
         /\ functors' \in Seq(Tasks) /\ Head(functors) \in Tasks /\ Head(functors).name = name
BY HeadTailProperties DEF Runs, TypeOK

LEMMA HostTypes == TypeOK /\ Host => TypeOK'
<1> SUFFICES ASSUME TypeOK, Host PROVE TypeOK'
  OBVIOUS
<1> USE DEF hostVars, connVars, loopVars, callVars, history
<1>1. CASE Construct
  <2>1. Task("establish") \in Tasks /\ <<Task("establish")>> \in Seq(Tasks)
    BY TaskTypes DEF TaskNames
  <2>2. pending' \in Seq(Tasks)
    BY <1>1, <2>1, ConcatProperties DEF Construct, ConstructLeaving, TypeOK
  <2>3. CallbacksSet \in 0 .. 3
    BY DEF CallbacksSet
  <2> QED BY <1>1, <2>2, <2>3 DEF Construct, ConstructLeaving, TypeOK
<1>2. CASE SetCallback
  <2>1. cbs' \in 0 .. 3
    BY <1>2 DEF SetCallback, TypeOK
  <2> QED BY <1>2, <2>1 DEF SetCallback, TypeOK
<1>3. CASE RemoveInLoop
  <2>1. removals' \in Nat
    BY <1>3 DEF RemoveInLoop, TypeOK
  <2> QED BY <1>3, <2>1 DEF RemoveInLoop, DropHeld, TypeOK
<1> QED BY <1>1, <1>2, <1>3 DEF Host

LEMMA EventTypes ==
  TypeOK /\ Input /\ (\/ PollReturns \/ HandleRead \/ HandleClose \/ QueueClose
                      \/ HandleWrite \/ SwapPending \/ EndPending \/ CallbackReturns) => TypeOK'
<1> SUFFICES ASSUME TypeOK, Input,
                    \/ PollReturns \/ HandleRead \/ HandleClose \/ QueueClose
                    \/ HandleWrite \/ SwapPending \/ EndPending \/ CallbackReturns
             PROVE  TypeOK'
  OBVIOUS
<1> USE DEF hostVars, connVars, loopVars, callVars, history
<1>1. CASE PollReturns
  <2>1. PICK ready \in SUBSET events :
          /\ revents' = ready
          /\ phase' = IF "read" \in ready THEN "read" ELSE AfterRead(ready)
    BY <1>1 DEF PollReturns
  <2>2. revents' \subseteq {"read", "write"} /\ phase' \in {"read", "write", "swap"}
    BY <2>1 DEF AfterRead, TypeOK
  <2> QED BY <1>1, <2>2 DEF PollReturns, TypeOK
<1>2. CASE HandleRead
  <2>1. PICK result \in {-1} \cup 1..(writeable_bytes(inp) + EXTRA_SIZE) :
          LET read == read_socket(inp, result % Word) IN
          /\ inp' = read.buf
          /\ IF read.fault # "none" \/ cbs < 2
             THEN /\ End(IF read.fault # "none" THEN "buffer" ELSE "callback")
                  /\ UNCHANGED <<phase, callback, unread>>
             ELSE /\ unread' = unread + result
                  /\ phase' = "callback" /\ callback' = "message"
                  /\ UNCHANGED ended
    BY <1>2 DEF HandleRead
  <2>2. Fits(inp) /\ inp \in Buffers /\ unread \in Nat
    BY <1>2 DEF HandleRead, Input, TypeOK
  <2>3. read_socket(inp, result % Word).buf \in Buffers
    <3>1. writeable_bytes(inp) \in Int /\ EXTRA_SIZE \in Int
      <4>1. inp.size \in Nat /\ inp.write \in Nat
        BY <2>2, FitFacts
      <4> QED BY <2>2, <4>1, FitFacts, Sizes
    <3>2. result \in Int
      BY <3>1
    <3> QED BY <2>2, <3>2, Wraps, ReadTypes
  <2>4. unread' \in Nat
    <3>1. CASE read_socket(inp, result % Word).fault # "none"
      BY <2>1, <2>2, <3>1
    <3>2. CASE read_socket(inp, result % Word).fault = "none"
      <4>1. result \in Nat
        BY <2>2, <3>2, Reading
      <4> QED BY <2>1, <2>2, <4>1
    <3> QED BY <3>1, <3>2
  <2>5. inp' \in Buffers
    BY <2>1, <2>3
  <2>6. \/ ended' \in {"buffer", "callback"} /\ UNCHANGED <<phase, callback>>
        \/ ended' = ended /\ phase' = "callback" /\ callback' = "message"
    BY <2>1 DEF End
  <2> QED BY <1>2, <2>4, <2>5, <2>6 DEF HandleRead, TypeOK
<1>3. CASE HandleClose
  <2>1. \/ ended' \in {"state", "callback"} /\ held' = held /\ removals' = removals
        \/ ended' = ended /\ held' = held /\ removals' = removals + 1
        \/ ended' \in {ended, "dropped"} /\ held' = FALSE /\ removals' = removals
    BY <1>3 DEF HandleClose, CloseLeaving, DropHeld, End
  <2>2. /\ phase' = "closing" /\ events' = {} /\ closing' = TRUE
        /\ UNCHANGED <<host, cbs, state, handle, inp, oup, revents, callback, functors, pending,
                       callVars, unread, unsent, finSent, lateCall, lateSend, ups, downs>>
    BY <1>3 DEF HandleClose, CloseLeaving
  <2>3. HostTyped'
    <3>1. removals' \in Nat
      BY <2>1 DEF TypeOK
    <3>2. held' \in BOOLEAN
      BY <2>1, TypeParts, Zenon DEF HostTyped
    <3> QED BY <2>2, <3>1, <3>2, TypeParts, Zenon DEF HostTyped
  <2>4. EndTyped'
    BY <2>1, TypeParts DEF EndTyped
  <2>5. ConnTyped' /\ LoopTyped' /\ CallTyped'
    BY <2>2, TypeParts DEF ConnTyped, LoopTyped, CallTyped
  <2>6. HistoryTyped'
    BY <2>2, TypeParts DEF HistoryTyped
  <2> QED BY <2>3, <2>4, <2>5, <2>6, NextParts
<1>4. CASE QueueClose
  <2>1. Task("close") \in Tasks /\ <<Task("close")>> \in Seq(Tasks)
    BY TaskTypes DEF TaskNames
  <2>2. pending' \in Seq(Tasks)
    <3>1. pending' \in {pending, pending \o <<Task("close")>>}
      BY <1>4, Zenon DEF QueueClose, CloseQueueing
    <3>2. pending \in Seq(Tasks)
      BY DEF TypeOK
    <3>3. pending \o <<Task("close")>> \in Seq(Tasks)
      BY <2>1, <3>2, ConcatProperties
    <3> QED BY <3>1, <3>2, <3>3
  <2>3. phase' \in {"closing", "write", "swap"} /\ ended' \in {ended, "expired"}
    <3>1. phase = "closing" /\ AfterRead(revents) \in {"write", "swap"}
      BY <1>4 DEF QueueClose, CloseQueueing, AfterRead
    <3>2. \/ phase' = AfterRead(revents) /\ ended' = ended
          \/ phase' = phase /\ ended' = "expired"
      BY <1>4, Zenon DEF QueueClose, CloseQueueing, End
    <3> QED BY <3>1, <3>2
  <2> QED BY <1>4, <2>2, <2>3 DEF QueueClose, CloseQueueing, TypeOK
<1>5. CASE HandleWrite
  <2>1. PICK result \in IF "write" \in events THEN WriteResults(writeable_bytes(oup)) ELSE {0} :
          LET left == retrieve(oup, result) IN
          IF result <= 0
          THEN /\ phase' = "swap"
               /\ UNCHANGED <<oup, events, callback, ended, unsent>>
          ELSE /\ unsent' = unsent - result
               /\ oup' = left.buf
               /\ IF left.fault # "none"
                  THEN End("buffer") /\ UNCHANGED <<phase, events, callback>>
                  ELSE IF readable_bytes(left.buf) > 0
                  THEN phase' = "swap" /\ UNCHANGED <<events, callback, ended>>
                  ELSE /\ events' = events \ {"write"}
                       /\ phase' = "callback" /\ callback' = "written"
                       /\ UNCHANGED ended
    BY <1>5 DEF HandleWrite
  <2>2. writeable_bytes(oup) \in Size /\ oup \in Buffers
    <3>1. oup \in Buffers /\ oup.size \in Int /\ oup.write \in Int
      BY DEF TypeOK, Buffers, Size
    <3> QED BY <3>1, Wraps DEF writeable_bytes, Minus
  <2>3. result \in {-1, 0} \/ result \in Size
    <3>1. result = 0 \/ result \in WriteResults(writeable_bytes(oup))
      BY <2>1
    <3>2. \A len \in Size : 1 .. len \subseteq Size
      BY Sizes DEF Size
    <3>3. result \in {-1, 0} \/ result \in 1 .. writeable_bytes(oup)
      BY <3>1 DEF WriteResults
    <3> QED BY <2>2, <3>2, <3>3
  <2>4. result \in Int
    <3>1. Size \subseteq Int /\ {-1, 0} \subseteq Int
      BY Sizes DEF Size
    <3> QED BY <2>3, <3>1
  <2>5. oup' \in Buffers /\ unsent' \in Int
    <3>1. CASE result <= 0
      BY <2>1, <2>2, <3>1 DEF TypeOK
    <3>2. CASE ~(result <= 0)
      <4>1. result \in Size
        BY <2>3, <3>2
      <4>2. retrieve(oup, result).buf \in Buffers
        BY <2>2, <4>1, BufferTypes
      <4>3. unsent - result \in Int
        BY <2>4 DEF TypeOK
      <4> QED BY <2>1, <3>2, <4>2, <4>3
    <3> QED BY <3>1, <3>2
  <2>6. /\ phase' \in {"swap", "callback", phase} /\ events' \subseteq events
        /\ callback' \in {"written", callback} /\ ended' \in {"buffer", ended}
    BY <2>1 DEF End
  <2> QED BY <1>5, <2>5, <2>6 DEF HandleWrite, TypeOK
<1>6. CASE SwapPending
  <2>1. <<>> \in Seq(Tasks)
    BY EmptySeq
  <2> QED BY <1>6, <2>1 DEF SwapPending, TypeOK
<1>7. CASE EndPending
  BY <1>7 DEF EndPending, TypeOK
<1>8. CASE CallbackReturns
  <2>1. phase' \in {"write", "swap", "run"}
    BY <1>8 DEF CallbackReturns, AfterRead
  <2>2. ended' \in {ended, "handle"} /\ finSent' \in BOOLEAN
    <3>1. CASE callback = "written" /\ state = "disconnecting"
      BY <1>8, <3>1 DEF CallbackReturns, ShutdownInLoop, End, TypeOK
    <3>2. CASE ~(callback = "written" /\ state = "disconnecting")
      BY <1>8, <3>2 DEF CallbackReturns, TypeOK
    <3> QED BY <3>1, <3>2
  <2> QED BY <1>8, <2>1, <2>2 DEF CallbackReturns, TypeOK
<1> QED BY <1>1, <1>2, <1>3, <1>4, <1>5, <1>6, <1>7, <1>8

LEMMA SendTypes ==
  ASSUME TypeOK, NEW len \in Lengths, SendInLoop(len)
  PROVE  /\ oup' \in Buffers /\ events' \subseteq {"read", "write"} /\ pending' \in Seq(Tasks)
         /\ ended' \in {"handle", "write", "buffer", ended}
         /\ unsent' \in Int /\ lateSend' \in BOOLEAN
<1>1. Task("complete") \in Tasks
  BY TaskTypes DEF TaskNames
<1>2. Append(pending, Task("complete")) \in Seq(Tasks)
  BY <1>1, AppendProperties DEF TypeOK
<1>3. events \subseteq {"read", "write"} /\ pending \in Seq(Tasks)
  BY DEF TypeOK
<1>4. lateSend \in BOOLEAN /\ closing \in BOOLEAN
  BY TypeParts DEF HistoryTyped
<1> HIDE DEF SendInLoop
<1>5. events' \subseteq {"read", "write"}
  BY <1>3, Sending
<1>6. pending' \in Seq(Tasks)
  BY <1>2, <1>3, Sending
<1>7. lateSend' \in BOOLEAN
  BY <1>4, Sending
<1> QED BY <1>5, <1>6, <1>7, Sending

LEMMA FunctorTypes == TypeOK /\ Functors => TypeOK'
<1> SUFFICES ASSUME TypeOK, Functors PROVE TypeOK'
  OBVIOUS
<1> USE DEF hostVars, connVars, loopVars, callVars, history
<1>1. CASE RunEstablish
  <2>1. functors' \in Seq(Tasks)
    BY <1>1, Runnable DEF RunEstablish
  <2>2. /\ state' \in {state, "connected"} /\ handle' = "registered" /\ events' \in {events, {"read"}}
        /\ phase' \in {phase, "callback"} /\ callback' \in {callback, "connection"}
        /\ ended' \in {ended, "state"} /\ ups' \in {ups, ups + 1}
    BY <1>1 DEF RunEstablish, End
  <2>3. ups' \in Nat
    BY <2>2 DEF TypeOK
  <2> QED BY <1>1, <2>1, <2>2, <2>3 DEF RunEstablish, TypeOK
<1>2. CASE RunClose
  <2>1. functors' \in Seq(Tasks)
    BY <1>2, Runnable DEF RunClose
  <2>2. /\ state' \in {state, "disconnected"} /\ handle' \in {handle, "removed"}
        /\ phase' \in {phase, "callback"} /\ callback' \in {callback, "connection"}
        /\ ended' \in {ended, "events"} /\ downs' \in {downs, downs + 1}
    BY <1>2 DEF RunClose, End
  <2>3. downs' \in Nat
    BY <2>2 DEF TypeOK
  <2> QED BY <1>2, <2>1, <2>2, <2>3 DEF RunClose, TypeOK
<1>3. CASE RunSend
  <2>1. functors' \in Seq(Tasks)
    BY <1>3, Runnable DEF RunSend
  <2>2. CASE callPc[Head(functors).caller] # "sent"
    <3>1. /\ ended' = "message"
          /\ UNCHANGED <<hostVars, connVars, phase, revents, callback, pending, callVars, history>>
      BY <1>3, <2>2 DEF RunSend, End
    <3>2. EndTyped'
      BY <3>1 DEF EndTyped
    <3>3. LoopTyped'
      BY <2>1, <3>1, TypeParts DEF LoopTyped
    <3>4. HostTyped' /\ ConnTyped' /\ CallTyped' /\ HistoryTyped'
      BY <3>1, TypeParts DEF HostTyped, ConnTyped, CallTyped, HistoryTyped
    <3> QED BY <3>2, <3>3, <3>4, NextParts
  <2>3. CASE callPc[Head(functors).caller] = "sent"
    <3>1. PICK len \in Lengths : SendInLoop(len)
      BY <1>3, <2>3 DEF RunSend
    <3>2. /\ oup' \in Buffers /\ events' \subseteq {"read", "write"} /\ pending' \in Seq(Tasks)
          /\ ended' \in {"handle", "write", "buffer", ended}
          /\ unsent' \in Int /\ lateSend' \in BOOLEAN
      BY <3>1, SendTypes
    <3> QED BY <1>3, <2>1, <3>2 DEF RunSend, TypeOK
  <2> QED BY <2>2, <2>3
<1>4. CASE RunShutdown
  <2>1. functors' \in Seq(Tasks)
    BY <1>4, Runnable DEF RunShutdown
  <2>2. ended' \in {ended, "handle"} /\ finSent' \in BOOLEAN
    BY <1>4 DEF RunShutdown, ShutdownInLoop, End, TypeOK
  <2> QED BY <1>4, <2>1, <2>2 DEF RunShutdown, TypeOK
<1>5. CASE RunComplete
  <2>1. functors' \in Seq(Tasks)
    BY <1>5, Runnable DEF RunComplete
  <2>2. \/ phase' = "callback" /\ callback' = "complete" /\ ended' = ended
        \/ phase' = phase /\ callback' = callback /\ ended' = "object"
    BY <1>5, Zenon DEF RunComplete, End
  <2> QED BY <1>5, <2>1, <2>2 DEF RunComplete, TypeOK
<1> QED BY <1>1, <1>2, <1>3, <1>4, <1>5 DEF Functors

LEMMA UserTypes == TypeOK /\ Input /\ User => TypeOK'
<1> SUFFICES ASSUME TypeOK, Input, User PROVE TypeOK'
  OBVIOUS
<1> USE DEF hostVars, connVars, loopVars, callVars, history
<1>1. CASE RetrieveAll
  <2>1. retrieve_all(inp) \in Buffers
    <3>1. inp \in Buffers /\ PRETEND_SIZE \in Size
      BY Sizes DEF Size, TypeOK
    <3> QED BY <3>1 DEF retrieve_all, Buffers
  <2> QED BY <1>1, <2>1 DEF RetrieveAll, TypeOK
<1>2. CASE Retrieve
  <2>1. PICK len \in 1..unread :
          LET left == retrieve(inp, len) IN
          /\ inp' = left.buf
          /\ IF left.fault = "none" THEN unread' = unread - len /\ UNCHANGED ended
                                    ELSE End("buffer") /\ UNCHANGED unread
    BY <1>2 DEF Retrieve
  <2>2. Running /\ unread \in Nat /\ len \in Nat /\ len <= unread
    BY <1>2 DEF Retrieve, TypeOK
  <2>3. unread' \in Nat
    <3>1. unread - len \in Nat
      BY <2>2
    <3> QED BY <2>1, <2>2, <3>1
  <2>4. inp' \in Buffers
    <3>1. Fits(inp)
      BY <2>2 DEF Input
    <3>2. len \in Size /\ inp \in Buffers
      <4>1. unread = inp.write - inp.read /\ inp.write \in Nat /\ inp.read \in Nat /\ inp.write <= inp.size
            /\ inp.size < Word
        BY <2>2, <3>1, FitFacts DEF Input, Fits
      <4> QED BY <2>2, <3>1, <4>1, Sizes DEF Fits, Size
    <3> QED BY <2>1, <3>2, BufferTypes
  <2>5. ended' \in {ended, "buffer"}
    BY <2>1 DEF End
  <2> QED BY <1>2, <2>3, <2>4, <2>5 DEF Retrieve, TypeOK
<1>3. CASE UserSends
  <2>1. PICK len \in Lengths : SendInLoop(len)
    BY <1>3 DEF UserSends
  <2>2. /\ oup' \in Buffers /\ events' \subseteq {"read", "write"} /\ pending' \in Seq(Tasks)
        /\ ended' \in {"handle", "write", "buffer", ended}
        /\ unsent' \in Int /\ lateSend' \in BOOLEAN
    BY <2>1, SendTypes
  <2> QED BY <1>3, <2>2 DEF UserSends, TypeOK
<1>4. CASE UserShutsDown
  <2>1. ended' \in {ended, "handle"} /\ finSent' \in BOOLEAN
    BY <1>4 DEF UserShutsDown, ShutdownInLoop, End, TypeOK
  <2> QED BY <1>4, <2>1 DEF UserShutsDown, TypeOK
<1>5. CASE UserKeeps
  <2>1. shared' = TRUE /\ UNCHANGED <<hostVars, connVars, loopVars, callPc, ended, history>>
    BY <1>5 DEF UserKeeps
  <2>2. CallTyped'
    BY <2>1, TypeParts DEF CallTyped
  <2>3. HostTyped' /\ ConnTyped' /\ LoopTyped' /\ EndTyped' /\ HistoryTyped'
    BY <2>1, TypeParts DEF HostTyped, ConnTyped, LoopTyped, EndTyped, HistoryTyped
  <2> QED BY <2>2, <2>3, NextParts
<1>6. CASE UserDrops
  <2>1. shared' = FALSE /\ UNCHANGED <<hostVars, connVars, loopVars, callPc, ended, history>>
    BY <1>6 DEF UserDrops
  <2>2. CallTyped'
    BY <2>1, TypeParts DEF CallTyped
  <2>3. HostTyped' /\ ConnTyped' /\ LoopTyped' /\ EndTyped' /\ HistoryTyped'
    BY <2>1, TypeParts DEF HostTyped, ConnTyped, LoopTyped, EndTyped, HistoryTyped
  <2> QED BY <2>2, <2>3, NextParts
<1> QED BY <1>1, <1>2, <1>3, <1>4, <1>5, <1>6 DEF User

LEMMA CallTypes == TypeOK /\ (\E c \in Callers : BeginCall(c) \/ Finish(c)) => TypeOK'
<1> SUFFICES ASSUME TypeOK, NEW c \in Callers, BeginCall(c) \/ Finish(c) PROVE TypeOK'
  OBVIOUS
<1> USE DEF hostVars, connVars, loopVars, callVars, history
<1> DEFINE Pcs == {"idle", "send", "sent", "shut", "shutting", "done"}
<1>1. ASSUME NEW from, NEW to \in Pcs, Steps(c, from, to)
      PROVE  callPc' \in [Callers -> Pcs]
  BY <1>1 DEF Steps, TypeOK
<1>2. ASSUME NEW task \in Tasks, Enqueue(task)
      PROVE  pending' \in Seq(Tasks) /\ lateCall' \in BOOLEAN
  BY <1>2, AppendProperties DEF Enqueue, TypeOK
<1>3. CASE BeginCall(c)
  <2>1. callPc' \in [Callers -> Pcs]
    BY <1>1, <1>3 DEF BeginCall
  <2> QED BY <1>3, <2>1 DEF BeginCall, TypeOK
<1>4. CASE QueueSend(c)
  <2>1. callPc' \in [Callers -> Pcs]
    BY <1>1, <1>4 DEF QueueSend
  <2>2. [name |-> "send", caller |-> c] \in Tasks
    BY TaskTypes DEF TaskNames
  <2>3. pending' \in Seq(Tasks) /\ lateCall' \in BOOLEAN
    BY <1>2, <1>4, <2>2 DEF QueueSend
  <2> QED BY <1>4, <2>1, <2>3 DEF QueueSend, TypeOK
<1>5. CASE SendReturns(c)
  <2>1. callPc' \in [Callers -> Pcs]
    BY <1>1, <1>5 DEF SendReturns
  <2> QED BY <1>5, <2>1 DEF SendReturns, TypeOK
<1>6. CASE SetDisconnecting(c)
  <2>1. callPc' \in [Callers -> Pcs]
    BY <1>1, <1>6 DEF SetDisconnecting
  <2> QED BY <1>6, <2>1 DEF SetDisconnecting, TypeOK
<1>7. CASE QueueShutdown(c)
  <2>1. callPc' \in [Callers -> Pcs]
    BY <1>1, <1>7 DEF QueueShutdown
  <2>2. Task("shutdown") \in Tasks
    BY TaskTypes DEF TaskNames
  <2>3. pending' \in Seq(Tasks) /\ lateCall' \in BOOLEAN
    BY <1>2, <1>7, <2>2 DEF QueueShutdown
  <2> QED BY <1>7, <2>1, <2>3 DEF QueueShutdown, TypeOK
<1> QED BY <1>3, <1>4, <1>5, <1>6, <1>7 DEF Finish

LEMMA NextTypeOK == TypeOK /\ Input /\ [Next]_vars => TypeOK'
<1> SUFFICES ASSUME TypeOK, Input, [Next]_vars PROVE TypeOK'
  OBVIOUS
<1>1. CASE Next
  BY <1>1, EventTypes, FunctorTypes, HostTypes, UserTypes, CallTypes DEF Next, Loop
<1>2. CASE UNCHANGED vars
  BY <1>2 DEF vars, hostVars, connVars, loopVars, callVars, history, TypeOK
<1> QED BY <1>1, <1>2

(***************************************************************************)
(* The input buffer through the steps.                                     *)
(***************************************************************************)

LEMMA InitInput == Init => Input
<1> SUFFICES ASSUME Init PROVE Input
  OBVIOUS
<1>1. inp = NewBuffer /\ unread = 0
  BY DEF Init
<1>2. Fits(NewBuffer) /\ NewBuffer.write - NewBuffer.read = 0
  BY Sizes DEF Fits, NewBuffer, Buffers, Size
<1> QED BY <1>1, <1>2 DEF Input

\* Only three steps touch the input.
LEMMA InputChanges ==
  Next => \/ HandleRead \/ RetrieveAll \/ Retrieve
          \/ inp' = inp /\ unread' = unread /\ Running
<1> SUFFICES ASSUME Next, ~HandleRead, ~RetrieveAll, ~Retrieve
             PROVE  inp' = inp /\ unread' = unread /\ Running
  OBVIOUS
<1> USE DEF hostVars, connVars, loopVars, callVars, history
<1>1. CASE Loop
  <2>1. CASE PollReturns \/ SwapPending \/ EndPending
    BY <2>1 DEF PollReturns, SwapPending, EndPending
  <2>2. CASE HandleClose
    BY <2>2 DEF HandleClose, CloseLeaving
  <2>3. CASE QueueClose
    BY <2>3 DEF QueueClose, CloseQueueing
  <2>4. CASE HandleWrite
    BY <2>4 DEF HandleWrite
  <2>5. CASE CallbackReturns
    BY <2>5 DEF CallbackReturns
  <2>6. CASE Functors
    BY <2>6 DEF Functors, Runs, RunEstablish, RunClose, RunSend, RunShutdown, RunComplete
  <2> QED BY <1>1, <2>1, <2>2, <2>3, <2>4, <2>5, <2>6 DEF Loop
<1>2. CASE Host
  BY <1>2 DEF Host, Construct, ConstructLeaving, SetCallback, RemoveInLoop
<1>3. CASE User
  BY <1>3 DEF User, OnLoop, UserSends, UserShutsDown, UserKeeps, UserDrops
<1>4. ASSUME NEW c \in Callers, BeginCall(c) \/ Finish(c)
      PROVE  inp' = inp /\ unread' = unread /\ Running
  BY <1>4 DEF BeginCall, Finish, QueueSend, SendReturns, SetDisconnecting, QueueShutdown, Steps
<1> QED BY <1>1, <1>2, <1>3, <1>4 DEF Next

LEMMA NextInput == TypeOK /\ Input /\ [Next]_vars => Input'
<1> SUFFICES ASSUME TypeOK, Input, [Next]_vars, Running' PROVE (Fits(inp) /\ unread = inp.write - inp.read)'
  BY DEF Input
<1>1. CASE HandleRead
  <2>1. PICK result \in {-1} \cup 1..(writeable_bytes(inp) + EXTRA_SIZE) :
          LET read == read_socket(inp, result % Word) IN
          /\ inp' = read.buf
          /\ IF read.fault # "none" \/ cbs < 2
             THEN /\ End(IF read.fault # "none" THEN "buffer" ELSE "callback")
                  /\ UNCHANGED <<phase, callback, unread>>
             ELSE /\ unread' = unread + result
                  /\ phase' = "callback" /\ callback' = "message"
                  /\ UNCHANGED ended
    BY <1>1 DEF HandleRead
  <2>2. Fits(inp) /\ unread = inp.write - inp.read
    BY <1>1 DEF HandleRead, Input
  <2>3. read_socket(inp, result % Word).fault = "none"
    BY <2>1 DEF End, Running
  <2>4. unread' = unread + result /\ inp' = read_socket(inp, result % Word).buf
    BY <2>1, <2>3 DEF End, Running
  <2>5. result \in Nat /\ Fits(inp') /\ inp'.write = inp.write + result /\ inp'.read = inp.read
    BY <2>2, <2>3, <2>4, Reading
  <2>6. inp.write \in Nat /\ inp.read \in Nat
    BY <2>2, FitFacts
  <2>7. unread' = inp'.write - inp'.read
    BY <2>2, <2>4, <2>5, <2>6
  <2> QED BY <2>5, <2>7
<1>2. CASE RetrieveAll
  <2>1. inp' = retrieve_all(inp) /\ unread' = 0 /\ Fits(inp)
    BY <1>2 DEF RetrieveAll, Input
  <2>2. inp' \in Buffers /\ inp'.size = inp.size /\ inp'.read = PRETEND_SIZE /\ inp'.write = PRETEND_SIZE
    <3>1. PRETEND_SIZE \in Size /\ inp \in Buffers
      BY <2>1, Sizes DEF Fits, Size
    <3> QED BY <2>1, <3>1 DEF retrieve_all, Buffers
  <2>3. Fits(inp')
    BY <2>1, <2>2, Sizes DEF Fits
  <2> QED BY <2>1, <2>2, <2>3, Sizes
<1>3. CASE Retrieve
  <2>1. PICK len \in 1..unread :
          LET left == retrieve(inp, len) IN
          /\ inp' = left.buf
          /\ IF left.fault = "none" THEN unread' = unread - len /\ UNCHANGED ended
                                    ELSE End("buffer") /\ UNCHANGED unread
    BY <1>3 DEF Retrieve
  <2>2. Fits(inp) /\ unread = inp.write - inp.read /\ len \in Nat
    BY <1>3 DEF Retrieve, Input, TypeOK
  <2>3. retrieve(inp, len).fault = "none"
    BY <2>1 DEF End, Running
  <2>4. Fits(inp') /\ inp'.write = inp.write /\ inp'.read = inp.read + len /\ unread' = unread - len
    BY <2>1, <2>2, <2>3, Retrieving
  <2>5. inp.write \in Nat /\ inp.read \in Nat
    BY <2>2, FitFacts
  <2> QED BY <2>2, <2>4, <2>5
<1>4. CASE inp' = inp /\ unread' = unread /\ Running
  BY <1>4 DEF Input
<1>5. CASE UNCHANGED vars
  BY <1>5 DEF vars, connVars, history, Input, Running
<1> QED BY <1>1, <1>2, <1>3, <1>4, <1>5, InputChanges

LEMMA Typed == Spec => [](TypeOK /\ Input)
<1>1. Init => TypeOK /\ Input
  BY InitTypeOK, InitInput
<1>2. TypeOK /\ Input /\ [Next]_vars => (TypeOK /\ Input)'
  BY NextTypeOK, NextInput
<1> QED BY <1>1, <1>2, PTL DEF Spec

\* Every variable of TcpConnection keeps its type, whatever is read, sent and
\* retrieved: the input buffer's indices never leave it.
THEOREM TypeCorrect == Spec => []TypeOK
BY Typed, PTL

\* InputConserved, of buffers of any size: what the input buffer holds is what
\* was read and not retrieved.
THEOREM InputKept == Spec => []InputConserved
<1>1. Input => InputConserved
  BY FitFacts DEF Input, InputConserved
<1> QED BY <1>1, Typed, PTL

(***************************************************************************)
(* The control of the connection.  Queue is what its loop has still to     *)
(* run, the batch it is in first.                                          *)
(***************************************************************************)

Queue == functors \o pending
Has(names, q) == \E i \in 1 .. Len(q) : q[i].name \in names
One(name, q) == \A i, j \in 1 .. Len(q) : q[i].name = name /\ q[j].name = name => i = j
\* No task of these names is behind handle_close's functor.
Before(names, q) ==
  \A i, j \in 1 .. Len(q) : q[i].name \in names /\ q[j].name = "close" => i < j

\* Until the constructor's functor runs, nothing else has been queued.
Unborn == handle = "none" =>
  /\ state \in {"none", "connecting"} /\ events = {} /\ ~closing /\ ups = 0 /\ downs = 0
  /\ phase \notin {"read", "closing", "callback"}
  /\ ~Has(TaskNames \ {"establish"}, Queue) /\ One("establish", Queue)
  /\ \A c \in Callers : callPc[c] = "idle"
Unbuilt == state = "none" => handle = "none" /\ Queue = <<>>
Born == handle # "none" =>
  /\ state \notin {"none", "connecting"} /\ ups <= 1
  /\ ~Has({"establish"}, Queue)
  /\ host # "io" => ups = 1

\* What is registered may be ready; what the loop found ready still is.
Polled ==
  /\ handle = "registered" => state \in {"connected", "disconnecting"} /\ downs = 0
  /\ events # {} => handle = "registered"
  /\ "read" \in events => ~closing
  /\ closing /\ events # {} => lateSend
  /\ phase = "read" => "read" \in events
  /\ phase = "callback" /\ callback = "written" => handle = "registered"

\* handle_close runs once, and the functor that it queues once after it.
ClosedOnce ==
  /\ handle = "removed" => closing /\ state \in {"disconnecting", "disconnected"} /\ downs = 1
  /\ phase = "closing" => closing /\ handle = "registered" /\ ~Has({"close"}, Queue)
  /\ closing /\ handle = "registered" /\ phase # "closing" => Has({"close"}, Queue)
  /\ Has({"close"}, Queue) => closing /\ handle = "registered"
  /\ One("close", Queue)

\* What is queued in time runs before the handle is removed.
InTime(names) ==
  /\ Before(names, Queue)
  /\ handle = "removed" => ~Has(names, Queue)
Timely ==
  /\ ~lateSend => InTime({"complete"})
  /\ ~lateCall => InTime({"send", "shutdown"})

\* The host holds the connection until handle_close, and is told once.
Hosted ==
  /\ ~closing => removals = 0 /\ (state # "none" => held)
  /\ removals <= 1
  /\ removals > 0 => held
  /\ state # "none" /\ host # "io" => cbs = 3

\* A batch lasts as long as the functors' phase and the callbacks they make.
Batched ==
  functors # <<>> => phase = "run" \/ (phase = "callback" /\ callback \in {"connection", "complete"})

Life == Unborn /\ Unbuilt /\ Born /\ Polled /\ ClosedOnce /\ Timely /\ Hosted /\ Batched


\* r is q with a task of this name put behind it.
More(q, name, r) ==
  /\ \A names : Has(names, r) <=> Has(names, q) \/ name \in names
  /\ \A n : One(n, q) /\ (name = n => ~Has({n}, q)) => One(n, r)
  /\ \A names : /\ Before(names, q) /\ "close" \notin names
                /\ name \in names => ~Has({"close"}, q)
                => Before(names, r)

\* r is q without its head, a task of this name.
Less(q, name, r) ==
  /\ \A names : name \in names => Has(names, q)
  /\ \A names : Has(names, r) => Has(names, q)
  /\ \A names : Has(names, q) => Has(names, r) \/ name \in names
  /\ \A n : One(n, q) => One(n, r) /\ (name = n => ~Has({n}, r))
  /\ \A names : Before(names, q) => Before(names, r) /\ (name = "close" => ~Has(names, r))

LEMMA PutFacts ==
  ASSUME NEW q \in Seq(Tasks), NEW t \in Tasks
  PROVE  LET r == Append(q, t) IN
         /\ r \in Seq(Tasks)
         /\ \A names : Has(names, r) <=> Has(names, q) \/ t.name \in names
         /\ \A name : One(name, q) /\ (t.name = name => ~Has({name}, q)) => One(name, r)
         /\ \A names : /\ Before(names, q) /\ "close" \notin names
                       /\ t.name \in names => ~Has({"close"}, q)
                       => Before(names, r)
<1> DEFINE r == Append(q, t)
<1>1. /\ r \in Seq(Tasks) /\ Len(q) \in Nat /\ Len(r) = Len(q) + 1 /\ r[Len(r)] = t
      /\ \A i \in 1 .. Len(q) : r[i] = q[i]
  BY AppendProperties, LenProperties
<1>2. \A i \in 1 .. Len(r) : i \in 1 .. Len(q) \/ i = Len(r)
  BY <1>1
<1>3. Len(r) \in 1 .. Len(r) /\ \A i \in 1 .. Len(q) : i \in 1 .. Len(r) /\ i < Len(r)
  BY <1>1
<1> HIDE DEF r
<1>4. ASSUME NEW names PROVE Has(names, r) <=> Has(names, q) \/ t.name \in names
  BY <1>1, <1>2, <1>3 DEF Has
<1>5. ASSUME NEW name, One(name, q), t.name = name => ~Has({name}, q)
      PROVE  One(name, r)
  BY <1>1, <1>2, <1>5 DEF Has, One
<1>6. ASSUME NEW names, Before(names, q), "close" \notin names, t.name \in names => ~Has({"close"}, q)
      PROVE  Before(names, r)
  BY <1>1, <1>2, <1>3, <1>6 DEF Has, Before
<1> QED BY <1>1, <1>4, <1>5, <1>6 DEF r

LEMMA TakeFacts ==
  ASSUME NEW q \in Seq(Tasks), q # <<>>
  PROVE  LET r == Tail(q) IN
         /\ r \in Seq(Tasks)
         /\ \A names : Has(names, r) => Has(names, q)
         /\ \A names : Has(names, q) => Has(names, r) \/ Head(q).name \in names
         /\ \A names : Head(q).name \in names => Has(names, q)
         /\ \A name : One(name, q) => One(name, r) /\ (Head(q).name = name => ~Has({name}, r))
         /\ \A names : Before(names, q) =>
              Before(names, r) /\ (Head(q).name = "close" => ~Has(names, r))
<1> DEFINE r == Tail(q)
<1>1. /\ r \in Seq(Tasks) /\ Len(q) \in Nat \ {0} /\ Len(r) = Len(q) - 1 /\ Head(q) = q[1]
      /\ \A i \in 1 .. Len(r) : r[i] = q[i + 1]
  BY HeadTailProperties, LenProperties, EmptySeq
<1>2. \A i \in 1 .. Len(q) : i = 1 \/ (i - 1 \in 1 .. Len(r) /\ r[i - 1] = q[i])
  <2> TAKE i \in 1 .. Len(q)
  <2>1. i # 1 => i - 1 \in 1 .. Len(r) /\ (i - 1) + 1 = i
    BY <1>1
  <2> QED BY <1>1, <2>1
<1>3. /\ 1 \in 1 .. Len(q)
      /\ \A i \in 1 .. Len(r) : i + 1 \in 1 .. Len(q) /\ i + 1 # 1
  BY <1>1
<1>4. \A i, j \in 1 .. Len(r) : (i + 1 = j + 1 => i = j) /\ (i + 1 < j + 1 => i < j)
  BY <1>1
<1>5. \A i \in 1 .. Len(r) : ~(i + 1 < 1)
  BY <1>1
<1> HIDE DEF r
<1>6. ASSUME NEW names, Has(names, r) PROVE Has(names, q)
  BY <1>1, <1>3, <1>6 DEF Has
<1>7. ASSUME NEW names, Has(names, q) PROVE Has(names, r) \/ Head(q).name \in names
  BY <1>1, <1>2, <1>7 DEF Has
<1>8. ASSUME NEW names, Head(q).name \in names PROVE Has(names, q)
  BY <1>1, <1>3, <1>8 DEF Has
<1>9. ASSUME NEW name, One(name, q)
      PROVE  One(name, r) /\ (Head(q).name = name => ~Has({name}, r))
  <2>1. One(name, r)
    BY <1>1, <1>3, <1>4, <1>9 DEF One
  <2>2. ASSUME Head(q).name = name, Has({name}, r) PROVE FALSE
    BY <1>1, <1>3, <1>9, <2>2 DEF One, Has
  <2> QED BY <2>1, <2>2
<1>10. ASSUME NEW names, Before(names, q)
       PROVE  Before(names, r) /\ (Head(q).name = "close" => ~Has(names, r))
  <2>1. Before(names, r)
    BY <1>1, <1>3, <1>4, <1>10 DEF Before
  <2>2. ASSUME Head(q).name = "close", Has(names, r) PROVE FALSE
    BY <1>1, <1>3, <1>5, <1>10, <2>2 DEF Before, Has
  <2> QED BY <2>1, <2>2
<1> QED BY <1>1, <1>6, <1>7, <1>8, <1>9, <1>10 DEF r

LEMMA QueueTyped == TypeOK => Queue \in Seq(Tasks)
BY ConcatProperties DEF TypeOK, Queue

\* What the steps do to Queue.
LEMMA QueueSteps ==
  ASSUME TypeOK
  PROVE  /\ \A t \in Tasks :
              functors' = functors /\ pending' = Append(pending, t) => Queue' = Append(Queue, t)
         /\ functors # <<>> /\ functors' = Tail(functors) =>
              /\ Queue # <<>> /\ Head(Queue) = Head(functors)
              /\ pending' = pending => Queue' = Tail(Queue)
              /\ \A t \in Tasks : pending' = Append(pending, t) => Queue' = Append(Tail(Queue), t)
<1>1. functors \in Seq(Tasks) /\ pending \in Seq(Tasks)
  BY DEF TypeOK
<1>2. functors # <<>> => Tail(functors) \in Seq(Tasks)
  BY <1>1, HeadTailProperties
<1>3. ASSUME NEW t \in Tasks, functors' = functors, pending' = Append(pending, t)
      PROVE  Queue' = Append(Queue, t)
  BY <1>1, <1>3, AppendConcat DEF Queue
<1>4. ASSUME functors # <<>>, functors' = Tail(functors)
      PROVE  /\ Queue # <<>> /\ Head(Queue) = Head(functors)
             /\ pending' = pending => Queue' = Tail(Queue)
             /\ \A t \in Tasks : pending' = Append(pending, t) => Queue' = Append(Tail(Queue), t)
  <2>1. Queue # <<>> /\ Head(Queue) = Head(functors) /\ Tail(Queue) = Tail(functors) \o pending
    BY <1>1, <1>4, HeadTailConcat DEF Queue
  <2>2. ASSUME NEW t \in Tasks, pending' = Append(pending, t)
        PROVE  Queue' = Append(Tail(Queue), t)
    <3>1. Tail(functors) \o Append(pending, t) = Append(Tail(functors) \o pending, t)
      BY <1>1, <1>2, <1>4, AppendConcat
    <3> QED BY <1>4, <2>1, <2>2, <3>1 DEF Queue
  <2> QED BY <1>4, <2>1, <2>2 DEF Queue
<1> QED BY <1>3, <1>4

LEMMA Puts ==
  ASSUME TypeOK, NEW t \in Tasks, functors' = functors, pending' = Append(pending, t)
  PROVE  More(Queue, t.name, Queue')
<1>1. Queue \in Seq(Tasks) /\ Queue' = Append(Queue, t)
  BY QueueTyped, QueueSteps
<1> HIDE DEF Queue
<1> QED BY <1>1, PutFacts DEF More

LEMMA Takes ==
  ASSUME TypeOK, NEW name, Runs(name), pending' = pending
  PROVE  Less(Queue, name, Queue')
<1>1. Queue \in Seq(Tasks) /\ Queue # <<>> /\ Head(Queue).name = name /\ Queue' = Tail(Queue)
  BY QueueTyped, QueueSteps DEF Runs
<1> HIDE DEF Queue
<1> QED BY <1>1, TakeFacts DEF Less

LEMMA TakesAndPuts ==
  ASSUME TypeOK, NEW name, Runs(name), NEW t \in Tasks, pending' = Append(pending, t)
  PROVE  Less(Queue, name, Tail(Queue)) /\ More(Tail(Queue), t.name, Queue')
<1>1. Queue \in Seq(Tasks) /\ Queue # <<>> /\ Head(Queue).name = name /\ Queue' = Append(Tail(Queue), t)
  BY QueueTyped, QueueSteps DEF Runs
<1> HIDE DEF Queue
<1>2. Tail(Queue) \in Seq(Tasks)
  BY <1>1, TakeFacts
<1>3. Less(Queue, name, Tail(Queue))
  BY <1>1, TakeFacts DEF Less
<1> QED BY <1>1, <1>2, <1>3, PutFacts DEF More

Promised == AnnouncedInPairs /\ OnlyKnownFailures /\ OnlyLateCallsDangle
Control == IF Running THEN Life ELSE Promised

LEMMA LifePromises == TypeOK /\ Running /\ Life => Promised
BY DEF Promised, AnnouncedInPairs, OnlyKnownFailures, OnlyLateCallsDangle, Running, TypeOK,
       Life, Unborn, Born, Polled, ClosedOnce

\* A step that ends the program has only to end it for a known cause.
LEMMA Ending ==
  ASSUME TypeOK, Running, Life, UNCHANGED <<host, ups, downs>>,
         ended' \notin {"state", "dropped"},
         ended' \in {"events", "object"} => lateSend',
         ended' = "callback" => host = "io",
         ended' = "handle" => lateCall'
  PROVE  Promised'
<1>1. AnnouncedInPairs
  BY LifePromises DEF Promised
<1> QED BY <1>1 DEF AnnouncedInPairs, Promised, OnlyKnownFailures, OnlyLateCallsDangle

LEMMA EmptyQueue ==
  ASSUME Queue = <<>>
  PROVE  \A names, name : ~Has(names, Queue) /\ One(name, Queue) /\ Before(names, Queue)
BY DEF Has, One, Before

LEMMA InitControl == Init => Control
<1> SUFFICES ASSUME Init PROVE Life
  BY DEF Control, Init, Running
<1>1. Queue = <<>>
  <2>1. <<>> \in Seq(Tasks) /\ functors = <<>> /\ pending = <<>>
    BY EmptySeq DEF Init
  <2> QED BY <2>1, ConcatEmptySeq DEF Queue
<1>2. Before({"complete"}, Queue) /\ Before({"send", "shutdown"}, Queue)
      /\ ~Has({"complete"}, Queue) /\ ~Has({"send", "shutdown"}, Queue)
      /\ ~Has({"close"}, Queue) /\ One("close", Queue) /\ One("establish", Queue)
      /\ ~Has(TaskNames \ {"establish"}, Queue)
  BY <1>1, EmptyQueue
<1>3. /\ state = "none" /\ handle = "none" /\ events = {} /\ phase = "poll" /\ functors = <<>>
      /\ ups = 0 /\ downs = 0 /\ removals = 0
  BY DEF Init
<1>4. ~closing
  BY DEF Init
<1>5. \A c \in Callers : callPc[c] = "idle"
  BY DEF Init
<1>6. Unborn /\ Unbuilt /\ Born /\ Hosted
  BY <1>1, <1>2, <1>3, <1>4, <1>5 DEF Unborn, Unbuilt, Born, Hosted
<1>7. Polled /\ ClosedOnce /\ Timely /\ Batched
  BY <1>1, <1>2, <1>3, <1>4 DEF Polled, ClosedOnce, Timely, InTime, Batched
<1> QED BY <1>6, <1>7 DEF Life

(***************************************************************************)
(* The control through the steps: first those that leave the queue alone.  *)
(***************************************************************************)

LEMMA ControlPollReturns ==
  ASSUME TypeOK, Running, Life, PollReturns
  PROVE  Control'
<1> USE DEF hostVars, connVars, loopVars, callVars, history
<1>1. Queue' = Queue
  BY DEF PollReturns, Queue
<1>2. Life' /\ Running'
  BY <1>1 DEF PollReturns, AfterRead, Runs, Running, TypeOK, Life, Unborn, Unbuilt, Born,
     Polled, ClosedOnce, Timely, InTime, Hosted, Batched
<1> QED BY <1>2 DEF Control

LEMMA ControlEndPending ==
  ASSUME TypeOK, Running, Life, EndPending
  PROVE  Control'
<1> USE DEF hostVars, connVars, loopVars, callVars, history
<1>1. Queue' = Queue
  BY DEF EndPending, Queue
<1>2. Life' /\ Running'
  BY <1>1 DEF EndPending, AfterRead, Runs, Running, TypeOK, Life, Unborn, Unbuilt, Born,
     Polled, ClosedOnce, Timely, InTime, Hosted, Batched
<1> QED BY <1>2 DEF Control

LEMMA ControlSetCallback ==
  ASSUME TypeOK, Running, Life, SetCallback
  PROVE  Control'
<1> USE DEF hostVars, connVars, loopVars, callVars, history
<1>1. Queue' = Queue
  BY DEF SetCallback, Queue
<1>2. Life' /\ Running'
  BY <1>1 DEF SetCallback, AfterRead, Runs, Running, TypeOK, Life, Unborn, Unbuilt, Born,
     Polled, ClosedOnce, Timely, InTime, Hosted, Batched
<1> QED BY <1>2 DEF Control

LEMMA ControlRetrieveAll ==
  ASSUME TypeOK, Running, Life, RetrieveAll
  PROVE  Control'
<1> USE DEF hostVars, connVars, loopVars, callVars, history
<1>1. Queue' = Queue
  BY DEF RetrieveAll, Queue
<1>2. Life' /\ Running'
  BY <1>1 DEF RetrieveAll, AfterRead, Runs, Running, TypeOK, Life, Unborn, Unbuilt, Born,
     Polled, ClosedOnce, Timely, InTime, Hosted, Batched
<1> QED BY <1>2 DEF Control

LEMMA ControlUserKeeps ==
  ASSUME TypeOK, Running, Life, UserKeeps
  PROVE  Control'
<1> USE DEF hostVars, connVars, loopVars, callVars, history
<1>1. Queue' = Queue
  BY DEF UserKeeps, Queue
<1>2. Life' /\ Running'
  BY <1>1 DEF UserKeeps, AfterRead, Runs, Running, TypeOK, Life, Unborn, Unbuilt, Born,
     Polled, ClosedOnce, Timely, InTime, Hosted, Batched
<1> QED BY <1>2 DEF Control

LEMMA ControlUserDrops ==
  ASSUME TypeOK, Running, Life, UserDrops
  PROVE  Control'
<1> USE DEF hostVars, connVars, loopVars, callVars, history
<1>1. Queue' = Queue
  BY DEF UserDrops, Queue
<1>2. Life' /\ Running'
  BY <1>1 DEF UserDrops, AfterRead, Runs, Running, TypeOK, Life, Unborn, Unbuilt, Born,
     Polled, ClosedOnce, Timely, InTime, Hosted, Batched
<1> QED BY <1>2 DEF Control

LEMMA ControlHandleRead ==
  ASSUME TypeOK, Running, Life, HandleRead
  PROVE  Control'
<1> USE DEF hostVars, connVars, loopVars, callVars, history
<1>1. Queue' = Queue
  BY DEF HandleRead, Queue
<1>2. phase = "read" /\ "read" \in events /\ handle = "registered" /\ state # "none"
  BY DEF HandleRead, Life, Unborn, Unbuilt, Born, Polled, ClosedOnce, Timely, InTime, Hosted,
     Batched
<1>3. CASE ended' \in {"buffer", "callback"}
  <2>1. ended' = "callback" => host = "io"
    <3>1. ended' = "callback" => cbs < 2
      <4>1. PICK read, result : IF read.fault # "none" \/ cbs < 2
               THEN /\ End(IF read.fault # "none" THEN "buffer" ELSE "callback")
                    /\ UNCHANGED <<phase, callback, unread>>
               ELSE /\ unread' = unread + result
                    /\ phase' = "callback" /\ callback' = "message"
                    /\ UNCHANGED ended
        BY DEF HandleRead
      <4> QED BY <4>1 DEF End, Running
    <3>2. host # "io" => cbs = 3
      BY <1>2 DEF Life, Hosted
    <3> QED BY <3>1, <3>2
  <2>2. Promised'
    BY <1>3, <2>1, Ending DEF HandleRead
  <2> QED BY <1>3, <2>2 DEF Control, Running
<1>4. CASE ended' = ended /\ phase' = "callback" /\ callback' = "message"
  <2>1. Life'
    BY <1>1, <1>2, <1>4 DEF HandleRead, Life, Unborn, Unbuilt, Born, Polled, ClosedOnce,
       Timely, InTime, Hosted, Batched
  <2> QED BY <1>4, <2>1 DEF Control, Running
<1> QED BY <1>3, <1>4 DEF HandleRead, End

LEMMA ControlHandleClose ==
  ASSUME TypeOK, Running, Life, HandleClose
  PROVE  Control'
<1> USE DEF hostVars, connVars, loopVars, callVars, history
<1>1. Queue' = Queue
  BY DEF HandleClose, CloseLeaving, Queue
<1>2. /\ phase = "read" /\ "read" \in events /\ handle = "registered" /\ ~closing
      /\ state \in {"connected", "disconnecting"} /\ held /\ removals = 0
      /\ ~Has({"close"}, Queue)
  BY DEF HandleClose, CloseLeaving, Life, Unborn, Unbuilt, Born, Polled, ClosedOnce, Timely,
     InTime, Hosted, Batched
<1>3. /\ events' = {} /\ handle' = handle /\ closing' = TRUE /\ phase' = "closing"
      /\ UNCHANGED <<host, cbs, state, functors, pending, callPc, lateCall, lateSend, ups, downs>>
  BY DEF HandleClose, CloseLeaving
<1>4. CASE cbs < 3
  <2>1. ended' = "callback" /\ host = "io"
    BY <1>2, <1>4 DEF HandleClose, CloseLeaving, End, Life, Hosted
  <2>2. Promised'
    BY <1>3, <2>1, Ending
  <2> QED BY <2>1, <2>2 DEF Control, Running
<1>5. CASE ~(cbs < 3)
  <2>1. /\ ended' = ended
        /\ \/ host = "io" /\ removals' = 1 /\ held' = held
           \/ host # "io" /\ removals' = 0
    <3>1. IF host = "io" THEN removals' = removals + 1 /\ UNCHANGED <<held, ended>>
          ELSE DropHeld /\ UNCHANGED removals
      BY <1>2, <1>5 DEF HandleClose, CloseLeaving
    <3>2. CASE host = "io"
      <4>1. removals' = 1
        BY <1>2, <3>1, <3>2
      <4>2. held' = held /\ ended' = ended
        BY <3>1, <3>2, Zenon
      <4> QED BY <3>2, <4>1, <4>2
    <3>3. CASE host # "io"
      <4>1. removals' = 0
        BY <1>2, <3>1, <3>3, Zenon
      <4>2. ended' = ended
        BY <1>2, <3>1, <3>3, Zenon DEF DropHeld
      <4> QED BY <3>3, <4>1, <4>2
    <3> QED BY <3>2, <3>3
  <2>2. Unborn' /\ Unbuilt' /\ Born' /\ Polled'
    BY <1>1, <1>2, <1>3 DEF Life, Unborn, Unbuilt, Born, Polled, ClosedOnce, Timely, InTime,
       Hosted, Batched
  <2>3. ClosedOnce' /\ Timely' /\ Batched'
    BY <1>1, <1>2, <1>3 DEF Life, Unborn, Unbuilt, Born, Polled, ClosedOnce, Timely, InTime,
       Hosted, Batched
  <2>4. Hosted'
    <3>1. closing' /\ cbs' = cbs /\ host' = host /\ state' = state
      BY <1>3
    <3>2. CASE host = "io"
      <4>1. held'
        BY <1>2, <2>1, <3>2, Zenon
      <4>2. removals' = 1
        BY <2>1, <3>2
      <4> QED BY <3>1, <4>1, <4>2 DEF Life, Hosted
    <3>3. CASE host # "io"
      <4>1. removals' = 0
        BY <2>1, <3>3
      <4> QED BY <3>1, <4>1 DEF Life, Hosted
    <3> QED BY <3>2, <3>3
  <2>5. Life'
    BY <2>2, <2>3, <2>4 DEF Life
  <2> QED BY <2>1, <2>5 DEF Control, Running
<1> QED BY <1>4, <1>5

LEMMA ControlHandleWrite ==
  ASSUME TypeOK, Running, Life, HandleWrite
  PROVE  Control'
<1> USE DEF hostVars, connVars, loopVars, callVars, history
<1>1. Queue' = Queue
  BY DEF HandleWrite, Queue
<1>2. /\ phase = "write"
      /\ UNCHANGED <<host, cbs, held, removals, state, handle, functors, pending, callPc,
                     closing, lateCall, lateSend, ups, downs>>
      /\ \/ phase' = "swap" /\ UNCHANGED <<events, callback, ended>>
         \/ ended' = "buffer"
         \/ /\ "write" \in events /\ events' = events \ {"write"}
            /\ phase' = "callback" /\ callback' = "written" /\ ended' = ended
  BY DEF HandleWrite, End
<1>3. CASE ended' = "buffer"
  <2>1. Promised'
    BY <1>2, <1>3, Ending
  <2> QED BY <1>3, <2>1 DEF Control, Running
<1>4. CASE ended' = ended
  <2>1. Life'
    BY <1>1, <1>2, <1>4 DEF Running, Life, Unborn, Unbuilt, Born, Polled, ClosedOnce,
       Timely, InTime, Hosted, Batched
  <2> QED BY <1>4, <2>1 DEF Control, Running
<1> QED BY <1>2, <1>3, <1>4

LEMMA ControlSwapPending ==
  ASSUME TypeOK, Running, Life, SwapPending
  PROVE  Control'
<1> USE DEF hostVars, connVars, loopVars, callVars, history
<1>1. functors = <<>>
  BY DEF SwapPending, Life, Unborn, Unbuilt, Born, Polled, ClosedOnce, Timely, InTime, Hosted,
     Batched
<1>2. Queue' = Queue
  <2>1. pending \in Seq(Tasks)
    BY DEF TypeOK
  <2>2. Queue = pending /\ Queue' = pending
    BY <1>1, <2>1, ConcatEmptySeq DEF Queue, SwapPending
  <2> QED BY <2>2
<1>3. Life' /\ Running'
  BY <1>1, <1>2 DEF SwapPending, Running, Life, Unborn, Unbuilt, Born, Polled, ClosedOnce,
     Timely, InTime, Hosted, Batched
<1> QED BY <1>3 DEF Control

LEMMA ControlCallbackReturns ==
  ASSUME TypeOK, Running, Life, CallbackReturns
  PROVE  Control'
<1> USE DEF hostVars, connVars, loopVars, callVars, history
<1>1. Queue' = Queue
  BY DEF CallbackReturns, Queue
<1>2. /\ callback' = NONE /\ phase = "callback"
      /\ phase' = CASE callback = "message" -> AfterRead(revents)
                    [] callback = "written" -> "swap"
                    [] OTHER -> "run"
      /\ UNCHANGED <<host, cbs, held, removals, state, handle, events, functors, pending, callPc,
                     closing, lateCall, lateSend, ups, downs>>
  BY DEF CallbackReturns
<1>3. ended' = ended
  <2>1. CASE callback = "written" /\ state = "disconnecting"
    <3>1. handle = "registered"
      BY <1>2, <2>1 DEF Life, Polled
    <3> QED BY <2>1, <3>1 DEF CallbackReturns, ShutdownInLoop
  <2>2. CASE ~(callback = "written" /\ state = "disconnecting")
    BY <2>2 DEF CallbackReturns
  <2> QED BY <2>1, <2>2
<1>4. phase' \in {"write", "swap", "run"} /\ (callback \in {"connection", "complete"} => phase' = "run")
  BY <1>2 DEF AfterRead, TypeOK
<1>5. Life'
  BY <1>1, <1>2, <1>4 DEF Life, Unborn, Unbuilt, Born, Polled, ClosedOnce, Timely, InTime,
     Hosted, Batched
<1> QED BY <1>3, <1>5 DEF Control, Running

LEMMA ControlRemoveInLoop ==
  ASSUME TypeOK, Running, Life, RemoveInLoop
  PROVE  Control'
<1> USE DEF hostVars, connVars, loopVars, callVars, history
<1>1. Queue' = Queue
  BY DEF RemoveInLoop, Queue
<1>2. /\ removals = 1 /\ held /\ closing /\ removals' = 0 /\ ended' = ended
      /\ UNCHANGED <<host, cbs, state, handle, events, phase, callback, functors, pending, callPc,
                     closing, lateCall, lateSend, ups, downs>>
  BY DEF RemoveInLoop, DropHeld, TypeOK, Life, Hosted
<1>3. Life'
  BY <1>1, <1>2 DEF Life, Unborn, Unbuilt, Born, Polled, ClosedOnce, Timely, InTime, Hosted,
     Batched
<1> QED BY <1>2, <1>3 DEF Control, Running

LEMMA ControlRetrieve ==
  ASSUME TypeOK, Running, Life, Retrieve
  PROVE  Control'
<1> USE DEF hostVars, connVars, loopVars, callVars, history
<1>1. Queue' = Queue
  BY DEF Retrieve, Queue
<1>2. ended' \in {ended, "buffer"}
  BY DEF Retrieve, End
<1>3. CASE ended' = "buffer"
  <2>1. Promised'
    BY <1>3, Ending DEF Retrieve
  <2> QED BY <1>3, <2>1 DEF Control, Running
<1>4. CASE ended' = ended
  <2>1. Life'
    BY <1>1, <1>4 DEF Retrieve, Life, Unborn, Unbuilt, Born, Polled, ClosedOnce, Timely,
       InTime, Hosted, Batched
  <2> QED BY <1>4, <2>1 DEF Control, Running
<1> QED BY <1>2, <1>3, <1>4

LEMMA ControlUserShutsDown ==
  ASSUME TypeOK, Running, Life, UserShutsDown
  PROVE  Control'
<1> USE DEF hostVars, connVars, loopVars, callVars, history
<1>1. Queue' = Queue
  BY DEF UserShutsDown, Queue
<1>2. state = "connected" /\ handle = "registered"
  BY DEF UserShutsDown, TypeOK, Life, Unborn, Unbuilt, Born, Polled, ClosedOnce, Timely,
     InTime, Hosted, Batched
<1>3. ended' = ended /\ state' = "disconnecting"
  BY <1>2 DEF UserShutsDown, ShutdownInLoop
<1>4. Life'
  BY <1>1, <1>2, <1>3 DEF UserShutsDown, Life, Unborn, Unbuilt, Born, Polled, ClosedOnce,
     Timely, InTime, Hosted, Batched
<1> QED BY <1>3, <1>4 DEF Control, Running

LEMMA ControlBeginCall ==
  ASSUME TypeOK, Running, Life, NEW c \in Callers, BeginCall(c)
  PROVE  Control'
<1> USE DEF hostVars, connVars, loopVars, callVars, history
<1>1. Queue' = Queue
  BY DEF BeginCall, Queue
<1>2. state = "connected" /\ handle # "none"
  BY DEF BeginCall, Life, Unborn, Unbuilt, Born, Polled, ClosedOnce, Timely, InTime, Hosted,
     Batched
<1>3. Life' /\ Running'
  BY <1>1, <1>2 DEF BeginCall, Running, Life, Unborn, Unbuilt, Born, Polled, ClosedOnce,
     Timely, InTime, Hosted, Batched
<1> QED BY <1>3 DEF Control

LEMMA ControlSendReturns ==
  ASSUME TypeOK, Running, Life, NEW c \in Callers, SendReturns(c)
  PROVE  Control'
<1> USE DEF hostVars, connVars, loopVars, callVars, history
<1>1. Queue' = Queue
  BY DEF SendReturns, Queue
<1>2. callPc[c] = "sent" /\ handle # "none"
  BY DEF SendReturns, Steps, Life, Unborn, Unbuilt, Born, Polled, ClosedOnce, Timely, InTime,
     Hosted, Batched
<1>3. Life' /\ Running'
  BY <1>1, <1>2 DEF SendReturns, Steps, Running, Life, Unborn, Unbuilt, Born, Polled,
     ClosedOnce, Timely, InTime, Hosted, Batched
<1> QED BY <1>3 DEF Control

LEMMA ControlSetDisconnecting ==
  ASSUME TypeOK, Running, Life, NEW c \in Callers, SetDisconnecting(c)
  PROVE  Control'
<1> USE DEF hostVars, connVars, loopVars, callVars, history
<1>1. Queue' = Queue
  BY DEF SetDisconnecting, Queue
<1>2. callPc[c] = "shut" /\ handle \in {"registered", "removed"} /\ state # "none"
  BY DEF SetDisconnecting, Steps, TypeOK, Life, Unborn, Unbuilt, Born, Polled, ClosedOnce,
     Timely, InTime, Hosted, Batched
<1>3. Life' /\ Running'
  BY <1>1, <1>2 DEF SetDisconnecting, Steps, Running, Life, Unborn, Unbuilt, Born, Polled,
     ClosedOnce, Timely, InTime, Hosted, Batched
<1> QED BY <1>3 DEF Control

(***************************************************************************)
(* The steps that take from the queue or put into it.                      *)
(***************************************************************************)

LEMMA ControlConstruct ==
  ASSUME TypeOK, Running, Life, Construct
  PROVE  Control'
<1> USE DEF hostVars, connVars, loopVars, callVars, history
<1>1. /\ state = "none" /\ handle = "none" /\ Queue = <<>> /\ state' = "connecting"
      /\ held' = TRUE /\ cbs' = (IF host = "io" THEN 0 ELSE 3)
      /\ UNCHANGED <<host, removals, handle, events, phase, callback, functors, callPc, ended,
                     closing, lateCall, lateSend, ups, downs>>
  BY DEF Construct, ConstructLeaving, CallbacksSet, Life, Unbuilt
<1>2. Task("establish") \in Tasks /\ Task("establish").name = "establish"
  BY TaskTypes DEF TaskNames
<1>3. More(Queue, "establish", Queue')
  <2>1. pending' = Append(pending, Task("establish"))
    <3>1. pending \in Seq(Tasks)
      BY DEF TypeOK
    <3> QED BY <1>2, <3>1, AppendIsConcat DEF Construct, ConstructLeaving
  <2> QED BY <1>1, <1>2, <2>1, Puts
<1>4. /\ \A names : ~Has(names, Queue)
      /\ \A name : One(name, Queue)
      /\ \A names : Before(names, Queue)
  BY <1>1, EmptyQueue
<1>5. /\ ~Has(TaskNames \ {"establish"}, Queue') /\ One("establish", Queue')
      /\ ~Has({"close"}, Queue') /\ One("close", Queue')
      /\ Before({"complete"}, Queue') /\ Before({"send", "shutdown"}, Queue')
  <2>1. \A names : Has(names, Queue') => "establish" \in names
    BY <1>3, <1>4 DEF More
  <2>2. One("establish", Queue') /\ One("close", Queue')
    BY <1>3, <1>4 DEF More
  <2>3. Before({"complete"}, Queue') /\ Before({"send", "shutdown"}, Queue')
    BY <1>3, <1>4 DEF More
  <2> QED BY <2>1, <2>2, <2>3
<1>6. Unborn' /\ Unbuilt' /\ Born' /\ Polled'
  BY <1>1, <1>5 DEF Life, Unborn, Unbuilt, Born, Polled
<1>7. ClosedOnce' /\ Timely' /\ Batched'
  BY <1>1, <1>5 DEF Life, Unborn, ClosedOnce, Timely, InTime, Batched
<1>8. Hosted'
  <2>1. held'
    BY <1>1
  <2>2. host # "io" => cbs' = 3
    BY <1>1
  <2> QED BY <1>1, <2>1, <2>2 DEF Life, Hosted
<1> QED BY <1>1, <1>6, <1>7, <1>8 DEF Life, Control, Running

LEMMA ControlQueueClose ==
  ASSUME TypeOK, Running, Life, QueueClose
  PROVE  Control'
<1> USE DEF hostVars, connVars, loopVars, callVars, history
<1>1. phase = "closing" /\ closing /\ handle = "registered" /\ ~Has({"close"}, Queue)
  BY DEF QueueClose, CloseQueueing, Life, ClosedOnce
<1>2. /\ UNCHANGED <<hostVars, connVars, callback, functors, callPc, closing, lateCall, lateSend, ups, downs>>
      /\ \/ /\ phase' = AfterRead(revents) /\ ended' = ended
            /\ pending' = pending \o <<Task("close")>>
         \/ ended' = "expired"
  BY Zenon DEF QueueClose, CloseQueueing, End
<1>3. CASE ended' = "expired"
  <2>1. Promised'
    BY <1>2, <1>3, Ending
  <2> QED BY <1>3, <2>1 DEF Control, Running
<1>4. CASE ended' # "expired"
  <2>1. Task("close") \in Tasks /\ Task("close").name = "close"
    BY TaskTypes DEF TaskNames
  <2>2. pending' = Append(pending, Task("close"))
    <3>1. pending \in Seq(Tasks)
      BY DEF TypeOK
    <3> QED BY <1>2, <1>4, <2>1, <3>1, AppendIsConcat
  <2>3. More(Queue, "close", Queue')
    BY <1>2, <2>1, <2>2, Puts
  <2>4. /\ Has({"close"}, Queue') /\ One("close", Queue')
        /\ Has({"establish"}, Queue') => Has({"establish"}, Queue)
        /\ Has({"complete"}, Queue') => Has({"complete"}, Queue)
        /\ Has({"send", "shutdown"}, Queue') => Has({"send", "shutdown"}, Queue)
        /\ Before({"complete"}, Queue) => Before({"complete"}, Queue')
        /\ Before({"send", "shutdown"}, Queue) => Before({"send", "shutdown"}, Queue')
    BY <1>1, <2>3 DEF More, Life, ClosedOnce
  <2>5. phase' \in {"write", "swap"} /\ ended' = ended
    BY <1>2, <1>4 DEF AfterRead
  <2>6. Life'
    BY <1>1, <1>2, <2>4, <2>5 DEF Life, Unborn, Unbuilt, Born, Polled, ClosedOnce, Timely,
       InTime, Hosted, Batched
  <2> QED BY <2>5, <2>6 DEF Control, Running
<1> QED BY <1>3, <1>4

LEMMA ControlRunEstablish ==
  ASSUME TypeOK, Running, Life, RunEstablish
  PROVE  Control'
<1> USE DEF hostVars, connVars, loopVars, callVars, history
<1>1. Less(Queue, "establish", Queue')
  BY Takes DEF RunEstablish
<1>2. /\ Has({"establish"}, Queue) /\ ~Has({"establish"}, Queue') /\ Has(TaskNames, Queue)
      /\ \A names : Has(names, Queue') => Has(names, Queue)
      /\ \A names : Before(names, Queue) => Before(names, Queue')
      /\ One("close", Queue')
  BY <1>1 DEF Less, Life, Unborn, Unbuilt, Born, Polled, ClosedOnce, Timely, InTime, Hosted,
     Batched, TaskNames
<1>3. handle = "none" /\ ~Has({"close"}, Queue) /\ state # "none"
  <2>1. handle = "none"
    BY <1>2 DEF Life, Born
  <2>2. ~Has({"close"}, Queue)
    BY <2>1 DEF Life, ClosedOnce
  <2>3. Queue # <<>>
    BY <1>2, EmptyQueue
  <2> QED BY <2>1, <2>2, <2>3 DEF Life, Unbuilt
<1>4. /\ state = "connecting" /\ phase = "run" /\ ~closing /\ ups = 0 /\ downs = 0
      /\ held /\ removals = 0 /\ (host # "io" => cbs = 3)
  BY <1>3 DEF RunEstablish, Runs, Life, Unborn, Hosted
<1>5. /\ state' = "connected" /\ handle' = "registered" /\ events' = {"read"} /\ ended' = ended
      /\ \/ cbs > 0 /\ phase' = "callback" /\ callback' = "connection" /\ ups' = 1
         \/ ~(cbs > 0) /\ UNCHANGED <<phase, callback, ups>>
      /\ UNCHANGED <<hostVars, closing, lateCall, lateSend, callPc, downs>>
  BY <1>4 DEF RunEstablish
<1>6. Unborn' /\ Unbuilt' /\ Polled' /\ ClosedOnce'
  BY <1>2, <1>3, <1>4, <1>5 DEF Life, Unborn, Unbuilt, Born, Polled, ClosedOnce, Timely,
     InTime, Hosted, Batched
<1>7. Born'
  BY <1>2, <1>3, <1>4, <1>5 DEF Born
<1>8. Hosted' /\ Batched'
  BY <1>4, <1>5 DEF Hosted, Batched
<1>9. Timely'
  BY <1>2, <1>5 DEF Life, Timely, InTime
<1> QED BY <1>5, <1>6, <1>7, <1>8, <1>9 DEF Life, Control, Running

LEMMA ControlRunClose ==
  ASSUME TypeOK, Running, Life, RunClose
  PROVE  Control'
<1> USE DEF hostVars, connVars, loopVars, callVars, history
<1>1. Less(Queue, "close", Queue')
  BY Takes DEF RunClose
<1>2. /\ Has({"close"}, Queue) /\ ~Has({"close"}, Queue')
      /\ \A names : Has(names, Queue') => Has(names, Queue)
      /\ \A names : Before(names, Queue) => Before(names, Queue') /\ ~Has(names, Queue')
      /\ One("close", Queue')
  BY <1>1 DEF Less, Life, ClosedOnce
<1>3. /\ closing /\ handle = "registered" /\ state \in {"connected", "disconnecting"} /\ downs = 0
      /\ phase = "run" /\ (events # {} => lateSend)
  BY <1>2 DEF RunClose, Runs, Life, ClosedOnce, Polled
<1>4. CASE events # {}
  <2>1. /\ ended' = "events"
        /\ UNCHANGED <<host, ups, downs, lateSend>>
    BY <1>4 DEF RunClose, End
  <2>2. Promised'
    BY <1>3, <1>4, <2>1, Ending
  <2> QED BY <2>1, <2>2 DEF Control, Running
<1>5. CASE events = {}
  <2>1. /\ handle' = "removed" /\ state' = "disconnected" /\ phase' = "callback"
        /\ callback' = "connection" /\ downs' = 1 /\ ended' = ended /\ events' = {}
        /\ UNCHANGED <<hostVars, closing, lateCall, lateSend, callPc, ups>>
    BY <1>3, <1>5 DEF RunClose
  <2>2. Unborn' /\ Unbuilt' /\ Polled' /\ ClosedOnce' /\ Batched'
    BY <1>2, <1>3, <2>1 DEF Unborn, Unbuilt, Polled, ClosedOnce, Batched
  <2>3. Born'
    BY <1>2, <1>3, <2>1 DEF Life, Born
  <2>4. Hosted'
    BY <1>3, <2>1 DEF Life, Hosted
  <2>5. Timely'
    BY <1>2, <2>1 DEF Life, Timely, InTime
  <2> QED BY <2>1, <2>2, <2>3, <2>4, <2>5 DEF Life, Control, Running
<1> QED BY <1>4, <1>5

LEMMA ControlRunShutdown ==
  ASSUME TypeOK, Running, Life, RunShutdown
  PROVE  Control'
<1> USE DEF hostVars, connVars, loopVars, callVars, history
<1>1. Less(Queue, "shutdown", Queue')
  BY Takes DEF RunShutdown
<1>2. /\ Has({"send", "shutdown"}, Queue) /\ Has(TaskNames \ {"establish"}, Queue)
      /\ \A names : Has(names, Queue') => Has(names, Queue)
      /\ \A names : Before(names, Queue) => Before(names, Queue')
      /\ One("close", Queue) => One("close", Queue')
      /\ Has({"close"}, Queue) => Has({"close"}, Queue')
  BY <1>1 DEF Less, TaskNames
<1>3. handle # "none" /\ phase = "run"
  BY <1>2 DEF Life, Unborn, RunShutdown, Runs
<1>4. CASE handle = "removed"
  <2>1. ended' = "handle" /\ lateCall /\ UNCHANGED <<host, ups, downs, lateCall>>
    BY <1>2, <1>4 DEF RunShutdown, ShutdownInLoop, End, Life, Timely, InTime
  <2>2. Promised'
    BY <2>1, Ending
  <2> QED BY <2>1, <2>2 DEF Control, Running
<1>5. CASE handle # "removed"
  <2>1. /\ ended' = ended
        /\ UNCHANGED <<hostVars, connVars, phase, callback, callPc, closing, lateCall, lateSend, ups, downs>>
    BY <1>5 DEF RunShutdown, ShutdownInLoop
  <2>2. Unborn' /\ Unbuilt' /\ Born' /\ Polled' /\ Hosted'
    BY <1>2, <1>3, <2>1 DEF Life, Unborn, Unbuilt, Born, Polled, ClosedOnce, Timely, InTime,
       Hosted, Batched
  <2>3. ClosedOnce' /\ Timely' /\ Batched'
    BY <1>2, <1>3, <2>1 DEF Life, Unborn, Unbuilt, Born, Polled, ClosedOnce, Timely, InTime,
       Hosted, Batched
  <2> QED BY <2>1, <2>2, <2>3 DEF Life, Control, Running
<1> QED BY <1>4, <1>5

\* handle_close's functor holds a reference to the connection.
LEMMA CloseKeepsAlive ==
  ASSUME TypeOK, Has({"close"}, Queue)
  PROVE  Alive
<1>1. PICK i \in 1 .. Len(Queue) : Queue[i].name = "close"
  BY DEF Has
<1>2. DOMAIN Queue = 1 .. Len(Queue)
  BY QueueTyped, LenProperties
<1>3. Queue[i] \in Range(Queue)
  BY <1>2 DEF Range
<1>4. \E task \in Range(functors \o pending) : task.name \in {"shutdown", "close"}
  BY <1>1, <1>3 DEF Queue
<1> QED BY <1>4 DEF Alive

LEMMA ControlRunComplete ==
  ASSUME TypeOK, Running, Life, RunComplete
  PROVE  Control'
<1> USE DEF hostVars, connVars, loopVars, callVars, history
<1>1. Less(Queue, "complete", Queue')
  BY Takes DEF RunComplete
<1>2. /\ Has({"complete"}, Queue) /\ Has(TaskNames \ {"establish"}, Queue)
      /\ \A names : Has(names, Queue') => Has(names, Queue)
      /\ \A names : Before(names, Queue) => Before(names, Queue')
      /\ One("close", Queue) => One("close", Queue')
      /\ Has({"close"}, Queue) => Has({"close"}, Queue')
  BY <1>1 DEF Less, TaskNames
<1>3. handle \in {"registered", "removed"} /\ phase = "run" /\ state # "none"
  BY <1>2 DEF TypeOK, Life, Unborn, Unbuilt, RunComplete, Runs
<1>4. CASE ~Alive
  <2>1. ended' = "object" /\ UNCHANGED <<host, ups, downs, lateSend>>
    BY <1>4, Zenon DEF RunComplete, End
  <2>2. lateSend
    <3>1. ~held /\ ~Has({"close"}, Queue)
      BY <1>4, CloseKeepsAlive DEF Alive
    <3>2. closing
      BY <1>3, <3>1 DEF Life, Hosted
    <3>3. handle = "removed"
      BY <1>3, <3>1, <3>2 DEF Life, ClosedOnce
    <3> QED BY <1>2, <3>3 DEF Life, Timely, InTime
  <2>3. Promised'
    BY <2>1, <2>2, Ending
  <2> QED BY <2>1, <2>3 DEF Control, Running
<1>5. CASE Alive
  <2>1. /\ ended' = ended /\ phase' = "callback" /\ callback' = "complete"
        /\ UNCHANGED <<hostVars, connVars, callPc, closing, lateCall, lateSend, ups, downs>>
    BY <1>5, Zenon DEF RunComplete
  <2>2. Unborn' /\ Unbuilt' /\ Born' /\ Polled' /\ Hosted'
    BY <1>2, <1>3, <2>1 DEF Life, Unborn, Unbuilt, Born, Polled, ClosedOnce, Timely, InTime,
       Hosted, Batched
  <2>3. ClosedOnce' /\ Timely' /\ Batched'
    BY <1>2, <1>3, <2>1 DEF Life, Unborn, Unbuilt, Born, Polled, ClosedOnce, Timely, InTime,
       Hosted, Batched
  <2> QED BY <2>1, <2>2, <2>3 DEF Life, Control, Running
<1> QED BY <1>4, <1>5

\* send_in_loop where it does not fail.  What of the queue is behind the running
\* functor, if one is running, is rest.
LEMMA LifeSending ==
  ASSUME TypeOK, Running, Life, handle = "registered",
         lateSend' = (lateSend \/ closing),
         events' = events \/ events' = events \cup {"write"},
         UNCHANGED <<hostVars, state, handle, phase, callback, callPc, closing, lateCall, ups, downs>>,
         functors' = functors \/ phase = "run",
         NEW rest,
         /\ \A names : Has(names, rest) => Has(names, Queue)
         /\ \A names : Before(names, Queue) => Before(names, rest)
         /\ One("close", Queue) => One("close", rest)
         /\ Has({"close"}, Queue) => Has({"close"}, rest),
         Queue' = rest \/ More(rest, "complete", Queue')
  PROVE  Life'
<1> USE DEF hostVars
<1>1. /\ ~Has({"establish"}, Queue') /\ One("close", Queue')
      /\ Has({"close"}, Queue') <=> Has({"close"}, Queue)
      /\ Before({"send", "shutdown"}, Queue) => Before({"send", "shutdown"}, Queue')
      /\ ~closing /\ Before({"complete"}, Queue) => Before({"complete"}, Queue')
  <2>1. ~Has({"establish"}, Queue) /\ One("close", Queue) /\ (~closing => ~Has({"close"}, Queue))
    BY DEF Life, Born, ClosedOnce
  <2>2. CASE Queue' = rest
    BY <2>1, <2>2
  <2>3. CASE More(rest, "complete", Queue')
    BY <2>1, <2>3 DEF More
  <2> QED BY <2>2, <2>3
<1>2. state \in {"connected", "disconnecting"}
  BY DEF Life, Polled
<1>3. Unborn' /\ Unbuilt' /\ Born' /\ Polled'
  BY <1>1, <1>2 DEF Life, Unborn, Unbuilt, Born, Polled
<1>4. ClosedOnce' /\ Timely'
  BY <1>1, <1>2 DEF Life, ClosedOnce, Timely, InTime
<1>5. Hosted' /\ Batched'
  BY <1>2 DEF Life, Hosted, Batched
<1> QED BY <1>3, <1>4, <1>5 DEF Life

LEMMA ControlRunSend ==
  ASSUME TypeOK, Running, Life, RunSend
  PROVE  Control'
<1> USE DEF hostVars, connVars, loopVars, callVars, history
<1>1. Runs("send") /\ phase = "run"
  BY DEF RunSend, Runs
<1>2. \A rest : Less(Queue, "send", rest) =>
        /\ Has({"send", "shutdown"}, Queue) /\ Has(TaskNames \ {"establish"}, Queue)
        /\ \A names : Has(names, rest) => Has(names, Queue)
        /\ \A names : Before(names, Queue) => Before(names, rest)
        /\ One("close", Queue) => One("close", rest)
        /\ Has({"close"}, Queue) => Has({"close"}, rest)
  BY DEF Less, TaskNames
<1>3. Less(Queue, "send", Tail(Queue))
  <2>1. Queue \in Seq(Tasks) /\ Queue # <<>> /\ Head(Queue).name = "send"
    BY <1>1, QueueTyped, QueueSteps DEF Runs
  <2> HIDE DEF Queue
  <2> QED BY <2>1, TakeFacts DEF Less
<1>4. handle # "none"
  BY <1>2, <1>3 DEF Life, Unborn
<1>5. UNCHANGED <<hostVars, state, handle, phase, callback, callPc, closing, lateCall, ups, downs>>
  BY DEF RunSend
<1>6. CASE callPc[Head(functors).caller] # "sent"
  <2>1. ended' = "message"
    BY <1>6 DEF RunSend, End
  <2>2. Promised'
    BY <1>5, <2>1, Ending
  <2> QED BY <2>1, <2>2 DEF Control, Running
<1>7. CASE callPc[Head(functors).caller] = "sent"
  <2>1. PICK len \in Lengths : SendInLoop(len)
    BY <1>7 DEF RunSend
  <2>2. /\ lateSend' = (lateSend \/ closing)
        /\ \/ handle = "removed" /\ ended' = "handle"
           \/ ended' \in {"write", "buffer"}
           \/ /\ handle # "removed" /\ ended' = ended
              /\ events' = events \/ events' = events \cup {"write"}
              /\ pending' = pending \/ pending' = Append(pending, Task("complete"))
    BY <2>1, Sending
  <2>3. CASE ended' \in {"handle", "write", "buffer"}
    <3>1. ended' = "handle" => handle = "removed"
      BY <2>2, <2>3 DEF Running
    <3>2. handle = "removed" => lateCall
      BY <1>2, <1>3 DEF Life, Timely, InTime
    <3>3. Promised'
      BY <1>5, <2>3, <3>1, <3>2, Ending
    <3> QED BY <2>3, <3>3 DEF Control, Running
  <2>4. CASE ended' \notin {"handle", "write", "buffer"}
    <3>1. handle = "registered"
      BY <1>4, <2>2, <2>4 DEF TypeOK
    <3>2. Task("complete") \in Tasks /\ Task("complete").name = "complete"
      BY TaskTypes DEF TaskNames
    <3>3. Queue' = Tail(Queue) \/ More(Tail(Queue), "complete", Queue')
      BY <1>1, <2>2, <2>4, <3>2, QueueSteps, TakesAndPuts DEF Runs
    <3>4. Life'
      BY <1>1, <1>2, <1>3, <1>5, <2>2, <2>4, <3>1, <3>3, LifeSending
    <3> QED BY <2>2, <2>4, <3>4 DEF Control, Running
  <2> QED BY <2>3, <2>4
<1> QED BY <1>6, <1>7

LEMMA ControlUserSends ==
  ASSUME TypeOK, Running, Life, UserSends
  PROVE  Control'
<1> USE DEF hostVars, connVars, loopVars, callVars, history
<1>1. state = "connected" /\ handle = "registered"
  BY DEF UserSends, TypeOK, Life, Unborn, Unbuilt, Born, Polled, ClosedOnce, Timely, InTime,
     Hosted, Batched
<1>2. UNCHANGED <<hostVars, state, handle, phase, callback, functors, callPc, closing, lateCall, ups, downs>>
  BY DEF UserSends
<1>3. PICK len \in Lengths : SendInLoop(len)
  BY DEF UserSends
<1>4. /\ lateSend' = (lateSend \/ closing)
      /\ \/ ended' \in {"write", "buffer"}
         \/ /\ ended' = ended
            /\ events' = events \/ events' = events \cup {"write"}
            /\ pending' = pending \/ pending' = Append(pending, Task("complete"))
  BY <1>1, <1>3, Sending
<1>5. CASE ended' \in {"write", "buffer"}
  <2>1. Promised'
    BY <1>2, <1>5, Ending
  <2> QED BY <1>5, <2>1 DEF Control, Running
<1>6. CASE ended' \notin {"write", "buffer"}
  <2>1. Task("complete") \in Tasks /\ Task("complete").name = "complete"
    BY TaskTypes DEF TaskNames
  <2>2. Queue' = Queue \/ More(Queue, "complete", Queue')
    <3>1. CASE pending' = pending
      BY <1>2, <3>1 DEF Queue
    <3>2. CASE pending' = Append(pending, Task("complete"))
      BY <1>2, <2>1, <3>2, Puts
    <3> QED BY <1>4, <1>6, <3>1, <3>2
  <2>3. Life'
    BY <1>1, <1>2, <1>4, <1>6, <2>2, LifeSending
  <2> QED BY <1>4, <1>6, <2>3 DEF Control, Running
<1> QED BY <1>5, <1>6

LEMMA ControlQueueSend ==
  ASSUME TypeOK, Running, Life, NEW c \in Callers, QueueSend(c)
  PROVE  Control'
<1> USE DEF hostVars, connVars, loopVars, callVars, history
<1>1. /\ callPc[c] = "send" /\ lateCall' = (lateCall \/ closing) /\ ended' = ended
      /\ UNCHANGED <<hostVars, connVars, phase, callback, functors, closing, lateSend, ups, downs>>
  BY DEF QueueSend, Steps, Enqueue
<1>2. [name |-> "send", caller |-> c] \in Tasks /\ [name |-> "send", caller |-> c].name = "send"
  BY TaskTypes DEF TaskNames
<1>3. More(Queue, "send", Queue')
  BY <1>1, <1>2, Puts DEF QueueSend, Enqueue
<1>4. /\ Has({"establish"}, Queue') => Has({"establish"}, Queue)
      /\ Has({"close"}, Queue') <=> Has({"close"}, Queue)
      /\ Has({"complete"}, Queue') => Has({"complete"}, Queue)
      /\ One("close", Queue) => One("close", Queue')
      /\ Before({"complete"}, Queue) => Before({"complete"}, Queue')
      /\ ~Has({"close"}, Queue) /\ Before({"send", "shutdown"}, Queue)
           => Before({"send", "shutdown"}, Queue')
  BY <1>3 DEF More
<1>5. handle # "none" /\ state # "none"
  BY <1>1 DEF Life, Unborn, Unbuilt
<1>6. Unborn' /\ Unbuilt' /\ Born' /\ Polled' /\ Hosted'
  BY <1>1, <1>4, <1>5 DEF Life, Unborn, Unbuilt, Born, Polled, ClosedOnce, Timely, InTime,
     Hosted, Batched
<1>7. ClosedOnce' /\ Batched'
  BY <1>1, <1>4, <1>5 DEF Life, ClosedOnce, Batched
<1>8. Timely'
  BY <1>1, <1>4, <1>5 DEF Life, ClosedOnce, Timely, InTime
<1> QED BY <1>1, <1>6, <1>7, <1>8 DEF Life, Control, Running

LEMMA ControlQueueShutdown ==
  ASSUME TypeOK, Running, Life, NEW c \in Callers, QueueShutdown(c)
  PROVE  Control'
<1> USE DEF hostVars, connVars, loopVars, callVars, history
<1>1. /\ callPc[c] = "shutting" /\ lateCall' = (lateCall \/ closing) /\ ended' = ended
      /\ UNCHANGED <<hostVars, connVars, phase, callback, functors, closing, lateSend, ups, downs>>
  BY DEF QueueShutdown, Steps, Enqueue
<1>2. Task("shutdown") \in Tasks /\ Task("shutdown").name = "shutdown"
  BY TaskTypes DEF TaskNames
<1>3. More(Queue, "shutdown", Queue')
  BY <1>1, <1>2, Puts DEF QueueShutdown, Enqueue
<1>4. /\ Has({"establish"}, Queue') => Has({"establish"}, Queue)
      /\ Has({"close"}, Queue') <=> Has({"close"}, Queue)
      /\ Has({"complete"}, Queue') => Has({"complete"}, Queue)
      /\ One("close", Queue) => One("close", Queue')
      /\ Before({"complete"}, Queue) => Before({"complete"}, Queue')
      /\ ~Has({"close"}, Queue) /\ Before({"send", "shutdown"}, Queue)
           => Before({"send", "shutdown"}, Queue')
  BY <1>3 DEF More
<1>5. handle # "none" /\ state # "none"
  BY <1>1 DEF Life, Unborn, Unbuilt
<1>6. Unborn' /\ Unbuilt' /\ Born' /\ Polled' /\ Hosted'
  BY <1>1, <1>4, <1>5 DEF Life, Unborn, Unbuilt, Born, Polled, ClosedOnce, Timely, InTime,
     Hosted, Batched
<1>7. ClosedOnce' /\ Batched'
  BY <1>1, <1>4, <1>5 DEF Life, ClosedOnce, Batched
<1>8. Timely'
  BY <1>1, <1>4, <1>5 DEF Life, ClosedOnce, Timely, InTime
<1> QED BY <1>1, <1>6, <1>7, <1>8 DEF Life, Control, Running

LEMMA NextControl == TypeOK /\ Control /\ [Next]_vars => Control'
<1> SUFFICES ASSUME TypeOK, Control, [Next]_vars PROVE Control'
  OBVIOUS
<1>1. CASE UNCHANGED vars
  <2>1. Queue' = Queue
    BY <1>1 DEF vars, loopVars, Queue
  <2>2. CASE Running
    <3>1. Life /\ Running'
      BY <1>1, <2>2 DEF vars, Control, Running
    <3>2. Life'
      BY <1>1, <2>1, <3>1 DEF vars, hostVars, connVars, loopVars, callVars, history, Life,
         Unborn, Unbuilt, Born, Polled, ClosedOnce, Timely, InTime, Hosted, Batched
    <3> QED BY <3>1, <3>2 DEF Control
  <2>3. CASE ~Running
    BY <1>1, <2>3 DEF vars, hostVars, connVars, loopVars, callVars, history, Control, Running,
                      Promised, AnnouncedInPairs, OnlyKnownFailures, OnlyLateCallsDangle
  <2> QED BY <2>2, <2>3
<1>2. CASE Next
  <2>1. Running
    BY <1>2, InputChanges DEF HandleRead, RetrieveAll, Retrieve
  <2>2. Life
    BY <2>1 DEF Control
  <2>3. CASE Loop
    BY <2>1, <2>2, <2>3, ControlPollReturns, ControlHandleRead, ControlHandleClose,
       ControlQueueClose,
       ControlHandleWrite, ControlSwapPending, ControlRunEstablish, ControlRunClose, ControlRunSend,
       ControlRunShutdown, ControlRunComplete, ControlEndPending, ControlCallbackReturns
       DEF Loop, Functors
  <2>4. CASE Host
    BY <2>1, <2>2, <2>4, ControlConstruct, ControlSetCallback, ControlRemoveInLoop DEF Host
  <2>5. CASE User
    BY <2>1, <2>2, <2>5, ControlRetrieveAll, ControlRetrieve, ControlUserSends,
       ControlUserShutsDown,
       ControlUserKeeps, ControlUserDrops DEF User
  <2>6. CASE \E c \in Callers : BeginCall(c) \/ Finish(c)
    BY <2>1, <2>2, <2>6, ControlBeginCall, ControlQueueSend, ControlSendReturns,
       ControlSetDisconnecting, ControlQueueShutdown DEF Finish
  <2> QED BY <1>2, <2>3, <2>4, <2>5, <2>6 DEF Next
<1> QED BY <1>1, <1>2

LEMMA Controlled == Spec => []Promised
<1>1. TypeOK /\ Control => Promised
  BY LifePromises DEF Control
<1> QED BY <1>1, InitControl, NextControl, TypeCorrect, PTL DEF Spec

\* AnnouncedInPairs, for any number of other threads: connection_cb_ hears of
\* one establishment and then of one destruction.
THEOREM AnnouncedOnce == Spec => []AnnouncedInPairs
BY Controlled, PTL DEF Promised

\* OnlyKnownFailures: the assertions on the connection's state and on the host's
\* reference hold in every interleaving, and the ones that can fail need a send
\* after handle_close.
THEOREM AssertionsHold == Spec => []OnlyKnownFailures
BY Controlled, PTL DEF Promised

\* OnlyLateCallsDangle: a call queued before handle_close never meets a removed
\* poll_handle, however many threads call.
THEOREM CallsInTimeAreSafe == Spec => []OnlyLateCallsDangle
BY Controlled, PTL DEF Promised

(***************************************************************************)
(* The FIN.  Output that waits keeps the write event enabled, since        *)
(* handle_write never finds the output buffer empty: retrieve's assertion  *)
(* is strict.  What clears the event is handle_close alone.                *)
(***************************************************************************)

Flushed == Running => unsent = 0 \/ closing \/ "write" \in events

LEMMA WrappedOnce ==
  ASSUME NEW x \in Int, Word <= x, x < 2 * Word
  PROVE  x % Word = x - Word
<1>1. Word \in Nat /\ Word > 0
  BY Sizes
<1> QED BY <1>1

\* retrieve leaves something to read.
LEMMA NeverDrained ==
  ASSUME NEW b \in Buffers, NEW n \in Nat \ {0}, retrieve(b, n).fault = "none"
  PROVE  readable_bytes(retrieve(b, n).buf) > 0
<1> DEFINE read == b.read
           write == b.write
           left == Plus(b.read, n)
<1>1. /\ Word \in Nat /\ Word > 0 /\ read \in Nat /\ write \in Nat /\ read < Word /\ write < Word
  BY Sizes DEF Buffers, Size
<1>2. n < readable_bytes(b) /\ retrieve(b, n).buf = [b EXCEPT !.read = left]
  BY DEF retrieve, Returns, Fails
<1>3. readable_bytes(retrieve(b, n).buf) = (write - left) % Word
  BY <1>2 DEF readable_bytes, Minus, Buffers
<1>4. n < (write - read) % Word /\ left = (read + n) % Word
  BY <1>2 DEF readable_bytes, Minus, Plus
<1> HIDE DEF read, write, left
<1>5. CASE write >= read
  <2>1. n < write - read
    BY <1>1, <1>4, <1>5, Unwrapped
  <2>2. left = read + n
    BY <1>1, <1>4, <2>1, Unwrapped
  <2> QED BY <1>1, <1>3, <2>1, <2>2, Unwrapped
<1>6. CASE write < read
  <2>1. n < write - read + Word
    BY <1>1, <1>4, <1>6, Unwrapped
  <2>2. CASE read + n < Word
    <3>1. left = read + n
      BY <1>1, <1>4, <2>2, Unwrapped
    <3>2. (write - left) % Word = write - left + Word
      BY <1>1, <1>6, <2>1, <2>2, <3>1, Unwrapped
    <3> QED BY <1>1, <1>3, <2>1, <3>1, <3>2
  <2>3. CASE ~(read + n < Word)
    <3>1. left = read + n - Word
      <4>1. Word <= read + n /\ read + n < 2 * Word
        BY <1>1, <1>6, <2>1, <2>3
      <4> QED BY <1>1, <1>4, <4>1, WrappedOnce
    <3>2. (write - left) % Word = write - left
      BY <1>1, <2>1, <2>3, <3>1, Unwrapped
    <3> QED BY <1>1, <1>3, <2>1, <3>1, <3>2
  <2> QED BY <2>2, <2>3
<1> QED BY <1>1, <1>5, <1>6

\* send_in_loop enables the write event for what it leaves in the buffer.
LEMMA SendFlushes ==
  ASSUME Running, Flushed, NEW len, SendInLoop(len), UNCHANGED closing
  PROVE  Flushed'
BY DEF SendInLoop, End, Running, Flushed

LEMMA NextFlushed == TypeOK /\ Control /\ Flushed /\ [Next]_vars => Flushed'
<1> SUFFICES ASSUME TypeOK, Control, Flushed, [Next]_vars PROVE Flushed'
  OBVIOUS
<1> USE DEF hostVars, connVars, loopVars, callVars, history
<1>1. CASE UNCHANGED vars
  BY <1>1 DEF vars, Flushed, Running
<1>2. CASE Next
  <2>1. Running
    BY <1>2, InputChanges DEF HandleRead, RetrieveAll, Retrieve
  <2>2. Life
    BY <2>1 DEF Control
  <2>3. CASE UNCHANGED <<unsent, closing, events>>
    BY <2>1, <2>3 DEF Flushed
  <2>4. CASE HandleWrite
    <3>1. PICK result \in IF "write" \in events THEN WriteResults(writeable_bytes(oup)) ELSE {0} :
            LET left == retrieve(oup, result) IN
            IF result <= 0
            THEN UNCHANGED <<events, unsent>>
            ELSE IF left.fault # "none"
                 THEN ended' = "buffer"
                 ELSE IF readable_bytes(left.buf) > 0 THEN UNCHANGED events
                                                      ELSE TRUE
      BY <2>4 DEF HandleWrite, End
    <3>2. closing' = closing
      BY <2>4 DEF HandleWrite
    <3>3. CASE result <= 0
      BY <2>1, <3>1, <3>2, <3>3 DEF Flushed
    <3>4. CASE ~(result <= 0)
      <4>1. "write" \in events
        BY <3>1, <3>4
      <4>2. result \in Nat \ {0}
        <5>1. oup.size \in Int /\ oup.write \in Int
          BY DEF TypeOK, Buffers, Size
        <5>2. writeable_bytes(oup) \in Size
          BY <5>1, Wraps DEF writeable_bytes, Minus
        <5> QED BY <3>1, <3>4, <4>1, <5>2 DEF WriteResults, Size
      <4>3. retrieve(oup, result).fault = "none" => readable_bytes(retrieve(oup, result).buf) > 0
        BY <4>2, NeverDrained DEF TypeOK
      <4>4. ended' = "buffer" \/ events' = events
        BY <3>1, <3>4, <4>3
      <4> QED BY <4>1, <4>4 DEF Flushed, Running
    <3> QED BY <3>3, <3>4
  <2>5. CASE HandleClose
    BY <2>5 DEF HandleClose, CloseLeaving, Flushed
  <2>6. CASE RunEstablish
    <3>1. Has({"establish"}, Queue)
      BY <2>6, Takes DEF RunEstablish, Less
    <3>2. unsent = 0
      BY <2>1, <2>2, <3>1 DEF Life, Born, Unborn, Flushed
    <3> QED BY <2>6, <3>2 DEF RunEstablish, Flushed
  <2>7. CASE \E len \in Lengths : SendInLoop(len) /\ UNCHANGED closing
    BY <2>1, <2>7, SendFlushes
  <2>8. CASE RunSend
    BY <2>1, <2>3, <2>7, <2>8 DEF RunSend
  <2>9. CASE UserSends
    BY <2>7, <2>9 DEF UserSends
  <2>10. CASE Loop
    <3>1. CASE PollReturns \/ HandleRead \/ SwapPending \/ EndPending
      BY <2>3, <3>1 DEF PollReturns, HandleRead, SwapPending, EndPending
    <3>2. CASE QueueClose \/ CallbackReturns
      BY <2>3, <3>2 DEF QueueClose, CloseQueueing, CallbackReturns
    <3>3. CASE RunClose \/ RunShutdown \/ RunComplete
      BY <2>3, <3>3 DEF RunClose, RunShutdown, RunComplete
    <3> QED BY <2>4, <2>5, <2>6, <2>8, <2>10, <3>1, <3>2, <3>3 DEF Loop, Functors
  <2>11. CASE Host
    BY <2>3, <2>11 DEF Host, Construct, ConstructLeaving, SetCallback, RemoveInLoop
  <2>12. CASE User
    BY <2>3, <2>9, <2>12 DEF User, RetrieveAll, Retrieve, UserShutsDown, UserKeeps, UserDrops
  <2>13. CASE \E c \in Callers : BeginCall(c) \/ Finish(c)
    BY <2>3, <2>13 DEF BeginCall, Finish, QueueSend, SendReturns, SetDisconnecting, QueueShutdown
  <2> QED BY <1>2, <2>10, <2>11, <2>12, <2>13 DEF Next
<1> QED BY <1>1, <1>2

\* The socket is shut down for writing by shotdown_in_loop alone.
LEMMA FinStep ==
  ASSUME TypeOK, Flushed, [Next]_vars
  PROVE  finSent' /\ ~finSent => unsent = 0 \/ closing
<1> USE DEF hostVars, connVars, loopVars, callVars, history
<1> SUFFICES ASSUME finSent', ~finSent PROVE unsent = 0 \/ closing
  OBVIOUS
<1>1. Next
  <2>1. CASE UNCHANGED vars
    <3>1. finSent' = finSent
      BY <2>1 DEF vars
    <3> QED BY <3>1
  <2> QED BY <2>1
<1>2. Running
  BY <1>1, InputChanges DEF HandleRead, RetrieveAll, Retrieve
<1>3. CASE ShutdownInLoop
  BY <1>2, <1>3 DEF ShutdownInLoop, Flushed
<1>4. CASE Loop
  <2>1. CASE PollReturns \/ HandleRead \/ HandleWrite \/ SwapPending \/ EndPending
    BY <2>1 DEF PollReturns, HandleRead, HandleWrite, SwapPending, EndPending
  <2>2. CASE HandleClose \/ QueueClose
    BY <2>2 DEF HandleClose, CloseLeaving, QueueClose, CloseQueueing
  <2>3. CASE CallbackReturns
    BY <1>3, <2>3 DEF CallbackReturns
  <2>4. CASE RunEstablish \/ RunClose \/ RunSend \/ RunComplete
    BY <2>4 DEF RunEstablish, RunClose, RunSend, RunComplete
  <2>5. CASE RunShutdown
    BY <1>3, <2>5 DEF RunShutdown
  <2> QED BY <1>4, <2>1, <2>2, <2>3, <2>4, <2>5 DEF Loop, Functors
<1>5. CASE Host
  BY <1>5 DEF Host, Construct, ConstructLeaving, SetCallback, RemoveInLoop
<1>6. CASE User
  BY <1>3, <1>6 DEF User, RetrieveAll, Retrieve, UserSends, UserShutsDown, UserKeeps, UserDrops
<1>7. CASE \E c \in Callers : BeginCall(c) \/ Finish(c)
  BY <1>7 DEF BeginCall, Finish, QueueSend, SendReturns, SetDisconnecting, QueueShutdown
<1> QED BY <1>1, <1>4, <1>5, <1>6, <1>7 DEF Next

\* FinAfterFlush, for messages of any length and buffers of any size: shotdown
\* cuts no accepted output off.
THEOREM FinWaits == Spec => FinAfterFlush
<1>1. Init => Flushed
  BY DEF Init, Flushed
<1>2. Spec => [](TypeOK /\ Control)
  BY InitControl, NextControl, TypeCorrect, PTL DEF Spec
<1>3. TypeOK /\ Control /\ Flushed /\ [Next]_vars => Flushed'
  BY NextFlushed
<1>4. TypeOK /\ Flushed /\ [Next]_vars => [finSent' /\ ~finSent => unsent = 0 \/ closing]_vars
  BY FinStep
<1> QED BY <1>1, <1>2, <1>3, <1>4, PTL DEF Spec, FinAfterFlush

(***************************************************************************)
(* The connection implements ConnectionLife.  Its queue orders the stages: *)
(* the establishment is queued once, and handle_close's functor after it.  *)
(***************************************************************************)

\* The host has nothing to hold before the constructor.
Unheld == state = "none" => ~held

\* Neither the host nor the stage of the connection changes.
Quiet ==
  /\ \/ state' = state
     \/ state \notin {"none", "connecting"} /\ state' \notin {"none", "connecting"}
  /\ UNCHANGED <<handle, held, removals, closing>>
  /\ phase' = "closing" <=> phase = "closing"
  /\ closing => ended' # "callback"

StageKept == Lifetime!Next \/ UNCHANGED Lifetime!vars

LEMMA QuietKeeps ==
  ASSUME Running, Unheld, Quiet
  PROVE  StageKept /\ Unheld'
<1>1. Told' <=> Told
  BY DEF Quiet, Running, Told
<1>2. Stage' = Stage
  <2>1. CASE state' = state /\ state \in {"none", "connecting"}
    BY <2>1 DEF Stage
  <2>2. CASE state \notin {"none", "connecting"} /\ state' \notin {"none", "connecting"}
    BY <1>1, <2>2 DEF Quiet, Stage
  <2> QED BY <2>1, <2>2 DEF Quiet
<1>3. Unheld'
  BY DEF Quiet, Unheld
<1> QED BY <1>2, <1>3 DEF StageKept, Lifetime!vars, Quiet

LEMMA StagesFunction ==
  ASSUME NEW from, NEW to, Stage = from, Stage' = to
  PROVE  /\ [c \in {"this"} |-> Stage]["this"] = from
         /\ [c \in {"this"} |-> Stage]' = [[c \in {"this"} |-> Stage] EXCEPT !["this"] = to]
OBVIOUS

LEMMA ConstructStage ==
  ASSUME TypeOK, Running, Life, Unheld, Construct
  PROVE  StageKept /\ Unheld'
<1>1. /\ state = "none" /\ state' = "connecting" /\ held' = TRUE /\ removals' = removals
      /\ ~held /\ removals = 0
  BY DEF Construct, ConstructLeaving, hostVars, Unheld, Life, Unbuilt, Unborn, Hosted
<1>2. Stage = "closed" /\ Stage' = "new"
  BY <1>1 DEF Stage
<1>3. Lifetime!Construct("this")
  BY <1>1, <1>2, StagesFunction DEF Lifetime!Construct, Lifetime!Moves
<1> QED BY <1>1, <1>3 DEF StageKept, Lifetime!Next, Unheld

LEMMA EstablishStage ==
  ASSUME TypeOK, Running, Life, Unheld, RunEstablish
  PROVE  StageKept /\ Unheld'
<1>1. Has({"establish"}, Queue)
  BY Takes DEF RunEstablish, Less
<1>2. handle = "none" /\ state # "none"
  BY <1>1, EmptyQueue DEF Life, Born, Unbuilt
<1>3. state = "connecting" /\ ~closing /\ held
  BY <1>2 DEF Life, Unborn, Hosted
<1>4. /\ state' = "connected" /\ handle' = "registered"
      /\ UNCHANGED <<held, removals, closing>>
  BY <1>3 DEF RunEstablish, hostVars
<1>5. Stage = "new" /\ Stage' = "open"
  BY <1>3, <1>4 DEF Stage, Told
<1>6. Lifetime!Establish("this")
  BY <1>3, <1>4, <1>5, StagesFunction DEF Lifetime!Establish, Lifetime!Moves
<1> QED BY <1>4, <1>6 DEF StageKept, Lifetime!Next, Unheld

LEMMA CloseStage ==
  ASSUME TypeOK, Running, Life, Unheld, HandleClose
  PROVE  StageKept /\ Unheld'
<1>1. /\ handle = "registered" /\ ~closing /\ state \in {"connected", "disconnecting"}
      /\ held /\ removals = 0
  BY DEF HandleClose, CloseLeaving, Life, Polled, ClosedOnce, Hosted
<1>2. handle' = handle /\ closing' = TRUE /\ phase' = "closing" /\ state' = state
  BY DEF HandleClose, CloseLeaving
<1>3. Unheld'
  BY <1>1, <1>2 DEF Unheld
<1>4. Stage = "open"
  BY <1>1 DEF Stage, Told
<1>5. CASE cbs < 3
  <2>1. ended' = "callback" /\ UNCHANGED <<held, removals>>
    BY <1>1, <1>5 DEF HandleClose, CloseLeaving, End
  <2>2. Stage' = "open"
    BY <1>1, <1>2, <2>1 DEF Stage, Told
  <2> QED BY <1>3, <1>4, <2>1, <2>2 DEF StageKept, Lifetime!vars
<1>6. CASE ~(cbs < 3)
  <2>1. /\ ended' = ended
        /\ \/ removals' = 1 /\ held' = held
           \/ removals' = 0 /\ held' = FALSE
    <3>1. IF host = "io" THEN removals' = removals + 1 /\ UNCHANGED <<held, ended>>
          ELSE DropHeld /\ UNCHANGED removals
      BY <1>1, <1>6 DEF HandleClose, CloseLeaving
    <3>2. CASE host = "io"
      <4>1. removals' = removals + 1
        BY <3>1, <3>2, Zenon
      <4>2. held' = held /\ ended' = ended
        BY <3>1, <3>2, Zenon
      <4> QED BY <1>1, <4>1, <4>2
    <3>3. CASE host # "io"
      <4>1. removals' = removals /\ held' = FALSE /\ ended' = ended
        BY <1>1, <3>1, <3>3, Zenon DEF DropHeld
      <4> QED BY <1>1, <4>1
    <3> QED BY <3>2, <3>3
  <2>2. Stage' = "ending"
    BY <1>1, <1>2, <2>1 DEF Stage, Told, Running
  <2>3. \/ /\ {c \in {"this"} : held}' = {c \in {"this"} : held} \ {"this"}
           /\ {c \in {"this"} : removals > 0}' = {c \in {"this"} : removals > 0}
        \/ /\ {c \in {"this"} : removals > 0}' = {c \in {"this"} : removals > 0} \cup {"this"}
           /\ {c \in {"this"} : held}' = {c \in {"this"} : held}
    <3>1. CASE removals' = 1 /\ held' = held
      <4>1. /\ {c \in {"this"} : removals > 0}' = {"this"}
            /\ {c \in {"this"} : removals > 0} = {}
        BY <1>1, <3>1
      <4>2. {c \in {"this"} : held}' = {c \in {"this"} : held}
        BY <3>1
      <4> QED BY <4>1, <4>2
    <3>2. CASE removals' = 0 /\ held' = FALSE
      <4>1. {c \in {"this"} : held}' = {} /\ {c \in {"this"} : held} = {"this"}
        BY <1>1, <3>2
      <4>2. {c \in {"this"} : removals > 0}' = {c \in {"this"} : removals > 0}
        BY <1>1, <3>2
      <4> QED BY <4>1, <4>2
    <3> QED BY <2>1, <3>1, <3>2
  <2>4. Lifetime!HandleClose("this")
    BY <1>1, <1>4, <2>2, <2>3, StagesFunction DEF Lifetime!HandleClose, Lifetime!Moves
  <2> QED BY <1>3, <2>4 DEF StageKept, Lifetime!Next
<1> QED BY <1>5, <1>6

LEMMA ToldStage ==
  ASSUME TypeOK, Running, Life, Unheld, QueueClose
  PROVE  StageKept /\ Unheld'
<1>1. /\ phase = "closing" /\ closing /\ handle = "registered"
      /\ state \in {"connected", "disconnecting"}
  BY DEF QueueClose, CloseQueueing, Life, ClosedOnce, Polled
<1>2. /\ UNCHANGED <<state, handle, held, removals, closing>>
      /\ \/ phase' = AfterRead(revents) /\ ended' = ended
         \/ phase' = phase /\ ended' = "expired"
  BY Zenon DEF QueueClose, CloseQueueing, End, hostVars, connVars, history
<1>3. CASE phase' = phase
  BY <1>2, <1>3, QuietKeeps DEF Quiet, Running
<1>4. CASE phase' # phase
  <2>1. phase' # "closing" /\ ended' = ended
    BY <1>1, <1>2, <1>4
  <2>2. Stage = "ending" /\ Stage' = "closing"
    BY <1>1, <1>2, <2>1 DEF Stage, Told, Running
  <2>3. Lifetime!QueueClose("this")
    BY <1>2, <2>2, StagesFunction DEF Lifetime!QueueClose, Lifetime!Moves
  <2> QED BY <1>2, <2>3 DEF StageKept, Lifetime!Next, Unheld
<1> QED BY <1>3, <1>4

LEMMA DestroyedStage ==
  ASSUME TypeOK, Running, Life, Unheld, RunClose
  PROVE  StageKept /\ Unheld'
<1>1. Has({"close"}, Queue)
  BY Takes DEF RunClose, Less
<1>2. /\ closing /\ handle = "registered" /\ state \in {"connected", "disconnecting"}
      /\ phase = "run"
  BY <1>1 DEF RunClose, Runs, Life, ClosedOnce, Polled
<1>3. UNCHANGED <<held, removals, closing>>
  BY DEF RunClose, hostVars
<1>4. CASE events # {}
  BY <1>2, <1>3, <1>4, QuietKeeps DEF RunClose, End, Quiet
<1>5. CASE events = {}
  <2>1. handle' = "removed" /\ state' = "disconnected"
    BY <1>5 DEF RunClose
  <2>2. Stage = "closing" /\ Stage' = "closed"
    BY <1>2, <2>1 DEF Stage, Told, Running
  <2>3. Lifetime!Destroyed("this")
    BY <1>3, <2>2, StagesFunction DEF Lifetime!Destroyed, Lifetime!Moves
  <2> QED BY <2>1, <2>3 DEF StageKept, Lifetime!Next, Unheld
<1> QED BY <1>4, <1>5

LEMMA RemoveStage ==
  ASSUME TypeOK, Running, Life, Unheld, RemoveInLoop
  PROVE  StageKept /\ Unheld'
<1>1. removals = 1 /\ held
  BY DEF RemoveInLoop, TypeOK, Life, Hosted
<1>2. removals' = 0 /\ held' = FALSE /\ ended' = ended
  BY <1>1 DEF RemoveInLoop, DropHeld
<1>3. UNCHANGED <<state, handle, phase, closing>>
  BY DEF RemoveInLoop, connVars, loopVars, history
<1>4. Stage' = Stage
  BY <1>2, <1>3 DEF Stage, Told
<1>5. Lifetime!Remove("this")
  BY <1>1, <1>2, <1>4 DEF Lifetime!Remove
<1> QED BY <1>2, <1>5 DEF StageKept, Lifetime!Next, Unheld

\* send_in_loop and shotdown_in_loop end the program, if they do, for other reasons.
LEMMA QuietCalls ==
  /\ \A len \in Lengths : TypeOK /\ Running /\ SendInLoop(len) => ended' # "callback"
  /\ Running /\ ShutdownInLoop => ended' # "callback"
<1>1. ASSUME NEW len \in Lengths, TypeOK, Running, SendInLoop(len) PROVE ended' # "callback"
  BY <1>1, Sending DEF Running
<1>2. ASSUME Running, ShutdownInLoop PROVE ended' # "callback"
  BY <1>2, ShuttingDown DEF Running
<1> QED BY <1>1, <1>2

LEMMA QuietLoop ==
  ASSUME TypeOK, Running, Life,
         \/ PollReturns \/ HandleRead \/ HandleWrite \/ SwapPending \/ EndPending
         \/ CallbackReturns \/ RunSend \/ RunShutdown \/ RunComplete
  PROVE  Quiet
<1> USE DEF hostVars, connVars, loopVars, callVars, history
<1>1. CASE PollReturns
  BY <1>1 DEF PollReturns, AfterRead, Quiet, Running
<1>2. CASE HandleRead
  BY <1>2 DEF HandleRead, Life, Polled, Quiet
<1>3. CASE HandleWrite
  BY <1>3 DEF HandleWrite, End, Quiet, Running
<1>4. CASE SwapPending \/ EndPending
  BY <1>4 DEF SwapPending, EndPending, Quiet, Running
<1>5. CASE CallbackReturns
  <2>1. phase = "callback" /\ phase' \in {"write", "swap", "run"}
    BY <1>5 DEF CallbackReturns, AfterRead
  <2>2. ended' # "callback"
    BY <1>5, QuietCalls DEF CallbackReturns, Running
  <2> QED BY <1>5, <2>1, <2>2 DEF CallbackReturns, Quiet
<1>6. CASE RunSend
  <2>1. ended' # "callback"
    BY <1>6, QuietCalls DEF RunSend, End
  <2> QED BY <1>6, <2>1 DEF RunSend, Quiet
<1>7. CASE RunShutdown
  BY <1>7, QuietCalls DEF RunShutdown, Quiet
<1>8. CASE RunComplete
  BY <1>8, Zenon DEF RunComplete, Runs, End, Quiet, Running
<1> QED BY <1>1, <1>2, <1>3, <1>4, <1>5, <1>6, <1>7, <1>8

LEMMA QuietUsers ==
  ASSUME TypeOK, Running, Life,
         SetCallback \/ User \/ \E c \in Callers : BeginCall(c) \/ Finish(c)
  PROVE  Quiet
<1> USE DEF hostVars, connVars, loopVars, callVars, history
<1>1. CASE SetCallback
  BY <1>1 DEF SetCallback, Quiet, Running
<1>2. CASE RetrieveAll \/ Retrieve \/ UserKeeps \/ UserDrops
  BY <1>2 DEF RetrieveAll, Retrieve, UserKeeps, UserDrops, End, Quiet, Running
<1>3. CASE UserSends
  <2>1. ended' # "callback"
    BY <1>3, QuietCalls DEF UserSends
  <2> QED BY <1>3, <2>1 DEF UserSends, Quiet
<1>4. CASE UserShutsDown
  BY <1>4, QuietCalls DEF UserShutsDown, Quiet
<1>5. ASSUME NEW c \in Callers, BeginCall(c) \/ Finish(c)
      PROVE  Quiet
  <2>1. CASE BeginCall(c) \/ SendReturns(c) \/ QueueSend(c) \/ QueueShutdown(c)
    BY <2>1 DEF BeginCall, SendReturns, QueueSend, QueueShutdown, Quiet, Running
  <2>2. CASE SetDisconnecting(c)
    <3>1. handle # "none"
      BY <2>2 DEF SetDisconnecting, Steps, Life, Unborn
    <3>2. state \notin {"none", "connecting"}
      BY <3>1 DEF Life, Born
    <3> QED BY <2>2, <3>2 DEF SetDisconnecting, Quiet, Running
  <2> QED BY <1>5, <2>1, <2>2 DEF Finish
<1> QED BY <1>1, <1>2, <1>3, <1>4, <1>5 DEF User

LEMMA StageStep ==
  ASSUME TypeOK, Control, Unheld, [Next]_vars
  PROVE  StageKept /\ Unheld'
<1>1. CASE UNCHANGED vars
  BY <1>1 DEF vars, hostVars, connVars, loopVars, history, Unheld, StageKept, Lifetime!vars,
     Stage, Told
<1>2. CASE Next
  <2>1. Running
    BY <1>2, InputChanges DEF HandleRead, RetrieveAll, Retrieve
  <2>2. Life
    BY <2>1 DEF Control
  <2> QED
    BY <1>2, <2>1, <2>2, QuietLoop, QuietUsers, QuietKeeps, ConstructStage, EstablishStage,
       CloseStage, ToldStage, DestroyedStage, RemoveStage DEF Next, Loop, Functors, Host
<1> QED BY <1>1, <1>2

\* One connection, in all its detail and with each kind of host, implements what
\* ConnectionLife says of connections, as TcpServer does for all of its own.
THEOREM ImplementsConnectionLife == Spec => LifeSpec
<1>1. Init => Lifetime!Init /\ Unheld
  BY DEF Init, Lifetime!Init, Stage, Unheld
<1>2. Spec => [](TypeOK /\ Control)
  BY InitControl, NextControl, TypeCorrect, PTL DEF Spec
<1>3. TypeOK /\ Control /\ Unheld /\ [Next]_vars => [Lifetime!Next]_Lifetime!vars /\ Unheld'
  BY StageStep DEF StageKept
<1> QED BY <1>1, <1>2, <1>3, PTL DEF Spec, LifeSpec, Lifetime!Spec
(***************************************************************************)
(* What is asked for is always on its way: the safety half of              *)
(* ShutdownHappens and ClosedIsReleased.                                   *)
(***************************************************************************)

\* A shutdown that has been asked for and not made is with the thread that asked
\* for it, in the queue, or waits for the output: for the writable event, or for
\* the callback after which handle_write sees to it.
ShutdownDue == Running /\ state = "disconnecting" =>
  \/ finSent \/ closing \/ "write" \in events
  \/ phase = "callback" /\ callback = "written"
  \/ \E c \in Callers : callPc[c] = "shutting"
  \/ Has({"shutdown"}, Queue)

\* A step that asks for no shutdown and takes none away.
DueKept ==
  /\ state' = "disconnecting" => state = "disconnecting"
  /\ finSent => finSent'
  /\ closing => closing'
  /\ "write" \in events => "write" \in events' \/ closing'
  /\ phase = "callback" /\ callback = "written" => phase' = "callback" /\ callback' = "written"
  /\ \A c \in Callers : callPc[c] = "shutting" => callPc'[c] = "shutting"
  /\ Has({"shutdown"}, Queue) => Has({"shutdown"}, Queue')

LEMMA DueStays == Running /\ ShutdownDue /\ DueKept => ShutdownDue'
BY DEF ShutdownDue, DueKept

\* Whoever calls shotdown_in_loop leaves it made, or to the writable event.
LEMMA DueMade ==
  ASSUME Running, ShutdownInLoop, events' = events
  PROVE  ShutdownDue'
BY DEF ShutdownInLoop, End, Running, ShutdownDue

LEMMA DueLoop ==
  ASSUME TypeOK, Running, Life, ShutdownDue, Loop
  PROVE  ShutdownDue'
<1> USE DEF hostVars, connVars, loopVars, callVars, history
<1>2. CASE PollReturns \/ EndPending \/ HandleRead
  BY <1>2, DueStays DEF PollReturns, EndPending, HandleRead, DueKept, Queue
<1>3. CASE HandleClose
  <2>1. closing'
    BY <1>3 DEF HandleClose, CloseLeaving
  <2> QED BY <2>1 DEF ShutdownDue
<1>4. CASE QueueClose
  <2>1. closing'
    BY <1>4 DEF QueueClose, CloseQueueing, Life, ClosedOnce
  <2> QED BY <2>1 DEF ShutdownDue
<1>5. CASE HandleWrite
  <2>1. UNCHANGED <<state, finSent, closing, callPc, functors, pending>> /\ phase = "write"
    BY <1>5 DEF HandleWrite
  <2>2. PICK result \in IF "write" \in events THEN WriteResults(writeable_bytes(oup)) ELSE {0} :
          LET left == retrieve(oup, result) IN
          IF result <= 0 \/ left.fault # "none" \/ readable_bytes(left.buf) > 0
          THEN UNCHANGED events
          ELSE phase' = "callback" /\ callback' = "written"
    BY <1>5 DEF HandleWrite
  <2>3. events' = events \/ (phase' = "callback" /\ callback' = "written")
    BY <2>2
  <2>4. Queue' = Queue
    BY <2>1 DEF Queue
  <2> QED BY <2>1, <2>3, <2>4 DEF ShutdownDue, Running
<1>6. CASE SwapPending
  <2>1. functors = <<>> /\ functors' = pending /\ pending' = <<>> /\ pending \in Seq(Tasks)
    BY <1>6 DEF SwapPending, Life, Batched, TypeOK
  <2>2. Queue' = Queue
    BY <2>1, ConcatEmptySeq DEF Queue
  <2> QED BY <1>6, <2>2, DueStays DEF SwapPending, DueKept
<1>7. CASE CallbackReturns
  <2>1. CASE callback = "written" /\ state = "disconnecting"
    BY <1>7, <2>1, DueMade DEF CallbackReturns
  <2>2. CASE callback = "written" /\ state # "disconnecting"
    BY <1>7, <2>2 DEF CallbackReturns, ShutdownDue
  <2>3. CASE callback # "written"
    BY <1>7, <2>3, DueStays DEF CallbackReturns, DueKept, Queue
  <2> QED BY <2>1, <2>2, <2>3
<1>8. CASE RunEstablish
  BY <1>8 DEF RunEstablish, End, ShutdownDue, Running
<1>9. CASE RunClose
  BY <1>9 DEF RunClose, End, ShutdownDue, Running
<1>10. CASE RunSend
  <2>1. /\ Runs("send") /\ UNCHANGED <<state, finSent, closing, callPc, phase, callback>>
        /\ \/ ended' # "no"
           \/ \E len \in Lengths : SendInLoop(len)
    BY <1>10 DEF RunSend, End
  <2>2. CASE ended' # "no"
    BY <2>2 DEF ShutdownDue, Running
  <2>3. CASE ended' = "no" /\ \E len \in Lengths : SendInLoop(len)
    <3>1. /\ events' = events \/ events' = events \cup {"write"}
          /\ pending' = pending \/ pending' = Append(pending, Task("complete"))
      BY <2>3, Sending
    <3>2. Has({"shutdown"}, Queue) => Has({"shutdown"}, Queue')
      <4>1. CASE pending' = pending
        BY <2>1, <4>1, Takes DEF Less
      <4>2. CASE pending' = Append(pending, Task("complete"))
        <5>1. Task("complete") \in Tasks /\ Task("complete").name = "complete"
          BY TaskTypes DEF TaskNames
        <5> QED BY <2>1, <4>2, <5>1, TakesAndPuts DEF Less, More
      <4> QED BY <3>1, <4>1, <4>2
    <3> QED BY <2>1, <3>1, <3>2, DueStays DEF DueKept
  <2> QED BY <2>1, <2>2, <2>3
<1>11. CASE RunShutdown
  BY <1>11, DueMade DEF RunShutdown
<1>12. CASE RunComplete
  <2>1. Has({"shutdown"}, Queue) => Has({"shutdown"}, Queue')
    BY <1>12, Takes DEF RunComplete, Less
  <2> QED BY <1>12, <2>1, DueStays DEF RunComplete, Runs, DueKept
<1> QED BY <1>2, <1>3, <1>4, <1>5, <1>6, <1>7, <1>8, <1>9, <1>10, <1>11, <1>12 DEF Loop, Functors

LEMMA DueUser ==
  ASSUME TypeOK, Running, Life, ShutdownDue, User
  PROVE  ShutdownDue'
<1> USE DEF hostVars, connVars, loopVars, callVars, history
<1>1. CASE RetrieveAll \/ Retrieve \/ UserKeeps \/ UserDrops
  BY <1>1, DueStays DEF RetrieveAll, Retrieve, UserKeeps, UserDrops, DueKept, Queue
<1>2. CASE UserSends
  BY <1>2 DEF UserSends, ShutdownDue
<1>3. CASE UserShutsDown
  BY <1>3, DueMade DEF UserShutsDown
<1> QED BY <1>1, <1>2, <1>3 DEF User

LEMMA DueCall ==
  ASSUME TypeOK, Running, Life, ShutdownDue, NEW c \in Callers, BeginCall(c) \/ Finish(c)
  PROVE  ShutdownDue'
<1> USE DEF hostVars, connVars, loopVars, callVars, history
<1>1. callPc \in [Callers -> {"idle", "send", "sent", "shut", "shutting", "done"}]
  BY DEF TypeOK
<1>2. CASE BeginCall(c) \/ SendReturns(c)
  <2>1. \A d \in Callers : callPc[d] = "shutting" => callPc'[d] = "shutting"
    BY <1>1, <1>2 DEF BeginCall, SendReturns, Steps
  <2> QED BY <1>2, <2>1, DueStays DEF BeginCall, SendReturns, DueKept, Queue
<1>3. CASE QueueSend(c)
  <2>1. \A d \in Callers : callPc[d] = "shutting" => callPc'[d] = "shutting"
    BY <1>1, <1>3 DEF QueueSend, Steps
  <2>2. [name |-> "send", caller |-> c] \in Tasks
    BY TaskTypes DEF TaskNames
  <2>3. More(Queue, "send", Queue')
    BY <1>3, <2>2, Puts DEF QueueSend, Enqueue
  <2> QED BY <1>3, <2>1, <2>3, DueStays DEF QueueSend, DueKept, More
<1>4. CASE SetDisconnecting(c)
  BY <1>1, <1>4 DEF SetDisconnecting, Steps, ShutdownDue
<1>5. CASE QueueShutdown(c)
  <2>1. Task("shutdown") \in Tasks /\ Task("shutdown").name = "shutdown"
    BY TaskTypes DEF TaskNames
  <2>2. More(Queue, "shutdown", Queue')
    BY <1>5, <2>1, Puts DEF QueueShutdown, Enqueue
  <2>3. Has({"shutdown"}, Queue')
    BY <2>2 DEF More
  <2> QED BY <2>3 DEF ShutdownDue
<1> QED BY <1>2, <1>3, <1>4, <1>5 DEF Finish

LEMMA NextDue == TypeOK /\ Control /\ ShutdownDue /\ [Next]_vars => ShutdownDue'
<1> SUFFICES ASSUME TypeOK, Control, ShutdownDue, [Next]_vars PROVE ShutdownDue'
  OBVIOUS
<1> USE DEF hostVars, connVars, loopVars, callVars, history
<1>1. CASE UNCHANGED vars
  BY <1>1 DEF vars, ShutdownDue, Running, Queue
<1>2. CASE Next
  <2>1. Running
    BY <1>2, InputChanges DEF HandleRead, RetrieveAll, Retrieve
  <2>2. Life
    BY <2>1 DEF Control
  <2>3. CASE Host
    <3>1. CASE Construct
      BY <3>1 DEF Construct, ConstructLeaving, ShutdownDue
    <3>2. CASE SetCallback \/ RemoveInLoop
      BY <2>1, <3>2, DueStays DEF SetCallback, RemoveInLoop, DueKept, Queue
    <3> QED BY <2>3, <3>1, <3>2 DEF Host
  <2> QED BY <1>2, <2>1, <2>2, <2>3, DueLoop, DueUser, DueCall DEF Next
<1> QED BY <1>1, <1>2

\* shotdown is never forgotten, from whatever thread it is called and whatever the
\* loop is doing: until it is made or the peer closes first, somebody has it to do.
THEOREM ShutdownNeverForgotten == Spec => []ShutdownDue
<1>1. Init => ShutdownDue
  BY DEF Init, ShutdownDue
<1>2. Spec => [](TypeOK /\ Control)
  BY InitControl, NextControl, TypeCorrect, PTL DEF Spec
<1> QED BY <1>1, <1>2, NextDue, PTL DEF Spec

\* A connection that closes has its removal from the loop queued, or handle_close
\* is about to queue it, and is to be let go by the server's thread if it is held.
ReleaseDue == Running /\ closing =>
  /\ handle # "removed" => phase = "closing" \/ Has({"close"}, Queue)
  /\ held => removals > 0

\* Only the second part is not in Control.
LetGo == Running /\ closing /\ held => removals > 0

LEMMA NextLetGo == TypeOK /\ Control /\ LetGo /\ [Next]_vars => LetGo'
<1> SUFFICES ASSUME TypeOK, Control, LetGo, [Next]_vars PROVE LetGo'
  OBVIOUS
<1> USE DEF hostVars, connVars, loopVars, callVars, history
<1>1. CASE UNCHANGED vars
  BY <1>1 DEF vars, LetGo, Running
<1>2. CASE Next
  <2>1. Running
    BY <1>2, InputChanges DEF HandleRead, RetrieveAll, Retrieve
  <2>2. Life
    BY <2>1 DEF Control
  <2>3. CASE UNCHANGED <<closing, held, removals>>
    BY <2>1, <2>3 DEF LetGo
  <2>4. CASE HandleClose
    <3>1. \/ ended' # "no"
          \/ removals' = removals + 1
          \/ held' = FALSE
      BY <2>4, Zenon DEF HandleClose, CloseLeaving, End, DropHeld
    <3> QED BY <3>1 DEF LetGo, Running, TypeOK
  <2>5. CASE Construct
    BY <2>2, <2>5 DEF Construct, ConstructLeaving, Life, Unbuilt, Unborn, LetGo
  <2>6. CASE RemoveInLoop
    BY <2>6 DEF RemoveInLoop, DropHeld, LetGo
  <2>7. CASE \/ PollReturns \/ HandleRead \/ HandleWrite \/ SwapPending \/ EndPending
             \/ CallbackReturns \/ RunSend \/ RunShutdown \/ RunComplete
             \/ SetCallback \/ User \/ \E c \in Callers : BeginCall(c) \/ Finish(c)
    BY <2>1, <2>2, <2>3, <2>7, QuietLoop, QuietUsers DEF Quiet
  <2>8. CASE QueueClose \/ RunEstablish \/ RunClose
    BY <2>3, <2>8 DEF QueueClose, CloseQueueing, RunEstablish, RunClose
  <2> QED BY <1>2, <2>4, <2>5, <2>6, <2>7, <2>8 DEF Next, Loop, Functors, Host
<1> QED BY <1>1, <1>2

\* Once handle_close has run, neither the loop nor the host can forget the
\* connection: no step leaves it registered or held with nobody to end that.
THEOREM ReleaseNeverForgotten == Spec => []ReleaseDue
<1>1. Init => LetGo
  BY DEF Init, LetGo
<1>2. Spec => [](TypeOK /\ Control)
  BY InitControl, NextControl, TypeCorrect, PTL DEF Spec
<1>3. TypeOK /\ Control /\ LetGo => ReleaseDue
  BY DEF Control, Life, Unborn, ClosedOnce, LetGo, ReleaseDue, TypeOK
<1> QED BY <1>1, <1>2, <1>3, NextLetGo, PTL DEF Spec
=============================================================================

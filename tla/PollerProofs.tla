---------------------------- MODULE PollerProofs ----------------------------
(***************************************************************************)
(* Proofs about Poller for any descriptors of the loop's own, first in the *)
(* vector, and any descriptors that come and go.                           *)
(***************************************************************************)
EXTENDS Poller, SequenceTheorems, FiniteSetTheorems, TLAPS

(***************************************************************************)
(* Facts about the vector's operations, stated of Slot sequences.          *)
(***************************************************************************)

LEMMA PermanentFacts ==
  /\ Len(Permanent) \in Nat
  /\ DOMAIN Permanent = 1..Len(Permanent)
  /\ \A i \in 1..Len(Permanent) : Permanent[i] \in Range(Permanent)
  /\ \A fd \in Range(Permanent) : \E i \in 1..Len(Permanent) : Permanent[i] = fd
  /\ \A i, j \in 1..Len(Permanent) : Permanent[i] = Permanent[j] => i = j
BY FdAssumption, LenProperties DEF Range, IsInjective

LEMMA SlotOfType ==
  ASSUME NEW fd \in Fds, NEW events \in Events
  PROVE  SlotOf(fd, events) \in Slot
BY DEF SlotOf, Slot, Ignored, Events

LEMMA IgnoredType == Ignored \in Slot
BY DEF Slot, Ignored, Events

\* A slot swapped with the last one, if it is in the vector, and the last dropped.
Popped(s, idx) ==
  SubSeq(IF idx <= Len(s) THEN [s EXCEPT ![idx] = s[Len(s)], ![Len(s)] = s[idx]] ELSE s,
         1, Len(s) - 1)

LEMMA SwapPop ==
  ASSUME NEW s \in Seq(Slot), NEW idx \in Nat \ {0}, Len(s) > 0
  PROVE  /\ Popped(s, idx) \in Seq(Slot)
         /\ Len(Popped(s, idx)) = Len(s) - 1
         /\ \A i \in 1..(Len(s) - 1) : i # idx => Popped(s, idx)[i] = s[i]
<1> DEFINE t == Popped(s, idx)
           n == Len(s)
           u == IF idx <= n THEN [s EXCEPT ![idx] = s[n], ![n] = s[idx]] ELSE s
<1>1. n \in Nat /\ n > 0 /\ n \in 1..n /\ s \in [1..n -> Slot]
  BY LenProperties
<1>2. t = SubSeq(u, 1, n - 1)
  BY DEF Popped
<1>3. ASSUME NEW i \in 1..(n - 1) PROVE u[i] \in Slot /\ (i # idx => u[i] = s[i])
  <2>1. CASE idx <= n
    <3> DEFINE v == [s EXCEPT ![idx] = s[n]]
    <3>1. u = [v EXCEPT ![n] = s[idx]]
      BY <2>1
    <3> HIDE DEF u, n
    <3>2. idx \in 1..n /\ i \in 1..n /\ i # n
      BY <1>1, <2>1
    <3>3. v \in [1..n -> Slot] /\ v[i] \in Slot /\ (i # idx => v[i] = s[i])
      BY <1>1, <3>2
    <3> HIDE DEF v
    <3>4. u[i] = v[i]
      BY <3>1, <3>2, <3>3
    <3> QED BY <3>3, <3>4
  <2>2. CASE ~(idx <= n)
    <3>1. u = s
      BY <2>2
    <3> HIDE DEF u, n
    <3> QED BY <1>1, <3>1
  <2> QED BY <2>1, <2>2
<1> HIDE DEF t, u, n
<1>4. n - 1 \in Int /\ (n - 1) - 1 + 1 = n - 1
  BY <1>1
<1> DEFINE m == n - 1
<1>5. /\ SubSeq(u, 1, m) \in Seq(Slot)
      /\ Len(SubSeq(u, 1, m)) = IF 1 <= m THEN m - 1 + 1 ELSE 0
      /\ \A i \in 1..(m - 1 + 1) : SubSeq(u, 1, m)[i] = u[1 + i - 1]
  <2>1. \A i \in 1..m : u[i] \in Slot
    BY <1>3
  <2> HIDE DEF m
  <2>2. m \in Int
    BY <1>4 DEF m
  <2> QED BY <2>1, <2>2, SubSeqProperties
<1>6. /\ t \in Seq(Slot)
      /\ Len(t) = m
      /\ \A i \in 1..m : t[i] = u[i]
  <2>1. m \in Nat
    BY <1>1
  <2> HIDE DEF m
  <2>2. t = SubSeq(u, 1, m)
    BY <1>2 DEF m
  <2>3. Len(t) = m
    BY <1>5, <2>1, <2>2
  <2>4. ASSUME NEW i \in 1..m PROVE t[i] = u[i]
    <3>1. 1 + i - 1 = i /\ i \in 1..(m - 1 + 1)
      BY <2>1
    <3> QED BY <1>5, <2>2, <3>1
  <2> QED BY <1>5, <2>2, <2>3, <2>4
<1> QED BY <1>3, <1>6 DEF n, t

(***************************************************************************)
(* The invariant.  Nothing in the code refers to the loop's own slots; they *)
(* are safe because their handles are never removed and every other handle *)
(* was given an index behind them, which no later step ever changes.       *)
(***************************************************************************)

Behind == \A fd \in DOMAIN handles \cap Transient : handles[fd].index > Len(Permanent)

OwnSlots ==
  \A i \in 1..Len(Permanent) :
    /\ Permanent[i] \in DOMAIN handles
    /\ handles[Permanent[i]] = [index |-> i, events |-> {"read"}]
    /\ i <= Len(pollfds)
    /\ pollfds[i] = [fd |-> Permanent[i], events |-> {"read"}]

Sizes == IsFiniteSet(DOMAIN handles) /\ SizesAgree

\* While removals were last-in first-out, indices and slots correspond one to one.
OneToOne ==
  /\ \A f, g \in DOMAIN handles : handles[f].index = handles[g].index => f = g
  /\ \A i \in 1..Len(pollfds) : \E fd \in DOMAIN handles : handles[fd].index = i

Ordered == ~disordered => OneToOne

IInv == TypeOK /\ Sizes /\ Behind /\ OwnSlots /\ Ordered /\ MirroredWhileOrdered

LEMMA InitIInv == Init => IInv
<1> SUFFICES ASSUME Init PROVE IInv
  OBVIOUS
<1> DEFINE n == Len(Permanent)
           place(fd) == CHOOSE i \in DOMAIN Permanent : Permanent[i] = fd
<1>1. \A fd \in Range(Permanent) : place(fd) \in 1..n /\ Permanent[place(fd)] = fd
  BY PermanentFacts
<1>2. \A i \in 1..n : place(Permanent[i]) = i
  BY <1>1, PermanentFacts
<1>3. DOMAIN handles = Range(Permanent)
  BY DEF Init
<1>4. \A fd \in Range(Permanent) : handles[fd] = [index |-> place(fd), events |-> {"read"}]
  BY DEF Init
<1>5. pollfds \in [1..n -> Slot] /\ pollfds \in Seq(Slot) /\ Len(pollfds) = n
  <2>1. \A i \in 1..n : [fd |-> Permanent[i], events |-> {"read"}] \in Slot
    BY PermanentFacts DEF Slot, Fds, Events
  <2>2. pollfds = [i \in 1..n |-> [fd |-> Permanent[i], events |-> {"read"}]]
    BY PermanentFacts DEF Init
  <2>3. pollfds \in [1..n -> Slot]
    BY <2>1, <2>2
  <2> QED BY <2>2, <2>3, PermanentFacts, SeqDef, LenProperties
<1> HIDE DEF place
<1>6. TypeOK
  <2>1. ASSUME NEW fd \in DOMAIN handles PROVE handles[fd] \in Handle
    <3>1. place(fd) \in Nat \ {0} /\ handles[fd] = [index |-> place(fd), events |-> {"read"}]
      BY <1>1, <1>3, <1>4, PermanentFacts
    <3>2. {"read"} \in Events
      BY DEF Events
    <3> QED BY <3>1, <3>2 DEF Handle
  <2> QED BY <1>3, <1>5, <2>1 DEF TypeOK, Init, Fds
<1>7. Sizes
  <2>1. Permanent \in Bijection(1..n, Range(Permanent))
    BY PermanentFacts, FdAssumption, LenProperties DEF Bijection, Injection, Surjection, IsInjective
  <2>2. IsFiniteSet(1..n) /\ Cardinality(1..n) = n
    BY PermanentFacts, FS_Interval
  <2>3. ExistsBijection(1..n, Range(Permanent))
    BY <2>1 DEF ExistsBijection
  <2>4. IsFiniteSet(Range(Permanent)) /\ Cardinality(Range(Permanent)) = n
    BY <2>2, <2>3, FS_Bijection
  <2> QED BY <1>3, <1>5, <2>4 DEF Sizes, SizesAgree
<1>8. Behind
  BY <1>3, FdAssumption DEF Behind
<1>9. OwnSlots
  BY <1>2, <1>3, <1>4, <1>5, PermanentFacts DEF OwnSlots, Init
<1>10. Ordered
  <2>1. \A f, g \in DOMAIN handles : handles[f].index = handles[g].index => f = g
    BY <1>1, <1>3, <1>4
  <2>2. \A i \in 1..Len(pollfds) : \E fd \in DOMAIN handles : handles[fd].index = i
    <3> SUFFICES ASSUME NEW i \in 1..Len(pollfds)
                 PROVE  \E fd \in DOMAIN handles : handles[fd].index = i
      OBVIOUS
    <3>1. Permanent[i] \in DOMAIN handles /\ handles[Permanent[i]].index = i
      BY <1>2, <1>3, <1>4, <1>5, PermanentFacts
    <3> QED BY <3>1
  <2> QED BY <2>1, <2>2 DEF Ordered, OneToOne
<1>11. MirroredWhileOrdered
  <2> SUFFICES ASSUME NEW fd \in DOMAIN handles PROVE Mirrored(fd)
    BY DEF MirroredWhileOrdered, Init
  <2>1. /\ place(fd) \in 1..n /\ Permanent[place(fd)] = fd
        /\ handles[fd] = [index |-> place(fd), events |-> {"read"}]
    BY <1>1, <1>3, <1>4
  <2>2. pollfds[place(fd)] = [fd |-> fd, events |-> {"read"}]
    BY <2>1, PermanentFacts DEF Init
  <2> QED BY <1>5, <2>1, <2>2 DEF Mirrored, SlotOf
<1> QED BY <1>6, <1>7, <1>8, <1>9, <1>10, <1>11 DEF IInv

\* A registered handle gets the place behind the last.
LEMMA RegisterKeeps ==
  ASSUME IInv, NEW new \in Transient, register_polling(new)
  PROVE  IInv'
<1> DEFINE n == Len(pollfds)
<1>1. /\ n \in Nat /\ pollfds \in Seq(Slot) /\ new \notin DOMAIN handles
      /\ handles' = [f \in DOMAIN handles \cup {new} |->
                        IF f = new THEN [index |-> n + 1, events |-> {}] ELSE handles[f]]
      /\ pollfds' = Append(pollfds, Ignored)
      /\ UNCHANGED <<undefined, disordered>>
  BY LenProperties DEF IInv, TypeOK, register_polling
<1>2. /\ pollfds' \in Seq(Slot) /\ Len(pollfds') = n + 1
      /\ \A i \in 1..n : pollfds'[i] = pollfds[i]
      /\ pollfds'[n + 1] = Ignored
  BY <1>1, IgnoredType, AppendProperties
<1>3. /\ DOMAIN handles' = DOMAIN handles \cup {new}
      /\ handles'[new] = [index |-> n + 1, events |-> {}]
      /\ \A f \in DOMAIN handles : handles'[f] = handles[f]
  BY <1>1
<1> HIDE DEF n
<1>4. TypeOK'
  <2>1. [index |-> n + 1, events |-> {}] \in Handle
    BY <1>1 DEF Handle, Events
  <2> QED BY <1>1, <1>2, <1>3, <2>1 DEF IInv, TypeOK, Fds
<1>5. Sizes'
  BY <1>1, <1>2, <1>3, FS_AddElement DEF IInv, Sizes, SizesAgree, n
<1>6. \A i \in 1..Len(Permanent) : i \in 1..n
  <2>1. \A i \in 1..Len(Permanent) : i <= Len(pollfds)
    BY DEF IInv, OwnSlots
  <2> QED BY <1>1, <2>1, PermanentFacts DEF n
<1>7. Behind'
  <2>1. Len(Permanent) < n + 1
    BY <1>1, <1>6, PermanentFacts
  <2> QED BY <1>3, <2>1 DEF IInv, Behind
<1>8. OwnSlots'
  <2> SUFFICES ASSUME NEW i \in 1..Len(Permanent)
               PROVE  /\ Permanent[i] \in DOMAIN handles'
                      /\ handles'[Permanent[i]] = [index |-> i, events |-> {"read"}]
                      /\ i <= Len(pollfds')
                      /\ pollfds'[i] = [fd |-> Permanent[i], events |-> {"read"}]
    BY DEF OwnSlots
  <2>1. i \in 1..n /\ i <= n + 1
    BY <1>1, <1>6
  <2>2. /\ Permanent[i] \in DOMAIN handles
        /\ handles[Permanent[i]] = [index |-> i, events |-> {"read"}]
        /\ pollfds[i] = [fd |-> Permanent[i], events |-> {"read"}]
    BY DEF IInv, OwnSlots
  <2> QED BY <1>2, <1>3, <2>1, <2>2
<1>9. \A f \in DOMAIN handles : ~disordered => handles[f].index \in 1..n
  BY <1>1 DEF IInv, TypeOK, Handle, MirroredWhileOrdered, Mirrored, n
<1>10. Ordered'
  <2> SUFFICES ASSUME ~disordered PROVE OneToOne'
    BY <1>1 DEF Ordered
  <2>1. OneToOne
    BY DEF IInv, Ordered
  <2>2. \A f, g \in DOMAIN handles' : handles'[f].index = handles'[g].index => f = g
    BY <1>1, <1>3, <1>9, <2>1 DEF OneToOne
  <2>3. \A i \in 1..(n + 1) : \E fd \in DOMAIN handles' : handles'[fd].index = i
    <3> SUFFICES ASSUME NEW i \in 1..(n + 1)
                 PROVE  \E fd \in DOMAIN handles' : handles'[fd].index = i
      OBVIOUS
    <3>1. CASE i = n + 1
      BY <1>3, <3>1
    <3>2. CASE i # n + 1
      <4>1. i \in 1..n
        BY <1>1, <3>2
      <4>2. PICK fd \in DOMAIN handles : handles[fd].index = i
        BY <2>1, <4>1 DEF OneToOne, n
      <4> QED BY <1>3, <4>2
    <3> QED BY <3>1, <3>2
  <2> QED BY <1>2, <2>2, <2>3 DEF OneToOne
<1>11. MirroredWhileOrdered'
  <2> SUFFICES ASSUME ~disordered
               PROVE  ~undefined' /\ \A fd \in DOMAIN handles' : Mirrored(fd)'
    BY <1>1 DEF MirroredWhileOrdered
  <2>1. ~undefined'
    BY <1>1 DEF IInv, MirroredWhileOrdered
  <2>2. ASSUME NEW fd \in DOMAIN handles PROVE Mirrored(fd)'
    <3>1. handles[fd].index \in 1..n /\ Mirrored(fd)
      BY <1>9 DEF IInv, MirroredWhileOrdered
    <3> QED BY <1>1, <1>2, <1>3, <3>1 DEF Mirrored
  <2>3. Mirrored(new)'
    BY <1>1, <1>2, <1>3 DEF Mirrored, SlotOf
  <2> QED BY <1>3, <2>1, <2>2, <2>3
<1> QED BY <1>4, <1>5, <1>7, <1>8, <1>10, <1>11 DEF IInv

\* An update writes one slot, which is never one of the loop's own.
LEMMA UpdateKeeps ==
  ASSUME IInv, NEW fd \in Transient, NEW events \in Events, update_handle(fd, events)
  PROVE  IInv'
<1> DEFINE n == Len(pollfds)
           idx == handles[fd].index
<1>1. /\ n \in Nat /\ pollfds \in Seq(Slot) /\ pollfds \in [1..n -> Slot]
      /\ fd \in DOMAIN handles
      /\ handles[fd] \in Handle /\ idx \in Nat \ {0} /\ idx > Len(Permanent)
      /\ handles' = [handles EXCEPT ![fd].events = events]
      /\ UNCHANGED disordered
  BY LenProperties DEF IInv, TypeOK, Handle, Behind, update_handle
<1>2. /\ idx <= n => pollfds' = [pollfds EXCEPT ![idx] = SlotOf(fd, events)] /\ UNCHANGED undefined
      /\ ~(idx <= n) => UNCHANGED pollfds /\ undefined' = TRUE
  BY DEF update_handle
<1>3. /\ DOMAIN handles' = DOMAIN handles
      /\ handles'[fd] = [index |-> idx, events |-> events]
      /\ \A f \in DOMAIN handles : f # fd => handles'[f] = handles[f]
      /\ \A f \in DOMAIN handles : handles'[f].index = handles[f].index
  BY <1>1 DEF Handle
<1> HIDE DEF n, idx
<1>4. /\ pollfds' \in Seq(Slot) /\ Len(pollfds') = n
      /\ \A i \in 1..n : i # idx => pollfds'[i] = pollfds[i]
      /\ idx <= n => pollfds'[idx] = SlotOf(fd, events)
  <2>1. CASE idx <= n
    <3>1. idx \in 1..n /\ SlotOf(fd, events) \in Slot
      BY <1>1, <2>1, SlotOfType DEF Fds
    <3> QED BY <1>1, <1>2, <2>1, <3>1, ExceptSeq DEF n
  <2>2. CASE ~(idx <= n)
    BY <1>1, <1>2, <2>2 DEF n
  <2> QED BY <2>1, <2>2
<1>5. TypeOK'
  <2>1. handles'[fd] \in Handle
    BY <1>1, <1>3 DEF Handle
  <2>2. undefined' \in BOOLEAN
    BY <1>2 DEF IInv, TypeOK
  <2> QED BY <1>1, <1>3, <1>4, <2>1, <2>2 DEF IInv, TypeOK
<1>6. Sizes'
  BY <1>3, <1>4 DEF IInv, Sizes, SizesAgree, n
<1>7. Behind'
  BY <1>3 DEF IInv, Behind
<1>8. OwnSlots'
  <2> SUFFICES ASSUME NEW i \in 1..Len(Permanent)
               PROVE  /\ Permanent[i] \in DOMAIN handles'
                      /\ handles'[Permanent[i]] = [index |-> i, events |-> {"read"}]
                      /\ i <= Len(pollfds')
                      /\ pollfds'[i] = [fd |-> Permanent[i], events |-> {"read"}]
    BY DEF OwnSlots
  <2>1. /\ Permanent[i] \in DOMAIN handles
        /\ handles[Permanent[i]] = [index |-> i, events |-> {"read"}]
        /\ i <= n
        /\ pollfds[i] = [fd |-> Permanent[i], events |-> {"read"}]
    BY DEF IInv, OwnSlots, n
  <2>2. Permanent[i] # fd
    BY PermanentFacts, FdAssumption
  <2>3. i \in 1..n /\ i # idx
    BY <1>1, <2>1, PermanentFacts
  <2> QED BY <1>3, <1>4, <2>1, <2>2, <2>3
<1>9. Ordered'
  BY <1>1, <1>3, <1>4 DEF IInv, Ordered, OneToOne, n
<1>10. MirroredWhileOrdered'
  <2> SUFFICES ASSUME ~disordered
               PROVE  ~undefined' /\ \A f \in DOMAIN handles' : Mirrored(f)'
    BY <1>1 DEF MirroredWhileOrdered
  <2>1. ~undefined /\ OneToOne /\ \A f \in DOMAIN handles : Mirrored(f)
    BY DEF IInv, MirroredWhileOrdered, Ordered
  <2>2. idx <= n
    BY <1>1, <2>1 DEF Mirrored, idx, n
  <2>3. Mirrored(fd)'
    BY <1>3, <1>4, <2>2 DEF Mirrored
  <2>4. ASSUME NEW f \in DOMAIN handles, f # fd PROVE Mirrored(f)'
    <3>1. handles[f].index # idx
      BY <1>1, <2>1, <2>4 DEF OneToOne, idx
    <3>2. handles[f].index \in 1..n /\ Mirrored(f)
      BY <1>1, <2>1 DEF Mirrored, IInv, TypeOK, Handle, n
    <3> QED BY <1>3, <1>4, <2>4, <3>1, <3>2 DEF Mirrored
  <2> QED BY <1>2, <1>3, <2>1, <2>2, <2>3, <2>4
<1> QED BY <1>5, <1>6, <1>7, <1>8, <1>9, <1>10 DEF IInv

\* A removal swaps and drops slots behind the loop's own: there is at least one,
\* and the index of the handle, stale or not, is one of theirs or beyond.
LEMMA RemoveKeeps ==
  ASSUME IInv, NEW fd \in Transient, remove_handle(fd)
  PROVE  IInv'
<1> DEFINE n == Len(pollfds)
           idx == handles[fd].index
<1>1. /\ n \in Nat /\ pollfds \in Seq(Slot) /\ fd \in DOMAIN handles
      /\ handles[fd] \in Handle /\ idx \in Nat \ {0} /\ idx > Len(Permanent)
      /\ handles' = Restrict(handles, DOMAIN handles \ {fd})
      /\ undefined' = (undefined \/ idx > n)
      /\ disordered' = (disordered \/ idx # n)
      /\ pollfds' = Popped(pollfds, idx)
  BY LenProperties DEF IInv, TypeOK, Handle, Behind, remove_handle, Popped
<1>2. /\ DOMAIN handles' = DOMAIN handles \ {fd}
      /\ \A f \in DOMAIN handles \ {fd} : handles'[f] = handles[f]
  BY <1>1 DEF Restrict
<1>3. /\ IsFiniteSet(DOMAIN handles) /\ Cardinality(DOMAIN handles) = n
      /\ IsFiniteSet(DOMAIN handles \ {fd}) /\ Cardinality(DOMAIN handles \ {fd}) = n - 1
  BY <1>1, FS_RemoveElement DEF IInv, Sizes, SizesAgree
<1>4. Len(Permanent) <= n - 1
  <2>1. Permanent \in Injection(1..Len(Permanent), DOMAIN handles \ {fd})
    <3>1. \A i \in 1..Len(Permanent) : Permanent[i] \in DOMAIN handles \ {fd}
      <4>1. \A i \in 1..Len(Permanent) : Permanent[i] # fd
        BY PermanentFacts, FdAssumption
      <4> QED BY <4>1 DEF IInv, OwnSlots
    <3>2. Permanent \in [1..Len(Permanent) -> DOMAIN handles \ {fd}]
      BY <3>1, FdAssumption, LenProperties
    <3> QED BY <3>2, PermanentFacts DEF Injection, IsInjective
  <2>2. Cardinality(1..Len(Permanent)) <= Cardinality(DOMAIN handles \ {fd})
    BY <1>3, <2>1, FS_Injection
  <2>3. Cardinality(1..Len(Permanent)) = Len(Permanent)
    BY FS_Interval, PermanentFacts
  <2> QED BY <1>3, <2>2, <2>3
<1>5. n > 0
  BY <1>1, <1>4, PermanentFacts
<1> HIDE DEF idx
<1>6. /\ pollfds' \in Seq(Slot) /\ Len(pollfds') = n - 1
      /\ \A i \in 1..(n - 1) : i # idx => pollfds'[i] = pollfds[i]
  BY <1>1, <1>5, SwapPop
<1> HIDE DEF n
<1>7. TypeOK'
  BY <1>1, <1>2, <1>6 DEF IInv, TypeOK
<1>8. Sizes'
  BY <1>2, <1>3, <1>6 DEF Sizes, SizesAgree
<1>9. Behind'
  BY <1>2 DEF IInv, Behind
<1>10. OwnSlots'
  <2> SUFFICES ASSUME NEW i \in 1..Len(Permanent)
               PROVE  /\ Permanent[i] \in DOMAIN handles'
                      /\ handles'[Permanent[i]] = [index |-> i, events |-> {"read"}]
                      /\ i <= Len(pollfds')
                      /\ pollfds'[i] = [fd |-> Permanent[i], events |-> {"read"}]
    BY DEF OwnSlots
  <2>1. /\ Permanent[i] \in DOMAIN handles
        /\ handles[Permanent[i]] = [index |-> i, events |-> {"read"}]
        /\ pollfds[i] = [fd |-> Permanent[i], events |-> {"read"}]
    BY DEF IInv, OwnSlots
  <2>2. Permanent[i] # fd
    BY PermanentFacts, FdAssumption
  <2>3. i \in 1..(n - 1) /\ i # idx /\ i <= n - 1
    BY <1>1, <1>4, PermanentFacts
  <2> QED BY <1>2, <1>6, <2>1, <2>2, <2>3
<1>11. ~disordered' => ~disordered /\ OneToOne /\ idx = n
  BY <1>1 DEF IInv, Ordered
<1>12. Ordered'
  <2> SUFFICES ASSUME ~disordered' PROVE OneToOne'
    BY DEF Ordered
  <2>1. OneToOne /\ idx = n
    BY <1>11
  <2>2. \A f, g \in DOMAIN handles' : handles'[f].index = handles'[g].index => f = g
    BY <1>2, <2>1 DEF OneToOne
  <2>3. \A i \in 1..(n - 1) : \E f \in DOMAIN handles' : handles'[f].index = i
    <3> SUFFICES ASSUME NEW i \in 1..(n - 1)
                 PROVE  \E f \in DOMAIN handles' : handles'[f].index = i
      OBVIOUS
    <3>1. i \in 1..n /\ i # n
      BY <1>1
    <3>2. PICK f \in DOMAIN handles : handles[f].index = i
      BY <2>1, <3>1 DEF OneToOne, n
    <3>3. f # fd
      BY <2>1, <3>1, <3>2 DEF idx
    <3> QED BY <1>2, <3>2, <3>3
  <2> QED BY <1>6, <2>2, <2>3 DEF OneToOne
<1>13. MirroredWhileOrdered'
  <2> SUFFICES ASSUME ~disordered'
               PROVE  ~undefined' /\ \A f \in DOMAIN handles' : Mirrored(f)'
    BY DEF MirroredWhileOrdered
  <2>1. OneToOne /\ idx = n /\ ~undefined /\ \A f \in DOMAIN handles : Mirrored(f)
    BY <1>11 DEF IInv, MirroredWhileOrdered
  <2>2. ~undefined'
    <3>1. ~(idx > n)
      BY <1>1, <2>1
    <3> QED BY <1>1, <2>1, <3>1, Zenon
  <2>3. ASSUME NEW f \in DOMAIN handles' PROVE Mirrored(f)'
    <3>1. f \in DOMAIN handles /\ f # fd /\ handles'[f] = handles[f]
      BY <1>2
    <3>2. handles[f].index \in 1..n /\ pollfds[handles[f].index] = SlotOf(f, handles[f].events)
      BY <1>1, <2>1, <3>1 DEF Mirrored, IInv, TypeOK, Handle, n
    <3>3. handles[f].index # n
      BY <1>1, <2>1, <3>1 DEF OneToOne, idx
    <3>4. handles[f].index \in 1..(n - 1) /\ handles[f].index # idx
      BY <1>1, <2>1, <3>2, <3>3
    <3>5. handles[f].index <= n - 1 /\ pollfds'[handles[f].index] = pollfds[handles[f].index]
      BY <1>1, <1>6, <3>4
    <3> QED BY <1>6, <3>1, <3>2, <3>5 DEF Mirrored
  <2> QED BY <2>2, <2>3
<1> QED BY <1>7, <1>8, <1>9, <1>10, <1>12, <1>13 DEF IInv

\* While removals were last-in first-out every polled slot has its handle.
LEMMA FindKeeps ==
  ASSUME IInv, NEW idx \in DOMAIN pollfds, find_active_handles(idx)
  PROVE  IInv'
<1>1. UNCHANGED <<handles, pollfds, disordered>> /\ undefined' \in BOOLEAN
  BY DEF find_active_handles, IInv, TypeOK
<1>2. MirroredWhileOrdered'
  <2> SUFFICES ASSUME ~disordered
               PROVE  ~undefined' /\ \A f \in DOMAIN handles : Mirrored(f)'
    BY <1>1 DEF MirroredWhileOrdered
  <2>1. OneToOne /\ ~undefined /\ \A f \in DOMAIN handles : Mirrored(f)
    BY DEF IInv, Ordered, MirroredWhileOrdered
  <2>2. idx \in 1..Len(pollfds)
    BY LenProperties DEF IInv, TypeOK
  <2>3. PICK f \in DOMAIN handles : handles[f].index = idx
    BY <2>1, <2>2 DEF OneToOne
  <2>4. pollfds[idx] = SlotOf(f, handles[f].events)
    BY <2>1, <2>3 DEF Mirrored
  <2>5. pollfds[idx].fd \in {IGNORED_FD, f}
    BY <2>4 DEF SlotOf, Ignored
  <2>6. pollfds[idx].fd = f
    BY <2>5 DEF find_active_handles
  <2>7. ~undefined'
    BY <2>1, <2>3, <2>6 DEF find_active_handles
  <2> QED BY <1>1, <2>1, <2>7 DEF Mirrored
<1> QED BY <1>1, <1>2 DEF IInv, TypeOK, Sizes, SizesAgree, Behind, OwnSlots, Ordered, OneToOne

LEMMA StepIInv == IInv /\ [Next]_vars => IInv'
<1> SUFFICES ASSUME IInv, [Next]_vars PROVE IInv'
  OBVIOUS
<1>1. CASE UNCHANGED vars
  BY <1>1 DEF vars, IInv, TypeOK, Sizes, SizesAgree, Behind, OwnSlots, Ordered, OneToOne,
              MirroredWhileOrdered, Mirrored
<1> QED
  BY <1>1, RegisterKeeps, RemoveKeeps, UpdateKeeps, FindKeeps DEF Next

LEMMA Invariance == Spec => []IInv
BY InitIInv, StepIInv, PTL DEF Spec

\* Handles, slots and indices keep their types, whatever is registered, updated
\* and removed in whatever order.
THEOREM TypeCorrect == Spec => []TypeOK
<1>1. IInv => TypeOK
  BY DEF IInv
<1> QED BY <1>1, Invariance, PTL

\* register_polling's assertion holds: one slot per handle.
THEOREM SlotPerHandle == Spec => []SizesAgree
<1>1. IInv => SizesAgree
  BY DEF IInv, Sizes
<1> QED BY <1>1, Invariance, PTL

\* The eventfd and the timerfd are polled for ever, whatever removals do to the
\* slots of other handles.
THEOREM OwnHandlesPolled == Spec => []PermanentPolled
<1>1. IInv => PermanentPolled
  <2> SUFFICES ASSUME IInv, NEW fd \in Range(Permanent) PROVE Mirrored(fd)
    BY DEF PermanentPolled
  <2>1. PICK i \in 1..Len(Permanent) : Permanent[i] = fd
    BY PermanentFacts
  <2>2. /\ handles[fd] = [index |-> i, events |-> {"read"}]
        /\ i <= Len(pollfds) /\ pollfds[i] = [fd |-> fd, events |-> {"read"}]
    BY <2>1 DEF IInv, OwnSlots
  <2>3. handles[fd].index = i /\ handles[fd].events = {"read"}
    BY <2>2
  <2>4. SlotOf(fd, {"read"}) = [fd |-> fd, events |-> {"read"}]
    BY DEF SlotOf
  <2> QED BY <2>2, <2>3, <2>4 DEF Mirrored
<1> QED BY <1>1, Invariance, PTL

\* Every handle is polled for its own events, with nothing out of bounds, as long
\* as handles are removed last-in first-out.
THEOREM MirroredInOrder == Spec => []MirroredWhileOrdered
<1>1. IInv => MirroredWhileOrdered
  BY DEF IInv
<1> QED BY <1>1, Invariance, PTL
=============================================================================

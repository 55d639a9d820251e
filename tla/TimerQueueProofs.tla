-------------------------- MODULE TimerQueueProofs --------------------------
(***************************************************************************)
(* Proofs about TimerQueue for any timers, delays and units of time.       *)
(***************************************************************************)
EXTENDS TimerQueue, QueueFacts, FiniteSetTheorems, WellFoundedInduction

(***************************************************************************)
(* Least elements.  The sets {b \in A : b <= a} of a set A of naturals are *)
(* finite, so one of them has no other as a subset: it holds the least.    *)
(***************************************************************************)

LEMMA LeastNatural ==
  ASSUME NEW A \in SUBSET Nat, A # {}
  PROVE  \E m \in A : \A x \in A : m <= x
<1> DEFINE Below(a) == {b \in A : b <= a}
           T == {Below(a) : a \in A}
<1>1. T \subseteq FiniteSubsetsOf(A) /\ T # {}
  <2>1. ASSUME NEW a \in A PROVE Below(a) \in SUBSET A /\ IsFiniteSet(Below(a))
    <3>1. Below(a) \in SUBSET Nat /\ a \in Nat /\ \A s \in Below(a) : s <= a
      OBVIOUS
    <3> QED BY <3>1, FS_BoundedSetOfNaturals
  <2> QED BY <2>1 DEF FiniteSubsetsOf
<1>2. PICK U \in T : \A V \in T : ~(<<V, U>> \in StrictSubsetOrdering(A))
  <2> HIDE DEF T
  <2> QED BY <1>1, FS_StrictSubsetOrderingWellFounded, WFMin
<1>3. PICK a \in A : U = Below(a)
  BY <1>2
<1>4. ASSUME NEW x \in A PROVE a <= x
  <2> SUFFICES ASSUME ~(a <= x) PROVE FALSE
    OBVIOUS
  <2>1. x < a
    BY <1>3, <1>4
  <2>0. a \in Nat /\ x \in Nat
    BY <1>4
  <2>2. Below(x) \subseteq Below(a) /\ a \in Below(a) /\ a \notin Below(x)
    <3>1. \A b \in Nat : b <= x => b <= a
      BY <2>0, <2>1
    <3>2. a <= a /\ ~(a <= x)
      BY <2>0
    <3> QED BY <3>1, <3>2, <1>4
  <2>3. Below(x) \in T /\ Below(x) \in SUBSET A /\ Below(a) \in SUBSET A
    BY <1>4
  <2> HIDE DEF Below, T
  <2>4. <<Below(x), Below(a)>> \in StrictSubsetOrdering(A)
    BY <2>2, <2>3 DEF StrictSubsetOrdering
  <2> QED BY <1>2, <1>3, <2>3, <2>4
<1> QED BY <1>4

LEMMA MinFacts ==
  ASSUME NEW A \in SUBSET Nat, A # {}
  PROVE  Min(A) \in A /\ \A x \in A : Min(A) <= x
<1>1. \E m \in A : \A x \in A : m <= x
  BY LeastNatural
<1> QED BY <1>1 DEF Min

LEMMA MaxFacts ==
  ASSUME NEW a \in Int, NEW b \in Int
  PROVE  Max({a, b}) = IF a >= b THEN a ELSE b
<1> DEFINE m == IF a >= b THEN a ELSE b
<1>1. m \in {a, b} /\ \A y \in {a, b} : m >= y
  OBVIOUS
<1>2. \A x \in {a, b} : (\A y \in {a, b} : x >= y) => x = m
  OBVIOUS
<1> QED BY <1>1, <1>2 DEF Max

(***************************************************************************)
(* The functors queued by other threads.                                   *)
(***************************************************************************)

AddOp(t) == [do |-> "add", timer |-> t]
CancelOp(t) == [do |-> "cancel", timer |-> t]

LEMMA OpFacts ==
  ASSUME NEW t \in Timers, NEW u \in Timers
  PROVE  /\ AddOp(t) \in Op /\ CancelOp(t) \in Op
         /\ AddOp(t) # CancelOp(u)
         /\ AddOp(t) = AddOp(u) <=> t = u
         /\ CancelOp(t) = CancelOp(u) <=> t = u
<1>1. AddOp(t).do = "add" /\ AddOp(t).timer = t /\ AddOp(u).timer = u
  BY DEF AddOp
<1>2. CancelOp(t).timer = t /\ CancelOp(u).timer = u /\ CancelOp(u).do = "cancel"
  BY DEF CancelOp
<1>3. AddOp(t) \in Op /\ CancelOp(t) \in Op
  BY DEF AddOp, CancelOp, Op
<1> QED BY <1>1, <1>2, <1>3

\* The timers with an add, and with a cancel, in a queue.
AddsIn(q) == {t \in Timers : Occurs(AddOp(t), q)}
CancelsIn(q) == {t \in Timers : Occurs(CancelOp(t), q)}

LEMMA AddsAreQueued ==
  ASSUME NEW q \in Seq(Op)
  PROVE  {q[i].timer : i \in {j \in DOMAIN q : q[j].do = "add"}} = AddsIn(q)
<1>1. \A i \in DOMAIN q : q[i] \in Op
  BY LenProperties
<1>2. ASSUME NEW i \in DOMAIN q, q[i].do = "add" PROVE q[i].timer \in AddsIn(q)
  <2>1. q[i].timer \in Timers /\ q[i] = AddOp(q[i].timer)
    BY <1>1, <1>2 DEF Op, AddOp
  <2> QED BY <2>1 DEF AddsIn, Occurs
<1>3. ASSUME NEW t \in AddsIn(q) PROVE \E i \in DOMAIN q : q[i].do = "add" /\ q[i].timer = t
  <2>1. PICK i \in DOMAIN q : q[i] = AddOp(t)
    BY <1>3 DEF AddsIn, Occurs
  <2> QED BY <2>1 DEF AddOp
<1> QED BY <1>2, <1>3

LEMMA QueueingAnOp ==
  ASSUME NEW q \in Seq(Op), Distinct(q), NEW t \in Timers
  PROVE  /\ t \notin AddsIn(q) =>
              LET r == Append(q, AddOp(t)) IN
                /\ r \in Seq(Op) /\ Distinct(r) /\ Len(r) = Len(q) + 1
                /\ AddsIn(r) = AddsIn(q) \cup {t} /\ CancelsIn(r) = CancelsIn(q)
         /\ t \notin CancelsIn(q) =>
              LET r == Append(q, CancelOp(t)) IN
                /\ r \in Seq(Op) /\ Distinct(r) /\ Len(r) = Len(q) + 1
                /\ AddsIn(r) = AddsIn(q) /\ CancelsIn(r) = CancelsIn(q) \cup {t}
<1>1. AddOp(t) \in Op /\ CancelOp(t) \in Op
  BY OpFacts
<1>2. ASSUME t \notin AddsIn(q)
      PROVE  LET r == Append(q, AddOp(t)) IN
                /\ r \in Seq(Op) /\ Distinct(r) /\ Len(r) = Len(q) + 1
                /\ AddsIn(r) = AddsIn(q) \cup {t} /\ CancelsIn(r) = CancelsIn(q)
  <2> DEFINE r == Append(q, AddOp(t))
  <2>1. r \in Seq(Op) /\ Len(r) = Len(q) + 1
    BY <1>1, AppendProperties
  <2>2. Distinct(r) /\ \A g : Occurs(g, r) <=> Occurs(g, q) \/ g = AddOp(t)
    BY <1>1, <1>2, AppendFacts DEF AddsIn
  <2>3. AddsIn(r) = AddsIn(q) \cup {t} /\ CancelsIn(r) = CancelsIn(q)
    BY <2>2, OpFacts DEF AddsIn, CancelsIn
  <2> QED BY <2>1, <2>2, <2>3
<1>3. ASSUME t \notin CancelsIn(q)
      PROVE  LET r == Append(q, CancelOp(t)) IN
                /\ r \in Seq(Op) /\ Distinct(r) /\ Len(r) = Len(q) + 1
                /\ AddsIn(r) = AddsIn(q) /\ CancelsIn(r) = CancelsIn(q) \cup {t}
  <2> DEFINE r == Append(q, CancelOp(t))
  <2>1. r \in Seq(Op) /\ Len(r) = Len(q) + 1
    BY <1>1, AppendProperties
  <2>2. Distinct(r) /\ \A g : Occurs(g, r) <=> Occurs(g, q) \/ g = CancelOp(t)
    BY <1>1, <1>3, AppendFacts DEF CancelsIn
  <2>3. AddsIn(r) = AddsIn(q) /\ CancelsIn(r) = CancelsIn(q) \cup {t}
    BY <2>2, OpFacts DEF AddsIn, CancelsIn
  <2> QED BY <2>1, <2>2, <2>3
<1> QED BY <1>2, <1>3

LEMMA TakingAnOp ==
  ASSUME NEW q \in Seq(Op), Distinct(q), Len(q) > 0
  PROVE  LET t == Head(q).timer
             r == Tail(q)
         IN  /\ t \in Timers /\ r \in Seq(Op) /\ Distinct(r) /\ Len(r) = Len(q) - 1
             /\ Head(q).do = "add" =>
                  /\ t \in AddsIn(q) /\ AddsIn(r) = AddsIn(q) \ {t}
                  /\ CancelsIn(r) = CancelsIn(q)
             /\ Head(q).do = "cancel" =>
                  /\ t \in CancelsIn(q) /\ CancelsIn(r) = CancelsIn(q) \ {t}
                  /\ AddsIn(r) = AddsIn(q)
<1> DEFINE t == Head(q).timer
           r == Tail(q)
<1>1. q # <<>>
  BY EmptySeq
<1>2. Head(q) \in Op /\ r \in Seq(Op) /\ Len(r) = Len(q) - 1
  BY <1>1, HeadTailProperties
<1>3. t \in Timers /\ (Head(q).do = "add" => Head(q) = AddOp(t))
      /\ (Head(q).do = "cancel" => Head(q) = CancelOp(t))
  BY <1>2 DEF Op, AddOp, CancelOp
<1>4. Distinct(r) /\ Occurs(Head(q), q) /\ \A g : Occurs(g, r) <=> Occurs(g, q) /\ g # Head(q)
  BY <1>1, TailFacts
<1> HIDE DEF t, r
<1>5. Head(q).do = "add" => /\ t \in AddsIn(q) /\ AddsIn(r) = AddsIn(q) \ {t}
                            /\ CancelsIn(r) = CancelsIn(q)
  BY <1>3, <1>4, OpFacts DEF AddsIn, CancelsIn
<1>6. Head(q).do = "cancel" => /\ t \in CancelsIn(q) /\ CancelsIn(r) = CancelsIn(q) \ {t}
                               /\ AddsIn(r) = AddsIn(q)
  BY <1>3, <1>4, OpFacts DEF AddsIn, CancelsIn
<1> QED BY <1>2, <1>3, <1>4, <1>5, <1>6 DEF t, r

(***************************************************************************)
(* Arming the timerfd.                                                     *)
(***************************************************************************)

LEMMA Arming ==
  ASSUME TypeOK, NEW e \in Nat, reset_expieration_from_now(e)
  PROVE  /\ deadline' = None \/ deadline' \in Nat
         /\ clock < e + Sec => deadline' = IF e >= clock + Milli THEN e ELSE clock + Milli
<1>1. /\ clock \in Nat /\ e - clock \in Int /\ Milli \in Nat /\ Milli > 0 /\ Sec \in Nat
      /\ deadline = None \/ deadline \in Nat
  BY TimeAssumption DEF TypeOK
<1>2. Max({e - clock, Milli}) = IF e - clock >= Milli THEN e - clock ELSE Milli
  BY <1>1, MaxFacts
<1> DEFINE value == IF e - clock <= -Sec THEN e - clock ELSE Max({e - clock, Milli})
<1>3. value = IF e - clock <= -Sec THEN e - clock
              ELSE IF e - clock >= Milli THEN e - clock ELSE Milli
  BY <1>2
<1>4. reset_timerfd_time(value)
  BY DEF reset_expieration_from_now
<1> HIDE DEF value
<1>5. value \in Int
  BY <1>1, <1>3
<1>6. /\ value > 0 => deadline' = clock + value
      /\ value = 0 => deadline' = None
      /\ value < 0 => deadline' = deadline
  <2>1. PICK v \in Int : v = value
    BY <1>5
  <2>2. reset_timerfd_time(v)
    BY <1>4, <2>1
  <2>3. v > 0 => ~(v = 0) /\ ~(v < 0)
    OBVIOUS
  <2>4. v = 0 => ~(v > 0) /\ ~(v < 0)
    OBVIOUS
  <2>5. v < 0 => ~(v = 0) /\ ~(v > 0)
    OBVIOUS
  <2> QED BY <2>1, <2>2, <2>3, <2>4, <2>5, Zenon DEF reset_timerfd_time
<1>7. deadline' = None \/ deadline' \in Nat
  BY <1>1, <1>5, <1>6
<1>8. ASSUME clock < e + Sec
      PROVE  deadline' = IF e >= clock + Milli THEN e ELSE clock + Milli
  <2>1. value = IF e >= clock + Milli THEN e - clock ELSE Milli
    BY <1>1, <1>3, <1>8
  <2>2. value > 0
    BY <1>1, <2>1
  <2> QED BY <1>1, <1>6, <2>1, <2>2
<1> QED BY <1>7, <1>8

\* What add_timer_in_loop does, in terms of the timers instead of their minimum.
LEMMA Adding ==
  ASSUME TypeOK, NEW t \in Timers, NEW e \in Nat, add_timer_in_loop(t, e)
  PROVE  /\ timers' = timers \cup {t}
         /\ deadline' = None \/ deadline' \in Nat
         /\ \/ /\ \A u \in timers : e <= expiration[u]
               /\ clock < e + Sec => deadline' = IF e >= clock + Milli THEN e ELSE clock + Milli
            \/ /\ \E u \in timers : expiration[u] <= e
               /\ UNCHANGED deadline
<1> DEFINE A == {expiration[u] : u \in timers}
<1>1. /\ A \in SUBSET Nat /\ First(timers) = Min(A)
      /\ timers # {} => A # {}
  BY DEF TypeOK, First
<1>2. timers' = timers \cup {t}
  BY DEF add_timer_in_loop
<1>3. CASE timers = {} \/ e < First(timers)
  <2>1. reset_expieration_from_now(e)
    BY <1>3 DEF add_timer_in_loop
  <2>2. ASSUME NEW u \in timers PROVE e <= expiration[u]
    <3>1. expiration[u] \in A /\ expiration[u] \in Nat
      BY <1>1, <2>2
    <3>2. First(timers) <= expiration[u] /\ e < First(timers) /\ First(timers) \in Nat
      BY <1>1, <1>3, <2>2, <3>1, MinFacts
    <3> QED BY <3>1, <3>2
  <2> QED BY <1>2, <2>1, <2>2, Arming
<1>4. CASE ~(timers = {} \/ e < First(timers))
  <2>1. UNCHANGED deadline
    BY <1>4 DEF add_timer_in_loop
  <2>2. PICK u \in timers : expiration[u] = First(timers)
    BY <1>1, <1>4, MinFacts
  <2>3. expiration[u] <= e
    BY <1>1, <1>4, <2>2 DEF TypeOK
  <2> QED BY <1>2, <2>1, <2>3 DEF TypeOK
<1> QED BY <1>3, <1>4

\* What reset_timers and the rest of handle_read do.
LEMMA Resetting ==
  ASSUME TypeOK, ResetTimers
  PROVE  /\ timers' = timers \cup {t \in batch : interval[t] > 0}
         /\ expiration' \in [Timers -> Nat]
         /\ \A t \in Timers : expiration'[t] = IF t \in batch /\ interval[t] > 0
                                               THEN now + interval[t] ELSE expiration[t]
         /\ deadline' = None \/ deadline' \in Nat
         /\ timers' # {} =>
              \E u \in timers' : /\ \A t \in timers' : expiration'[u] <= expiration'[t]
                                 /\ clock < expiration'[u] + Sec =>
                                      deadline' = IF expiration'[u] >= clock + Milli
                                                  THEN expiration'[u] ELSE clock + Milli
<1> DEFINE again == {t \in batch : interval[t] > 0}
<1>1. /\ timers' = timers \cup again
      /\ expiration' = [t \in Timers |-> IF t \in again THEN restart(t) ELSE expiration[t]]
  BY DEF ResetTimers
<1>2. /\ expiration' \in [Timers -> Nat]
      /\ \A t \in Timers : expiration'[t] = IF t \in again THEN now + interval[t] ELSE expiration[t]
      /\ timers' \subseteq Timers
  BY <1>1 DEF restart, TypeOK
<1>3. CASE timers' = {}
  <2>1. UNCHANGED deadline
    BY <1>3 DEF ResetTimers
  <2> QED BY <1>1, <1>2, <1>3, <2>1 DEF TypeOK
<1>4. CASE timers' # {}
  <2> DEFINE A == {expiration'[t] : t \in timers'}
  <2>1. A \in SUBSET Nat /\ A # {}
    BY <1>2, <1>4
  <2>2. Min(A) \in A /\ \A x \in A : Min(A) <= x
    BY <2>1, MinFacts
  <2>3. PICK u \in timers' : expiration'[u] = Min(A)
    BY <2>2
  <2>4. PICK m \in Nat : m = expiration'[u]
    BY <1>2
  <2>5. reset_expieration_from_now(m)
    BY <1>4, <2>3, <2>4 DEF ResetTimers
  <2>6. /\ deadline' = None \/ deadline' \in Nat
        /\ clock < m + Sec => deadline' = IF m >= clock + Milli THEN m ELSE clock + Milli
    BY <2>5, Arming
  <2>7. \A t \in timers' : expiration'[u] <= expiration'[t]
    BY <2>2, <2>3
  <2> QED BY <1>1, <1>2, <2>4, <2>6, <2>7
<1> QED BY <1>3, <1>4

(***************************************************************************)
(* Types, and who owns a timer: a queued add, timers_ or the batch, one of *)
(* them at a time.                                                         *)
(***************************************************************************)

Ownership ==
  /\ Distinct(ops)
  /\ AddsIn(ops) \subseteq created \ (timers \cup batch)
  /\ CancelsIn(ops) \subseteq created \ (cancelled \cup freedUsed)
  /\ timers \cap batch = {}
  /\ pc # "callbacks" => batch = {}

Owned == TypeOK /\ Ownership

LEMMA InitOwned == Init => Owned
<1> SUFFICES ASSUME Init PROVE Owned
  OBVIOUS
<1>1. ops \in Seq(Op) /\ Len(ops) = 0
  BY EmptySeq DEF Init
<1>2. DOMAIN ops = {}
  BY <1>1, LenProperties
<1>3. Distinct(ops) /\ AddsIn(ops) = {} /\ CancelsIn(ops) = {}
  BY <1>2 DEF Distinct, Occurs, AddsIn, CancelsIn
<1>4. TypeOK
  BY <1>1, TimeAssumption DEF Init, TypeOK
<1>5. Ownership
  BY <1>3 DEF Init, Ownership
<1> QED BY <1>4, <1>5 DEF Owned

LEMMA ClockInNat == TypeOK => clock \in Nat
BY TimeAssumption DEF TypeOK

\* What run_after and run_every leave behind, wherever they are called.
LEMMA Creating ==
  ASSUME TypeOK, NEW t \in Timers, NEW d \in Delays, NEW periodic \in BOOLEAN, NEW at \in Nat,
         Create(t, d, periodic, at)
  PROVE  /\ t \notin created /\ created' = created \cup {t} /\ at + d \in Nat
         /\ expiration' \in [Timers -> Nat] /\ interval' \in [Timers -> Nat]
         /\ expiration'[t] = at + d
         /\ \A u \in Timers \ {t} : expiration'[u] = expiration[u] /\ interval'[u] = interval[u]
<1>1. d \in Nat /\ at + d \in Nat
  BY TimeAssumption DEF TypeOK
<1> QED BY <1>1 DEF Create, TypeOK

\* Calling a cancel, and running it, with Live spelled out.
LEMMA Cancelling ==
  ASSUME Owned, NEW t \in Timers, cancel_timer_in_loop(t)
  PROVE  /\ timers' = timers \ {t}
         /\ IF t \in AddsIn(ops) \cup timers \cup batch
            THEN /\ cancelled' = cancelled \cup {t}
                 /\ erased' = erased \cup ({t} \cap timers)
                 /\ freedUsed' = freedUsed
            ELSE /\ freedUsed' = freedUsed \cup {t}
                 /\ cancelled' = cancelled /\ erased' = erased
<1>1. Adds = AddsIn(ops)
  BY AddsAreQueued DEF Adds, Owned, TypeOK
<1> QED BY <1>1 DEF cancel_timer_in_loop, Live

LEMMA MayCancel ==
  ASSUME Owned, NEW t \in Timers, Cancellable(t)
  PROVE  t \in created \ (cancelled \cup freedUsed \cup CancelsIn(ops))
BY DEF Cancellable, CancelsIn, CancelOp, Occurs

LEMMA OwnedStep == Owned /\ [Next]_vars => Owned'
<1> SUFFICES ASSUME Owned, [Next]_vars PROVE Owned'
  OBVIOUS
<1> USE DEF Owned, loopVars, timerVars, history
<1>1. /\ ops \in Seq(Op) /\ Len(ops) \in Nat /\ todo \in 0 .. Len(ops) /\ Distinct(ops)
      /\ clock \in 0 .. MaxClock
  BY LenProperties DEF TypeOK, Ownership
<1>2. CASE UNCHANGED vars
  BY <1>2 DEF vars, TypeOK, Ownership
<1>3. CASE Tick
  <2>1. clock' \in 0 .. MaxClock
    BY <1>1, <1>3, TimeAssumption DEF Tick
  <2> QED BY <1>3, <2>1 DEF Tick, TypeOK, Ownership
<1>4. ASSUME NEW t \in Timers, NEW d \in Delays, NEW periodic \in BOOLEAN,
             NEW at \in 0 .. clock, AddFromThread(t, d, periodic, at)
      PROVE  Owned'
  <2>1. ops' = Append(ops, AddOp(t)) /\ Create(t, d, periodic, at)
    BY <1>4 DEF AddFromThread, AddOp
  <2>2. /\ t \notin created /\ created' = created \cup {t}
        /\ expiration' \in [Timers -> Nat] /\ interval' \in [Timers -> Nat]
    BY <2>1, Creating
  <2>3. /\ ops' \in Seq(Op) /\ Distinct(ops') /\ Len(ops') = Len(ops) + 1
        /\ AddsIn(ops') = AddsIn(ops) \cup {t} /\ CancelsIn(ops') = CancelsIn(ops)
    BY <1>1, <2>1, <2>2, QueueingAnOp DEF Ownership
  <2>4. todo' \in 0 .. Len(ops')
    BY <1>1, <1>4, <2>3 DEF AddFromThread
  <2>5. TypeOK'
    BY <1>4, <2>2, <2>3, <2>4 DEF AddFromThread, TypeOK
  <2>6. Ownership'
    BY <1>4, <2>2, <2>3 DEF AddFromThread, Ownership, TypeOK
  <2> QED BY <2>5, <2>6
<1>5. ASSUME NEW t \in Timers, NEW d \in Delays, NEW periodic \in BOOLEAN,
             AddInLoop(t, d, periodic)
      PROVE  Owned'
  <2>1. Create(t, d, periodic, clock) /\ add_timer_in_loop(t, clock + d)
    BY <1>5 DEF AddInLoop
  <2>2. /\ t \notin created /\ created' = created \cup {t} /\ clock + d \in Nat
        /\ expiration' \in [Timers -> Nat] /\ interval' \in [Timers -> Nat]
    BY <2>1, ClockInNat, Creating
  <2>3. timers' = timers \cup {t} /\ (deadline' = None \/ deadline' \in Nat)
    BY <2>1, <2>2, Adding
  <2>4. TypeOK'
    BY <1>5, <2>2, <2>3 DEF AddInLoop, TypeOK
  <2>5. Ownership'
    BY <1>5, <2>2, <2>3 DEF AddInLoop, Ownership, TypeOK
  <2> QED BY <2>4, <2>5
<1>6. ASSUME NEW t \in Timers, CancelFromThread(t) PROVE Owned'
  <2>1. ops' = Append(ops, CancelOp(t)) /\ t \in created \ (cancelled \cup freedUsed \cup CancelsIn(ops))
    BY <1>6, MayCancel DEF CancelFromThread, CancelOp
  <2>2. /\ ops' \in Seq(Op) /\ Distinct(ops') /\ Len(ops') = Len(ops) + 1
        /\ AddsIn(ops') = AddsIn(ops) /\ CancelsIn(ops') = CancelsIn(ops) \cup {t}
    BY <1>1, <2>1, QueueingAnOp
  <2>3. todo' \in 0 .. Len(ops')
    BY <1>1, <1>6, <2>2 DEF CancelFromThread
  <2>4. TypeOK'
    BY <1>6, <2>2, <2>3 DEF CancelFromThread, TypeOK
  <2>5. Ownership'
    BY <1>6, <2>1, <2>2 DEF CancelFromThread, Ownership
  <2> QED BY <2>4, <2>5
<1>7. ASSUME NEW t \in Timers, CancelInLoop(t) PROVE Owned'
  <2>1. t \in created \ (cancelled \cup freedUsed \cup CancelsIn(ops)) /\ cancel_timer_in_loop(t)
    BY <1>7, MayCancel DEF CancelInLoop
  <2>2. /\ timers' \subseteq timers /\ erased' \subseteq cancelled' /\ cancelled' \subseteq created
        /\ freedUsed' \subseteq created
        /\ cancelled' \subseteq cancelled \cup {t} /\ freedUsed' \subseteq freedUsed \cup {t}
    BY <2>1, Cancelling DEF TypeOK
  <2>3. TypeOK'
    BY <1>7, <2>2 DEF CancelInLoop, TypeOK
  <2>4. Ownership'
    BY <1>7, <2>1, <2>2 DEF CancelInLoop, Ownership
  <2> QED BY <2>3, <2>4
<1>8. CASE PollReturns
  BY <1>8 DEF PollReturns, Polling, TypeOK, Ownership
<1>9. CASE HandleRead
  BY <1>9 DEF HandleRead, TypeOK, Ownership
<1>10. ASSUME NEW t \in Timers, RunCallback(t) PROVE Owned'
  <2>1. runs[t] + 1 \in Nat /\ runs[t] \in 0 .. 2
    BY DEF TypeOK
  <2>2. Min({2, runs[t] + 1}) \in 0 .. 2
    <3>1. {2, runs[t] + 1} \in SUBSET Nat /\ {2, runs[t] + 1} # {}
      BY <2>1
    <3>2. Min({2, runs[t] + 1}) \in {2, runs[t] + 1} /\ Min({2, runs[t] + 1}) <= 2
      BY <3>1, MinFacts
    <3> QED BY <2>1, <3>2
  <2>3. runs' \in [Timers -> 0 .. 2]
    BY <1>10, <2>2 DEF RunCallback, TypeOK
  <2> QED BY <1>10, <2>3 DEF RunCallback, TypeOK, Ownership
<1>11. CASE ResetTimers
  <2>1. /\ timers' = timers \cup {t \in batch : interval[t] > 0}
        /\ expiration' \in [Timers -> Nat]
        /\ deadline' = None \/ deadline' \in Nat
    BY <1>11, Resetting
  <2>2. TypeOK'
    BY <1>11, <2>1 DEF ResetTimers, TypeOK
  <2>3. Ownership'
    BY <1>11, <2>1 DEF ResetTimers, TypeOK, Ownership
  <2> QED BY <2>2, <2>3
<1>12. CASE BeginFunctors
  BY <1>1, <1>12 DEF BeginFunctors, TypeOK, Ownership
<1>13. CASE RunAdd
  <2> DEFINE t == Head(ops).timer
  <2>1. /\ t \in Timers /\ ops' \in Seq(Op) /\ Distinct(ops') /\ Len(ops') = Len(ops) - 1
        /\ t \in AddsIn(ops) /\ AddsIn(ops') = AddsIn(ops) \ {t}
        /\ CancelsIn(ops') = CancelsIn(ops)
    BY <1>1, <1>13, TakingAnOp DEF RunAdd
  <2>2. timers' = timers \cup {t} /\ (deadline' = None \/ deadline' \in Nat)
    BY <1>13, <2>1, Adding DEF RunAdd, TypeOK
  <2>3. todo' \in 0 .. Len(ops')
    BY <1>1, <1>13, <2>1 DEF RunAdd
  <2> HIDE DEF t
  <2>4. TypeOK'
    BY <1>13, <2>1, <2>2, <2>3 DEF RunAdd, TypeOK, Ownership
  <2>5. Ownership'
    BY <1>13, <2>1, <2>2 DEF RunAdd, TypeOK, Ownership
  <2> QED BY <2>4, <2>5
<1>14. CASE RunCancel
  <2> DEFINE t == Head(ops).timer
  <2>1. /\ t \in Timers /\ ops' \in Seq(Op) /\ Distinct(ops') /\ Len(ops') = Len(ops) - 1
        /\ t \in CancelsIn(ops) /\ CancelsIn(ops') = CancelsIn(ops) \ {t}
        /\ AddsIn(ops') = AddsIn(ops)
    BY <1>1, <1>14, TakingAnOp DEF RunCancel
  <2>2. cancel_timer_in_loop(t)
    BY <1>14 DEF RunCancel
  <2> HIDE DEF t
  <2>3. /\ timers' \subseteq timers /\ erased' \subseteq cancelled' /\ cancelled' \subseteq created
        /\ freedUsed' \subseteq created
        /\ cancelled' \subseteq cancelled \cup {t} /\ freedUsed' \subseteq freedUsed \cup {t}
    <3>1. t \in created
      BY <2>1 DEF Ownership
    <3>2. /\ timers' = timers \ {t}
          /\ \/ /\ cancelled' = cancelled \cup {t} /\ freedUsed' = freedUsed
                /\ erased' = erased \cup ({t} \cap timers)
             \/ /\ freedUsed' = freedUsed \cup {t} /\ cancelled' = cancelled
                /\ erased' = erased
      BY <2>2 DEF cancel_timer_in_loop
    <3> QED BY <3>1, <3>2 DEF TypeOK
  <2>4. todo' \in 0 .. Len(ops')
    BY <1>1, <1>14, <2>1 DEF RunCancel
  <2>5. TypeOK'
    BY <1>14, <2>1, <2>3, <2>4 DEF RunCancel, TypeOK
  <2>6. Ownership'
    BY <1>14, <2>1, <2>3 DEF RunCancel, Ownership
  <2> QED BY <2>5, <2>6
<1>15. CASE EndIteration
  BY <1>15 DEF EndIteration, TypeOK, Ownership
<1> QED
  BY <1>2, <1>3, <1>4, <1>5, <1>6, <1>7, <1>8, <1>9, <1>10, <1>11, <1>12, <1>13, <1>14, <1>15
  DEF Next, Calls, Loop

THEOREM OwnedAlways == Spec => []Owned
BY InitOwned, OwnedStep, PTL DEF Spec

\* Every variable keeps its type.
THEOREM TypeCorrect == Spec => []TypeOK
<1>1. Owned => TypeOK
  BY DEF Owned
<1> QED BY <1>1, OwnedAlways, PTL

(***************************************************************************)
(* What becomes of a timer: owned until a cancel finds it waiting or, if a *)
(* one-shot, until its callback has run.                                   *)
(***************************************************************************)

Once(t) == runs[t] <= 1 /\ (runs[t] = 1 => t \notin timers \cup expired \cup AddsIn(ops))
Fired(t) == interval[t] = 0 /\ runs[t] = 1

Ends ==
  /\ \A t \in Timers \ created : runs[t] = 0
  /\ \A t \in batch \ expired : runs[t] >= 1
  /\ \A t \in Timers : interval[t] = 0 => Once(t)
  /\ \A t \in created \ erased : t \in AddsIn(ops) \cup timers \cup batch \/ Fired(t)
  /\ erased \cap (timers \cup batch \cup AddsIn(ops)) = {}
  /\ \A t \in freedUsed : Fired(t)

LEMMA InitEnds == Init /\ Owned => Ends
<1> SUFFICES ASSUME Init, Owned PROVE Ends
  OBVIOUS
<1>1. AddsIn(ops) = {}
  BY DEF Init, Owned, Ownership
<1> QED BY <1>1 DEF Init, Ends, Once

LEMMA CancelEnds ==
  ASSUME Owned, Owned', Ends, NEW t \in created \ (cancelled \cup freedUsed),
         cancel_timer_in_loop(t), AddsIn(ops') = AddsIn(ops),
         UNCHANGED <<batch, expired, interval, created, runs>>
  PROVE  Ends'
<1>1. /\ timers' = timers \ {t}
      /\ IF t \in AddsIn(ops) \cup timers \cup batch
         THEN erased' = erased \cup ({t} \cap timers) /\ freedUsed' = freedUsed
         ELSE freedUsed' = freedUsed \cup {t} /\ erased' = erased
  BY Cancelling DEF Owned, TypeOK
<1>2. t \notin erased /\ t \in Timers
  BY DEF Owned, TypeOK
<1>3. t \in timers => t \notin batch \cup AddsIn(ops)
  BY DEF Owned, Ownership
<1>4. \A u \in Timers : /\ interval'[u] = interval[u] /\ runs'[u] = runs[u]
                        /\ Fired(u)' = Fired(u)
  BY DEF Fired
<1>5. \A u \in Timers : interval'[u] = 0 => Once(u)'
  BY <1>1, <1>4 DEF Ends, Once
<1>6. \A u \in created' \ erased' : u \in (AddsIn(ops) \cup timers \cup batch)' \/ Fired(u)'
  BY <1>1, <1>2, <1>3, <1>4 DEF Ends, Owned, TypeOK
<1>7. \A u \in freedUsed' : Fired(u)'
  BY <1>1, <1>2, <1>4 DEF Ends, Owned, TypeOK
<1>8. erased' \cap (timers' \cup batch' \cup AddsIn(ops')) = {}
  BY <1>1, <1>3 DEF Ends
<1>9. \A u \in batch' \ expired' : runs'[u] >= 1
  BY DEF Ends
<1>10. \A u \in Timers \ created' : runs'[u] = 0
  BY DEF Ends
<1> QED BY <1>5, <1>6, <1>7, <1>8, <1>9, <1>10 DEF Ends

LEMMA EndsStep == Owned /\ Owned' /\ Ends /\ [Next]_vars => Ends'
<1> SUFFICES ASSUME Owned, Owned', Ends, [Next]_vars PROVE Ends'
  OBVIOUS
<1> USE DEF loopVars, timerVars, history
<1>1. /\ ops \in Seq(Op) /\ Len(ops) \in Nat /\ todo \in 0 .. Len(ops) /\ Distinct(ops)
  BY LenProperties DEF Owned, TypeOK, Ownership
<1>2. CASE UNCHANGED vars
  BY <1>2 DEF vars, Ends, Once, Fired
<1>3. CASE Tick
  BY <1>3 DEF Tick, Ends, Once, Fired
<1>4. ASSUME NEW t \in Timers, NEW d \in Delays, NEW periodic \in BOOLEAN,
             NEW at \in 0 .. clock, AddFromThread(t, d, periodic, at)
      PROVE  Ends'
  <2>1. ops' = Append(ops, AddOp(t)) /\ Create(t, d, periodic, at)
    BY <1>4 DEF AddFromThread, AddOp
  <2>2. /\ t \notin created /\ created' = created \cup {t}
        /\ \A u \in Timers \ {t} : interval'[u] = interval[u]
    BY <2>1, Creating DEF Owned
  <2>3. t \notin AddsIn(ops) /\ t \notin timers \cup batch \cup expired \cup erased \cup freedUsed
    BY <2>2 DEF Owned, Ownership, TypeOK
  <2>4. AddsIn(ops') = AddsIn(ops) \cup {t}
    BY <1>1, <2>1, <2>3, QueueingAnOp
  <2>5. runs[t] = 0 /\ UNCHANGED <<timers, batch, expired, runs, erased, freedUsed>>
    BY <1>4, <2>2 DEF AddFromThread, Ends
  <2>6. \A u \in Timers \ {t} : Fired(u)' = Fired(u)
    BY <2>2, <2>5 DEF Fired
  <2>7. \A u \in Timers : interval'[u] = 0 => Once(u)'
    BY <2>2, <2>4, <2>5 DEF Ends, Once
  <2>8. \A u \in created' \ erased' : u \in (AddsIn(ops) \cup timers \cup batch)' \/ Fired(u)'
    BY <2>2, <2>4, <2>5, <2>6 DEF Ends, Owned, TypeOK
  <2>9. \A u \in freedUsed' : Fired(u)'
    BY <2>3, <2>5, <2>6 DEF Ends, Owned, TypeOK
  <2>10. erased' \cap (timers' \cup batch' \cup AddsIn(ops')) = {}
    BY <2>3, <2>4, <2>5 DEF Ends
  <2>11. /\ \A u \in Timers \ created' : runs'[u] = 0
         /\ \A u \in batch' \ expired' : runs'[u] >= 1
    BY <2>2, <2>5 DEF Ends
  <2> QED BY <2>7, <2>8, <2>9, <2>10, <2>11 DEF Ends
<1>5. ASSUME NEW t \in Timers, NEW d \in Delays, NEW periodic \in BOOLEAN,
             AddInLoop(t, d, periodic)
      PROVE  Ends'
  <2>1. Create(t, d, periodic, clock) /\ add_timer_in_loop(t, clock + d)
    BY <1>5 DEF AddInLoop
  <2>2. /\ t \notin created /\ created' = created \cup {t}
        /\ \A u \in Timers \ {t} : interval'[u] = interval[u]
    BY <2>1, ClockInNat, Creating DEF Owned
  <2>3. t \notin AddsIn(ops) /\ t \notin timers \cup batch \cup expired \cup erased \cup freedUsed
    BY <2>2 DEF Owned, Ownership, TypeOK
  <2>4. timers' = timers \cup {t}
    BY <2>1 DEF add_timer_in_loop
  <2>5. runs[t] = 0 /\ UNCHANGED <<ops, batch, expired, runs, erased, freedUsed>>
    BY <1>5, <2>2 DEF AddInLoop, Ends
  <2>6. \A u \in Timers \ {t} : Fired(u)' = Fired(u)
    BY <2>2, <2>5 DEF Fired
  <2>7. \A u \in Timers : interval'[u] = 0 => Once(u)'
    BY <2>2, <2>4, <2>5 DEF Ends, Once
  <2>8. \A u \in created' \ erased' : u \in (AddsIn(ops) \cup timers \cup batch)' \/ Fired(u)'
    BY <2>2, <2>4, <2>5, <2>6 DEF Ends, Owned, TypeOK
  <2>9. \A u \in freedUsed' : Fired(u)'
    BY <2>3, <2>5, <2>6 DEF Ends, Owned, TypeOK
  <2>10. erased' \cap (timers' \cup batch' \cup AddsIn(ops')) = {}
    BY <2>3, <2>4, <2>5 DEF Ends
  <2>11. /\ \A u \in Timers \ created' : runs'[u] = 0
         /\ \A u \in batch' \ expired' : runs'[u] >= 1
    BY <2>2, <2>5 DEF Ends
  <2> QED BY <2>7, <2>8, <2>9, <2>10, <2>11 DEF Ends
<1>6. ASSUME NEW t \in Timers, CancelFromThread(t) PROVE Ends'
  <2>1. ops' = Append(ops, CancelOp(t)) /\ t \in created \ (cancelled \cup freedUsed \cup CancelsIn(ops))
    BY <1>6, MayCancel DEF CancelFromThread, CancelOp
  <2>2. AddsIn(ops') = AddsIn(ops)
    BY <1>1, <2>1, QueueingAnOp
  <2> QED BY <1>6, <2>2 DEF CancelFromThread, Ends, Once, Fired
<1>7. ASSUME NEW t \in Timers, CancelInLoop(t) PROVE Ends'
  <2>1. t \in created \ (cancelled \cup freedUsed) /\ cancel_timer_in_loop(t)
    BY <1>7, MayCancel DEF CancelInLoop
  <2>2. AddsIn(ops') = AddsIn(ops) /\ UNCHANGED <<batch, expired, interval, created, runs>>
    BY <1>7 DEF CancelInLoop
  <2> QED BY <2>1, <2>2, CancelEnds
<1>8. CASE PollReturns
  BY <1>8 DEF PollReturns, Ends, Once, Fired
<1>9. CASE HandleRead
  <2>1. /\ batch = {} /\ batch' \subseteq timers /\ expired' = batch' /\ timers' = timers \ batch'
        /\ UNCHANGED <<ops, runs, erased, freedUsed, created, interval>>
    BY <1>9 DEF HandleRead, Owned, Ownership
  <2>2. \A u \in Timers : Fired(u)' = Fired(u)
    BY <2>1 DEF Fired
  <2>3. \A u \in Timers : interval'[u] = 0 => Once(u)'
    BY <2>1 DEF Ends, Once
  <2> QED BY <2>1, <2>2, <2>3 DEF Ends, Owned, TypeOK
<1>10. ASSUME NEW t \in Timers, RunCallback(t) PROVE Ends'
  <2>1. /\ t \in expired /\ t \in batch /\ expired' = expired \ {t}
        /\ UNCHANGED <<ops, timers, batch, erased, freedUsed, created, interval>>
    BY <1>10 DEF RunCallback, Owned, TypeOK
  <2>2. t \notin timers /\ t \notin AddsIn(ops)
    BY <2>1 DEF Owned, Ownership
  <2>3. runs[t] \in 0 .. 2 /\ \A u \in Timers \ {t} : runs'[u] = runs[u]
    BY <1>10 DEF RunCallback, Owned, TypeOK
  <2>4. runs'[t] = IF runs[t] = 0 THEN 1 ELSE 2
    <3>1. runs'[t] = Min({2, runs[t] + 1})
      BY <1>10 DEF RunCallback, Owned, TypeOK
    <3> DEFINE n == runs[t] + 1
    <3>2. n \in 1 .. 3
      BY <2>3
    <3>3. Min({2, n}) \in {2, n} /\ Min({2, n}) <= 2 /\ Min({2, n}) <= n
      <4>1. {2, n} \in SUBSET Nat /\ {2, n} # {} /\ 2 \in {2, n} /\ n \in {2, n}
        BY <3>2
      <4> QED BY <4>1, MinFacts
    <3>4. Min({2, n}) = IF n = 1 THEN 1 ELSE 2
      BY <3>2, <3>3
    <3> QED BY <2>3, <3>1, <3>4
  <2>5. interval[t] = 0 => runs[t] = 0
    BY <2>1, <2>3 DEF Ends, Once, Owned, TypeOK
  <2>6. \A u \in Timers : Fired(u) => Fired(u)'
    BY <2>1, <2>3, <2>5 DEF Fired
  <2>7. \A u \in Timers : interval'[u] = 0 => Once(u)'
    BY <2>1, <2>2, <2>3, <2>4, <2>5 DEF Ends, Once
  <2>8. \A u \in batch' \ expired' : runs'[u] >= 1
    BY <2>1, <2>3, <2>4 DEF Ends, Owned, TypeOK
  <2> QED BY <2>1, <2>3, <2>6, <2>7, <2>8 DEF Ends, Owned, TypeOK
<1>11. CASE ResetTimers
  <2>1. /\ timers' = timers \cup {t \in batch : interval[t] > 0} /\ batch' = {} /\ expired = {}
        /\ UNCHANGED <<ops, expired, runs, erased, freedUsed, created, interval>>
    BY <1>11 DEF ResetTimers
  <2>2. \A u \in Timers : Fired(u)' = Fired(u)
    BY <2>1 DEF Fired
  <2>3. \A u \in Timers : interval'[u] = 0 => Once(u)'
    BY <2>1 DEF Ends, Once
  <2>4. \A u \in batch : interval[u] > 0 \/ Fired(u)
    <3> SUFFICES ASSUME NEW u \in batch, ~(interval[u] > 0) PROVE Fired(u)
      OBVIOUS
    <3>1. u \in Timers /\ interval[u] \in Nat /\ runs[u] \in 0 .. 2 /\ runs[u] >= 1
      BY <2>1 DEF Owned, TypeOK, Ends
    <3>2. interval[u] = 0
      BY <3>1
    <3>3. runs[u] <= 1
      BY <3>1, <3>2 DEF Ends, Once
    <3> QED BY <3>1, <3>2, <3>3 DEF Fired
  <2> QED BY <2>1, <2>2, <2>3, <2>4 DEF Ends, Owned, TypeOK
<1>12. CASE BeginFunctors
  BY <1>12 DEF BeginFunctors, Ends, Once, Fired
<1>13. CASE RunAdd
  <2> DEFINE t == Head(ops).timer
  <2>1. t \in Timers /\ t \in AddsIn(ops) /\ AddsIn(ops') = AddsIn(ops) \ {t}
    BY <1>1, <1>13, TakingAnOp DEF RunAdd
  <2>2. /\ timers' = timers \cup {t}
        /\ UNCHANGED <<batch, expired, runs, erased, freedUsed, created, interval>>
    BY <1>13 DEF RunAdd, add_timer_in_loop
  <2> HIDE DEF t
  <2>3. \A u \in Timers : Fired(u)' = Fired(u)
    BY <2>2 DEF Fired
  <2>4. \A u \in Timers : interval'[u] = 0 => Once(u)'
    BY <2>1, <2>2 DEF Ends, Once
  <2> QED BY <2>1, <2>2, <2>3, <2>4 DEF Ends, Owned, TypeOK
<1>14. CASE RunCancel
  <2> DEFINE t == Head(ops).timer
  <2>1. t \in Timers /\ t \in CancelsIn(ops) /\ AddsIn(ops') = AddsIn(ops)
    BY <1>1, <1>14, TakingAnOp DEF RunCancel
  <2>2. cancel_timer_in_loop(t) /\ UNCHANGED <<batch, expired, interval, created, runs>>
    BY <1>14 DEF RunCancel
  <2> HIDE DEF t
  <2>3. t \in created \ (cancelled \cup freedUsed)
    BY <2>1 DEF Owned, Ownership
  <2> QED BY <2>1, <2>2, <2>3, CancelEnds
<1>15. CASE EndIteration
  BY <1>15 DEF EndIteration, Ends, Once, Fired
<1> QED
  BY <1>2, <1>3, <1>4, <1>5, <1>6, <1>7, <1>8, <1>9, <1>10, <1>11, <1>12, <1>13, <1>14, <1>15
  DEF Next, Calls, Loop

LEMMA EndsAlways == Spec => [](Owned /\ Ends)
<1>1. Init => Owned /\ Ends
  BY InitOwned, InitEnds
<1>2. Owned /\ Ends /\ [Next]_vars => (Owned /\ Ends)'
  BY OwnedStep, EndsStep
<1> QED BY <1>1, <1>2, PTL DEF Spec

LEMMA EndsGive == Owned /\ Ends => OneShotOnce /\ ErasedForGood /\ OnlyFiredDangle
<1> SUFFICES ASSUME Owned, Ends PROVE OneShotOnce /\ ErasedForGood /\ OnlyFiredDangle
  OBVIOUS
<1>1. Adds = AddsIn(ops)
  BY AddsAreQueued DEF Adds, Owned, TypeOK
<1> QED BY <1>1 DEF Ends, Once, Fired, OneShotOnce, ErasedForGood, OnlyFiredDangle

\* A one-shot timer runs at most once and is then nowhere in the queue.
THEOREM OneShotsRunOnce == Spec => []OneShotOnce
BY EndsAlways, EndsGive, PTL

\* A timer that a cancel erased from timers_ never comes back.
THEOREM CancelsAreFinal == Spec => []ErasedForGood
BY EndsAlways, EndsGive, PTL

\* A cancel meets a freed timer only after a one-shot's callback.
THEOREM OwnedUntilFired == Spec => []OnlyFiredDangle
BY EndsAlways, EndsGive, PTL

(***************************************************************************)
(* Time.  A loop whose iterations are short against a second never misses  *)
(* an expiry by a whole one, so every reset_expieration_from_now arms the  *)
(* timerfd.  Each bound below is one conjunct of the induction: when an    *)
(* add was queued, when the timerfd fires, when the iteration began.       *)
(***************************************************************************)

ShortIterations == 2 * MaxBlock + MaxStall < Sec

\* The latest the timerfd may become readable for t.
Due(t) == expiration[t] + 2 * MaxBlock + MaxStall + Milli

InIteration == pc # "poll" => began <= clock /\ clock <= began + MaxBlock

PoppedAtNow == pc = "callbacks" => /\ began <= now /\ now <= clock
                                   /\ \A t \in timers : now <= expiration[t]

\* An add is queued MaxStall late, then waits for one iteration to end ...
QueuedOnTime == \A t \in AddsIn(ops) :
  /\ pc = "poll" => clock <= expiration[t] + MaxBlock + MaxStall
  /\ pc # "poll" => began <= expiration[t] + MaxBlock + MaxStall

\* ... and one the functors did not take was queued in this iteration.
LeftForNext == pc = "functors" =>
  \A i \in DOMAIN ops : i > todo /\ ops[i].do = "add" => began <= expiration[ops[i].timer] + MaxStall

ArmedInTime == timers # {} /\ pc # "callbacks" =>
  deadline # None /\ \A t \in timers : deadline <= Due(t)

WaitingOnTime == \A t \in timers :
  /\ pc = "poll" => clock < Due(t) + MaxBlock
  /\ pc = "timerfd" => began < Due(t) + MaxBlock
  /\ pc \in {"callbacks", "others", "functors"} => began < Due(t)

RunningOnTime == \A t \in batch : began < Due(t) + MaxBlock

OnTime == /\ InIteration /\ PoppedAtNow /\ QueuedOnTime /\ LeftForNext
          /\ ArmedInTime /\ WaitingOnTime /\ RunningOnTime

LEMMA InitOnTime == Init /\ Owned => OnTime
<1> SUFFICES ASSUME Init, Owned PROVE OnTime
  OBVIOUS
<1>1. AddsIn(ops) = {}
  BY DEF Init, Owned, Ownership
<1> QED BY <1>1 DEF Init, OnTime, InIteration, PoppedAtNow, QueuedOnTime, LeftForNext,
                    ArmedInTime, WaitingOnTime, RunningOnTime

LEMMA Units ==
  ASSUME Owned
  PROVE  /\ clock \in Nat /\ began \in Nat /\ now \in Nat
         /\ MaxBlock \in Nat /\ MaxBlock > 0 /\ MaxStall \in Nat /\ Milli \in Nat /\ Milli > 0 /\ Sec \in Nat
         /\ Milli <= Sec
         /\ \A t \in Timers : expiration[t] \in Nat /\ Due(t) \in Nat
         /\ timers \subseteq Timers /\ batch \subseteq Timers /\ AddsIn(ops) \subseteq Timers
BY TimeAssumption DEF Owned, TypeOK, Due, AddsIn

LEMMA TickOnTime == Owned /\ OnTime /\ Tick => OnTime'
<1> SUFFICES ASSUME Owned, OnTime, Tick PROVE OnTime'
  OBVIOUS
<1> USE Units DEF loopVars, timerVars, history
<1>1. /\ clock' = clock + 1
      /\ UNCHANGED <<pc, began, todo, now, ops, timers, batch, deadline, expiration>>
  BY DEF Tick
<1>2. pc # "poll" => clock < began + MaxBlock
  BY DEF Tick, Polling
<1>3. pc = "poll" => AddsIn(ops) = {} /\ ~Readable
  <2>1. ASSUME ops = <<>> PROVE AddsIn(ops) = {}
    BY <2>1, LenProperties, EmptySeq DEF AddsIn, Occurs, Owned, TypeOK
  <2> QED BY <2>1 DEF Tick, Polling
<1>4. InIteration' /\ PoppedAtNow'
  BY <1>1, <1>2 DEF OnTime, InIteration, PoppedAtNow
<1>5. QueuedOnTime' /\ LeftForNext'
  BY <1>1, <1>3 DEF OnTime, QueuedOnTime, LeftForNext
<1>6. ArmedInTime' /\ RunningOnTime'
  BY <1>1 DEF OnTime, ArmedInTime, RunningOnTime, Due
<1>7. WaitingOnTime'
  <2>1. ASSUME NEW t \in timers, pc = "poll" PROVE clock' < Due(t)' + MaxBlock
    <3>1. deadline \in Nat /\ deadline <= Due(t) /\ clock < deadline
      BY <1>3, <2>1 DEF OnTime, ArmedInTime, Readable, Owned, TypeOK, None
    <3>2. clock + 1 <= Due(t) /\ Due(t)' = Due(t)
      BY <1>1, <3>1 DEF Due
    <3> QED BY <1>1, <3>2
  <2> QED BY <1>1, <2>1 DEF OnTime, WaitingOnTime, Due
<1> QED BY <1>4, <1>5, <1>6, <1>7 DEF OnTime

LEMMA AddFromThreadOnTime ==
  ASSUME Owned, OnTime, NEW t \in Timers, NEW d \in Delays, NEW periodic \in BOOLEAN,
         NEW at \in 0 .. clock, AddFromThread(t, d, periodic, at)
  PROVE  OnTime'
<1> USE Units DEF loopVars, timerVars, history
<1>1. /\ UNCHANGED <<clock, pc, began, todo, now, timers, batch, deadline>>
      /\ ops' = Append(ops, AddOp(t)) /\ Create(t, d, periodic, at) /\ clock <= at + MaxStall
  BY DEF AddFromThread, AddOp
<1>2. /\ t \notin created /\ expiration'[t] = at + d /\ d \in Nat
      /\ \A u \in Timers \ {t} : expiration'[u] = expiration[u]
  BY <1>1, Creating, TimeAssumption DEF Owned
<1>3. /\ t \notin timers \cup batch \cup AddsIn(ops)
      /\ ops \in Seq(Op) /\ Distinct(ops)
  BY <1>2 DEF Owned, Ownership, TypeOK
<1>4. AddsIn(ops') = AddsIn(ops) \cup {t}
  BY <1>1, <1>3, QueueingAnOp
<1>5. \A u \in timers \cup batch : expiration'[u] = expiration[u] /\ Due(u)' = Due(u)
  BY <1>2, <1>3 DEF Due
<1>6. InIteration' /\ PoppedAtNow'
  BY <1>1, <1>5 DEF OnTime, InIteration, PoppedAtNow
<1>7. QueuedOnTime'
  <2>1. \A u \in AddsIn(ops) : expiration'[u] = expiration[u]
    BY <1>2, <1>3
  <2>2. /\ clock <= expiration'[t] + MaxBlock + MaxStall
        /\ pc # "poll" => began <= expiration'[t] + MaxBlock + MaxStall
    BY <1>1, <1>2 DEF OnTime, InIteration
  <2> QED BY <1>1, <1>4, <2>1, <2>2 DEF OnTime, QueuedOnTime
<1>8. LeftForNext'
  <2> SUFFICES ASSUME pc = "functors", NEW i \in DOMAIN ops', i > todo, ops'[i].do = "add"
               PROVE  began <= expiration'[ops'[i].timer] + MaxStall
    BY <1>1 DEF LeftForNext
  <2>1. DOMAIN ops = 1 .. Len(ops) /\ Len(ops) \in Nat /\ \A j \in DOMAIN ops : ops[j] \in Op
    BY <1>3, LenProperties
  <2>2. /\ DOMAIN ops' = 1 .. Len(ops) + 1 /\ ops'[Len(ops) + 1] = AddOp(t)
        /\ \A j \in 1 .. Len(ops) : ops'[j] = ops[j]
    <3>1. AddOp(t) \in Op
      BY OpFacts
    <3> QED BY <1>1, <1>3, <3>1, AppendProperties, LenProperties
  <2>3. CASE i = Len(ops) + 1
    <3>1. ops'[i].timer = t
      BY <2>2, <2>3 DEF AddOp
    <3> QED BY <1>1, <1>2, <3>1 DEF OnTime, InIteration
  <2>4. CASE i # Len(ops) + 1
    <3>1. i \in DOMAIN ops /\ ops'[i] = ops[i]
      BY <2>1, <2>2, <2>4
    <3>2. ops[i].timer \in Timers /\ ops[i] = AddOp(ops[i].timer)
      BY <2>1, <3>1 DEF Op, AddOp
    <3>3. ops[i].timer \in AddsIn(ops)
      BY <3>1, <3>2 DEF AddsIn, Occurs
    <3>4. began <= expiration[ops[i].timer] + MaxStall
      BY <3>1 DEF OnTime, LeftForNext
    <3> QED BY <1>2, <1>3, <3>1, <3>2, <3>3, <3>4
  <2> QED BY <2>3, <2>4
<1>9. ArmedInTime' /\ WaitingOnTime' /\ RunningOnTime'
  BY <1>1, <1>5 DEF OnTime, ArmedInTime, WaitingOnTime, RunningOnTime
<1> QED BY <1>6, <1>7, <1>8, <1>9 DEF OnTime

\* A timer added in an iteration that began no more than MaxBlock and MaxStall after
\* its expiry is waited for like the others.
LEMMA AddingOnTime ==
  ASSUME Owned, OnTime, ShortIterations, NEW t \in Timers, NEW e \in Nat,
         pc # "poll", began <= e + MaxBlock + MaxStall, t \notin timers,
         add_timer_in_loop(t, e), UNCHANGED <<clock, pc, began>>,
         expiration'[t] = e, \A u \in timers : expiration'[u] = expiration[u]
  PROVE  ArmedInTime'
<1> USE Units
<1>1. clock < e + Sec /\ clock <= e + 2 * MaxBlock + MaxStall
  BY DEF OnTime, InIteration, ShortIterations
<1>2. /\ timers' = timers \cup {t}
      /\ deadline = None \/ deadline \in Nat
      /\ \/ /\ \A u \in timers : e <= expiration[u]
            /\ deadline' = IF e >= clock + Milli THEN e ELSE clock + Milli
         \/ /\ \E u \in timers : expiration[u] <= e
            /\ deadline' = deadline
  BY <1>1, Adding DEF Owned, TypeOK
<1>3. /\ Due(t)' = e + 2 * MaxBlock + MaxStall + Milli
      /\ \A u \in timers : Due(u)' = expiration[u] + 2 * MaxBlock + MaxStall + Milli /\ Due(u)' = Due(u)
  BY DEF Due
<1> SUFFICES ASSUME pc # "callbacks"
             PROVE  deadline' # None /\ \A u \in timers' : deadline' <= Due(u)'
  BY DEF ArmedInTime
<1>4. CASE /\ \A u \in timers : e <= expiration[u]
           /\ deadline' = IF e >= clock + Milli THEN e ELSE clock + Milli
  <2>1. deadline' \in Nat /\ deadline' <= e + 2 * MaxBlock + MaxStall + Milli
    BY <1>1, <1>4
  <2>2. \A u \in timers : deadline' <= Due(u)'
    BY <1>3, <1>4, <2>1
  <2> QED BY <1>2, <1>3, <2>1, <2>2 DEF None
<1>5. CASE (\E u \in timers : expiration[u] <= e) /\ deadline' = deadline
  <2>1. PICK u \in timers : expiration[u] <= e
    BY <1>5
  <2>2. deadline \in Nat /\ \A v \in timers : deadline <= Due(v)
    BY <1>2, <2>1 DEF OnTime, ArmedInTime
  <2>3. deadline <= e + 2 * MaxBlock + MaxStall + Milli
    BY <1>3, <2>1, <2>2
  <2> QED BY <1>2, <1>3, <1>5, <2>2, <2>3 DEF None
<1> QED BY <1>2, <1>4, <1>5

LEMMA AddInLoopOnTime ==
  ASSUME Owned, OnTime, ShortIterations,
         NEW t \in Timers, NEW d \in Delays, NEW periodic \in BOOLEAN,
         AddInLoop(t, d, periodic)
  PROVE  OnTime'
<1> USE Units DEF loopVars, timerVars, history
<1>1. /\ UNCHANGED <<clock, pc, began, todo, now, ops, batch>>
      /\ pc \in {"callbacks", "others", "functors"}
      /\ Create(t, d, periodic, clock) /\ add_timer_in_loop(t, clock + d)
  BY DEF AddInLoop, UserCodeInLoop
<1>2. /\ t \notin created /\ expiration'[t] = clock + d /\ d \in Nat
      /\ \A u \in Timers \ {t} : expiration'[u] = expiration[u]
  BY <1>1, Creating, TimeAssumption DEF Owned
<1>3. t \notin timers \cup batch \cup AddsIn(ops) /\ timers' = timers \cup {t}
  BY <1>1, <1>2 DEF Owned, Ownership, TypeOK, add_timer_in_loop
<1>4. began <= clock /\ clock <= began + MaxBlock /\ began <= expiration'[t]
  BY <1>1, <1>2 DEF OnTime, InIteration
<1>5. /\ \A u \in timers \cup batch : expiration'[u] = expiration[u] /\ Due(u)' = Due(u)
      /\ Due(t)' = expiration'[t] + 2 * MaxBlock + MaxStall + Milli
  BY <1>2, <1>3 DEF Due
<1>6. InIteration' /\ QueuedOnTime'
  BY <1>1, <1>2, <1>3 DEF OnTime, InIteration, QueuedOnTime
<1>7. PoppedAtNow'
  BY <1>1, <1>2, <1>3, <1>5 DEF OnTime, PoppedAtNow
<1>8. LeftForNext'
  <2>1. ASSUME NEW i \in DOMAIN ops, ops[i].do = "add" PROVE ops[i].timer \in Timers \ {t}
    <3>1. ops[i] \in Op
      BY LenProperties DEF Owned, TypeOK
    <3>2. ops[i].timer \in Timers /\ ops[i] = AddOp(ops[i].timer)
      BY <2>1, <3>1 DEF Op, AddOp
    <3> QED BY <1>3, <3>2 DEF AddsIn, Occurs
  <2> QED BY <1>1, <1>2, <2>1 DEF OnTime, LeftForNext
<1>9. ArmedInTime'
  <2>1. PICK e \in Nat : e = clock + d
    BY <1>2
  <2>2. began <= e + MaxBlock + MaxStall
    BY <1>4, <1>2, <2>1
  <2> QED BY <1>1, <1>2, <1>3, <1>5, <2>1, <2>2, AddingOnTime
<1>10. WaitingOnTime'
  BY <1>1, <1>2, <1>3, <1>4, <1>5 DEF OnTime, WaitingOnTime
<1>11. RunningOnTime'
  BY <1>1, <1>5 DEF OnTime, RunningOnTime
<1> QED BY <1>6, <1>7, <1>8, <1>9, <1>10, <1>11 DEF OnTime

LEMMA LeftAfterTaking ==
  ASSUME Owned, OnTime, pc = "functors", todo > 0, ops' = Tail(ops), todo' = todo - 1,
         UNCHANGED <<pc, began, expiration>>
  PROVE  LeftForNext'
<1>1. ops \in Seq(Op) /\ Len(ops) \in Nat /\ todo \in 0 .. Len(ops) /\ DOMAIN ops = 1 .. Len(ops)
  BY LenProperties DEF Owned, TypeOK
<1>2. ops # <<>>
  BY <1>1, EmptySeq
<1>3. /\ Len(ops') = Len(ops) - 1 /\ DOMAIN ops' = 1 .. Len(ops')
      /\ \A i \in 1 .. Len(ops') : ops'[i] = ops[i + 1]
  BY <1>1, <1>2, HeadTailProperties, LenProperties
<1> SUFFICES ASSUME NEW i \in DOMAIN ops', i > todo', ops'[i].do = "add"
             PROVE  began <= expiration[ops'[i].timer] + MaxStall
  BY DEF LeftForNext
<1>4. i + 1 \in DOMAIN ops /\ i + 1 > todo /\ ops'[i] = ops[i + 1]
  BY <1>1, <1>3
<1> QED BY <1>4 DEF OnTime, LeftForNext

LEMMA RunAddOnTime == Owned /\ OnTime /\ ShortIterations /\ RunAdd => OnTime'
<1> SUFFICES ASSUME Owned, OnTime, ShortIterations, RunAdd PROVE OnTime'
  OBVIOUS
<1> USE Units DEF loopVars, timerVars, history
<1> DEFINE t == Head(ops).timer
<1>1. /\ UNCHANGED <<clock, pc, began, now, batch, expiration>> /\ pc = "functors" /\ todo > 0
      /\ ops' = Tail(ops) /\ todo' = todo - 1 /\ Head(ops).do = "add"
      /\ add_timer_in_loop(t, expiration[t])
  BY DEF RunAdd
<1>2. ops \in Seq(Op) /\ Distinct(ops) /\ Len(ops) \in Nat /\ todo \in 0 .. Len(ops)
  BY LenProperties DEF Owned, TypeOK, Ownership
<1>3. t \in Timers /\ t \in AddsIn(ops) /\ AddsIn(ops') = AddsIn(ops) \ {t}
  BY <1>1, <1>2, TakingAnOp
<1>4. timers' = timers \cup {t}
  BY <1>1 DEF add_timer_in_loop
<1> HIDE DEF t
<1>5. t \notin timers /\ began <= expiration[t] + MaxBlock + MaxStall
  BY <1>1, <1>3 DEF Owned, Ownership, OnTime, QueuedOnTime
<1>6. \A u \in Timers : Due(u)' = Due(u)
  BY <1>1 DEF Due
<1>7. InIteration' /\ PoppedAtNow' /\ QueuedOnTime' /\ RunningOnTime'
  BY <1>1, <1>3, <1>6 DEF OnTime, InIteration, PoppedAtNow, QueuedOnTime, RunningOnTime
<1>8. LeftForNext'
  BY <1>1, LeftAfterTaking
<1>9. ArmedInTime'
  <2>1. PICK e \in Nat : e = expiration[t]
    BY <1>3
  <2> QED BY <1>1, <1>3, <1>5, <2>1, AddingOnTime
<1>10. began < Due(t)
  BY <1>3, <1>5 DEF Due
<1>11. WaitingOnTime'
  BY <1>1, <1>4, <1>6, <1>10, <1>3 DEF OnTime, WaitingOnTime
<1> QED BY <1>7, <1>8, <1>9, <1>11 DEF OnTime

LEMMA ResetOnTime == Owned /\ OnTime /\ ShortIterations /\ ResetTimers => OnTime'
<1> SUFFICES ASSUME Owned, OnTime, ShortIterations, ResetTimers PROVE OnTime'
  OBVIOUS
<1> USE Units DEF loopVars, timerVars, history
<1>1. /\ UNCHANGED <<clock, began, todo, now, ops, interval>>
      /\ pc = "callbacks" /\ pc' = "others" /\ batch' = {}
  BY DEF ResetTimers
<1>2. /\ began <= now /\ now <= clock /\ clock <= began + MaxBlock
      /\ \A t \in timers : now <= expiration[t]
  BY <1>1 DEF OnTime, InIteration, PoppedAtNow
<1>3. /\ timers' = timers \cup {t \in batch : interval[t] > 0}
      /\ \A t \in Timers : expiration'[t] = IF t \in batch /\ interval[t] > 0
                                            THEN now + interval[t] ELSE expiration[t]
      /\ timers' # {} =>
           \E u \in timers' : /\ \A t \in timers' : expiration'[u] <= expiration'[t]
                              /\ clock < expiration'[u] + Sec =>
                                   deadline' = IF expiration'[u] >= clock + Milli
                                               THEN expiration'[u] ELSE clock + Milli
      /\ \A t \in Timers : expiration'[t] \in Nat
  BY Resetting DEF Owned, TypeOK
<1>4. \A t \in timers' : t \in Timers /\ began <= expiration'[t]
  <2>1. \A t \in Timers : interval[t] \in Nat
    BY DEF Owned, TypeOK
  <2>2. ASSUME NEW t \in batch, interval[t] > 0 PROVE t \in Timers /\ began <= expiration'[t]
    BY <1>2, <1>3, <2>1, <2>2
  <2>3. ASSUME NEW t \in timers PROVE t \in Timers /\ began <= expiration'[t]
    <3>1. t \notin batch
      BY <2>3 DEF Owned, Ownership
    <3> QED BY <1>2, <1>3, <2>3, <3>1
  <2> QED BY <1>3, <2>2, <2>3
<1>5. QueuedOnTime'
  <2>1. \A t \in AddsIn(ops) : expiration'[t] = expiration[t]
    BY <1>3 DEF Owned, Ownership
  <2> QED BY <1>1, <2>1 DEF OnTime, QueuedOnTime
<1>6. InIteration' /\ PoppedAtNow' /\ LeftForNext' /\ RunningOnTime'
  BY <1>1 DEF OnTime, InIteration, PoppedAtNow, LeftForNext, RunningOnTime
<1>7. WaitingOnTime'
  <2>1. \A t \in timers' : began < Due(t)'
    BY <1>3, <1>4 DEF Due
  <2> QED BY <1>1, <2>1 DEF WaitingOnTime
<1>8. ArmedInTime'
  <2> SUFFICES ASSUME timers' # {}
               PROVE  deadline' # None /\ \A t \in timers' : deadline' <= Due(t)'
    BY DEF ArmedInTime
  <2>1. PICK u \in timers' :
           /\ \A t \in timers' : expiration'[u] <= expiration'[t]
           /\ clock < expiration'[u] + Sec =>
                deadline' = IF expiration'[u] >= clock + Milli
                            THEN expiration'[u] ELSE clock + Milli
    BY <1>3
  <2>2. expiration'[u] \in Nat /\ began <= expiration'[u]
    BY <1>3, <1>4
  <2>3. clock < expiration'[u] + Sec /\ clock <= expiration'[u] + MaxBlock
    BY <1>2, <2>2 DEF ShortIterations
  <2>4. deadline' \in Nat /\ deadline' <= expiration'[u] + MaxBlock + Milli
    BY <2>1, <2>2, <2>3
  <2>5. \A t \in timers' : deadline' <= expiration'[t] + MaxBlock + Milli
    BY <1>3, <1>4, <2>1, <2>2, <2>4
  <2> QED BY <1>3, <1>4, <2>4, <2>5 DEF Due, None
<1> QED BY <1>5, <1>6, <1>7, <1>8 DEF OnTime

LEMMA OnTimeStep ==
  Owned /\ Owned' /\ OnTime /\ ShortIterations /\ [Next]_vars => OnTime'
<1> SUFFICES ASSUME Owned, Owned', OnTime, ShortIterations, [Next]_vars PROVE OnTime'
  OBVIOUS
<1> USE Units DEF loopVars, timerVars, history
<1>1. /\ ops \in Seq(Op) /\ Distinct(ops) /\ Len(ops) \in Nat /\ DOMAIN ops = 1 .. Len(ops)
      /\ todo \in 0 .. Len(ops)
  BY LenProperties DEF Owned, TypeOK, Ownership
<1>2. CASE UNCHANGED vars
  BY <1>2 DEF vars, OnTime, InIteration, PoppedAtNow, QueuedOnTime, LeftForNext, ArmedInTime,
              WaitingOnTime, RunningOnTime, Due
<1>3. CASE Tick
  BY <1>3, TickOnTime
<1>4. ASSUME NEW t \in Timers, NEW d \in Delays, NEW periodic \in BOOLEAN,
             \/ AddInLoop(t, d, periodic)
             \/ \E at \in 0 .. clock : AddFromThread(t, d, periodic, at)
      PROVE  OnTime'
  BY <1>4, AddFromThreadOnTime, AddInLoopOnTime
<1>5. ASSUME NEW t \in Timers, CancelFromThread(t) PROVE OnTime'
  <2>1. /\ ops' = Append(ops, CancelOp(t))
        /\ UNCHANGED <<clock, pc, began, todo, now, timers, batch, deadline, expiration>>
    BY <1>5 DEF CancelFromThread, CancelOp
  <2>2. AddsIn(ops') = AddsIn(ops)
    BY <1>1, <1>5, <2>1, MayCancel, QueueingAnOp DEF CancelFromThread
  <2>3. LeftForNext'
    <3> SUFFICES ASSUME pc = "functors", NEW i \in DOMAIN ops', i > todo, ops'[i].do = "add"
                 PROVE  began <= expiration[ops'[i].timer] + MaxStall
      BY <2>1 DEF LeftForNext
    <3>1. /\ DOMAIN ops' = 1 .. Len(ops) + 1 /\ ops'[Len(ops) + 1] = CancelOp(t)
          /\ \A j \in 1 .. Len(ops) : ops'[j] = ops[j]
      <4>1. CancelOp(t) \in Op
        BY OpFacts
      <4> QED BY <1>1, <2>1, <4>1, AppendProperties, LenProperties
    <3>2. i # Len(ops) + 1
      BY <3>1 DEF CancelOp
    <3>3. i \in DOMAIN ops /\ ops'[i] = ops[i]
      BY <1>1, <3>1, <3>2
    <3> QED BY <3>3 DEF OnTime, LeftForNext
  <2> QED BY <2>1, <2>2, <2>3 DEF OnTime, InIteration, PoppedAtNow, QueuedOnTime, ArmedInTime,
                                   WaitingOnTime, RunningOnTime, Due
<1>6. ASSUME NEW t \in Timers, CancelInLoop(t) PROVE OnTime'
  <2>1. /\ timers' = timers \ {t}
        /\ UNCHANGED <<clock, pc, began, todo, now, ops, batch, deadline, expiration>>
    BY <1>6 DEF CancelInLoop, cancel_timer_in_loop
  <2> QED BY <2>1 DEF OnTime, InIteration, PoppedAtNow, QueuedOnTime, LeftForNext, ArmedInTime,
                      WaitingOnTime, RunningOnTime, Due
<1>7. CASE PollReturns
  <2>1. /\ pc = "poll" /\ began' = clock /\ pc' = IF Readable THEN "timerfd" ELSE "others"
        /\ batch = {}
        /\ UNCHANGED <<clock, ops, timers, batch, deadline, expiration>>
    BY <1>7 DEF PollReturns, Polling, Owned, Ownership
  <2>2. ASSUME NEW t \in timers, ~Readable PROVE clock < Due(t)
    <3>1. deadline \in Nat /\ deadline <= Due(t)
      BY <2>1, <2>2 DEF OnTime, ArmedInTime, Owned, TypeOK, None
    <3> QED BY <2>2, <3>1 DEF Readable, None
  <2>3. WaitingOnTime'
    BY <2>1, <2>2 DEF OnTime, WaitingOnTime, Due
  <2>4. InIteration' /\ PoppedAtNow' /\ QueuedOnTime' /\ LeftForNext' /\ ArmedInTime'
        /\ RunningOnTime'
    BY <2>1 DEF OnTime, InIteration, PoppedAtNow, QueuedOnTime, LeftForNext, ArmedInTime,
                RunningOnTime, Due
  <2> QED BY <2>3, <2>4 DEF OnTime
<1>8. CASE HandleRead
  <2>1. /\ pc = "timerfd" /\ pc' = "callbacks" /\ now' = clock
        /\ batch' = {t \in timers : expiration[t] < clock} /\ timers' = timers \ batch'
        /\ UNCHANGED <<clock, began, ops, expiration>>
    BY <1>8 DEF HandleRead
  <2>2. \A t \in timers' : clock <= expiration[t]
    BY <2>1
  <2>3. InIteration' /\ PoppedAtNow' /\ QueuedOnTime' /\ LeftForNext' /\ ArmedInTime'
    BY <2>1, <2>2 DEF OnTime, InIteration, PoppedAtNow, QueuedOnTime, LeftForNext, ArmedInTime
  <2>4. RunningOnTime'
    BY <2>1 DEF OnTime, WaitingOnTime, RunningOnTime, Due
  <2>5. \A t \in timers' : began < Due(t)
    BY <2>1, <2>2 DEF OnTime, InIteration, Due
  <2>6. WaitingOnTime'
    BY <2>1, <2>5 DEF WaitingOnTime, Due
  <2> QED BY <2>3, <2>4, <2>6 DEF OnTime
<1>9. ASSUME NEW t \in Timers, RunCallback(t) PROVE OnTime'
  BY <1>9 DEF RunCallback, OnTime, InIteration, PoppedAtNow, QueuedOnTime, LeftForNext,
              ArmedInTime, WaitingOnTime, RunningOnTime, Due
<1>10. CASE ResetTimers
  BY <1>10, ResetOnTime
<1>11. CASE BeginFunctors
  <2>1. /\ pc = "others" /\ pc' = "functors" /\ todo' = Len(ops)
        /\ UNCHANGED <<clock, began, now, ops, timers, batch, deadline, expiration>>
    BY <1>11 DEF BeginFunctors
  <2>2. LeftForNext'
    BY <1>1, <2>1 DEF LeftForNext
  <2> QED BY <2>1, <2>2 DEF OnTime, InIteration, PoppedAtNow, QueuedOnTime, ArmedInTime,
                            WaitingOnTime, RunningOnTime, Due
<1>12. CASE RunAdd
  BY <1>12, RunAddOnTime
<1>13. CASE RunCancel
  <2> DEFINE t == Head(ops).timer
  <2>1. /\ timers' = timers \ {t} /\ pc = "functors" /\ todo > 0
        /\ ops' = Tail(ops) /\ todo' = todo - 1
        /\ UNCHANGED <<clock, pc, began, now, batch, deadline, expiration>>
    BY <1>13 DEF RunCancel, cancel_timer_in_loop
  <2>2. AddsIn(ops') = AddsIn(ops)
    BY <1>1, <1>13, <2>1, TakingAnOp DEF RunCancel
  <2>3. LeftForNext'
    BY <2>1, LeftAfterTaking
  <2> HIDE DEF t
  <2> QED BY <2>1, <2>2, <2>3 DEF OnTime, InIteration, PoppedAtNow, QueuedOnTime, ArmedInTime,
                                  WaitingOnTime, RunningOnTime, Due
<1>14. CASE EndIteration
  <2>1. /\ pc = "functors" /\ todo = 0 /\ pc' = "poll"
        /\ UNCHANGED <<clock, began, now, ops, timers, batch, deadline, expiration>>
    BY <1>14 DEF EndIteration
  <2>2. began <= clock /\ clock <= began + MaxBlock
    BY <2>1 DEF OnTime, InIteration
  <2>3. ASSUME NEW t \in AddsIn(ops) PROVE began <= expiration[t] + MaxStall
    <3>1. PICK i \in DOMAIN ops : ops[i] = AddOp(t)
      BY <2>3 DEF AddsIn, Occurs
    <3>2. i > todo /\ ops[i].do = "add" /\ ops[i].timer = t
      BY <1>1, <2>1, <3>1 DEF AddOp
    <3> QED BY <2>1, <3>2 DEF OnTime, LeftForNext
  <2>4. QueuedOnTime'
    BY <2>1, <2>2, <2>3 DEF QueuedOnTime
  <2>5. WaitingOnTime'
    BY <2>1, <2>2 DEF OnTime, WaitingOnTime, Due
  <2>6. InIteration' /\ PoppedAtNow' /\ LeftForNext' /\ ArmedInTime' /\ RunningOnTime'
    BY <2>1 DEF OnTime, InIteration, PoppedAtNow, LeftForNext, ArmedInTime, RunningOnTime, Due
  <2> QED BY <2>4, <2>5, <2>6 DEF OnTime
<1> QED
  BY <1>2, <1>3, <1>4, <1>5, <1>6, <1>7, <1>8, <1>9, <1>10, <1>11, <1>12, <1>13, <1>14
  DEF Next, Calls, Loop

LEMMA OnTimeGives == Owned /\ OnTime => ArmedWhilePending /\ BoundedLateness
<1> SUFFICES ASSUME Owned, OnTime PROVE ArmedWhilePending /\ BoundedLateness
  OBVIOUS
<1> USE Units
<1>1. ArmedWhilePending
  BY DEF OnTime, ArmedInTime, ArmedWhilePending
<1>2. ASSUME NEW t \in timers PROVE clock < expiration[t] + MaxLate
  <2>1. pc \in {"poll", "timerfd", "callbacks", "others", "functors"}
    BY DEF Owned, TypeOK
  <2>2. pc # "poll" => began < Due(t) + MaxBlock /\ clock <= began + MaxBlock
    BY <1>2, <2>1 DEF OnTime, WaitingOnTime, InIteration
  <2>3. pc = "poll" => clock < Due(t) + MaxBlock
    BY <1>2 DEF OnTime, WaitingOnTime
  <2> QED BY <1>2, <2>2, <2>3 DEF Due, MaxLate
<1>3. ASSUME NEW t \in expired PROVE clock < expiration[t] + MaxLate
  <2>1. t \in batch /\ pc = "callbacks" /\ t \in Timers
    BY <1>3 DEF Owned, TypeOK, Ownership
  <2>2. began < Due(t) + MaxBlock /\ clock <= began + MaxBlock
    BY <2>1 DEF OnTime, RunningOnTime, InIteration
  <2> QED BY <2>1, <2>2 DEF Due, MaxLate
<1>4. ASSUME NEW t \in Adds PROVE clock < expiration[t] + MaxLate
  <2>1. t \in AddsIn(ops)
    BY <1>4, AddsAreQueued DEF Adds, Owned, TypeOK
  <2>2. clock <= expiration[t] + 2 * MaxBlock + MaxStall
    BY <2>1 DEF OnTime, QueuedOnTime, InIteration
  <2> QED BY <2>1, <2>2 DEF MaxLate
<1> QED BY <1>1, <1>2, <1>3, <1>4 DEF BoundedLateness

LEMMA OnTimeAlways == ShortIterations /\ Spec => [](Owned /\ OnTime)
<1> SUFFICES ASSUME ShortIterations PROVE Spec => [](Owned /\ OnTime)
  OBVIOUS
<1>1. Init => Owned /\ OnTime
  BY InitOwned, InitOnTime
<1>2. Owned /\ OnTime /\ [Next]_vars => (Owned /\ OnTime)'
  BY OwnedStep, OnTimeStep
<1> QED BY <1>1, <1>2, PTL DEF Spec

\* A waiting timer always has the timerfd armed, when two iterations and a caller's
\* stall are shorter than the second that makes a missed expiry negative.
THEOREM TimerfdArmed == ShortIterations /\ Spec => []ArmedWhilePending
BY OnTimeAlways, OnTimeGives, PTL

\* And it runs less than four iterations, a caller's stall and a millisecond late.
THEOREM LatenessBounded == ShortIterations /\ Spec => []BoundedLateness
BY OnTimeAlways, OnTimeGives, PTL

(***************************************************************************)
(* The queue implements AlarmClock.  Two more facts are needed: handle_read*)
(* has popped what had expired and nothing else, and a timer's cancel is   *)
(* queued behind its add, so that the loop never serves it too early.      *)
(***************************************************************************)

Popped == pc = "callbacks" => \A t \in batch : expiration[t] < now

CancelsFollow ==
  \A i, j \in DOMAIN ops :
    ops[i].do = "cancel" /\ ops[j].do = "add" /\ ops[i].timer = ops[j].timer => j < i

Orderly == Popped /\ CancelsFollow

LEMMA OrderlyStep == Owned /\ Orderly /\ [Next]_vars => Orderly'
<1> SUFFICES ASSUME Owned, Orderly, [Next]_vars PROVE Orderly'
  OBVIOUS
<1> USE DEF loopVars, timerVars, history
<1>1. /\ ops \in Seq(Op) /\ Len(ops) \in Nat /\ DOMAIN ops = 1 .. Len(ops) /\ Distinct(ops)
      /\ \A i \in DOMAIN ops : ops[i] \in Op
  BY LenProperties DEF Owned, TypeOK, Ownership
<1>2. ASSUME UNCHANGED ops PROVE CancelsFollow'
  BY <1>2 DEF Orderly, CancelsFollow
<1>3. ASSUME UNCHANGED <<pc, now, batch, expiration>> PROVE Popped'
  BY <1>3 DEF Orderly, Popped
<1>4. ASSUME NEW g \in Op, ops' = Append(ops, g), g.do = "add" => g.timer \notin CancelsIn(ops)
      PROVE  CancelsFollow'
  <2>1. /\ DOMAIN ops' = 1 .. Len(ops) + 1 /\ ops'[Len(ops) + 1] = g
        /\ \A i \in 1 .. Len(ops) : ops'[i] = ops[i]
    BY <1>1, <1>4, AppendProperties, LenProperties
  <2>2. ASSUME g.do = "add", NEW i \in DOMAIN ops, ops[i].do = "cancel"
        PROVE  ops[i].timer # g.timer
    <3>1. ops[i] = CancelOp(ops[i].timer) /\ ops[i].timer \in Timers
      BY <1>1, <2>2 DEF Op, CancelOp
    <3>2. ops[i].timer \in CancelsIn(ops)
      BY <3>1 DEF CancelsIn, Occurs
    <3> QED BY <1>4, <2>2, <3>2
  <2> QED BY <1>1, <2>1, <2>2 DEF Orderly, CancelsFollow
<1>5. ASSUME ops # <<>>, ops' = Tail(ops) PROVE CancelsFollow'
  <2>1. /\ DOMAIN ops' = 1 .. Len(ops) - 1
        /\ \A i \in 1 .. Len(ops) - 1 : ops'[i] = ops[i + 1] /\ i + 1 \in DOMAIN ops
    BY <1>1, <1>5, HeadTailProperties, EmptySeq, LenProperties
  <2> QED BY <2>1 DEF Orderly, CancelsFollow
<1>6. CASE UNCHANGED vars
  BY <1>2, <1>3, <1>6 DEF vars, Orderly
<1>7. CASE Tick
  BY <1>2, <1>3, <1>7 DEF Tick, Orderly
<1>8. ASSUME NEW t \in Timers, NEW d \in Delays, NEW periodic \in BOOLEAN,
             NEW at \in 0 .. clock,
             AddFromThread(t, d, periodic, at) \/ AddInLoop(t, d, periodic)
      PROVE  Orderly'
  <2>1. t \notin created /\ \A u \in Timers \ {t} : expiration'[u] = expiration[u]
    BY <1>8, Creating DEF AddFromThread, AddInLoop, Owned, TypeOK
  <2>2. Popped'
    BY <1>8, <2>1 DEF AddFromThread, AddInLoop, Orderly, Popped, Owned, TypeOK
  <2>3. CASE AddFromThread(t, d, periodic, at)
    <3>1. t \notin CancelsIn(ops)
      BY <2>1 DEF Owned, Ownership
    <3>2. ops' = Append(ops, AddOp(t)) /\ AddOp(t) \in Op /\ AddOp(t).timer = t
      BY <2>3, OpFacts DEF AddFromThread, AddOp
    <3>3. CancelsFollow'
      BY <1>4, <3>1, <3>2
    <3> QED BY <2>2, <3>3 DEF Orderly
  <2>4. CASE AddInLoop(t, d, periodic)
    BY <1>2, <2>2, <2>4 DEF AddInLoop, Orderly
  <2> QED BY <1>8, <2>3, <2>4
<1>9. ASSUME NEW t \in Timers, CancelFromThread(t) PROVE Orderly'
  <2>1. ops' = Append(ops, CancelOp(t)) /\ CancelOp(t) \in Op /\ CancelOp(t).do # "add"
    BY <1>9, OpFacts DEF CancelFromThread, CancelOp
  <2> QED BY <1>3, <1>4, <1>9, <2>1 DEF CancelFromThread, Orderly
<1>10. ASSUME NEW t \in Timers, CancelInLoop(t) PROVE Orderly'
  BY <1>2, <1>3, <1>10 DEF CancelInLoop, Orderly
<1>11. CASE PollReturns \/ ResetTimers \/ BeginFunctors \/ EndIteration
  BY <1>2, <1>11 DEF PollReturns, Polling, ResetTimers, BeginFunctors, EndIteration, Orderly, Popped
<1>12. CASE HandleRead
  BY <1>2, <1>12 DEF HandleRead, Orderly, Popped
<1>13. ASSUME NEW t \in Timers, RunCallback(t) PROVE Orderly'
  BY <1>2, <1>3, <1>13 DEF RunCallback, Orderly
<1>14. CASE RunAdd \/ RunCancel
  <2>1. ops # <<>>
    BY <1>1, <1>14, EmptySeq DEF RunAdd, RunCancel, Owned, TypeOK
  <2> QED BY <1>3, <1>5, <1>14, <2>1 DEF RunAdd, RunCancel, Orderly
<1>15. ASSUME NEW t \in Timers, NEW d \in Delays, NEW periodic \in BOOLEAN,
              AddInLoop(t, d, periodic)
       PROVE  Orderly'
  <2>1. clock \in 0 .. clock
    BY ClockInNat DEF Owned
  <2> QED BY <1>8, <1>15, <2>1
<1> QED
  BY <1>6, <1>7, <1>8, <1>9, <1>10, <1>11, <1>12, <1>13, <1>14, <1>15 DEF Next, Calls, Loop

\* A timer's stage, from where it is owned.
StagesAreOwners ==
  \A t \in Timers :
    Stage(t) = IF t \notin created THEN "new"
               ELSE IF t \in AddsIn(ops) THEN "queued"
               ELSE IF t \in timers THEN "waiting"
               ELSE IF t \in expired THEN "called"
               ELSE IF t \in batch THEN "ringing"
               ELSE "ended"

LEMMA StageOf == Owned => StagesAreOwners
<1> SUFFICES ASSUME Owned, NEW t \in Timers
             PROVE  Stage(t) = IF t \notin created THEN "new"
                               ELSE IF t \in AddsIn(ops) THEN "queued"
                               ELSE IF t \in timers THEN "waiting"
                               ELSE IF t \in expired THEN "called"
                               ELSE IF t \in batch THEN "ringing"
                               ELSE "ended"
  BY DEF StagesAreOwners
<1>1. Adds = AddsIn(ops)
  BY AddsAreQueued DEF Adds, Owned, TypeOK
<1>2. /\ expired \subseteq batch /\ timers \cap batch = {}
      /\ AddsIn(ops) \subseteq created \ (timers \cup batch)
      /\ timers \subseteq created /\ batch \subseteq created
  BY DEF Owned, TypeOK, Ownership
<1>3. CASE t \notin created
  BY <1>1, <1>2, <1>3 DEF Stage, Live
<1>4. CASE t \in AddsIn(ops)
  BY <1>1, <1>2, <1>4 DEF Stage, Live
<1>5. CASE t \in timers
  BY <1>1, <1>2, <1>5 DEF Stage, Live
<1>8. CASE t \in expired
  BY <1>1, <1>2, <1>8 DEF Stage, Live
<1>6. CASE t \in batch \ expired
  BY <1>1, <1>2, <1>6 DEF Stage, Live
<1>7. CASE t \in created \ (AddsIn(ops) \cup timers \cup batch \cup expired)
  BY <1>1, <1>2, <1>7 DEF Stage, Live
<1> QED BY <1>2, <1>3, <1>4, <1>5, <1>6, <1>7, <1>8

Asked == {ops[i].timer : i \in {j \in DOMAIN ops : ops[j].do = "cancel"}}

LEMMA CancelsAreAsked == Owned => Asked = CancelsIn(ops)
<1> SUFFICES ASSUME Owned PROVE Asked = CancelsIn(ops)
  OBVIOUS
<1>1. \A i \in DOMAIN ops : ops[i] \in Op
  BY LenProperties DEF Owned, TypeOK
<1>2. ASSUME NEW i \in DOMAIN ops, ops[i].do = "cancel" PROVE ops[i].timer \in CancelsIn(ops)
  <2>1. ops[i].timer \in Timers /\ ops[i] = CancelOp(ops[i].timer)
    BY <1>1, <1>2 DEF Op, CancelOp
  <2> QED BY <2>1 DEF CancelsIn, Occurs
<1>3. ASSUME NEW t \in CancelsIn(ops)
      PROVE  \E i \in DOMAIN ops : ops[i].do = "cancel" /\ ops[i].timer = t
  <2>1. PICK i \in DOMAIN ops : ops[i] = CancelOp(t)
    BY <1>3 DEF CancelsIn, Occurs
  <2> QED BY <2>1 DEF CancelOp
<1> QED BY <1>2, <1>3 DEF Asked

\* The invariant, with what it says of the two views.
AlarmInv ==
  /\ Owned /\ Orderly /\ OnTime /\ BoundedLateness
  /\ StagesAreOwners /\ Adds = AddsIn(ops) /\ Asked = CancelsIn(ops)

LEMMA AlarmInvAlways == ShortIterations /\ Spec => []AlarmInv
<1> SUFFICES ASSUME ShortIterations PROVE Spec => []AlarmInv
  OBVIOUS
<1>1. Init => Orderly
  <2> SUFFICES ASSUME Init PROVE Orderly
    OBVIOUS
  <2>1. DOMAIN ops = {}
    BY EmptySeq, LenProperties DEF Init
  <2> QED BY <2>1 DEF Init, Orderly, Popped, CancelsFollow
<1>2. Owned /\ Orderly /\ [Next]_vars => Orderly'
  BY OrderlyStep
<1>3. Owned /\ OnTime => BoundedLateness
  BY OnTimeGives
<1>4. Owned => Adds = AddsIn(ops)
  BY AddsAreQueued DEF Adds, Owned, TypeOK
<1> QED
  BY <1>1, <1>2, <1>3, <1>4, OnTimeAlways, StageOf, CancelsAreAsked, PTL DEF Spec, AlarmInv

\* One timer changes its stage, or none does.
LEMMA Restaging ==
  ASSUME NEW a \in Timers, NEW s, \A u \in Timers : Stage(u)' = IF u = a THEN s ELSE Stage(u)
  PROVE  [t \in Timers |-> Stage(t)]' = [[t \in Timers |-> Stage(t)] EXCEPT ![a] = s]
<1>1. [t \in Timers |-> Stage(t)]' = [t \in Timers |-> Stage(t)']
  OBVIOUS
<1> QED BY <1>1

LEMMA NoAlarmChanges ==
  ASSUME AlarmInv, AlarmInv', UNCHANGED <<clock, timers, batch, expired, timerVars>>,
         AddsIn(ops') = AddsIn(ops), CancelsIn(ops') = CancelsIn(ops),
         UNCHANGED <<cancelled, erased>>
  PROVE  UNCHANGED Alarm!vars
<1>1. \A t \in Timers : Stage(t)' = Stage(t)
  BY DEF AlarmInv, StagesAreOwners, timerVars
<1>2. Asked' = Asked
  BY DEF AlarmInv
<1> QED BY <1>1, <1>2 DEF Alarm!vars, Asked, timerVars

LEMMA TickPasses ==
  ASSUME AlarmInv, AlarmInv', Tick
  PROVE  Alarm!Pass
<1>1. /\ clock' = clock + 1
      /\ UNCHANGED <<ops, timers, batch, expired, expiration, interval, created, cancelled, erased>>
  BY DEF Tick, timerVars, history
<1>2. \A t \in Timers : Stage(t)' = Stage(t)
  BY <1>1 DEF AlarmInv, StagesAreOwners
<1>3. ASSUME NEW a \in Timers, Stage(a) \in {"queued", "waiting", "called"}
      PROVE  clock' < expiration[a] + MaxLate
  <2>1. a \in Adds \cup timers \cup expired
    BY <1>3 DEF AlarmInv, StagesAreOwners
  <2>2. a \in Adds' \cup timers' \cup expired'
    BY <1>1, <2>1 DEF AlarmInv
  <2> QED BY <1>1, <2>2 DEF AlarmInv, BoundedLateness
<1>4. Asked' = Asked
  BY <1>1 DEF Asked
<1> QED BY <1>1, <1>2, <1>3, <1>4 DEF Alarm!Pass, Alarm!Pending, Alarm!At, Asked

LEMMA AddingSets ==
  ASSUME AlarmInv, AlarmInv', NEW t \in Timers, NEW d \in Delays, NEW periodic \in BOOLEAN,
         NEW at \in 0 .. clock,
         AddFromThread(t, d, periodic, at) \/ (AddInLoop(t, d, periodic) /\ at = clock)
  PROVE  Alarm!Next
<1>0. TypeOK /\ Ownership /\ ops \in Seq(Op) /\ Distinct(ops) /\ at \in Nat /\ clock \in Nat
      /\ d \in Nat
  <2>1. TypeOK /\ Ownership
    BY DEF AlarmInv, Owned
  <2>2. clock \in Nat
    BY <2>1, ClockInNat
  <2> QED BY <2>1, <2>2, TimeAssumption DEF TypeOK, Ownership
<1>1. /\ t \notin created /\ created' = created \cup {t}
      /\ expiration' = [expiration EXCEPT ![t] = at + d]
      /\ interval' = [interval EXCEPT ![t] = IF periodic THEN d ELSE 0]
      /\ clock <= at + MaxStall
      /\ UNCHANGED <<clock, batch, expired, cancelled, erased>>
  BY <1>0, TimeAssumption DEF AddFromThread, AddInLoop, Create, history
<1>2. t \notin AddsIn(ops) \cup timers \cup batch \cup expired \cup CancelsIn(ops)
  BY <1>0, <1>1 DEF TypeOK, Ownership
<1>3. \E s \in {"queued", "waiting"} :
         (\A u \in Timers : Stage(u)' = IF u = t THEN s ELSE Stage(u)) /\ Asked' = Asked
  <2>1. CASE AddFromThread(t, d, periodic, at)
    <3>1. ops' = Append(ops, AddOp(t)) /\ timers' = timers
      BY <2>1 DEF AddFromThread, AddOp
    <3>2. AddsIn(ops') = AddsIn(ops) \cup {t} /\ CancelsIn(ops') = CancelsIn(ops)
      BY <1>0, <1>2, <3>1, QueueingAnOp
    <3>3. \A u \in Timers : Stage(u)' = IF u = t THEN "queued" ELSE Stage(u)
      BY <1>1, <1>2, <3>1, <3>2 DEF AlarmInv, StagesAreOwners
    <3> QED BY <3>2, <3>3 DEF AlarmInv
  <2>2. CASE AddInLoop(t, d, periodic)
    <3>1. ops' = ops /\ timers' = timers \cup {t}
      BY <2>2 DEF AddInLoop, add_timer_in_loop
    <3>2. \A u \in Timers : Stage(u)' = IF u = t THEN "waiting" ELSE Stage(u)
      BY <1>1, <1>2, <3>1 DEF AlarmInv, StagesAreOwners
    <3> QED BY <3>1, <3>2 DEF Asked
  <2> QED BY <2>1, <2>2
<1>4. Stage(t) = "new"
  BY <1>1 DEF AlarmInv, StagesAreOwners
<1>5. clock < at + d + MaxLate
  BY <1>0, <1>1, TimeAssumption DEF MaxLate
<1>6. Alarm!Set(t, d, IF periodic THEN d ELSE 0)
  BY <1>1, <1>3, <1>4, <1>5, Restaging DEF Alarm!Set, Asked
<1> QED BY <1>6 DEF Alarm!Next

LEMMA HandleReadCalls ==
  ASSUME AlarmInv, AlarmInv', HandleRead
  PROVE  Alarm!Call
<1>1. /\ batch = {} /\ expired = {} /\ expired' = batch'
      /\ batch' = {t \in timers : expiration[t] < clock} /\ timers' = timers \ batch'
      /\ UNCHANGED <<clock, ops, expiration, interval, created, cancelled, erased>>
  BY DEF HandleRead, AlarmInv, Owned, TypeOK, Ownership, timerVars, history
<1>2. timers \subseteq created \ AddsIn(ops) /\ created \subseteq Timers
  BY DEF AlarmInv, Owned, TypeOK, Ownership
<1>3. \A t \in Timers : Stage(t) \notin {"called", "ringing"}
  BY <1>1 DEF AlarmInv, StagesAreOwners
<1>4. \A t \in Timers : Stage(t)' = IF Stage(t) = "waiting" /\ expiration[t] < clock
                                    THEN "called" ELSE Stage(t)
  BY <1>1, <1>2 DEF AlarmInv, StagesAreOwners
<1>5. Asked' = Asked
  BY <1>1 DEF Asked
<1> QED BY <1>1, <1>3, <1>4, <1>5 DEF Alarm!Call, Alarm!At, Asked

LEMMA CallbackRings ==
  ASSUME AlarmInv, AlarmInv', NEW t \in Timers, RunCallback(t)
  PROVE  Alarm!Ring(t)
<1>0. TypeOK /\ Ownership
  BY DEF AlarmInv, Owned
<1>1. /\ pc = "callbacks" /\ t \in expired /\ expiration[t] = First(expired)
      /\ expired' = expired \ {t}
      /\ UNCHANGED <<clock, ops, timers, batch, expiration, interval, created, cancelled, erased>>
  BY DEF RunCallback, timerVars
<1>2. /\ expired \subseteq batch /\ batch \subseteq created /\ timers \cap batch = {}
      /\ created \subseteq Timers /\ AddsIn(ops) \cap batch = {}
      /\ \A u \in Timers : expiration[u] \in Nat
      /\ now \in Nat /\ clock \in Nat
  BY <1>0 DEF TypeOK, Ownership
<1>3. expiration[t] < now /\ now <= clock /\ \A u \in timers : now <= expiration[u]
  BY <1>1, <1>2 DEF AlarmInv, Orderly, Popped, OnTime, PoppedAtNow
<1>4. \A u \in expired : expiration[t] <= expiration[u]
  <2> DEFINE A == {expiration[u] : u \in expired}
  <2>1. A \in SUBSET Nat /\ A # {} /\ First(expired) = Min(A)
    BY <1>1, <1>2 DEF First
  <2>2. \A x \in A : Min(A) <= x
    BY <2>1, MinFacts
  <2> QED BY <1>1, <2>1, <2>2
<1>5. \A u \in Timers : Stage(u)' = IF u = t THEN "ringing" ELSE Stage(u)
  BY <1>1, <1>2 DEF AlarmInv, StagesAreOwners
<1>6. Stage(t) = "called"
  BY <1>1, <1>2 DEF AlarmInv, StagesAreOwners
<1>7. \A u \in Timers : Stage(u) \in {"waiting", "called"} => expiration[t] <= expiration[u]
  <2>1. \A u \in Timers : Stage(u) \in {"waiting", "called"} => u \in timers \cup expired
    BY DEF AlarmInv, StagesAreOwners
  <2>2. \A u \in timers : u \in Timers /\ expiration[t] <= expiration[u]
    BY <1>0, <1>1, <1>2, <1>3 DEF TypeOK
  <2> QED BY <1>4, <2>1, <2>2
<1>8. expiration[t] < clock
  BY <1>1, <1>2, <1>3
<1> QED BY <1>1, <1>5, <1>6, <1>7, <1>8, Restaging DEF Alarm!Ring, Alarm!At

LEMMA ResetRewinds ==
  ASSUME AlarmInv, AlarmInv', ResetTimers
  PROVE  Alarm!Rewind(now) /\ now \in 0 .. clock
<1>0. TypeOK /\ Ownership
  BY DEF AlarmInv, Owned
<1>1. /\ pc = "callbacks" /\ expired = {} /\ expired' = {} /\ batch' = {}
      /\ UNCHANGED <<clock, ops, interval, created, cancelled, erased>>
      /\ timers' = timers \cup {t \in batch : interval[t] > 0}
      /\ expiration' = [t \in Timers |-> IF t \in {u \in batch : interval[u] > 0}
                                          THEN restart(t) ELSE expiration[t]]
  BY DEF ResetTimers, history
<1>2. /\ batch \subseteq created /\ timers \cap batch = {} /\ timers \subseteq created
      /\ created \subseteq Timers /\ AddsIn(ops) \cap batch = {}
      /\ now \in Nat /\ clock \in Nat
  BY <1>0 DEF TypeOK, Ownership
<1>3. now <= clock /\ \A t \in batch : expiration[t] < now
  BY <1>1, <1>2 DEF AlarmInv, Orderly, Popped, OnTime, PoppedAtNow
<1>4. \A t \in Timers : Stage(t) = "ringing" <=> t \in batch
  BY <1>1, <1>2 DEF AlarmInv, StagesAreOwners
<1>5. \A t \in Timers : Stage(t)' = IF Stage(t) # "ringing" THEN Stage(t)
                                    ELSE IF interval[t] > 0 THEN "waiting" ELSE "ended"
  BY <1>1, <1>2 DEF AlarmInv, StagesAreOwners
<1>6. expiration' = [t \in Timers |-> IF Stage(t) = "ringing" /\ interval[t] > 0
                                      THEN now + interval[t] ELSE expiration[t]]
  BY <1>1, <1>4 DEF restart
<1>7. ASSUME NEW t \in Timers, Stage(t)' = "waiting" PROVE clock < expiration'[t] + MaxLate
  <2>1. t \in timers' \cup expired'
    BY <1>7 DEF AlarmInv, StagesAreOwners
  <2> QED BY <1>1, <2>1 DEF AlarmInv, BoundedLateness
<1>8. Asked' = Asked
  BY <1>1 DEF Asked
<1>9. \A t \in Timers : Stage(t) # "called"
  BY <1>1 DEF AlarmInv, StagesAreOwners
<1> QED BY <1>1, <1>2, <1>3, <1>4, <1>5, <1>6, <1>7, <1>8, <1>9 DEF Alarm!Rewind, Alarm!At, Asked

LEMMA FunctorsServe ==
  ASSUME AlarmInv, AlarmInv', RunAdd \/ RunCancel
  PROVE  Alarm!Next
<1> DEFINE t == Head(ops).timer
<1>0. /\ TypeOK /\ Ownership /\ ops \in Seq(Op) /\ Distinct(ops) /\ Len(ops) \in Nat
      /\ todo > 0 /\ todo \in 0 .. Len(ops) /\ pc = "functors"
  BY LenProperties DEF AlarmInv, Owned, TypeOK, Ownership, RunAdd, RunCancel
<1>1. Len(ops) > 0 /\ batch = {} /\ expired = {} /\ batch' = {} /\ expired' = {}
  BY <1>0 DEF RunAdd, RunCancel, TypeOK, Ownership
<1>2. /\ t \in Timers
      /\ Head(ops).do = "add" => /\ t \in AddsIn(ops) /\ AddsIn(Tail(ops)) = AddsIn(ops) \ {t}
                                 /\ CancelsIn(Tail(ops)) = CancelsIn(ops)
      /\ Head(ops).do = "cancel" => /\ t \in CancelsIn(ops)
                                    /\ CancelsIn(Tail(ops)) = CancelsIn(ops) \ {t}
                                    /\ AddsIn(Tail(ops)) = AddsIn(ops)
  BY <1>0, <1>1, TakingAnOp
<1>3. ops' = Tail(ops) /\ UNCHANGED <<clock, expiration, interval, created>>
  BY DEF RunAdd, RunCancel, timerVars
<1>4. CASE RunAdd
  <2>1. Head(ops).do = "add" /\ timers' = timers \cup {t}
    BY <1>4 DEF RunAdd, add_timer_in_loop
  <2>2. t \in created \ timers
    BY <1>0, <1>2, <2>1 DEF Ownership
  <2> HIDE DEF t
  <2>3. Stage(t) = "queued" /\ \A u \in Timers : Stage(u)' = IF u = t THEN "waiting" ELSE Stage(u)
    BY <1>1, <1>2, <1>3, <2>1, <2>2 DEF AlarmInv, StagesAreOwners
  <2>4. Asked' = Asked
    BY <1>2, <1>3, <2>1 DEF AlarmInv
  <2>5. Alarm!Accept(t)
    BY <1>2, <1>3, <1>4, <2>3, <2>4, Restaging DEF Alarm!Accept, Asked, RunAdd, history
  <2> QED BY <1>2, <2>5 DEF Alarm!Next
<1>5. CASE RunCancel
  <2>1. Head(ops).do = "cancel" /\ timers' = timers \ {t}
    BY <1>5 DEF RunCancel, cancel_timer_in_loop
  <2>2. t \notin AddsIn(ops)
    <3> SUFFICES ASSUME NEW j \in DOMAIN ops, ops[j] = AddOp(t) PROVE FALSE
      BY DEF AddsIn, Occurs
    <3>1. /\ 1 \in DOMAIN ops /\ Head(ops) = ops[1] /\ DOMAIN ops = 1 .. Len(ops)
      BY <1>0, <1>1, LenProperties, HeadTailProperties, EmptySeq
    <3>2. ops[1].do = "cancel" /\ ops[j].do = "add" /\ ops[1].timer = ops[j].timer
      BY <2>1, <3>1 DEF AddOp
    <3>3. j < 1
      BY <3>1, <3>2 DEF AlarmInv, Orderly, CancelsFollow
    <3> QED BY <1>0, <3>1, <3>3
  <2>3. t \in created
    BY <1>0, <1>2, <2>1 DEF Ownership
  <2> HIDE DEF t
  <2>4. /\ Stage(t) \in {"waiting", "ended"}
        /\ \A u \in Timers : Stage(u)' = IF u = t THEN "ended" ELSE Stage(u)
    BY <1>1, <1>2, <1>3, <2>1, <2>2, <2>3 DEF AlarmInv, StagesAreOwners
  <2>5. t \in Asked /\ Asked' = Asked \ {t}
    BY <1>2, <1>3, <2>1 DEF AlarmInv
  <2>6. PICK a \in Timers : a = t
    BY <1>2
  <2>7. (cancelled \ erased)' = cancelled \ erased
    <3>1. t \notin cancelled
      BY <1>0, <2>5 DEF AlarmInv, Ownership
    <3>2. t \in AddsIn(ops) \cup timers \cup batch <=> t \in timers
      BY <1>1, <2>2
    <3>3. cancel_timer_in_loop(t) /\ t \in Timers
      BY <1>2, <1>5 DEF RunCancel, t
    <3> QED BY <3>1, <3>2, <3>3, Cancelling DEF AlarmInv
  <2>8. Alarm!Serve(a)
    BY <1>3, <2>4, <2>5, <2>6, <2>7, Restaging DEF Alarm!Serve, Asked
  <2> QED BY <2>8 DEF Alarm!Next
<1> QED BY <1>4, <1>5

LEMMA CallsCancel ==
  ASSUME AlarmInv, AlarmInv', NEW t \in Timers, CancelFromThread(t) \/ CancelInLoop(t)
  PROVE  [Alarm!Next]_(Alarm!vars)
<1>0. Owned /\ TypeOK /\ Ownership /\ ops \in Seq(Op) /\ Distinct(ops)
  BY DEF AlarmInv, Owned, TypeOK, Ownership
<1>1. /\ UNCHANGED <<clock, batch, expired, expiration, interval, created>>
      /\ t \in created \ (CancelsIn(ops) \cup cancelled)
  BY <1>0, MayCancel DEF CancelFromThread, CancelInLoop, timerVars
<1>2. CASE CancelFromThread(t)
  <2>1. /\ ops' = Append(ops, CancelOp(t))
        /\ UNCHANGED <<timers, cancelled, erased>>
    BY <1>2 DEF CancelFromThread, CancelOp, history
  <2>2. AddsIn(ops') = AddsIn(ops) /\ CancelsIn(ops') = CancelsIn(ops) \cup {t}
    BY <1>0, <1>1, <2>1, QueueingAnOp
  <2>3. Stage(t) # "new" /\ \A u \in Timers : Stage(u)' = Stage(u)
    BY <1>1, <2>1, <2>2 DEF AlarmInv, StagesAreOwners
  <2>4. t \notin Asked /\ Asked' = Asked \cup {t}
    BY <1>1, <2>2 DEF AlarmInv
  <2>5. Alarm!Ask(t)
    BY <1>1, <2>1, <2>3, <2>4 DEF Alarm!Ask, Asked
  <2> QED BY <2>5 DEF Alarm!Next
<1>3. CASE CancelInLoop(t)
  <2>1. /\ ops' = ops /\ timers' = timers \ {t}
        /\ IF t \in AddsIn(ops) \cup timers \cup batch
           THEN cancelled' = cancelled \cup {t} /\ erased' = erased \cup ({t} \cap timers)
           ELSE UNCHANGED <<cancelled, erased>>
    BY <1>0, <1>3, Cancelling DEF CancelInLoop
  <2>2. CASE t \in timers
    <3>1. t \notin AddsIn(ops) /\ t \notin batch \cup expired
      BY <1>0, <2>2 DEF Ownership, TypeOK
    <3>2. Stage(t) = "waiting" /\ \A u \in Timers : Stage(u)' = IF u = t THEN "ended" ELSE Stage(u)
      BY <1>1, <2>1, <2>2, <3>1 DEF AlarmInv, StagesAreOwners
    <3>3. Asked' = Asked /\ (cancelled \ erased)' = cancelled \ erased
      BY <1>1, <2>1, <2>2 DEF Asked
    <3>4. Alarm!Cancel(t)
      BY <1>1, <3>2, <3>3, Restaging DEF Alarm!Cancel, Asked
    <3> QED BY <3>4 DEF Alarm!Next
  <2>3. CASE t \in (AddsIn(ops) \cup batch) \ timers
    <3>1. Stage(t) \in {"queued", "called", "ringing"}
      BY <1>1, <2>3 DEF AlarmInv, StagesAreOwners
    <3>2. \A u \in Timers : Stage(u)' = Stage(u)
      BY <1>1, <2>1, <2>3 DEF AlarmInv, StagesAreOwners
    <3>3. Asked' = Asked /\ (cancelled \ erased)' = (cancelled \ erased) \cup {t}
      <4>1. t \notin erased
        BY <1>0, <1>1 DEF TypeOK
      <4> QED BY <2>1, <2>3, <4>1 DEF Asked
    <3>4. Alarm!Miss(t)
      BY <1>1, <3>1, <3>2, <3>3 DEF Alarm!Miss, Asked
    <3> QED BY <3>4 DEF Alarm!Next
  <2>4. CASE t \notin AddsIn(ops) \cup timers \cup batch
    BY <1>1, <2>1, <2>4, NoAlarmChanges DEF timerVars
  <2> QED BY <2>2, <2>3, <2>4
<1> QED BY <1>2, <1>3

LEMMA AlarmStep ==
  ASSUME AlarmInv, AlarmInv', [Next]_vars
  PROVE  [Alarm!Next]_(Alarm!vars)
<1> USE DEF loopVars, timerVars, history
<1>1. CASE UNCHANGED vars
  BY <1>1, NoAlarmChanges DEF vars
<1>2. CASE Tick
  BY <1>2, TickPasses DEF Alarm!Next
<1>3. CASE Calls
  <2>1. clock \in 0 .. clock
    BY DEF AlarmInv, Owned, TypeOK
  <2> QED BY <1>3, <2>1, AddingSets, CallsCancel DEF Calls
<1>4. CASE PollReturns \/ BeginFunctors \/ EndIteration
  BY <1>4, NoAlarmChanges DEF PollReturns, BeginFunctors, EndIteration
<1>5. CASE HandleRead
  BY <1>5, HandleReadCalls DEF Alarm!Next
<1>6. ASSUME NEW t \in Timers, RunCallback(t) PROVE Alarm!Next
  BY <1>6, CallbackRings DEF Alarm!Next
<1>7. CASE ResetTimers
  BY <1>7, ResetRewinds DEF Alarm!Next
<1>8. CASE RunAdd \/ RunCancel
  BY <1>8, FunctorsServe
<1> QED BY <1>1, <1>2, <1>3, <1>4, <1>5, <1>6, <1>7, <1>8 DEF Next, Loop

\* The queue keeps AlarmClock's promise to any number of callers and timers, as
\* long as two iterations and a caller's stall are shorter than a second.
THEOREM ImplementsAlarmClock == ShortIterations /\ Spec => AlarmSpec
<1>1. Init => Alarm!Init
  <2> SUFFICES ASSUME Init PROVE Alarm!Init
    OBVIOUS
  <2>1. Owned
    BY InitOwned
  <2>2. \A t \in Timers : Stage(t) = "new"
    BY <2>1, StageOf DEF Init, StagesAreOwners
  <2>3. Asked = {}
    BY EmptySeq, LenProperties DEF Init, Asked
  <2> QED BY <2>2, <2>3 DEF Init, Alarm!Init, Asked
<1>2. AlarmInv /\ AlarmInv' /\ [Next]_vars => [Alarm!Next]_(Alarm!vars)
  BY AlarmStep
<1> QED BY <1>1, <1>2, AlarmInvAlways, PTL DEF Spec, AlarmSpec, Alarm!Spec
=============================================================================

----------------------------- MODULE QueueFacts -----------------------------
(***************************************************************************)
(* Facts about Queues, for the proofs about the functors of a loop.        *)
(***************************************************************************)
EXTENDS Queues, SequenceTheorems, TLAPS

\* What an element put at the end changes.
LEMMA AppendFacts ==
  ASSUME NEW S, NEW q \in Seq(S), NEW f \in S
  PROVE  /\ Append(q, f) \in Seq(S)
         /\ \A g : Occurs(g, Append(q, f)) <=> Occurs(g, q) \/ g = f
         /\ Distinct(q) /\ ~Occurs(f, q) => Distinct(Append(q, f))
<1>1. DOMAIN q = 1 .. Len(q) /\ Len(q) \in Nat
  BY LenProperties
<1>2. /\ Append(q, f) \in Seq(S)
      /\ DOMAIN Append(q, f) = 1 .. Len(q) + 1
      /\ \A i \in 1 .. Len(q) : Append(q, f)[i] = q[i]
      /\ Append(q, f)[Len(q) + 1] = f
  BY AppendProperties, LenProperties
<1>3. ASSUME NEW g PROVE Occurs(g, Append(q, f)) <=> Occurs(g, q) \/ g = f
  BY <1>1, <1>2 DEF Occurs
<1>4. ASSUME Distinct(q), ~Occurs(f, q) PROVE Distinct(Append(q, f))
  BY <1>1, <1>2, <1>4 DEF Distinct, Occurs
<1> QED BY <1>2, <1>3, <1>4

\* What taking the first element off changes.
LEMMA TailFacts ==
  ASSUME NEW S, NEW q \in Seq(S), q # <<>>, Distinct(q)
  PROVE  /\ Tail(q) \in Seq(S)
         /\ Occurs(Head(q), q)
         /\ \A g : Occurs(g, Tail(q)) <=> Occurs(g, q) /\ g # Head(q)
         /\ Distinct(Tail(q))
<1>1. DOMAIN q = 1 .. Len(q) /\ Len(q) \in Nat \ {0} /\ Head(q) = q[1]
  BY LenProperties, EmptySeq
<1>2. /\ Tail(q) \in Seq(S) /\ Len(Tail(q)) = Len(q) - 1
      /\ \A i \in 1 .. Len(Tail(q)) : Tail(q)[i] = q[i + 1]
  BY HeadTailProperties
<1>3. DOMAIN Tail(q) = 1 .. (Len(q) - 1)
  BY <1>2, LenProperties
<1>4. Occurs(Head(q), q)
  BY <1>1 DEF Occurs
<1>5. ASSUME NEW g, Occurs(g, Tail(q)) PROVE Occurs(g, q) /\ g # Head(q)
  <2>1. PICK i \in 1 .. (Len(q) - 1) : q[i + 1] = g
    BY <1>2, <1>3, <1>5 DEF Occurs
  <2>2. i + 1 \in 1 .. Len(q) /\ i + 1 # 1 /\ 1 \in 1 .. Len(q)
    BY <1>1
  <2> QED BY <1>1, <2>1, <2>2 DEF Occurs, Distinct
<1>6. ASSUME NEW g, Occurs(g, q), g # Head(q) PROVE Occurs(g, Tail(q))
  <2>1. PICK i \in 1 .. Len(q) : q[i] = g
    BY <1>1, <1>6 DEF Occurs
  <2>2. i # 1
    BY <1>1, <1>6, <2>1
  <2>3. i - 1 \in 1 .. (Len(q) - 1) /\ (i - 1) + 1 = i
    BY <1>1, <2>2
  <2>4. Tail(q)[i - 1] = g
    BY <1>2, <2>1, <2>3
  <2> QED BY <1>3, <2>3, <2>4 DEF Occurs
<1>7. Distinct(Tail(q))
  <2> SUFFICES ASSUME NEW i \in DOMAIN Tail(q), NEW j \in DOMAIN Tail(q), Tail(q)[i] = Tail(q)[j]
               PROVE  i = j
    BY DEF Distinct
  <2>1. i + 1 \in 1 .. Len(q) /\ j + 1 \in 1 .. Len(q) /\ q[i + 1] = q[j + 1]
    BY <1>1, <1>2, <1>3
  <2>2. i + 1 = j + 1
    BY <1>1, <2>1 DEF Distinct
  <2> QED BY <1>3, <2>2
<1> QED BY <1>2, <1>4, <1>5, <1>6, <1>7

\* A queue in two parts.
LEMMA HeadTailConcat ==
  ASSUME NEW S, NEW s \in Seq(S), s # <<>>, NEW t \in Seq(S)
  PROVE  /\ s \o t # <<>>
         /\ Head(s \o t) = Head(s)
         /\ Tail(s \o t) = Tail(s) \o t
<1>1. /\ Len(s) \in Nat \ {0}
      /\ Len(t) \in Nat
  BY EmptySeq, LenProperties
<1>2. /\ s \o t \in Seq(S)
      /\ Len(s \o t) = Len(s) + Len(t)
      /\ \A i \in 1 .. Len(s) + Len(t) :
            (s \o t)[i] = IF i <= Len(s) THEN s[i] ELSE t[i - Len(s)]
  BY ConcatProperties
<1>3. s \o t # <<>>
  BY <1>1, <1>2, EmptySeq
<1>4. Head(s \o t) = Head(s)
  BY <1>1, <1>2, <1>3
<1>5. /\ Tail(s) \in Seq(S)
      /\ Len(Tail(s)) = Len(s) - 1
      /\ \A i \in 1 .. Len(Tail(s)) : Tail(s)[i] = s[i+1]
  BY HeadTailProperties
<1>6. /\ Tail(s \o t) \in Seq(S)
      /\ Len(Tail(s \o t)) = Len(s \o t) - 1
      /\ \A i \in 1 .. Len(Tail(s \o t)) : Tail(s \o t)[i] = (s \o t)[i+1]
  BY <1>2, <1>3, HeadTailProperties
<1>7. /\ Tail(s) \o t \in Seq(S)
      /\ Len(Tail(s) \o t) = Len(Tail(s)) + Len(t)
      /\ \A i \in 1 .. Len(Tail(s)) + Len(t) :
            (Tail(s) \o t)[i] = IF i <= Len(Tail(s)) THEN Tail(s)[i]
                                                   ELSE t[i - Len(Tail(s))]
  BY <1>5, ConcatProperties
<1>8. Len(Tail(s \o t)) = Len(Tail(s) \o t)
  BY <1>1, <1>2, <1>5, <1>6, <1>7
<1>9. ASSUME NEW i \in 1 .. Len(Tail(s \o t))
      PROVE  Tail(s \o t)[i] = (Tail(s) \o t)[i]
  <2>1. Tail(s \o t)[i] = IF i + 1 <= Len(s) THEN s[i+1] ELSE t[i + 1 - Len(s)]
    BY <1>1, <1>2, <1>6
  <2>2. CASE i + 1 <= Len(s)
    BY <2>1, <2>2, <1>1, <1>5, <1>7, <1>8
  <2>3. CASE ~(i + 1 <= Len(s))
    <3>1. i - Len(Tail(s)) = i + 1 - Len(s)
      BY <1>1, <1>5
    <3> QED BY <2>1, <2>3, <3>1, <1>1, <1>5, <1>7, <1>8
  <2> QED BY <2>2, <2>3
<1> QED BY <1>3, <1>4, <1>6, <1>7, <1>8, <1>9, SeqEqual

LEMMA OccursConcat ==
  ASSUME NEW S, NEW s \in Seq(S), NEW t \in Seq(S), NEW x, Occurs(x, s \o t)
  PROVE  Occurs(x, s) \/ Occurs(x, t)
<1>1. /\ DOMAIN s = 1 .. Len(s)
      /\ DOMAIN t = 1 .. Len(t)
      /\ Len(s) \in Nat
      /\ Len(t) \in Nat
  BY LenProperties
<1>2. /\ DOMAIN (s \o t) = 1 .. Len(s) + Len(t)
      /\ \A i \in 1 .. Len(s) + Len(t) :
            (s \o t)[i] = IF i <= Len(s) THEN s[i] ELSE t[i - Len(s)]
  BY ConcatProperties, LenProperties
<1>3. PICK i \in 1 .. Len(s) + Len(t) : (s \o t)[i] = x
  BY <1>2 DEF Occurs
<1>4. CASE i <= Len(s)
  BY <1>1, <1>2, <1>3, <1>4 DEF Occurs
<1>5. CASE ~(i <= Len(s))
  <2>1. i - Len(s) \in 1 .. Len(t)
    BY <1>1, <1>5
  <2> QED BY <1>1, <1>2, <1>3, <1>5, <2>1 DEF Occurs
<1> QED BY <1>4, <1>5

LEMMA AppendConcat ==
  ASSUME NEW S, NEW s \in Seq(S), NEW t \in Seq(S), NEW k \in S
  PROVE  s \o Append(t, k) = Append(s \o t, k)
<1>1. /\ <<k>> \in Seq(S)
      /\ Append(t, k) = t \o <<k>>
  BY AppendIsConcat
<1>2. /\ s \o t \in Seq(S)
      /\ Append(s \o t, k) = (s \o t) \o <<k>>
  BY ConcatProperties, AppendIsConcat
<1>3. (s \o t) \o <<k>> = s \o (t \o <<k>>)
  BY <1>1, ConcatAssociative
<1> QED BY <1>1, <1>2, <1>3

\* The same for elements that may be in the queue more than once.
LEMMA AppendOnce ==
  ASSUME NEW S, NEW q \in Seq(S), NEW f \in S, NEW g, AtMostOnce(g, q),
         f = g => ~Occurs(g, q)
  PROVE  AtMostOnce(g, Append(q, f))
<1>1. DOMAIN q = 1 .. Len(q) /\ Len(q) \in Nat
  BY LenProperties
<1>2. /\ DOMAIN Append(q, f) = 1 .. Len(q) + 1
      /\ \A i \in 1 .. Len(q) : Append(q, f)[i] = q[i]
      /\ Append(q, f)[Len(q) + 1] = f
  BY AppendProperties, LenProperties
<1> QED BY <1>1, <1>2 DEF AtMostOnce, Occurs

LEMMA TailOnce ==
  ASSUME NEW S, NEW q \in Seq(S), q # <<>>, NEW g
  PROVE  /\ Occurs(g, Tail(q)) => Occurs(g, q)
         /\ Occurs(g, q) /\ g # Head(q) => Occurs(g, Tail(q))
         /\ AtMostOnce(g, q) /\ g = Head(q) => ~Occurs(g, Tail(q))
         /\ AtMostOnce(g, q) => AtMostOnce(g, Tail(q))
<1>1. DOMAIN q = 1 .. Len(q) /\ Len(q) \in Nat \ {0} /\ Head(q) = q[1]
  BY LenProperties, EmptySeq
<1>2. /\ Tail(q) \in Seq(S) /\ Len(Tail(q)) = Len(q) - 1
      /\ \A i \in 1 .. Len(Tail(q)) : Tail(q)[i] = q[i + 1]
  BY HeadTailProperties
<1>3. DOMAIN Tail(q) = 1 .. (Len(q) - 1)
  BY <1>2, LenProperties
<1>4. \A i \in DOMAIN Tail(q) : i + 1 \in DOMAIN q /\ i + 1 # 1 /\ Tail(q)[i] = q[i + 1]
  BY <1>1, <1>2, <1>3
<1>5. Occurs(g, Tail(q)) => Occurs(g, q)
  BY <1>4 DEF Occurs
<1>6. ASSUME Occurs(g, q), g # Head(q) PROVE Occurs(g, Tail(q))
  <2>1. PICK i \in 1 .. Len(q) : q[i] = g
    BY <1>1, <1>6 DEF Occurs
  <2>2. i - 1 \in 1 .. (Len(q) - 1) /\ (i - 1) + 1 = i
    BY <1>1, <1>6, <2>1
  <2> QED BY <1>2, <1>3, <2>1, <2>2 DEF Occurs
<1>7. AtMostOnce(g, q) /\ g = Head(q) => ~Occurs(g, Tail(q))
  BY <1>1, <1>4 DEF Occurs, AtMostOnce
<1>8. AtMostOnce(g, q) => AtMostOnce(g, Tail(q))
  <2> SUFFICES ASSUME AtMostOnce(g, q), NEW i \in DOMAIN Tail(q), NEW j \in DOMAIN Tail(q),
                      Tail(q)[i] = g, Tail(q)[j] = g
               PROVE  i = j
    BY DEF AtMostOnce
  <2>1. i + 1 = j + 1
    BY <1>4 DEF AtMostOnce
  <2> QED BY <1>3, <2>1
<1> QED BY <1>5, <1>6, <1>7, <1>8
=============================================================================

--------------------------- MODULE TaskFifo_lemmas --------------------------
(* Sequence facts behind the FIFO refinement of both task queues. *)
EXTENDS Integers, Sequences, TLAPS

\* Moving the head of the queue to the end of the history of started tasks, as
\* front()/pop() do, leaves the log of all tasks handed over unchanged.
LEMMA MoveHead ==
    ASSUME NEW S, NEW s \in Seq(S), NEW q \in Seq(S), q # <<>>
    PROVE  /\ Head(q) \in S /\ Tail(q) \in Seq(S)
           /\ Append(s, Head(q)) \in Seq(S)
           /\ Append(s, Head(q)) \o Tail(q) = s \o q
<1> DEFINE l == Append(s, Head(q)) \o Tail(q)
           r == s \o q
<1>1. Len(q) > 0 /\ Head(q) \in S /\ Tail(q) \in Seq(S) /\ Len(Tail(q)) = Len(q) - 1
  OBVIOUS
<1>2. Append(s, Head(q)) \in Seq(S) /\ Len(Append(s, Head(q))) = Len(s) + 1
  BY <1>1
<1>3. l \in Seq(S) /\ r \in Seq(S) /\ Len(l) = Len(r)
  BY <1>1, <1>2
<1>4. ASSUME NEW i \in 1..Len(r) PROVE l[i] = r[i]
  <2>1. CASE i <= Len(s)
    BY <2>1, <1>1, <1>2
  <2>2. CASE i = Len(s) + 1
    BY <2>2, <1>1, <1>2
  <2>3. CASE i > Len(s) + 1
    BY <2>3, <1>1, <1>2
  <2> QED BY <2>1, <2>2, <2>3, <1>3
<1>5. l = r
  BY <1>3, <1>4
<1> QED BY <1>1, <1>2, <1>5

\* Pushing a task at the end of the queue appends it to the log.
LEMMA LogAppend ==
    ASSUME NEW S, NEW s \in Seq(S), NEW q \in Seq(S), NEW x \in S
    PROVE  /\ Append(q, x) \in Seq(S)
           /\ s \o Append(q, x) \in Seq(S)
           /\ DOMAIN (s \o Append(q, x)) = 1..(Len(s) + Len(q) + 1)
           /\ \A i \in 1..(Len(s) + Len(q)) : (s \o Append(q, x))[i] = (s \o q)[i]
           /\ (s \o Append(q, x))[Len(s) + Len(q) + 1] = x
           /\ s \o Append(q, x) = Append(s \o q, x)
<1>1. Append(q, x) \in Seq(S) /\ Len(Append(q, x)) = Len(q) + 1
  OBVIOUS
<1>2. PICK l, r : l = s \o Append(q, x) /\ r = Append(s \o q, x)
  OBVIOUS
<1>3. /\ l \in Seq(S) /\ r \in Seq(S) /\ Len(l) = Len(s) + Len(q) + 1 /\ Len(r) = Len(l)
      /\ l[Len(s) + Len(q) + 1] = x /\ r[Len(s) + Len(q) + 1] = x
      /\ \A i \in 1..(Len(s) + Len(q)) : l[i] = (s \o q)[i] /\ r[i] = (s \o q)[i]
  BY <1>1, <1>2
<1>4. PICK n \in Nat : n = Len(s) + Len(q)
  BY <1>1
<1>6. \A i \in 1..(n + 1) : l[i] = r[i]
  <2>1. \A i \in 1..(n + 1) : i = n + 1 \/ i \in 1..n
    BY <1>4
  <2>. QED
    BY <1>3, <1>4, <2>1
<1>5. l = r
  BY <1>3, <1>4, <1>6
<1> QED BY <1>1, <1>2, <1>5
=============================================================================

--------------------------- MODULE Reactor_lemmas ---------------------------
(***************************************************************************)
(* What the proofs about Reactor need to know of its operators: the lowest *)
(* descriptor, the changes of a Connection, how often an element occurs in *)
(* a queue, and in which order requests and replies wait.                  *)
(***************************************************************************)
EXTENDS Reactor, SequenceTheorems, FiniteSetTheorems, TLAPS

\* A set of natural numbers with an element has a least one.
LEMMA MinOf ==
    ASSUME NEW T, T \subseteq Nat, T # {}
    PROVE  Min(T) \in T /\ \A x \in T : Min(T) <= x
<1>1. PICK x \in T : \A y \in T : ~(<<y, x>> \in OpToRel(<, Nat))
  BY WFMin, NatLessThanWellFounded
<1>2. ASSUME NEW y \in T PROVE x <= y
  <2>1. CASE y < x
    <3>1. <<y, x>> \in {p \in Nat \X Nat : p[1] < p[2]}
      BY <2>1
    <3>2. <<y, x>> \in OpToRel(<, Nat)
      BY <3>1 DEF OpToRel
    <3>. QED
      BY <1>1, <3>2
  <2>. QED
    BY <2>1
<1>. QED
  BY <1>1, <1>2 DEF Min

\* The entry after f, if there is one, is an entry.
LEMMA AfterOf ==
    ASSUME NEW S, S \subseteq Nat, NEW f \in Nat
    PROVE  After(S, f) = End \/ (After(S, f) \in S /\ After(S, f) > f)
<1>1. CASE {g \in S : g > f} = {}
  BY <1>1 DEF After
<1>2. CASE {g \in S : g > f} # {}
  BY <1>2, MinOf DEF After
<1>. QED
  BY <1>1, <1>2
-----------------------------------------------------------------------------
\* The descriptors.

\* There are as many descriptors for connections as clients, none of them is the key
\* of end().
LEMMA FdsAre ==
    /\ Fds \subseteq Nat \ {0} /\ End \notin Fds /\ IsFiniteSet(Fds)
    /\ Cardinality(Fds) = Cardinality(Conns)
<1>1. Cardinality(Conns) \in Nat /\ FirstFd \in Nat \ {0}
  BY FS_CardinalityType, ReactorAssumption
<1>2. IsFiniteSet(Fds) /\ Cardinality(Fds) = Cardinality(Conns)
  <2>1. PICK last \in Int : last = FirstFd + Cardinality(Conns) - 1
    BY <1>1
  <2>2. Fds = FirstFd..last
    BY <2>1 DEF Fds
  <2>3. IsFiniteSet(FirstFd..last)
        /\ Cardinality(FirstFd..last) = IF FirstFd > last THEN 0 ELSE last - FirstFd + 1
    <3>1. FirstFd \in Int
      BY <1>1
    <3>. QED
      BY <3>1, FS_Interval, Zenon
  <2>. QED
    BY <1>1, <2>1, <2>2, <2>3
<1>. QED
  BY <1>1, <1>2 DEF Fds, End

\* There is a descriptor for each client: as long as one has not been accepted,
\* accept4() finds one that no Connection holds.
LEMMA AcceptedFdIsFree ==
    ASSUME NEW c \in Conns, conn[c].fd \notin Fds
    PROVE  AcceptedFd \in Fds /\ ~FdInUse(AcceptedFd)
<1>1. SUFFICES \E f \in Fds : ~FdInUse(f)
  <2>1. PICK free : free = {f \in Fds : ~FdInUse(f)}
    OBVIOUS
  <2>2. free \subseteq Nat /\ free # {}
    BY <1>1, <2>1, FdsAre
  <2>3. Min(free) \in free
    BY <2>2, MinOf
  <2>. QED
    BY <2>1, <2>3 DEF AcceptedFd
<1>2. SUFFICES ASSUME \A f \in Fds : FdInUse(f) PROVE FALSE
  OBVIOUS
<1>3. \A f \in Fds : \E d \in Conns \ {c} : conn[d].fd = f
  BY <1>2 DEF FdInUse
<1>4. PICK owner \in [Fds -> Conns \ {c}] : \A f \in Fds : conn[owner[f]].fd = f
  <2>1. [f \in Fds |-> CHOOSE d \in Conns \ {c} : conn[d].fd = f] \in [Fds -> Conns \ {c}]
    BY <1>3
  <2>. QED
    BY <1>3, <2>1
<1>5. /\ IsFiniteSet(Conns \ {c}) /\ Cardinality(Conns \ {c}) < Cardinality(Fds)
      /\ IsFiniteSet(Fds)
  <2>1. IsFiniteSet(Conns) /\ Cardinality(Conns) \in Nat
    BY FS_CardinalityType, ReactorAssumption
  <2>2. IsFiniteSet(Conns \ {c}) /\ Cardinality(Conns \ {c}) = Cardinality(Conns) - 1
    BY <2>1, FS_RemoveElement
  <2>. QED
    BY <2>1, <2>2, FdsAre
<1>6. PICK f \in Fds, g \in Fds : f # g /\ owner[f] = owner[g]
  BY <1>4, <1>5, FS_PigeonHole
<1>. QED
  BY <1>4, <1>6

\* Fewer requests than the bound have been asked: so has each client.
LEMMA AskedBound ==
    ASSUME NEW c \in Conns, net[c].asked \in Nat, Cardinality(Asked) < MaxRequests
    PROVE  net[c].asked < MaxRequests
<1>1. SUFFICES ASSUME net[c].asked >= MaxRequests PROVE FALSE
  BY ReactorAssumption
<1>2. IsFiniteSet(Requests) /\ Cardinality(Requests) = MaxRequests
  BY FS_Interval, ReactorAssumption DEF Requests
<1>3. IsFiniteSet(Asked)
  <2>1. IsFiniteSet(Conns \X Requests)
    BY <1>2, FS_Product, ReactorAssumption
  <2>. QED
    BY <2>1, FS_Subset DEF Asked
<1>4. PICK f : f = [m \in Requests |-> <<c, m>>]
  OBVIOUS
<1>5. f \in [Requests -> Asked]
  <2>1. ASSUME NEW m \in Requests PROVE <<c, m>> \in Asked
    BY <1>1, ReactorAssumption DEF Asked, Requests
  <2>. QED
    BY <1>4, <2>1
<1>6. PICK m \in Requests, n \in Requests : m # n /\ f[m] = f[n]
  BY <1>2, <1>3, <1>5, FS_PigeonHole
<1>. QED
  BY <1>4, <1>6
-----------------------------------------------------------------------------
\* Queues.

\* s is p followed by q.
Parts(s, p, q) ==
    /\ Len(s) = Len(p) + Len(q)
    /\ \A i \in 1..Len(p) : s[i] = p[i]
    /\ \A i \in 1..Len(q) : s[Len(p) + i] = q[i]

\* send() takes what is in front of a buffer, and erase() leaves the rest.
LEMMA CutOf ==
    ASSUME NEW S, NEW q \in Seq(S), NEW n \in 0..Len(q)
    PROVE  SubSeq(q, 1, n) \in Seq(S) /\ Erased(q, n) \in Seq(S)
           /\ Len(SubSeq(q, 1, n)) = n /\ Len(Erased(q, n)) = Len(q) - n
           /\ \A i \in 1..n : SubSeq(q, 1, n)[i] = q[i]
<1>1. PICK k \in Nat : k = Len(q)
  BY LenProperties
<1>2. n \in Nat /\ n <= k
  BY <1>1
<1>3. \A i \in 1..n : q[i] \in S
  BY <1>1, <1>2, ElementOfSeq
<1>4. \A i \in (n + 1)..k : q[i] \in S
  BY <1>1, <1>2, ElementOfSeq
<1>5. /\ SubSeq(q, 1, n) \in Seq(S) /\ Len(SubSeq(q, 1, n)) = n
      /\ \A i \in 1..n : SubSeq(q, 1, n)[i] = q[i]
  BY <1>1, <1>2, <1>3, SubSeqProperties
<1>6. /\ SubSeq(q, n + 1, k) \in Seq(S) /\ Len(SubSeq(q, n + 1, k)) = k - n
      /\ \A i \in 1..(k - n) : SubSeq(q, n + 1, k)[i] = q[n + i]
  BY <1>1, <1>2, <1>4, SubSeqProperties
<1>. QED
  BY <1>1, <1>5, <1>6 DEF Erased

\* The two side by side.
LEMMA CutParts ==
    ASSUME NEW S, NEW q \in Seq(S), NEW n \in 0..Len(q)
    PROVE  Parts(q, SubSeq(q, 1, n), Erased(q, n))
<1>1. PICK k \in Nat : k = Len(q) /\ n \in Nat /\ n <= k
  BY LenProperties
<1>2. PICK front, rest : front = SubSeq(q, 1, n) /\ rest = Erased(q, n)
  OBVIOUS
<1>3. /\ Len(front) = n /\ \A i \in 1..n : front[i] = q[i]
      /\ Len(rest) = k - n /\ \A i \in 1..(k - n) : rest[i] = q[n + i]
  <2>1. Len(front) = n /\ \A i \in 1..n : front[i] = q[i]
    BY <1>2, CutOf
  <2>2. rest = SubSeq(q, n + 1, k)
    BY <1>1, <1>2 DEF Erased
  <2>3. \A i \in (n + 1)..k : q[i] \in S
    BY <1>1, ElementOfSeq
  <2>4. Len(rest) = k - n /\ \A i \in 1..(k - n) : rest[i] = q[n + i]
    BY <1>1, <2>2, <2>3, SubSeqProperties
  <2>. QED
    BY <2>1, <2>4
<1>4. \A i \in 1..n : q[i] = front[i]
  BY <1>3
<1>5. \A i \in 1..(k - n) : q[n + i] = rest[i]
  BY <1>3
<1>6. Len(q) = Len(front) + Len(rest)
  BY <1>1, <1>3
<1>7. Parts(q, front, rest)
  BY <1>3, <1>4, <1>5, <1>6 DEF Parts
<1>. QED
  BY <1>2, <1>7

\* Two queues one after the other.
LEMMA JoinOf ==
    ASSUME NEW S, NEW p \in Seq(S), NEW q \in Seq(S)
    PROVE  /\ Len(p \o q) = Len(p) + Len(q)
           /\ \A i \in 1..Len(p) : (p \o q)[i] = p[i]
           /\ \A i \in 1..Len(q) : (p \o q)[Len(p) + i] = q[i]
<1>1. PICK m \in Nat, n \in Nat : m = Len(p) /\ n = Len(q)
  BY LenProperties
<1>2. /\ p \o q \in Seq(S) /\ Len(p \o q) = m + n
      /\ \A i \in 1..(m + n) : (p \o q)[i] = IF i <= m THEN p[i] ELSE q[i - m]
  BY <1>1, ConcatProperties
<1>3. ASSUME NEW i \in 1..n PROVE (p \o q)[m + i] = q[i]
  <2>1. m + i \in 1..(m + n) /\ ~(m + i <= m) /\ (m + i) - m = i
    BY <1>1
  <2>. QED
    BY <1>2, <2>1
<1>. QED
  BY <1>1, <1>2, <1>3

\* They are its parts.
LEMMA JoinParts ==
    ASSUME NEW S, NEW p \in Seq(S), NEW q \in Seq(S)
    PROVE  Parts(p \o q, p, q)
<1>1. PICK s : s = p \o q
  OBVIOUS
<1>2. Len(s) = Len(p) + Len(q)
  BY <1>1, JoinOf
<1>3. \A i \in 1..Len(p) : s[i] = p[i]
  BY <1>1, JoinOf
<1>4. \A i \in 1..Len(q) : s[Len(p) + i] = q[i]
  BY <1>1, JoinOf
<1>5. Parts(s, p, q)
  BY <1>2, <1>3, <1>4 DEF Parts
<1>. QED
  BY <1>1, <1>5
-----------------------------------------------------------------------------
\* How often something is in a queue.

\* Counting is finite.
LEMMA CountType ==
    ASSUME NEW S, NEW s \in Seq(S), NEW x
    PROVE  /\ Count(s, x) \in Nat
           /\ IsFiniteSet({i \in 1..Len(s) : s[i] = x})
           /\ Count(s, x) = Cardinality({i \in 1..Len(s) : s[i] = x})
<1>1. PICK n \in Nat : n = Len(s) /\ DOMAIN s = 1..n
  BY LenProperties
<1>2. IsFiniteSet(1..n)
  BY FS_Interval
<1>3. IsFiniteSet({i \in 1..n : s[i] = x})
  BY <1>2, FS_Subset
<1>4. Cardinality({i \in 1..n : s[i] = x}) \in Nat
  BY <1>3, FS_CardinalityType
<1>. QED
  BY <1>1, <1>3, <1>4 DEF Count

\* Nothing is in an empty queue, nor in one where nobody has put it.
LEMMA CountNone ==
    ASSUME NEW S, NEW s \in Seq(S), NEW x, \A i \in 1..Len(s) : s[i] # x
    PROVE  Count(s, x) = 0
<1>1. {i \in 1..Len(s) : s[i] = x} = {}
  OBVIOUS
<1>2. Count(s, x) = Cardinality({})
  <2>1. Count(s, x) = Cardinality({i \in 1..Len(s) : s[i] = x})
    BY CountType
  <2>. QED
    BY <1>1, <2>1
<1>. QED
  BY <1>2, FS_EmptySet

\* Nothing occurs in the empty sequence.
LEMMA CountEmpty == \A x : Count(<<>>, x) = 0
<1>1. ASSUME NEW x PROVE Count(<<>>, x) = 0
  <2>1. PICK s \in Seq({0}) : s = <<>> /\ Len(s) = 0
    BY EmptySeq, Zenon
  <2>2. \A i \in 1..Len(s) : s[i] # x
    BY <2>1
  <2>3. Count(s, x) = 0
    BY <2>2, CountNone
  <2>. QED
    BY <2>1, <2>3
<1>. QED
  BY <1>1

\* How often an element occurs in a sequence of one.
LEMMA CountOne ==
    ASSUME NEW S, NEW s \in Seq(S), Len(s) = 1, NEW x
    PROVE  Count(s, x) = IF s[1] = x THEN 1 ELSE 0
<1>1. CASE s[1] = x
  <2>1. {i \in 1..Len(s) : s[i] = x} = {1}
    BY <1>1
  <2>2. Count(s, x) = Cardinality({1})
    <3>1. Count(s, x) = Cardinality({i \in 1..Len(s) : s[i] = x})
      BY CountType
    <3>. QED
      BY <2>1, <3>1
  <2>. QED
    BY <1>1, <2>2, FS_Singleton
<1>2. CASE s[1] # x
  BY <1>2, CountNone
<1>. QED
  BY <1>1, <1>2

\* What is in a queue is counted, and what is in two positions twice.
LEMMA CountAt ==
    ASSUME NEW S, NEW s \in Seq(S), NEW i \in 1..Len(s)
    PROVE  /\ Count(s, s[i]) >= 1
           /\ \A j \in 1..Len(s) : j # i /\ s[j] = s[i] => Count(s, s[i]) >= 2
<1>1. PICK x, T : x = s[i] /\ T = {j \in 1..Len(s) : s[j] = x}
  OBVIOUS
<1>2. IsFiniteSet(T) /\ Count(s, x) = Cardinality(T) /\ Cardinality(T) \in Nat
  <2>1. /\ Count(s, x) \in Nat /\ IsFiniteSet({j \in 1..Len(s) : s[j] = x})
        /\ Count(s, x) = Cardinality({j \in 1..Len(s) : s[j] = x})
    BY CountType
  <2>. QED
    BY <1>1, <2>1
<1>3. PICK U : U = T \ {i}
  OBVIOUS
<1>4. IsFiniteSet(U) /\ Cardinality(U) = Cardinality(T) - 1
  <2>1. i \in T
    BY <1>1
  <2>. QED
    BY <1>2, <1>3, <2>1, FS_RemoveElement
<1>5. Cardinality(U) \in Nat
  BY <1>4, FS_CardinalityType
<1>6. ASSUME NEW j \in 1..Len(s), j # i, s[j] = x PROVE Cardinality(U) # 0
  <2>1. U # {}
    BY <1>1, <1>3, <1>6
  <2>. QED
    BY <1>4, <2>1, FS_EmptySet
<1>7. Count(s, x) >= 1 /\ (Cardinality(U) # 0 => Count(s, x) >= 2)
  BY <1>2, <1>4, <1>5
<1>. QED
  BY <1>1, <1>6, <1>7

\* A queue that is cut into two holds what the parts hold.
LEMMA CountParts ==
    ASSUME NEW S, NEW s \in Seq(S), NEW p \in Seq(S), NEW q \in Seq(S), NEW x,
           Parts(s, p, q)
    PROVE  Count(s, x) = Count(p, x) + Count(q, x)
<1>0. /\ Len(s) = Len(p) + Len(q)
      /\ \A i \in 1..Len(p) : s[i] = p[i]
      /\ \A i \in 1..Len(q) : s[Len(p) + i] = q[i]
  BY DEF Parts
<1>1. PICK m \in Nat, n \in Nat : m = Len(p) /\ n = Len(q)
  BY LenProperties
<1>2. PICK A, B, C, D : /\ A = {i \in 1..m : p[i] = x} /\ B = {i \in 1..n : q[i] = x}
                        /\ C = {i \in 1..(m + n) : s[i] = x}
                        /\ D = {i \in (m + 1)..(m + n) : s[i] = x}
  OBVIOUS
<1>3. /\ IsFiniteSet(A) /\ IsFiniteSet(B) /\ Count(p, x) = Cardinality(A)
      /\ Count(q, x) = Cardinality(B) /\ Count(s, x) = Cardinality(C)
      /\ Count(p, x) \in Nat /\ Count(q, x) \in Nat
  <2>1. /\ Count(p, x) \in Nat /\ IsFiniteSet({i \in 1..Len(p) : p[i] = x})
        /\ Count(p, x) = Cardinality({i \in 1..Len(p) : p[i] = x})
    BY CountType
  <2>2. /\ Count(q, x) \in Nat /\ IsFiniteSet({i \in 1..Len(q) : q[i] = x})
        /\ Count(q, x) = Cardinality({i \in 1..Len(q) : q[i] = x})
    BY CountType
  <2>3. Count(s, x) = Cardinality({i \in 1..Len(s) : s[i] = x})
    BY CountType
  <2>4. Len(s) = m + n
    BY <1>0, <1>1
  <2>. QED
    BY <1>1, <1>2, <2>1, <2>2, <2>3, <2>4
<1>4. PICK f : f = [i \in B |-> m + i]
  OBVIOUS
<1>5. f \in Bijection(B, D)
  <2>1. \A i \in B : f[i] \in D
    BY <1>0, <1>1, <1>2, <1>4
  <2>2. \A i, j \in B : f[i] = f[j] => i = j
    BY <1>1, <1>2, <1>4
  <2>3. \A j \in D : \E i \in B : f[i] = j
    <3>1. SUFFICES ASSUME NEW j \in D PROVE \E i \in B : f[i] = j
      OBVIOUS
    <3>2. j - m \in 1..n /\ m + (j - m) = j
      BY <1>2
    <3>3. q[j - m] = s[m + (j - m)]
      BY <1>0, <1>1, <3>2
    <3>4. j - m \in B
      BY <1>2, <3>2, <3>3
    <3>. QED
      BY <1>4, <3>2, <3>4
  <2>4. f \in [B -> D]
    BY <1>4, <2>1
  <2>. QED
    BY <2>2, <2>3, <2>4 DEF Bijection, Injection, IsInjective, Surjection
<1>6. IsFiniteSet(D) /\ Cardinality(D) = Cardinality(B)
  BY <1>3, <1>5, FS_Bijection DEF ExistsBijection
<1>7. C = A \cup D /\ A \cap D = {}
  BY <1>0, <1>1, <1>2
<1>8. Cardinality(C) = Cardinality(A) + Cardinality(D) - Cardinality(A \cap D)
  BY <1>3, <1>6, <1>7, FS_Union
<1>9. Cardinality(A \cap D) = 0
  BY <1>7, FS_EmptySet
<1>10. Cardinality(C) = Cardinality(A) + Cardinality(B)
  BY <1>3, <1>6, <1>8, <1>9
<1>. QED
  BY <1>3, <1>10

\* Popping, appending, joining and cutting a queue.
LEMMA CountChanges ==
    ASSUME NEW S, NEW s \in Seq(S), NEW x
    PROVE  /\ \A y \in S : Count(Append(s, y), x) = Count(s, x) + (IF y = x THEN 1 ELSE 0)
           /\ \A t \in Seq(S) : Count(s \o t, x) = Count(s, x) + Count(t, x)
           /\ \A n \in 0..Len(s) : Count(s, x) = Count(SubSeq(s, 1, n), x) + Count(Erased(s, n), x)
           /\ s # <<>> => Count(s, x) = (IF Head(s) = x THEN 1 ELSE 0) + Count(Tail(s), x)
<1>1. ASSUME NEW t \in Seq(S) PROVE Count(s \o t, x) = Count(s, x) + Count(t, x)
  <2>1. PICK r \in Seq(S) : r = s \o t
    BY ConcatProperties
  <2>2. Parts(r, s, t)
    BY <2>1, JoinParts
  <2>3. Count(r, x) = Count(s, x) + Count(t, x)
    BY <2>2, CountParts
  <2>. QED
    BY <2>1, <2>3
<1>2. ASSUME NEW y \in S PROVE Count(Append(s, y), x) = Count(s, x) + (IF y = x THEN 1 ELSE 0)
  <2>1. PICK one \in Seq(S) : Len(one) = 1 /\ one[1] = y
    <3>1. [i \in 1..1 |-> y] \in Seq(S)
      BY IsASeq
    <3>2. PICK r \in Seq(S) : r = [i \in 1..1 |-> y]
      BY <3>1
    <3>3. DOMAIN r = 1..1 /\ r[1] = y
      BY <3>2
    <3>4. Len(r) = 1
      BY <3>3, LenProperties
    <3>. QED
      BY <3>3, <3>4
  <2>2. PICK n \in Nat : n = Len(s)
    BY LenProperties
  <2>3. PICK r \in Seq(S) : r = Append(s, y)
    BY AppendProperties
  <2>4. Len(r) = n + 1 /\ (\A i \in 1..n : r[i] = s[i]) /\ r[n + 1] = y
    BY <2>2, <2>3, AppendProperties
  <2>5. Parts(r, s, one)
    BY <2>1, <2>2, <2>4 DEF Parts
  <2>6. Count(r, x) = Count(s, x) + Count(one, x)
    BY <2>5, CountParts
  <2>7. Count(one, x) = IF y = x THEN 1 ELSE 0
    BY <2>1, CountOne
  <2>. QED
    BY <2>3, <2>6, <2>7
<1>3. ASSUME NEW n \in 0..Len(s)
      PROVE  Count(s, x) = Count(SubSeq(s, 1, n), x) + Count(Erased(s, n), x)
  <2>1. /\ SubSeq(s, 1, n) \in Seq(S) /\ Erased(s, n) \in Seq(S)
        /\ Parts(s, SubSeq(s, 1, n), Erased(s, n))
    <3>1. SubSeq(s, 1, n) \in Seq(S) /\ Erased(s, n) \in Seq(S)
      BY CutOf
    <3>2. Parts(s, SubSeq(s, 1, n), Erased(s, n))
      BY CutParts
    <3>. QED
      BY <3>1, <3>2
  <2>2. PICK p, q : p = SubSeq(s, 1, n) /\ q = Erased(s, n)
    OBVIOUS
  <2>3. p \in Seq(S) /\ q \in Seq(S) /\ Parts(s, p, q)
    BY <2>1, <2>2
  <2>4. Count(s, x) = Count(p, x) + Count(q, x)
    BY <2>3, CountParts
  <2>. QED
    BY <2>2, <2>4
<1>4. ASSUME s # <<>>
      PROVE  Count(s, x) = (IF Head(s) = x THEN 1 ELSE 0) + Count(Tail(s), x)
  <2>1. PICK m \in Nat : Len(s) = m + 1
    <3>1. Len(s) \in Nat /\ Len(s) # 0
      BY <1>4, EmptySeq, LenProperties
    <3>2. Len(s) - 1 \in Nat /\ Len(s) = (Len(s) - 1) + 1
      BY <3>1
    <3>. QED
      BY <3>2
  <2>2. PICK one \in Seq(S) : Len(one) = 1 /\ one[1] = Head(s)
    <3>1. 1 \in 0..Len(s)
      BY <2>1
    <3>2. SubSeq(s, 1, 1) \in Seq(S) /\ Len(SubSeq(s, 1, 1)) = 1 /\ SubSeq(s, 1, 1)[1] = s[1]
      BY <3>1, CutOf
    <3>3. Head(s) = s[1]
      BY <1>4, HeadTailProperties
    <3>. QED
      BY <3>2, <3>3
  <2>3. PICK t \in Seq(S) : t = Tail(s) /\ Len(t) = m /\ \A i \in 1..m : t[i] = s[i + 1]
    <3>1. PICK t \in Seq(S) : t = Tail(s)
      BY <1>4, HeadTailProperties
    <3>2. Len(t) = m /\ \A i \in 1..Len(t) : t[i] = s[i + 1]
      BY <1>4, <2>1, <3>1, HeadTailProperties
    <3>. QED
      BY <3>1, <3>2
  <2>4. Head(s) = s[1]
    BY <1>4, HeadTailProperties
  <2>5. Parts(s, one, t)
    BY <2>1, <2>2, <2>3, <2>4 DEF Parts
  <2>6. Count(s, x) = Count(one, x) + Count(t, x)
    BY <2>5, CountParts
  <2>. QED
    BY <2>2, <2>3, <2>6, CountOne
<1>. QED
  BY <1>1, <1>2, <1>3, <1>4
-----------------------------------------------------------------------------
\* The order in which the requests of a connection wait: those in the pool p, then those
\* in the receive buffer r; and those in the hands of the workers wk came before.

Rising(r) == \A i, j \in 1..Len(r) : i < j => r[i] < r[j]
RisingTasks(p, c) ==
    \A i, j \in 1..Len(p) : i < j /\ p[i].c = c /\ p[j].c = c => p[i].m < p[j].m
TasksBefore(p, r, c) == \A i \in 1..Len(p), j \in 1..Len(r) : p[i].c = c => p[i].m < r[j]
BeforeAll(m, p, r, c) == /\ \A i \in 1..Len(p) : p[i].c = c => m < p[i].m
                         /\ \A j \in 1..Len(r) : m < r[j]
Holding(h, c) == h.at \in {"check", "queue"} /\ h.c = c

Ordered(p, wk, r, c) ==
    /\ Rising(r) /\ RisingTasks(p, c) /\ TasksBefore(p, r, c)
    /\ \A w \in Workers : Holding(wk[w], c) => BeforeAll(wk[w].m, p, r, c)

\* A new request waits behind all others.
LEMMA OrderedAsk ==
    ASSUME NEW p, NEW wk, NEW c, NEW r \in Seq(Requests), NEW a \in Requests,
           Ordered(p, wk, r, c), \A i \in 1..Len(r) : r[i] < a,
           \A i \in 1..Len(p) : p[i].c = c => p[i].m < a,
           \A w \in Workers : Holding(wk[w], c) => wk[w].m < a
    PROVE  Ordered(p, wk, Append(r, a), c)
<1>1. PICK n \in Nat : n = Len(r)
  BY LenProperties
<1>2. PICK t : t = Append(r, a)
  OBVIOUS
<1>3. Len(t) = n + 1 /\ (\A i \in 1..n : t[i] = r[i]) /\ t[n + 1] = a
  BY <1>1, <1>2, AppendProperties
<1>4. \A i \in 1..(n + 1) : i \in 1..n \/ i = n + 1
  BY <1>1
<1>5. Rising(t)
  BY <1>1, <1>3, <1>4 DEF Ordered, Rising
<1>6. TasksBefore(p, t, c)
  BY <1>1, <1>3, <1>4 DEF Ordered, TasksBefore
<1>7. ASSUME NEW w \in Workers, Holding(wk[w], c) PROVE BeforeAll(wk[w].m, p, t, c)
  BY <1>1, <1>3, <1>4, <1>7 DEF Ordered, BeforeAll
<1>. QED
  BY <1>2, <1>5, <1>6, <1>7 DEF Ordered

\* Reading moves all of r behind p.
LEMMA OrderedRead ==
    ASSUME NEW p \in Seq(Tasks), NEW wk, NEW c, NEW r \in Seq(Requests), NEW q,
           Ordered(p, wk, r, c), Len(q) = Len(p) + Len(r),
           \A i \in 1..Len(p) : q[i] = p[i],
           \A i \in 1..Len(r) : q[Len(p) + i] = [c |-> c, m |-> r[i]]
    PROVE  Ordered(q, wk, <<>>, c)
<1>1. PICK l \in Nat, n \in Nat : l = Len(p) /\ n = Len(r)
  BY LenProperties
<1>2. ASSUME NEW i \in 1..Len(q), i \notin 1..l
      PROVE  i - l \in 1..n /\ q[i].m = r[i - l]
  <2>1. PICK k \in 1..n : i = l + k
    <3>1. i \in 1..(l + n)
      BY <1>1, <1>2
    <3>2. i - l \in 1..n /\ i = l + (i - l)
      BY <1>1, <1>2, <3>1
    <3>. QED
      BY <3>2
  <2>2. q[l + k] = [c |-> c, m |-> r[k]] /\ i - l = k
    BY <1>1, <2>1
  <2>. QED
    BY <2>1, <2>2
<1>3. RisingTasks(q, c)
  <2>1. SUFFICES ASSUME NEW i \in 1..Len(q), NEW j \in 1..Len(q), i < j, q[i].c = c, q[j].c = c
                 PROVE  q[i].m < q[j].m
    BY DEF RisingTasks
  <2>2. CASE j \in 1..l
    <3>1. i \in 1..l
      BY <1>1, <2>1, <2>2
    <3>. QED
      BY <1>1, <2>1, <2>2, <3>1 DEF Ordered, RisingTasks
  <2>3. CASE j \notin 1..l /\ i \in 1..l
    <3>1. j - l \in 1..n /\ q[j].m = r[j - l] /\ q[i] = p[i]
      BY <1>1, <1>2, <2>3
    <3>. QED
      BY <1>1, <2>1, <2>3, <3>1 DEF Ordered, TasksBefore
  <2>4. CASE j \notin 1..l /\ i \notin 1..l
    <3>1. /\ j - l \in 1..n /\ q[j].m = r[j - l]
          /\ i - l \in 1..n /\ q[i].m = r[i - l] /\ i - l < j - l
      <4>1. j - l \in 1..n /\ q[j].m = r[j - l] /\ i - l \in 1..n /\ q[i].m = r[i - l]
        BY <1>1, <1>2, <2>4
      <4>2. i - l < j - l
        <5>1. i \in Int /\ j \in Int
          BY <1>1, <2>1
        <5>. QED
          BY <1>1, <2>1, <5>1
      <4>. QED
        BY <4>1, <4>2
    <3>. QED
      BY <1>1, <3>1 DEF Ordered, Rising
  <2>. QED
    BY <2>2, <2>3, <2>4
<1>4. ASSUME NEW w \in Workers, Holding(wk[w], c) PROVE BeforeAll(wk[w].m, q, <<>>, c)
  <2>1. BeforeAll(wk[w].m, p, r, c)
    BY <1>4 DEF Ordered
  <2>2. ASSUME NEW i \in 1..Len(q), q[i].c = c PROVE wk[w].m < q[i].m
    <3>1. CASE i \in 1..l
      BY <1>1, <2>1, <2>2, <3>1 DEF BeforeAll
    <3>2. CASE i \notin 1..l
      BY <1>1, <1>2, <2>1, <3>2 DEF BeforeAll
    <3>. QED
      BY <3>1, <3>2
  <2>. QED
    BY <2>2 DEF BeforeAll
<1>. QED
  BY <1>3, <1>4 DEF Ordered, Rising, TasksBefore

\* Tasks of other connections are queued in between.
LEMMA OrderedOther ==
    ASSUME NEW p \in Seq(Tasks), NEW wk, NEW c, NEW r, NEW q, Ordered(p, wk, r, c),
           \A i \in 1..Len(q) : q[i].c = c => i \in 1..Len(p) /\ q[i] = p[i]
    PROVE  Ordered(q, wk, r, c)
<1>1. RisingTasks(q, c)
  BY DEF Ordered, RisingTasks
<1>2. TasksBefore(q, r, c)
  BY DEF Ordered, TasksBefore
<1>3. ASSUME NEW w \in Workers, Holding(wk[w], c) PROVE BeforeAll(wk[w].m, q, r, c)
  BY <1>3 DEF Ordered, BeforeAll
<1>. QED
  BY <1>1, <1>2, <1>3 DEF Ordered

\* Popping the pool, whether or not the worker's task is one of c.
LEMMA OrderedTake ==
    ASSUME NEW p \in Seq(Tasks), p # <<>>, NEW wk, NEW c, NEW r, NEW w0 \in Workers, NEW wk1,
           Ordered(p, wk, r, c), \A w \in Workers \ {w0} : wk1[w] = wk[w],
           wk1[w0].c = p[1].c, wk1[w0].m = p[1].m
    PROVE  Ordered(Tail(p), wk1, r, c)
<1>1. PICK l \in Nat : l = Len(p) /\ 1 \in 1..l
  <2>1. Len(p) \in Nat /\ Len(p) # 0
    BY EmptySeq, LenProperties
  <2>. QED
    BY <2>1
<1>2. PICK q : q = Tail(p)
  OBVIOUS
<1>3. Len(q) = l - 1 /\ \A i \in 1..(l - 1) : q[i] = p[i + 1]
  BY <1>1, <1>2, HeadTailProperties
<1>4. \A i \in 1..Len(q) : i + 1 \in 1..l /\ 1 < i + 1 /\ q[i] = p[i + 1]
  BY <1>1, <1>3
<1>5. RisingTasks(q, c)
  <2>1. SUFFICES ASSUME NEW i \in 1..Len(q), NEW j \in 1..Len(q), i < j, q[i].c = c, q[j].c = c
                 PROVE  q[i].m < q[j].m
    BY DEF RisingTasks
  <2>2. i + 1 < j + 1
    BY <1>1, <1>3, <2>1
  <2>. QED
    BY <1>1, <1>4, <2>1, <2>2 DEF Ordered, RisingTasks
<1>6. TasksBefore(q, r, c)
  BY <1>1, <1>4 DEF Ordered, TasksBefore
<1>7. ASSUME NEW w \in Workers, Holding(wk1[w], c) PROVE BeforeAll(wk1[w].m, q, r, c)
  <2>1. CASE w = w0
    <3>1. p[1].c = c
      BY <1>7, <2>1 DEF Holding
    <3>2. \A i \in 1..Len(q) : q[i].c = c => p[1].m < q[i].m
      BY <1>1, <1>4, <3>1 DEF Ordered, RisingTasks
    <3>3. \A j \in 1..Len(r) : p[1].m < r[j]
      BY <1>1, <3>1 DEF Ordered, TasksBefore
    <3>. QED
      BY <2>1, <3>2, <3>3 DEF BeforeAll
  <2>2. CASE w # w0
    <3>1. BeforeAll(wk[w].m, p, r, c) /\ wk1[w] = wk[w]
      BY <1>7, <2>2 DEF Ordered
    <3>. QED
      BY <1>1, <1>4, <3>1 DEF BeforeAll
  <2>. QED
    BY <2>1, <2>2
<1>. QED
  BY <1>2, <1>5, <1>6, <1>7 DEF Ordered

\* Workers let go.
LEMMA OrderedHands ==
    ASSUME NEW p, NEW wk, NEW c, NEW r, NEW wk1, Ordered(p, wk, r, c),
           \A w \in Workers : Holding(wk1[w], c) => Holding(wk[w], c) /\ wk1[w].m = wk[w].m
    PROVE  Ordered(p, wk1, r, c)
BY DEF Ordered
-----------------------------------------------------------------------------
\* The order of replies: few requests before m are missing in S, what has gone before.

FewMissing(m, S) == Cardinality(1..(m - 1) \ S) < Cardinality(Workers)
Upto(s, j) == {s[i] : i \in 1..j}
TasksUpto(q, j, c) == {q[i].m : i \in {k \in 1..j : q[k].c = c}}

\* On the client's side got, in outputbuffer_ out and in the loop's queue q.
SentInTurn(got) == \A j \in 1..Len(got) : FewMissing(got[j], Upto(got, j))
OutInTurn(got, out) ==
    \A j \in 1..Len(out) : FewMissing(out[j], Upto(got, Len(got)) \cup Upto(out, j))
QueueInTurn(got, out, q, c) ==
    \A j \in 1..Len(q) : q[j].c = c
      => FewMissing(q[j].m, Upto(got, Len(got)) \cup Upto(out, Len(out)) \cup TasksUpto(q, j, c))

\* The more has gone before, the less is missing.
LEMMA FewMore ==
    ASSUME NEW m \in Nat, NEW S, NEW T, S \subseteq T, FewMissing(m, S)
    PROVE  FewMissing(m, T)
<1>1. IsFiniteSet(1..(m - 1))
  <2>1. 1 \in Int /\ m - 1 \in Int
    OBVIOUS
  <2>. QED
    BY <2>1, FS_Interval, Zenon
<1>2. PICK A, B : A = 1..(m - 1) \ S /\ B = 1..(m - 1) \ T
  OBVIOUS
<1>3. IsFiniteSet(A) /\ B \in SUBSET A
  <2>1. A \in SUBSET (1..(m - 1))
    BY <1>2
  <2>. QED
    BY <1>1, <1>2, <2>1, FS_Subset
<1>4. Cardinality(B) <= Cardinality(A) /\ Cardinality(A) \in Nat /\ Cardinality(B) \in Nat
  BY <1>3, FS_Subset, FS_CardinalityType
<1>5. Cardinality(A) < Cardinality(Workers)
  BY <1>2 DEF FewMissing
<1>6. Cardinality(Workers) \in Nat
  BY FS_CardinalityType, ReactorAssumption
<1>7. Cardinality(B) < Cardinality(Workers)
  BY <1>4, <1>5, <1>6
<1>. QED
  BY <1>2, <1>7 DEF FewMissing

\* queueinloop(): a reply of c, or of another connection.
LEMMA InTurnQueued ==
    ASSUME NEW got, NEW out, NEW q \in Seq(Tasks), NEW c, NEW task \in Tasks,
           QueueInTurn(got, out, q, c),
           task.c = c => FewMissing(task.m, Upto(got, Len(got)) \cup Upto(out, Len(out))
                                              \cup TasksUpto(q, Len(q), c))
    PROVE  QueueInTurn(got, out, Append(q, task), c)
<1>1. PICK n \in Nat : n = Len(q)
  BY LenProperties
<1>2. PICK t : t = Append(q, task)
  OBVIOUS
<1>3. Len(t) = n + 1 /\ (\A i \in 1..n : t[i] = q[i]) /\ t[n + 1] = task
  BY <1>1, <1>2, AppendProperties
<1>4. PICK S : S = Upto(got, Len(got)) \cup Upto(out, Len(out))
  OBVIOUS
<1>5. ASSUME NEW j \in 1..Len(t), t[j].c = c
      PROVE  FewMissing(t[j].m, S \cup TasksUpto(t, j, c))
  <2>1. t[j] \in Tasks
    BY <1>1, <1>3, <1>5, ElementOfSeq
  <2>2. t[j].m \in Nat
    BY <2>1, ReactorAssumption DEF Tasks, Requests
  <2>3. CASE j \in 1..n
    <3>1. FewMissing(q[j].m, S \cup TasksUpto(q, j, c)) /\ t[j] = q[j]
      BY <1>1, <1>3, <1>4, <1>5, <2>3 DEF QueueInTurn
    <3>2. TasksUpto(q, j, c) \subseteq TasksUpto(t, j, c)
      <4>1. \A i \in 1..j : t[i] = q[i]
        BY <1>1, <1>3, <2>3
      <4>. QED
        BY <4>1 DEF TasksUpto
    <3>. QED
      BY <2>2, <3>1, <3>2, FewMore
  <2>4. CASE j = n + 1
    <3>1. FewMissing(t[j].m, S \cup TasksUpto(q, n, c))
      BY <1>1, <1>3, <1>4, <1>5, <2>4
    <3>2. TasksUpto(q, n, c) \subseteq TasksUpto(t, j, c)
      <4>1. \A i \in 1..n : i \in 1..j /\ t[i] = q[i]
        BY <1>1, <1>3, <2>4
      <4>. QED
        BY <4>1 DEF TasksUpto
    <3>. QED
      BY <2>2, <3>1, <3>2, FewMore
  <2>. QED
    BY <1>1, <1>3, <2>3, <2>4
<1>. QED
  BY <1>2, <1>4, <1>5 DEF QueueInTurn

\* A task at the head of the queue goes, to the end of outputbuffer_ if it is one of c.
LEMMA InTurnPopped ==
    ASSUME NEW got, NEW out \in Seq(Requests), NEW q \in Seq(Tasks), NEW c, q # <<>>,
           OutInTurn(got, out), QueueInTurn(got, out, q, c)
    PROVE  /\ Head(q).c # c => QueueInTurn(got, out, Tail(q), c)
           /\ Head(q).c = c => /\ OutInTurn(got, Append(out, Head(q).m))
                               /\ QueueInTurn(got, Append(out, Head(q).m), Tail(q), c)
<1>1. PICK l \in Nat : l = Len(q) /\ 1 \in 1..l
  <2>1. Len(q) \in Nat /\ Len(q) # 0
    BY EmptySeq, LenProperties
  <2>. QED
    BY <2>1
<1>2. PICK t, h : t = Tail(q) /\ h = Head(q)
  OBVIOUS
<1>3. /\ Len(t) = l - 1 /\ h = q[1] /\ h \in Tasks
      /\ \A i \in 1..Len(t) : t[i] = q[i + 1]
  BY <1>1, <1>2, HeadTailProperties
<1>4. \A i \in 1..Len(t) : i + 1 \in 1..l /\ t[i] = q[i + 1]
  BY <1>1, <1>3
<1>5. h.m \in Requests /\ Requests \subseteq Nat
  BY <1>3, ReactorAssumption DEF Tasks, Requests
<1>6. PICK G : G = Upto(got, Len(got))
  OBVIOUS
<1>7. ASSUME NEW out1, Upto(out, Len(out)) \subseteq Upto(out1, Len(out1)),
             h.c = c => h.m \in Upto(out1, Len(out1))
      PROVE  QueueInTurn(got, out1, t, c)
  <2>1. PICK O, O1 : O = Upto(out, Len(out)) /\ O1 = Upto(out1, Len(out1))
    OBVIOUS
  <2>2. SUFFICES ASSUME NEW j \in 1..Len(t), t[j].c = c
                 PROVE  FewMissing(t[j].m, G \cup O1 \cup TasksUpto(t, j, c))
    BY <1>6, <2>1 DEF QueueInTurn
  <2>3. j + 1 \in 1..l /\ t[j] = q[j + 1] /\ j \in Nat
    BY <1>1, <1>3, <1>4
  <2>4. t[j].m \in Nat
    <3>1. t[j] \in Tasks
      BY <1>1, <2>3, ElementOfSeq
    <3>. QED
      BY <1>5, <3>1 DEF Tasks
  <2>5. FewMissing(t[j].m, G \cup O \cup TasksUpto(q, j + 1, c))
    BY <1>1, <1>6, <2>1, <2>2, <2>3 DEF QueueInTurn
  <2>6. ASSUME NEW x \in TasksUpto(q, j + 1, c) PROVE x \in O1 \cup TasksUpto(t, j, c)
    <3>1. PICK i \in 1..(j + 1) : q[i].c = c /\ x = q[i].m
      BY <2>6 DEF TasksUpto
    <3>2. CASE i = 1
      BY <1>3, <1>7, <2>1, <3>1, <3>2
    <3>3. CASE i # 1
      <4>1. i - 1 \in 1..j /\ i - 1 \in 1..Len(t) /\ (i - 1) + 1 = i
        BY <1>1, <1>3, <2>3, <3>1, <3>3
      <4>2. t[i - 1] = q[i]
        BY <1>4, <4>1
      <4>. QED
        BY <3>1, <4>1, <4>2 DEF TasksUpto
    <3>. QED
      BY <3>2, <3>3
  <2>7. G \cup O \cup TasksUpto(q, j + 1, c) \subseteq G \cup O1 \cup TasksUpto(t, j, c)
    BY <1>7, <2>1, <2>6
  <2>. QED
    BY <2>4, <2>5, <2>7, FewMore
<1>8. ASSUME h.c # c PROVE QueueInTurn(got, out, t, c)
  BY <1>7, <1>8
<1>9. ASSUME h.c = c
      PROVE  OutInTurn(got, Append(out, h.m)) /\ QueueInTurn(got, Append(out, h.m), t, c)
  <2>1. PICK n \in Nat : n = Len(out)
    BY LenProperties
  <2>2. PICK out1 : out1 = Append(out, h.m)
    OBVIOUS
  <2>3. Len(out1) = n + 1 /\ (\A i \in 1..n : out1[i] = out[i]) /\ out1[n + 1] = h.m
    BY <1>5, <2>1, <2>2, AppendProperties
  <2>4. Upto(out, n) \subseteq Upto(out1, n + 1) /\ h.m \in Upto(out1, n + 1)
    <3>1. \A i \in 1..n : i \in 1..(n + 1) /\ out1[i] = out[i]
      BY <2>3
    <3>2. n + 1 \in 1..(n + 1)
      BY <2>1
    <3>. QED
      BY <2>3, <3>1, <3>2 DEF Upto
  <2>5. QueueInTurn(got, out1, t, c)
    BY <1>7, <2>1, <2>3, <2>4
  <2>6. ASSUME NEW j \in 1..(n + 1) PROVE FewMissing(out1[j], G \cup Upto(out1, j))
    <3>1. CASE j \in 1..n
      <4>1. Upto(out, j) \subseteq Upto(out1, j) /\ out1[j] = out[j]
        <5>1. \A i \in 1..j : out1[i] = out[i]
          BY <2>1, <2>3, <3>1
        <5>. QED
          BY <2>3, <3>1, <5>1 DEF Upto
      <4>2. FewMissing(out[j], G \cup Upto(out, j)) /\ out[j] \in Nat
        BY <1>5, <1>6, <2>1, <3>1, ElementOfSeq DEF OutInTurn
      <4>. QED
        BY <4>1, <4>2, FewMore
    <3>2. CASE j = n + 1
      <4>1. FewMissing(h.m, G \cup Upto(out, n) \cup TasksUpto(q, 1, c))
        BY <1>1, <1>3, <1>6, <1>9, <2>1 DEF QueueInTurn
      <4>2. TasksUpto(q, 1, c) \subseteq {h.m}
        <5>1. \A i \in 1..1 : i = 1
          OBVIOUS
        <5>. QED
          BY <1>3, <5>1 DEF TasksUpto
      <4>3. G \cup Upto(out, n) \cup TasksUpto(q, 1, c) \subseteq G \cup Upto(out1, j)
        BY <2>4, <3>2, <4>2
      <4>. QED
        BY <1>5, <2>3, <3>2, <4>1, <4>3, FewMore
    <3>. QED
      BY <2>1, <3>1, <3>2
  <2>. QED
    BY <1>6, <2>2, <2>3, <2>5, <2>6 DEF OutInTurn
<1>. QED
  BY <1>2, <1>8, <1>9

\* send() moves the front a of outputbuffer_ to the client and leaves b.
LEMMA InTurnSent ==
    ASSUME NEW got \in Seq(Requests), NEW out \in Seq(Requests), NEW q \in Seq(Tasks), NEW c,
           NEW n \in 0..Len(out), SentInTurn(got), OutInTurn(got, out),
           QueueInTurn(got, out, q, c)
    PROVE  LET got1 == got \o SubSeq(out, 1, n)  out1 == Erased(out, n) IN
           SentInTurn(got1) /\ OutInTurn(got1, out1) /\ QueueInTurn(got1, out1, q, c)
<1>1. PICK k \in Nat, l \in Nat : k = Len(got) /\ l = Len(out)
  BY LenProperties
<1>2. PICK a, b : a = SubSeq(out, 1, n) /\ b = Erased(out, n)
  OBVIOUS
<1>3. PICK got1 : got1 = got \o a
  OBVIOUS
<1>4. a \in Seq(Requests) /\ b \in Seq(Requests) /\ Parts(out, a, b)
  <2>1. a \in Seq(Requests) /\ b \in Seq(Requests)
    BY <1>2, CutOf
  <2>2. Parts(out, a, b)
    BY <1>2, CutParts
  <2>. QED
    BY <2>1, <2>2
<1>5. Parts(got1, got, a)
  BY <1>3, <1>4, JoinParts
<1>6. Len(a) = n /\ Len(b) = l - n /\ n \in Nat /\ n <= l /\ Len(got1) = k + n
  <2>1. Len(a) = n /\ Len(b) = l - n
    BY <1>1, <1>2, CutOf
  <2>. QED
    BY <1>1, <1>5, <2>1 DEF Parts
<1>7. /\ \A i \in 1..k : got1[i] = got[i]
      /\ \A i \in 1..n : got1[k + i] = out[i] /\ k + i \in 1..(k + n)
      /\ \A i \in 1..(l - n) : out[n + i] = b[i] /\ n + i \in 1..l
  <2>1. \A i \in 1..n : got1[k + i] = a[i] /\ out[i] = a[i]
    BY <1>1, <1>4, <1>5, <1>6 DEF Parts
  <2>2. \A i \in 1..(l - n) : out[n + i] = b[i]
    BY <1>4, <1>6 DEF Parts
  <2>3. \A i \in 1..k : got1[i] = got[i]
    BY <1>1, <1>5 DEF Parts
  <2>4. (\A i \in 1..n : k + i \in 1..(k + n)) /\ \A i \in 1..(l - n) : n + i \in 1..l
    BY <1>1, <1>6
  <2>. QED
    BY <2>1, <2>2, <2>3, <2>4
<1>8. PICK G, G1 : G = Upto(got, k) /\ G1 = Upto(got1, k + n)
  OBVIOUS
<1>9. \A i \in 1..k : i \in 1..(k + n)
  BY <1>1, <1>6
<1>10. Upto(out, n) \subseteq G1 /\ G \subseteq G1
  BY <1>7, <1>8, <1>9 DEF Upto
<1>11. (\A i \in 1..k : got[i] \in Nat) /\ \A i \in 1..l : out[i] \in Nat
  <2>1. Requests \subseteq Nat
    BY ReactorAssumption DEF Requests
  <2>2. (\A i \in 1..k : got[i] \in Requests) /\ \A i \in 1..l : out[i] \in Requests
    BY <1>1, ElementOfSeq
  <2>. QED
    BY <2>1, <2>2
<1>12. SentInTurn(got1)
  <2>1. SUFFICES ASSUME NEW j \in 1..(k + n) PROVE FewMissing(got1[j], Upto(got1, j))
    BY <1>6 DEF SentInTurn
  <2>2. CASE j \in 1..k
    <3>1. Upto(got, j) \subseteq Upto(got1, j)
      <4>1. \A i \in 1..j : got1[i] = got[i]
        BY <1>1, <1>7, <2>2
      <4>. QED
        BY <4>1 DEF Upto
    <3>2. FewMissing(got[j], Upto(got, j))
      BY <1>1, <2>2 DEF SentInTurn
    <3>. QED
      BY <1>7, <1>11, <2>2, <3>1, <3>2, FewMore
  <2>3. CASE j \notin 1..k
    <3>1. PICK i \in 1..n : j = k + i
      <4>1. j - k \in 1..n /\ j = k + (j - k)
        BY <1>1, <1>6, <2>1, <2>3
      <4>. QED
        BY <4>1
    <3>2. i \in 1..l /\ got1[j] = out[i]
      <4>1. i \in 1..l
        BY <1>1, <1>6
      <4>2. got1[k + i] = out[i]
        BY <1>7
      <4>. QED
        BY <3>1, <4>1, <4>2
    <3>3. FewMissing(out[i], G \cup Upto(out, i))
      BY <1>1, <1>8, <3>2 DEF OutInTurn
    <3>4. G \subseteq Upto(got1, j)
      <4>1. \A x \in 1..k : x \in 1..j /\ got1[x] = got[x]
        BY <1>1, <1>6, <1>7, <3>1
      <4>. QED
        BY <1>8, <4>1 DEF Upto
    <3>5. Upto(out, i) \subseteq Upto(got1, j)
      <4>1. \A x \in 1..i : k + x \in 1..j /\ x \in 1..n
        BY <1>1, <1>6, <3>1
      <4>2. \A x \in 1..i : k + x \in 1..j /\ got1[k + x] = out[x]
        BY <1>7, <4>1
      <4>. QED
        BY <4>2 DEF Upto
    <3>6. G \cup Upto(out, i) \subseteq Upto(got1, j)
      BY <3>4, <3>5
    <3>. QED
      BY <1>11, <3>2, <3>3, <3>6, FewMore
  <2>. QED
    BY <2>2, <2>3
<1>13. ASSUME NEW j \in 0..(l - n) PROVE Upto(out, n + j) \subseteq G1 \cup Upto(b, j)
  <2>1. ASSUME NEW i \in 1..(n + j) PROVE out[i] \in Upto(out, n) \cup Upto(b, j)
    <3>1. CASE i \in 1..n
      BY <3>1 DEF Upto
    <3>2. CASE i \notin 1..n
      <4>1. PICK x \in 1..j : i = n + x /\ x \in 1..(l - n)
        <5>1. i - n \in 1..j /\ i = n + (i - n) /\ i - n \in 1..(l - n)
          BY <1>1, <1>6, <1>13, <2>1, <3>2
        <5>. QED
          BY <5>1
      <4>2. out[i] = b[x]
        BY <1>7, <4>1
      <4>. QED
        BY <4>1, <4>2 DEF Upto
    <3>. QED
      BY <3>1, <3>2
  <2>. QED
    BY <1>10, <2>1 DEF Upto
<1>14. OutInTurn(got1, b)
  <2>1. SUFFICES ASSUME NEW j \in 1..(l - n) PROVE FewMissing(b[j], G1 \cup Upto(b, j))
    BY <1>6, <1>8 DEF OutInTurn
  <2>2. n + j \in 1..l /\ out[n + j] = b[j] /\ j \in 0..(l - n)
    BY <1>6, <1>7, <2>1
  <2>3. FewMissing(b[j], G \cup Upto(out, n + j))
    BY <1>1, <1>8, <2>2 DEF OutInTurn
  <2>4. G \cup Upto(out, n + j) \subseteq G1 \cup Upto(b, j)
    BY <1>10, <1>13, <2>2
  <2>. QED
    BY <1>11, <2>2, <2>3, <2>4, FewMore
<1>15. QueueInTurn(got1, b, q, c)
  <2>1. SUFFICES ASSUME NEW j \in 1..Len(q), q[j].c = c
                 PROVE  FewMissing(q[j].m, G1 \cup Upto(b, l - n) \cup TasksUpto(q, j, c))
    BY <1>6, <1>8 DEF QueueInTurn
  <2>2. q[j].m \in Nat
    <3>1. q[j] \in Tasks
      BY <2>1, ElementOfSeq
    <3>. QED
      BY <3>1, ReactorAssumption DEF Tasks, Requests
  <2>3. FewMissing(q[j].m, G \cup Upto(out, l) \cup TasksUpto(q, j, c))
    BY <1>1, <1>8, <2>1 DEF QueueInTurn
  <2>4. Upto(out, l) \subseteq G1 \cup Upto(b, l - n)
    <3>1. l - n \in 0..(l - n) /\ n + (l - n) = l
      BY <1>1, <1>6
    <3>. QED
      BY <1>13, <3>1
  <2>5. G \cup Upto(out, l) \cup TasksUpto(q, j, c)
          \subseteq G1 \cup Upto(b, l - n) \cup TasksUpto(q, j, c)
    BY <1>10, <2>4
  <2>. QED
    BY <2>2, <2>3, <2>5, FewMore
<1>. QED
  BY <1>2, <1>3, <1>12, <1>14, <1>15

\* What is missing is in the hands of the other workers.
LEMMA InOtherHands ==
    ASSUME NEW w \in Workers, NEW wk, NEW m, NEW S,
           \A k \in 1..(m - 1) \ S : \E v \in Workers \ {w} : wk[v].m = k
    PROVE  FewMissing(m, S)
<1>1. PICK M, V : M = 1..(m - 1) \ S /\ V = {v \in Workers \ {w} : wk[v].m \in M}
  OBVIOUS
<1>2. PICK f : f = [v \in V |-> wk[v].m]
  OBVIOUS
<1>3. f \in Surjection(V, M)
  <2>1. f \in [V -> M]
    BY <1>1, <1>2
  <2>2. \A k \in M : \E v \in V : f[v] = k
    BY <1>1, <1>2
  <2>. QED
    BY <2>1, <2>2 DEF Surjection
<1>4. PICK O : O = Workers \ {w}
  OBVIOUS
<1>5. IsFiniteSet(O) /\ Cardinality(O) = Cardinality(Workers) - 1
  BY <1>4, FS_RemoveElement, ReactorAssumption
<1>6. IsFiniteSet(V) /\ Cardinality(V) <= Cardinality(O)
  <2>1. V \in SUBSET O
    BY <1>1, <1>4
  <2>. QED
    BY <1>5, <2>1, FS_Subset
<1>7. IsFiniteSet(M) /\ Cardinality(M) <= Cardinality(V)
  BY <1>3, <1>6, FS_Surjection
<1>8. /\ Cardinality(M) \in Nat /\ Cardinality(V) \in Nat /\ Cardinality(O) \in Nat
      /\ Cardinality(Workers) \in Nat
  BY <1>5, <1>6, <1>7, FS_CardinalityType, ReactorAssumption
<1>9. Cardinality(M) < Cardinality(Workers)
  BY <1>5, <1>6, <1>7, <1>8
<1>. QED
  BY <1>1, <1>9 DEF FewMissing
=============================================================================

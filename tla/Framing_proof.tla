--------------------------- MODULE Framing_proof ----------------------------
(***************************************************************************)
(* For every set of requests, every prefix and number of messages, and     *)
(* wherever read(), send() and recv() cut the streams: Connection and      *)
(* Buffer implement MessagePipe, leave no complete request behind, and     *)
(* hand each reply to a client whose recv() calls are not cut short.       *)
(*                                                                         *)
(* The invariant says where the frames of a stream begin and end; it needs *)
(* no recursion over the messages.                                         *)
(***************************************************************************)
EXTENDS Framing, Buffer_lemmas

\* The stream s consists of the frames of the messages of ms after the k-th one:
\* cut[j] is where the frame of ms[j] ends.
FrameAt(s, from, m) ==
    \A i \in 1..(HeaderSize + Len(m)) : s[from + i] = Frame(m)[i]

Cuts(s, k, ms, cut) ==
    /\ cut \in [k..Len(ms) -> 0..Len(s)]
    /\ cut[k] = 0 /\ cut[Len(ms)] = Len(s)
    /\ \A i, j \in k..Len(ms) : i <= j => cut[i] <= cut[j]
    /\ \A j \in (k + 1)..Len(ms) : /\ cut[j] = cut[j - 1] + HeaderSize + Len(ms[j])
                                   /\ FrameAt(s, cut[j - 1], ms[j])

Framed(s, k, ms) == \E cut : Cuts(s, k, ms, cut)

Streams == Seq(Bytes)

\* What Append() leaves where.
LEMMA AppendOf ==
    ASSUME NEW S, NEW s \in Seq(S), NEW e \in S, NEW n \in Nat, n = Len(s)
    PROVE  /\ Append(s, e) \in Seq(S) /\ Len(Append(s, e)) = n + 1
           /\ Append(s, e)[n + 1] = e
           /\ \A i \in 1..n : Append(s, e)[i] = s[i]
BY AppendProperties

\* Nothing is under way before the first message.
LEMMA FramedNone ==
    ASSUME NEW ms \in Seq(Streams)
    PROVE  Framed(<<>>, Len(ms), ms)
<1>1. PICK n \in Nat : n = Len(ms)
  BY LenProperties
<1>. DEFINE cut == [j \in n..n |-> 0]
<1>2. Len(<<>>) = 0
  OBVIOUS
<1>3. cut \in [n..n -> 0..0] /\ cut[n] = 0
  OBVIOUS
<1>4. \A j \in n..n : j = n
  OBVIOUS
<1>5. (n + 1)..n = {}
  OBVIOUS
<1>6. Cuts(<<>>, n, ms, cut)
  BY <1>1, <1>2, <1>3, <1>4, <1>5 DEF Cuts
<1>. QED
  BY <1>1, <1>6 DEF Framed

\* A stream with no message left is empty.
LEMMA FramedEnd ==
    ASSUME NEW s \in Streams, NEW ms \in Seq(Streams), Framed(s, Len(ms), ms)
    PROVE  s = <<>>
<1>1. Len(s) = 0
  BY DEF Framed, Cuts
<1>. QED
  BY <1>1, EmptySeq DEF Streams

\* appendwithsep() adds the frame of one more message.
LEMMA FramedMore ==
    ASSUME NEW s \in Streams, NEW ms \in Seq(Streams), NEW k \in 0..Len(ms),
           Framed(s, k, ms), NEW m \in Streams
    PROVE  Framed(s \o Frame(m), k, Append(ms, m))
<1>1. PICK cut : Cuts(s, k, ms, cut)
  BY DEF Framed
<1>2. PICK l \in Nat, n \in Nat, f \in Nat :
        l = Len(s) /\ n = Len(ms) /\ f = HeaderSize + Len(m)
  BY LenProperties DEF Streams, HeaderSize
<1>3. PICK g \in Streams : g = Frame(m) /\ Len(g) = f
  BY <1>2, FrameOf DEF Streams
<1>4. PICK s2 \in Streams : /\ s2 = s \o g /\ Len(s2) = l + f
                            /\ \A i \in 1..l : s2[i] = s[i]
                            /\ \A i \in 1..f : s2[l + i] = g[i]
  <2>1. l = Len(s) /\ f = Len(g) /\ s \in Seq(Bytes) /\ g \in Seq(Bytes)
    BY <1>2, <1>3 DEF Streams
  <2>2. /\ s \o g \in Seq(Bytes) /\ Len(s \o g) = l + f
        /\ \A i \in 1..l : (s \o g)[i] = s[i]
        /\ \A i \in 1..f : (s \o g)[l + i] = g[i]
    BY ONLY <2>1, l \in Nat, f \in Nat, ConcatOf
  <2>. QED
    BY <2>2 DEF Streams
<1>5. PICK ms2 \in Seq(Streams) : /\ ms2 = Append(ms, m) /\ Len(ms2) = n + 1 /\ ms2[n + 1] = m
                                  /\ \A j \in 1..n : ms2[j] = ms[j]
  <2>1. n = Len(ms)
    BY <1>2
  <2>2. /\ Append(ms, m) \in Seq(Streams) /\ Len(Append(ms, m)) = n + 1
        /\ Append(ms, m)[n + 1] = m
        /\ \A j \in 1..n : Append(ms, m)[j] = ms[j]
    BY ONLY <2>1, n \in Nat, ms \in Seq(Streams), m \in Streams, AppendOf
  <2>. QED
    BY <2>2, Zenon
<1>. DEFINE cut2 == [j \in k..(n + 1) |-> IF j = n + 1 THEN l + f ELSE cut[j]]
<1>6. /\ cut \in [k..n -> 0..l] /\ cut[k] = 0 /\ cut[n] = l /\ k \in 0..n
      /\ \A i, j \in k..n : i <= j => cut[i] <= cut[j]
      /\ \A j \in (k + 1)..n : cut[j] = cut[j - 1] + HeaderSize + Len(ms[j])
      /\ \A j \in (k + 1)..n : FrameAt(s, cut[j - 1], ms[j])
  BY <1>1, <1>2 DEF Cuts
<1>7. cut2 \in [k..(n + 1) -> 0..(l + f)] /\ cut2[k] = 0 /\ cut2[n + 1] = l + f
  BY <1>6
<1>8. \A i, j \in k..(n + 1) : i <= j => cut2[i] <= cut2[j]
  BY <1>6
<1>9. ASSUME NEW j \in (k + 1)..(n + 1)
      PROVE  /\ cut2[j] = cut2[j - 1] + HeaderSize + Len(ms2[j])
             /\ FrameAt(s2, cut2[j - 1], ms2[j])
  <2>1. CASE j = n + 1
    <3>1. cut2[j - 1] = l /\ cut2[j] = l + f /\ ms2[j] = m
      BY <1>5, <1>6, <2>1
    <3>2. FrameAt(s2, l, m)
      BY <1>2, <1>3, <1>4 DEF FrameAt
    <3>3. l + f = l + HeaderSize + Len(m)
      <4>1. HeaderSize \in Nat /\ Len(m) \in Nat
        BY LenProperties DEF HeaderSize, Streams
      <4>. QED
        BY <1>2, <4>1
    <3>. QED
      BY <3>1, <3>2, <3>3
  <2>2. CASE j # n + 1
    <3>1. /\ j \in (k + 1)..n /\ j - 1 \in k..n /\ j \in k..n /\ j \in 1..n
          /\ cut2[j] = cut[j] /\ cut2[j - 1] = cut[j - 1] /\ ms2[j] = ms[j]
      BY <1>5, <1>6, <2>2
    <3>2. FrameAt(s2, cut[j - 1], ms[j])
      <4>. DEFINE e == HeaderSize + Len(ms[j])
      <4>1. PICK a \in Nat, b \in Nat : a = cut[j - 1] /\ b = e /\ a + b <= l
        <5>1. HeaderSize \in Nat /\ Len(ms[j]) \in Nat
          <6>1. ms[j] \in Streams
            BY <3>1, <1>2, ElementOfSeq
          <6>. QED
            BY <6>1, LenProperties DEF HeaderSize, Streams
        <5>2. cut[j] = cut[j - 1] + HeaderSize + Len(ms[j]) /\ cut[j] \in 0..l /\ cut[j - 1] \in 0..l
          BY <1>6, <3>1
        <5>. QED
          BY <5>1, <5>2, SMTT(20)
      <4>2. \A i \in 1..b : s[a + i] = Frame(ms[j])[i]
        BY <1>6, <3>1, <4>1 DEF FrameAt
      <4>3. \A i \in 1..b : a + i \in 1..l
        BY <4>1, SMTT(30)
      <4>. QED
        BY <1>4, <4>1, <4>2, <4>3 DEF FrameAt
    <3>. QED
      BY <1>6, <3>1, <3>2
  <2>. QED
    BY <2>1, <2>2
<1>10. Cuts(s2, k, ms2, cut2)
  <2>. HIDE DEF cut2
  <2>. QED
    BY <1>4, <1>5, <1>7, <1>8, <1>9 DEF Cuts
<1>. QED
  BY <1>3, <1>4, <1>5, <1>10 DEF Framed

\* A stream with a message left begins with its frame, whole; behind it are the
\* frames of the other ones.
LEMMA FramedFirst ==
    ASSUME NEW s \in Streams, NEW ms \in Seq(Streams), NEW k \in Nat, k < Len(ms),
           Framed(s, k, ms)
    PROVE  /\ HeaderSize + Len(ms[k + 1]) <= Len(s)
           /\ FrameAt(s, 0, ms[k + 1])
           /\ Framed(erase(s, HeaderSize + Len(ms[k + 1])), k + 1, ms)
<1>1. PICK cut : Cuts(s, k, ms, cut)
  BY DEF Framed
<1>2. PICK l \in Nat, n \in Nat : l = Len(s) /\ n = Len(ms) /\ k < n
  BY LenProperties DEF Streams
<1>3. /\ cut \in [k..n -> 0..l] /\ cut[k] = 0 /\ cut[n] = l /\ k \in 0..n
      /\ \A i, j \in k..n : i <= j => cut[i] <= cut[j]
      /\ \A j \in (k + 1)..n : cut[j] = cut[j - 1] + HeaderSize + Len(ms[j])
      /\ \A j \in (k + 1)..n : FrameAt(s, cut[j - 1], ms[j])
  BY <1>1, <1>2 DEF Cuts
<1>4. PICK m \in Streams, f \in Nat : m = ms[k + 1] /\ f = HeaderSize + Len(m)
  <2>1. ms[k + 1] \in Streams
    BY <1>2, ElementOfSeq
  <2>2. HeaderSize \in Nat /\ Len(ms[k + 1]) \in Nat
    BY <2>1, LenProperties DEF HeaderSize, Streams
  <2>. QED
    BY <2>1, <2>2
<1>5. /\ k + 1 \in (k + 1)..n /\ (k + 1) - 1 = k
      /\ cut[k + 1] = f /\ f <= l /\ FrameAt(s, 0, m)
  <2>1. k + 1 \in (k + 1)..n /\ (k + 1) - 1 = k /\ k + 1 \in k..n
    BY <1>2
  <2>2. cut[k + 1] = cut[k] + HeaderSize + Len(m) /\ FrameAt(s, cut[k], m)
    BY <1>3, <1>4, <2>1
  <2>3. HeaderSize \in Nat /\ Len(m) \in Nat
    BY LenProperties DEF HeaderSize, Streams
  <2>4. cut[k + 1] = f
    BY <1>3, <1>4, <2>2, <2>3
  <2>5. cut[k + 1] \in 0..l
    BY <1>3, <2>1
  <2>. QED
    BY <1>3, <2>1, <2>2, <2>4, <2>5
<1>6. PICK s2 \in Streams : /\ s2 = erase(s, f) /\ Len(s2) = l - f
                            /\ \A i \in 1..(l - f) : s2[i] = s[f + i]
  <2>1. f \in 0..Len(s) /\ l = Len(s)
    BY <1>2, <1>5
  <2>2. /\ erase(s, f) \in Seq(Bytes) /\ Len(erase(s, f)) = Len(s) - f
        /\ \A i \in 1..(Len(s) - f) : erase(s, f)[i] = s[f + i]
    BY <2>1, EraseOf DEF Streams
  <2>. QED
    BY <2>1, <2>2 DEF Streams
<1>. DEFINE cut2 == [j \in (k + 1)..n |-> cut[j] - f]
<1>7. \A j \in (k + 1)..n : cut[j] \in Nat /\ cut[j] >= f /\ cut[j] <= l /\ cut2[j] = cut[j] - f
  BY <1>2, <1>3, <1>5, SMTT(20)
<1>8. cut2 \in [(k + 1)..n -> 0..(l - f)] /\ cut2[k + 1] = 0 /\ cut2[n] = l - f
  <2>1. \A j \in (k + 1)..n : cut[j] - f \in 0..(l - f)
    BY <1>7
  <2>2. k + 1 \in (k + 1)..n /\ n \in (k + 1)..n /\ f - f = 0
    BY <1>2
  <2>3. cut2[k + 1] = f - f /\ cut2[n] = l - f
    BY <1>3, <1>5, <2>2
  <2>. QED
    BY <2>1, <2>2, <2>3
<1>9. \A i, j \in (k + 1)..n : i <= j => cut2[i] <= cut2[j]
  BY <1>2, <1>3, <1>7
<1>10. ASSUME NEW j \in (k + 2)..n
       PROVE  /\ cut2[j] = cut2[j - 1] + HeaderSize + Len(ms[j])
              /\ FrameAt(s2, cut2[j - 1], ms[j])
  <2>1. /\ j \in (k + 1)..n /\ j - 1 \in (k + 1)..n /\ j \in 1..n
    BY <1>2
  <2>2. PICK e \in Nat, h \in Nat : e = Len(ms[j]) /\ h = HeaderSize
    <3>1. ms[j] \in Streams
      BY <2>1, <1>2, ElementOfSeq
    <3>. QED
      BY <3>1, LenProperties DEF HeaderSize, Streams
  <2>3. PICK a \in Nat, b \in Nat : /\ a = cut[j - 1] /\ b = cut[j] /\ b = a + h + e
                                    /\ a >= f /\ b <= l
    BY <1>3, <1>7, <2>1, <2>2
  <2>4. cut2[j] = b - f /\ cut2[j - 1] = a - f
    BY <1>7, <2>1, <2>3
  <2>5. cut2[j] = cut2[j - 1] + h + e
    <3>1. b - f = (a - f) + h + e
      BY <2>3, SMTT(30)
    <3>. QED
      BY <2>4, <3>1
  <2>6. \A i \in 1..(h + e) : s[a + i] = Frame(ms[j])[i]
    BY <1>3, <2>1, <2>2, <2>3 DEF FrameAt
  <2>7. \A i \in 1..(h + e) : (a - f) + i \in 1..(l - f) /\ f + ((a - f) + i) = a + i
    <3>1. a >= f /\ a + h + e <= l
      BY <2>3
    <3>. QED
      BY ONLY <3>1, a \in Nat, f \in Nat, h \in Nat, e \in Nat, l \in Nat
  <2>8. ASSUME NEW i \in 1..(h + e) PROVE s2[(a - f) + i] = Frame(ms[j])[i]
    <3>1. PICK d \in 1..(l - f) : d = (a - f) + i /\ f + d = a + i
      BY <2>7
    <3>2. s2[d] = s[a + i]
      BY <1>6, <3>1
    <3>. QED
      BY <2>6, <3>1, <3>2
  <2>. QED
    BY <2>2, <2>4, <2>5, <2>8 DEF FrameAt
<1>11. Cuts(s2, k + 1, ms, cut2)
  <2>1. (k + 1) + 1 = k + 2
    BY <1>2
  <2>. HIDE DEF cut2
  <2>. QED
    BY <1>2, <1>6, <1>8, <1>9, <1>10, <2>1 DEF Cuts
<1>. QED
  BY <1>2, <1>4, <1>5, <1>6, <1>11 DEF Framed

\* Streams one behind the other.
LEMMA Joined ==
    ASSUME NEW a \in Streams, NEW b \in Streams, NEW c \in Streams
    PROVE  (a \o b) \o c = a \o (b \o c) /\ a \o b \in Streams
BY ConcatAssociative, ConcatProperties DEF Streams

\* The same with names for the two halves.
LEMMA JoinedBy ==
    ASSUME NEW a \in Streams, NEW b \in Streams, NEW c \in Streams, NEW ab, NEW bc,
           ab = a \o b, bc = b \o c
    PROVE  ab \o c = a \o bc
<1>1. (a \o b) \o c = a \o (b \o c)
  BY Joined, ZenonT(20)
<1>. QED
  BY ONLY <1>1, ab = a \o b, bc = b \o c, Zenon

\* Four streams, regrouped.
LEMMA JoinedTwice ==
    ASSUME NEW a \in Streams, NEW b \in Streams, NEW c \in Streams, NEW d \in Streams
    PROVE  a \o (b \o (c \o d)) = (a \o (b \o c)) \o d
<1>1. \A x, y \in Streams : x \o y \in Streams
  BY Joined, Zenon
<1>2. PICK bc \in Streams : bc = b \o c
  BY <1>1, Zenon
<1>3. PICK cd \in Streams : cd = c \o d
  BY <1>1, Zenon
<1>4. PICK bcd \in Streams : bcd = b \o cd
  BY <1>1, Zenon
<1>5. PICK abc \in Streams : abc = a \o bc
  BY <1>1, Zenon
<1>6. bc \o d = b \o cd
  BY <1>2, <1>3, JoinedBy
<1>7. bcd = bc \o d
  BY <1>4, <1>6, Zenon
<1>8. abc \o d = a \o bcd
  BY <1>5, <1>7, JoinedBy
<1>. QED
  BY ONLY <1>2, <1>3, <1>4, <1>5, <1>8, Zenon

\* Bytes that go from the front of a stream to the end of the one before it.
LEMMA Moved ==
    ASSUME NEW a \in Streams, NEW b \in Streams, NEW n \in 0..Len(b)
    PROVE  /\ SubSeq(b, 1, n) \in Streams /\ erase(b, n) \in Streams
           /\ SubSeq(b, 1, n) \o erase(b, n) = b
           /\ a \o SubSeq(b, 1, n) \in Streams
           /\ (a \o SubSeq(b, 1, n)) \o erase(b, n) = a \o b
<1>1. n \in Int /\ n <= Len(b) /\ Len(b) \in Nat
  BY LenProperties DEF Streams
<1>2. PICK c \in Streams, d \in Streams : c = SubSeq(b, 1, n) /\ d = erase(b, n)
  <2>1. SubSeq(b, 1, n) \in Streams
    BY <1>1, SubSeqOf DEF Streams
  <2>2. erase(b, n) \in Streams
    BY EraseOf DEF Streams
  <2>. QED
    BY <2>1, <2>2
<1>3. c \o d = b
  <2>1. 1 \in 1..(Len(b) + 1) /\ n \in (1 - 1)..Len(b) /\ Len(b) \in n..Len(b)
    BY <1>1
  <2>2. SubSeq(b, 1, n) \o SubSeq(b, n + 1, Len(b)) = SubSeq(b, 1, Len(b))
    BY <2>1, ConcatAdjacentSubSeq DEF Streams
  <2>3. SubSeq(b, 1, Len(b)) = b
    BY SubSeqFull DEF Streams
  <2>. QED
    BY <1>2, <2>2, <2>3 DEF erase
<1>4. (a \o c) \o d = a \o (c \o d)
  BY ConcatAssociative, SMTT(30) DEF Streams
<1>5. a \o c \in Streams
  BY ConcatProperties DEF Streams
<1>. QED
  BY <1>2, <1>3, <1>4, <1>5

\* erase() within the first part of a stream leaves the second part.
LEMMA EraseConcat ==
    ASSUME NEW a \in Streams, NEW b \in Streams, NEW n \in 0..Len(a)
    PROVE  erase(a, n) \in Streams /\ erase(a \o b, n) = erase(a, n) \o b
<1>1. PICK p \in Nat, q \in Nat : p = Len(a) /\ q = Len(b)
  BY LenProperties DEF Streams
<1>2. n \in Nat /\ n <= p
  BY <1>1
<1>3. PICK c \in Streams : /\ c = erase(a, n) /\ Len(c) = p - n
                           /\ \A i \in 1..(p - n) : c[i] = a[n + i]
  <2>1. /\ erase(a, n) \in Streams /\ Len(erase(a, n)) = Len(a) - n
        /\ \A i \in 1..(Len(a) - n) : erase(a, n)[i] = a[n + i]
    BY EraseOf DEF Streams
  <2>. QED
    BY <1>1, <2>1
<1>4. PICK ab \in Streams : /\ ab = a \o b /\ Len(ab) = p + q
                            /\ \A i \in 1..p : ab[i] = a[i]
                            /\ \A i \in 1..q : ab[p + i] = b[i]
  <2>1. p = Len(a) /\ q = Len(b) /\ a \in Seq(Bytes) /\ b \in Seq(Bytes)
    BY <1>1 DEF Streams
  <2>2. /\ a \o b \in Seq(Bytes) /\ Len(a \o b) = p + q
        /\ \A i \in 1..p : (a \o b)[i] = a[i]
        /\ \A i \in 1..q : (a \o b)[p + i] = b[i]
    BY ONLY <2>1, p \in Nat, q \in Nat, ConcatOf, SMTT(30)
  <2>. QED
    BY <2>2, Zenon DEF Streams
<1>5. PICK d \in Streams : /\ d = erase(ab, n) /\ Len(d) = (p + q) - n
                           /\ \A i \in 1..((p + q) - n) : d[i] = ab[n + i]
  <2>1. n \in 0..Len(ab)
    BY <1>2, <1>4
  <2>. QED
    <3>1. /\ erase(ab, n) \in Streams /\ Len(erase(ab, n)) = Len(ab) - n
          /\ \A i \in 1..(Len(ab) - n) : erase(ab, n)[i] = ab[n + i]
      BY <2>1, EraseOf DEF Streams
    <3>. QED
      BY <1>4, <3>1
<1>6. PICK r \in Nat : r = p - n
  BY <1>2
<1>7. PICK cb \in Streams : /\ cb = c \o b /\ Len(cb) = r + q
                            /\ \A i \in 1..r : cb[i] = c[i]
                            /\ \A i \in 1..q : cb[r + i] = b[i]
  <2>1. r = Len(c) /\ q = Len(b) /\ c \in Seq(Bytes) /\ b \in Seq(Bytes)
    BY <1>1, <1>3, <1>6 DEF Streams
  <2>2. /\ c \o b \in Seq(Bytes) /\ Len(c \o b) = r + q
        /\ \A i \in 1..r : (c \o b)[i] = c[i]
        /\ \A i \in 1..q : (c \o b)[r + i] = b[i]
    BY ONLY <2>1, r \in Nat, q \in Nat, ConcatOf
  <2>. QED
    BY <2>2, Zenon DEF Streams
<1>8. ASSUME NEW i \in 1..(r + q) PROVE d[i] = cb[i]
  <2>1. CASE i <= r
    BY <1>2, <1>3, <1>4, <1>5, <1>6, <1>7, <2>1
  <2>2. CASE i > r
    <3>1. PICK j \in 1..q : i = r + j /\ n + i = p + j
      BY <1>2, <1>6, <2>2
    <3>2. d[i] = b[j]
      BY <1>2, <1>4, <1>5, <1>6, <3>1, SMTT(30)
    <3>3. cb[i] = b[j]
      BY <1>7, <3>1
    <3>. QED
      BY <3>2, <3>3
  <2>. QED
    BY <1>6, <2>1, <2>2
<1>9. Len(d) = Len(cb)
  BY <1>2, <1>5, <1>6, <1>7
<1>10. d = cb
  BY <1>7, <1>8, <1>9, SeqEqual DEF Streams
<1>. QED
  BY <1>3, <1>4, <1>5, <1>7, <1>10
-----------------------------------------------------------------------------
\* Types.

\* The reply to a message, and every copy of it that append() may read.
LEMMA ReplyOf ==
    ASSUME NEW m \in Streams, NEW data \in CopyRead(Reply(m))
    PROVE  /\ Reply(m) \in Streams /\ data \in Streams
           /\ Len(data) = Len(Prefix) + Len(m)
<1>1. Prefix \in Streams
  <2>1. Bytes \ {NUL} \subseteq Bytes
    OBVIOUS
  <2>. QED
    BY <2>1, FramingAssumption, SeqMonotonic DEF Streams
<1>2. Reply(m) \in Streams /\ Len(Reply(m)) = Len(Prefix) + Len(m)
  BY <1>1, ConcatProperties DEF Reply, Streams
<1>3. PICK n \in Nat : n = Len(Reply(m))
  BY <1>2, LenProperties DEF Streams
<1>4. data \in [1..n -> Bytes]
  <2>1. DOMAIN Reply(m) = 1..n
    BY <1>2, <1>3, LenProperties DEF Streams
  <2>. QED
    BY <2>1 DEF CopyRead
<1>5. data \in Seq(Bytes) /\ Len(data) = n
  BY <1>4
<1>. QED
  BY <1>2, <1>3, <1>5 DEF Streams

\* Buffer::appendwithsep() appends one frame.
LEMMA AppendWithSepOf ==
    ASSUME NEW buf \in Streams, NEW m \in Streams
    PROVE  appendwithsep(buf, m) \in Streams /\ appendwithsep(buf, m) = buf \o Frame(m)
<1>1. PICK e \in Seq(Bytes) : e = Encode(Len(m))
  BY EncodeBytes, LenProperties DEF Streams
<1>2. (buf \o e) \o m = buf \o (e \o m) /\ (buf \o e) \o m \in Seq(Bytes)
  BY ConcatAssociative, ConcatProperties, SMTT(20) DEF Streams
<1>. QED
  BY <1>1, <1>2 DEF appendwithsep, Frame, Streams

\* The variables keep their types through each step of client and server.
LEMMA TypeStep ==
    ASSUME TypeOK, [Next]_vars
    PROVE  TypeOK'
<1>. USE DEF Streams
<1>1. /\ up \in Streams /\ down \in Streams /\ inputbuffer_ \in Streams /\ outputbuffer_ \in Streams
      /\ sent \in Seq(Streams) /\ handled \in Seq(Streams) /\ got \in Seq(Streams)
  BY DEF TypeOK
<1>2. /\ client.at \in {"header", "body"} /\ client.len \in [1..HeaderSize -> Bytes]
      /\ client = [at |-> client.at, len |-> client.len]
  BY DEF TypeOK
<1>3. ASSUME NEW m \in Bodies, SendRequest(m) PROVE TypeOK'
  <2>1. m \in Streams /\ Len(m) \in Nat
    BY FramingAssumption, LenProperties
  <2>2. up' \in Streams
    <3>1. up' = appendwithsep(up, m)
      BY <1>3 DEF SendRequest, appendwithsep
    <3>. QED
      BY <1>1, <2>1, <3>1, AppendWithSepOf
  <2>3. client' \in [at : {"header", "body"}, len : [1..HeaderSize -> Bytes]]
    <3>1. Encode(Len(m)) \in [1..HeaderSize -> Bytes]
      BY <2>1, EncodeBytes
    <3>. QED
      BY <1>2, <1>3, <3>1 DEF SendRequest
  <2>4. sent' \in Seq(Streams)
    BY <1>1, <1>3, <2>1, AppendProperties DEF SendRequest
  <2>. QED
    BY <1>3, <2>2, <2>3, <2>4 DEF SendRequest, TypeOK, serverVars
<1>4. ASSUME RecvHeader PROVE TypeOK'
  <2>1. PICK n \in 1..Least(HeaderSize, Len(down)) :
          /\ client' = [at |-> "body",
                        len |-> [i \in 1..HeaderSize |-> IF i <= n THEN down[i] ELSE client.len[i]]]
          /\ down' = erase(down, n)
          /\ short' = (short \/ n < HeaderSize)
    BY <1>4 DEF RecvHeader
  <2>2. n \in 0..Len(down) /\ n \in Nat /\ n <= HeaderSize
    BY <1>1, LenProperties DEF Least, HeaderSize
  <2>3. \A i \in 1..HeaderSize : (IF i <= n THEN down[i] ELSE client.len[i]) \in Bytes
    BY <1>1, <1>2, <2>2, ElementOfSeq, LenProperties DEF HeaderSize
  <2>4. client' \in [at : {"header", "body"}, len : [1..HeaderSize -> Bytes]]
    BY <2>1, <2>3
  <2>5. down' \in Streams /\ short' \in BOOLEAN
    BY <1>1, <2>1, <2>2, EraseOf
  <2>. QED
    BY <1>4, <2>4, <2>5 DEF RecvHeader, TypeOK, serverVars
<1>5. ASSUME RecvBody PROVE TypeOK'
  <2>1. PICK n \in 0..Least(Decode(client.len), Len(down)) :
          /\ got' = Append(got, SubSeq(down, 1, n))
          /\ down' = erase(down, n)
          /\ short' = (short \/ n < Decode(client.len))
    BY <1>5 DEF RecvBody
  <2>2. n \in 0..Len(down)
    <3>1. Decode(client.len) \in Int
      BY <1>2, DecodeType DEF HeaderSize
    <3>. QED
      BY <1>1, <2>1, <3>1, LenProperties DEF Least
  <2>3. SubSeq(down, 1, n) \in Streams /\ down' \in Streams
    BY <1>1, <2>1, <2>2, Moved
  <2>4. got' \in Seq(Streams)
    BY <1>1, <2>1, <2>3, AppendProperties
  <2>5. client' \in [at : {"header", "body"}, len : [1..HeaderSize -> Bytes]]
    BY <1>2, <1>5 DEF RecvBody
  <2>. QED
    BY <1>5, <2>1, <2>3, <2>4, <2>5 DEF RecvBody, TypeOK, serverVars
<1>6. ASSUME Read PROVE TypeOK'
  <2>1. PICK n \in 1..Least(ReadSize, Len(up)) :
          /\ inputbuffer_' = append(inputbuffer_, SubSeq(up, 1, n))
          /\ up' = erase(up, n)
    BY <1>6 DEF Read
  <2>2. n \in 0..Len(up)
    BY <1>1, LenProperties, FramingAssumption DEF Least
  <2>3. inputbuffer_' \in Streams /\ up' \in Streams
    BY <1>1, <2>1, <2>2, Moved DEF append
  <2>. QED
    BY <1>6, <2>3 DEF Read, TypeOK, clientVars
<1>7. ASSUME ReadWouldBlock PROVE TypeOK'
  BY <1>7 DEF ReadWouldBlock, TypeOK, clientVars
<1>8. ASSUME Pick PROVE TypeOK'
  <2>1. PICK r \in pickmessage(inputbuffer_) :
         \/ /\ r.result = "message"
            /\ inputbuffer_' = r.rest
            /\ handled' = Append(handled, r.ss)
            /\ UNCHANGED pc
         \/ /\ r.result # "message"
            /\ pc' = IF r.result = "throw" THEN "terminated" ELSE "poll"
            /\ UNCHANGED <<inputbuffer_, handled>>
    BY <1>8 DEF Pick
  <2>2. r.ss \in Streams /\ r.rest \in Streams
    BY <1>1, PickTypes
  <2>3. Append(handled, r.ss) \in Seq(Streams) /\ Len(Append(handled, r.ss)) = Len(handled) + 1
        /\ Len(handled) \in Nat
    BY <1>1, <2>2, AppendProperties, LenProperties
  <2>4. replied \in 0..Len(handled')
    BY <2>1, <2>3 DEF TypeOK
  <2>. QED
    BY <1>8, <2>1, <2>2, <2>3, <2>4 DEF Pick, TypeOK, clientVars
<1>9. ASSUME SendInLoop PROVE TypeOK'
  <2>1. PICK data \in CopyRead(Reply(handled[replied + 1])) :
          outputbuffer_' = appendwithsep(outputbuffer_, data)
    BY <1>9 DEF SendInLoop
  <2>2. replied + 1 \in 1..Len(handled) /\ replied + 1 \in 0..Len(handled)
    BY <1>1, <1>9, LenProperties DEF SendInLoop, TypeOK
  <2>3. handled[replied + 1] \in Streams
    BY <1>1, <2>2, ElementOfSeq
  <2>4. outputbuffer_' \in Streams
    BY <1>1, <2>1, <2>3, ReplyOf, AppendWithSepOf
  <2>. QED
    BY <1>9, <2>2, <2>4 DEF SendInLoop, TypeOK, clientVars
<1>10. ASSUME Write PROVE TypeOK'
  <2>1. PICK n \in 1..Len(outputbuffer_) : /\ down' = down \o SubSeq(outputbuffer_, 1, n)
                                           /\ outputbuffer_' = erase(outputbuffer_, n)
    BY <1>10 DEF Write
  <2>2. n \in 0..Len(outputbuffer_)
    BY <1>1, LenProperties
  <2>3. down' \in Streams /\ outputbuffer_' \in Streams
    BY <1>1, <2>1, <2>2, Moved
  <2>. QED
    BY <1>10, <2>3 DEF Write, TypeOK, clientVars
<1>11. CASE UNCHANGED vars
  BY <1>11 DEF TypeOK, vars, serverVars, clientVars
<1>. QED
  BY <1>3, <1>4, <1>5, <1>6, <1>7, <1>8, <1>9, <1>10, <1>11 DEF Next, OnMessage
-----------------------------------------------------------------------------
\* The way in.

\* What the server has not handed over is in inputbuffer_ or on its way, as whole
\* frames; what it has handed over is what was sent.
StreamInv ==
    /\ Framed(inputbuffer_ \o up, Len(handled), sent)
    /\ Len(handled) <= Len(sent)
    /\ \A i \in 1..Len(handled) : handled[i] = sent[i]
    /\ \A i \in 1..Len(sent) : sent[i] \in Bodies

UpInv == TypeOK /\ StreamInv /\ PartialHeaderHarmless /\ NothingStranded

\* The next request in the stream, and that inputbuffer_ begins with its frame as
\* far as it has arrived.
LEMMA NextRequest ==
    ASSUME TypeOK, StreamInv, Len(handled) < Len(sent), NEW m, m = sent[Len(handled) + 1]
    PROVE  /\ m \in Bodies /\ m \in Streams /\ Len(m) \in Lengths
           /\ HeaderSize + Len(m) <= Len(inputbuffer_ \o up)
           /\ \A i \in 1..Len(inputbuffer_) :
                i <= HeaderSize + Len(m) => inputbuffer_[i] = Frame(m)[i]
           /\ Framed(erase(inputbuffer_ \o up, HeaderSize + Len(m)), Len(handled) + 1, sent)
<1>1. /\ up \in Streams /\ inputbuffer_ \in Streams
      /\ sent \in Seq(Streams) /\ handled \in Seq(Streams)
  BY DEF TypeOK, Streams
<1>2. PICK k \in Nat : k = Len(handled) /\ k < Len(sent)
  BY <1>1, LenProperties
<1>3. PICK s \in Streams : s = inputbuffer_ \o up
  BY <1>1, ConcatProperties DEF Streams
<1>4. /\ HeaderSize + Len(m) <= Len(s)
      /\ FrameAt(s, 0, m)
      /\ Framed(erase(s, HeaderSize + Len(m)), k + 1, sent)
  BY <1>1, <1>2, <1>3, FramedFirst DEF StreamInv
<1>5. m \in Bodies /\ m \in Streams /\ Len(m) \in Lengths
  <2>1. k + 1 \in 1..Len(sent)
    BY <1>1, <1>2, LenProperties
  <2>. QED
    BY <1>2, <2>1, FramingAssumption DEF StreamInv, Streams
<1>6. PICK p \in Nat, f \in Nat : p = Len(inputbuffer_) /\ f = HeaderSize + Len(m)
  BY <1>1, <1>5, LenProperties DEF Streams, HeaderSize
<1>7. \A i \in 1..p : s[i] = inputbuffer_[i]
  BY <1>1, <1>3, <1>6, ConcatProperties DEF Streams
<1>8. \A i \in 1..f : s[i] = Frame(m)[i]
  <2>1. \A i \in 1..f : 0 + i = i
    OBVIOUS
  <2>. QED
    BY <1>4, <1>6, <2>1 DEF FrameAt
<1>9. \A i \in 1..p : i <= f => inputbuffer_[i] = Frame(m)[i]
  BY <1>7, <1>8
<1>. QED
  BY <1>2, <1>3, <1>4, <1>5, <1>6, <1>9

\* pickmessage() hands over the next request if it is there, and otherwise leaves
\* a part of it.
LEMMA PickStep ==
    ASSUME TypeOK, StreamInv, NEW r \in pickmessage(inputbuffer_)
    PROVE  \/ /\ r.result = "none"
              /\ \/ inputbuffer_ = <<>>
                 \/ /\ Len(handled) < Len(sent)
                    /\ Len(inputbuffer_) < HeaderSize + Len(sent[Len(handled) + 1])
                    /\ up # <<>>
           \/ /\ r.result = "message" /\ Len(handled) < Len(sent)
              /\ r.ss = sent[Len(handled) + 1]
              /\ r.rest \in Streams
              /\ Framed(r.rest \o up, Len(handled) + 1, sent)
<1>1. /\ up \in Streams /\ inputbuffer_ \in Streams
      /\ sent \in Seq(Streams) /\ handled \in Seq(Streams)
      /\ Len(sent) \in Nat /\ Len(handled) \in Nat
  BY LenProperties DEF TypeOK, Streams
<1>2. CASE Len(handled) = Len(sent)
  <2>1. inputbuffer_ \o up = <<>>
    BY <1>1, <1>2, FramedEnd, ConcatProperties DEF StreamInv, Streams
  <2>2. inputbuffer_ = <<>>
    BY <1>1, <2>1, ConcatSimplifications DEF Streams
  <2>3. r.result = "none"
    BY <2>2 DEF pickmessage, Nothing
  <2>. QED
    BY <2>2, <2>3
<1>3. CASE Len(handled) < Len(sent)
  <2>1. PICK m : m = sent[Len(handled) + 1]
    OBVIOUS
  <2>2. /\ m \in Streams /\ Len(m) \in Lengths
        /\ HeaderSize + Len(m) <= Len(inputbuffer_ \o up)
        /\ \A i \in 1..Len(inputbuffer_) :
             i <= HeaderSize + Len(m) => inputbuffer_[i] = Frame(m)[i]
        /\ Framed(erase(inputbuffer_ \o up, HeaderSize + Len(m)), Len(handled) + 1, sent)
    BY <1>3, <2>1, NextRequest
  <2>3. PICK p \in Nat, f \in Nat, u \in Nat :
          p = Len(inputbuffer_) /\ f = HeaderSize + Len(m) /\ u = Len(up)
    BY <1>1, <2>2, LenProperties DEF Streams, HeaderSize
  <2>4. f <= p + u
    BY <1>1, <2>2, <2>3, ConcatProperties DEF Streams
  <2>5. /\ p < f => r.result = "none"
        /\ p >= f => r.result = "message" /\ r.ss = m /\ r.rest = erase(inputbuffer_, f)
    BY <1>1, <2>2, <2>3, PickWhole DEF Streams
  <2>6. CASE p < f
    <3>1. up # <<>>
      BY <2>3, <2>4, <2>6
    <3>. QED
      BY <1>3, <2>1, <2>3, <2>5, <2>6, <3>1
  <2>7. CASE p >= f
    <3>1. f \in 0..Len(inputbuffer_)
      BY <2>3, <2>7
    <3>2. /\ erase(inputbuffer_, f) \in Streams
          /\ erase(inputbuffer_ \o up, f) = erase(inputbuffer_, f) \o up
      BY <1>1, <3>1, EraseConcat
    <3>. QED
      BY <1>3, <2>1, <2>2, <2>3, <2>5, <2>7, <3>2
  <2>. QED
    BY <2>3, <2>6, <2>7
<1>. QED
  BY <1>1, <1>2, <1>3 DEF StreamInv

\* The steps that leave the way in alone.
LEMMA UpStill ==
    ASSUME UpInv, TypeOK', UNCHANGED <<up, inputbuffer_, pc, handled, sent>>
    PROVE  UpInv'
BY DEF UpInv, StreamInv, PartialHeaderHarmless, NothingStranded

\* Sending a request, reading and picking keep the invariant of the way in.
LEMMA UpStep ==
    ASSUME UpInv, [Next]_vars
    PROVE  UpInv'
<1>1. TypeOK'
  BY TypeStep DEF UpInv
<1>2. /\ up \in Streams /\ inputbuffer_ \in Streams
      /\ sent \in Seq(Streams) /\ handled \in Seq(Streams)
      /\ TypeOK /\ StreamInv /\ pc # "terminated" /\ NothingStranded
  BY DEF UpInv, TypeOK, Streams, PartialHeaderHarmless
<1>3. PICK k \in Nat, n \in Nat : k = Len(handled) /\ n = Len(sent) /\ k <= n
  BY <1>2, LenProperties DEF StreamInv
<1>4. ASSUME NEW m \in Bodies, SendRequest(m) PROVE UpInv'
  <2>1. m \in Streams
    BY FramingAssumption DEF Streams
  <2>2. UNCHANGED <<inputbuffer_, pc, handled>> /\ sent' = Append(sent, m)
    BY <1>4 DEF SendRequest, serverVars
  <2>3. up' = up \o Frame(m) /\ Frame(m) \in Streams
    BY <1>2, <1>4, <2>1, AppendWithSepOf, FrameOf DEF SendRequest, appendwithsep, Streams
  <2>4. inputbuffer_ \o up' = (inputbuffer_ \o up) \o Frame(m) /\ inputbuffer_ \o up \in Streams
    <3>1. PICK g \in Streams : g = Frame(m)
      BY <2>3
    <3>2. /\ (inputbuffer_ \o up) \o g = inputbuffer_ \o (up \o g)
          /\ inputbuffer_ \o up \in Streams
      BY ONLY <1>2, g \in Streams, Joined
    <3>. QED
      BY <2>3, <3>1, <3>2
  <2>5. /\ sent' \in Seq(Streams) /\ Len(sent') = n + 1 /\ sent'[n + 1] = m
        /\ \A i \in 1..n : sent'[i] = sent[i]
    <3>1. n = Len(sent)
      BY <1>3
    <3>2. /\ Append(sent, m) \in Seq(Streams) /\ Len(Append(sent, m)) = n + 1
          /\ Append(sent, m)[n + 1] = m
          /\ \A i \in 1..n : Append(sent, m)[i] = sent[i]
      BY ONLY <3>1, <1>2, <2>1, n \in Nat, AppendOf
    <3>. QED
      BY <2>2, <3>2
  <2>6. Framed(inputbuffer_ \o up', k, sent')
    <3>1. k \in 0..Len(sent) /\ Framed(inputbuffer_ \o up, k, sent)
      BY <1>2, <1>3 DEF StreamInv
    <3>2. Framed((inputbuffer_ \o up) \o Frame(m), k, Append(sent, m))
      BY <1>2, <2>1, <2>4, <3>1, FramedMore
    <3>. QED
      BY <2>2, <2>4, <3>2
  <2>7. StreamInv'
    <3>1. Len(handled') <= Len(sent')
      BY <1>3, <2>2, <2>5
    <3>2. \A i \in 1..Len(handled') : handled'[i] = sent'[i]
      BY <1>2, <1>3, <2>2, <2>5 DEF StreamInv
    <3>3. \A i \in 1..Len(sent') : sent'[i] \in Bodies
      BY <1>2, <1>3, <2>5 DEF StreamInv
    <3>. QED
      BY <1>3, <2>2, <2>6, <3>1, <3>2, <3>3 DEF StreamInv
  <2>8. NothingStranded'
    <3>1. up # <<>> => up' # <<>>
      BY <1>2, <2>3, ConcatSimplifications DEF Streams
    <3>2. k < n => sent'[k + 1] = sent[k + 1] /\ k < Len(sent')
      BY <2>5
    <3>. QED
      BY <1>2, <1>3, <2>2, <3>1, <3>2 DEF NothingStranded
  <2>. QED
    BY <1>1, <1>2, <2>2, <2>7, <2>8 DEF UpInv, PartialHeaderHarmless
<1>5. ASSUME Read PROVE UpInv'
  <2>1. PICK c \in 1..Least(ReadSize, Len(up)) :
          /\ inputbuffer_' = append(inputbuffer_, SubSeq(up, 1, c))
          /\ up' = erase(up, c)
    BY <1>5 DEF Read
  <2>2. c \in 0..Len(up)
    BY <1>2, LenProperties, FramingAssumption DEF Least, Streams
  <2>3. inputbuffer_' \o up' = inputbuffer_ \o up
    BY <1>2, <2>1, <2>2, Moved DEF append
  <2>4. UNCHANGED <<handled, sent>> /\ pc' = "read"
    BY <1>5 DEF Read, clientVars
  <2>. QED
    BY <1>1, <1>2, <2>3, <2>4 DEF UpInv, StreamInv, PartialHeaderHarmless, NothingStranded
<1>6. ASSUME ReadWouldBlock PROVE UpInv'
  BY <1>1, <1>2, <1>6
     DEF ReadWouldBlock, clientVars, UpInv, StreamInv, PartialHeaderHarmless, NothingStranded
<1>7. ASSUME Pick PROVE UpInv'
  <2>1. PICK r \in pickmessage(inputbuffer_) :
         \/ /\ r.result = "message"
            /\ inputbuffer_' = r.rest
            /\ handled' = Append(handled, r.ss)
            /\ UNCHANGED pc
         \/ /\ r.result # "message"
            /\ pc' = IF r.result = "throw" THEN "terminated" ELSE "poll"
            /\ UNCHANGED <<inputbuffer_, handled>>
    BY <1>7 DEF Pick
  <2>2. UNCHANGED <<up, sent>> /\ pc = "pick"
    BY <1>7 DEF Pick, clientVars
  <2>3. CASE r.result = "none"
    <3>1. UNCHANGED <<inputbuffer_, handled>> /\ pc' = "poll"
      BY <2>1, <2>3
    <3>2. NothingStranded'
      BY <1>2, <2>2, <2>3, <3>1, PickStep DEF NothingStranded
    <3>. QED
      BY <1>1, <1>2, <2>2, <3>1, <3>2 DEF UpInv, StreamInv, PartialHeaderHarmless
  <2>4. CASE r.result # "none"
    <3>1. /\ r.result = "message" /\ k < n /\ r.ss = sent[k + 1]
          /\ Framed(r.rest \o up, k + 1, sent)
      BY <1>2, <1>3, <2>4, PickStep
    <3>2. inputbuffer_' = r.rest /\ handled' = Append(handled, sent[k + 1]) /\ pc' = "pick"
      BY <2>1, <2>2, <3>1
    <3>3. sent[k + 1] \in Streams
      BY <1>2, <1>3, <3>1, ElementOfSeq
    <3>4. /\ Len(handled') = k + 1 /\ handled'[k + 1] = sent[k + 1]
          /\ \A i \in 1..k : handled'[i] = handled[i]
      BY <1>2, <1>3, <3>2, <3>3, AppendProperties
    <3>5. \A i \in 1..Len(handled') : handled'[i] = sent'[i]
      BY <1>2, <1>3, <2>2, <3>4 DEF StreamInv
    <3>6. StreamInv'
      BY <1>2, <1>3, <2>2, <3>1, <3>2, <3>4, <3>5 DEF StreamInv
    <3>. QED
      BY <1>1, <3>2, <3>6 DEF UpInv, PartialHeaderHarmless, NothingStranded
  <2>. QED
    BY <2>3, <2>4
<1>8. CASE RecvHeader \/ RecvBody
  BY <1>1, <1>8, UpStill DEF RecvHeader, RecvBody, serverVars
<1>9. CASE SendInLoop \/ Write
  BY <1>1, <1>9, UpStill DEF SendInLoop, Write, clientVars
<1>10. CASE UNCHANGED vars
  BY <1>1, <1>10, UpStill DEF vars, serverVars, clientVars
<1>. QED
  BY <1>4, <1>5, <1>6, <1>7, <1>8, <1>9, <1>10 DEF Next, OnMessage

\* Nothing has been sent yet.
LEMMA UpInit ==
    ASSUME Init
    PROVE  UpInv
<1>1. Encode(0) \in [1..HeaderSize -> Bytes]
  BY EncodeBytes
<1>2. TypeOK
  <2>1. <<>> \in Seq(Bytes) /\ <<>> \in Seq(Seq(Bytes))
    BY EmptySeq
  <2>2. client \in [at : {"header", "body"}, len : [1..HeaderSize -> Bytes]]
    BY <1>1 DEF Init
  <2>3. replied \in 0..Len(handled)
    BY DEF Init
  <2>. QED
    BY <2>1, <2>2, <2>3 DEF Init, TypeOK
<1>3. Framed(<<>>, Len(sent), sent)
  BY EmptySeq, FramedNone DEF Init
<1>4. inputbuffer_ \o up = <<>> /\ Len(handled) = Len(sent)
  BY ConcatEmptySeq, EmptySeq DEF Init
<1>5. StreamInv
  BY <1>3, <1>4 DEF Init, StreamInv
<1>. QED
  BY <1>2, <1>5 DEF Init, UpInv, PartialHeaderHarmless, NothingStranded

\* The invariant of the way in, for every instance.
LEMMA UpHolds == Spec => []UpInv
BY UpInit, UpStep, PTL DEF Spec

\* Every stream and buffer holds bytes, and the IO thread and the client are at
\* one of their places.
THEOREM TypesHold == Spec => []TypeOK
BY UpHolds, PTL DEF UpInv

\* A header that has arrived in part is never taken for complete, whatever the
\* bytes behind the string's terminator: the IO thread's substr() does not throw
\* (Buffer::pickmessage()).
THEOREM PartialHeaderHarmlessHolds == Spec => []PartialHeaderHarmless
BY UpHolds, PTL DEF UpInv

\* onmessage() returns only when no complete request is left in inputbuffer_, and
\* then the rest of the one it begins with is still on its way.
THEOREM NothingStrandedHolds == Spec => []NothingStranded
BY UpHolds, PTL DEF UpInv

\* Connection::onmessage() and Buffer implement MessagePipe: each step hands over
\* the next request that was sent, whole, or none.
THEOREM RequestsDeliveredHolds == Spec => RequestsDelivered
<1>1. Init => Requests!PipeInit
  BY DEF Init, Requests!PipeInit
<1>2. UpInv /\ [Next]_vars => [Requests!Send \/ Requests!Deliver]_<<sent, handled>>
  <2>1. SUFFICES ASSUME UpInv, [Next]_vars
                 PROVE  Requests!Send \/ Requests!Deliver \/ UNCHANGED <<sent, handled>>
    OBVIOUS
  <2>2. ASSUME NEW m \in Bodies, SendRequest(m) PROVE Requests!Send
    BY <2>2 DEF SendRequest, serverVars, Requests!Send
  <2>3. ASSUME Pick PROVE Requests!Deliver \/ UNCHANGED <<sent, handled>>
    <3>1. PICK r \in pickmessage(inputbuffer_) :
           \/ r.result = "message" /\ handled' = Append(handled, r.ss)
           \/ r.result # "message" /\ UNCHANGED handled
      BY <2>3 DEF Pick
    <3>2. UNCHANGED sent
      BY <2>3 DEF Pick, clientVars
    <3>3. \/ r.result = "none"
          \/ /\ r.result = "message" /\ Len(handled) < Len(sent)
             /\ r.ss = sent[Len(handled) + 1]
      BY <2>1, PickStep DEF UpInv
    <3>. QED
      BY <3>1, <3>2, <3>3 DEF Requests!Deliver
  <2>4. CASE \/ RecvHeader \/ RecvBody \/ Read \/ ReadWouldBlock \/ SendInLoop \/ Write
             \/ UNCHANGED vars
    BY <2>4 DEF RecvHeader, RecvBody, Read, ReadWouldBlock, SendInLoop, Write,
                vars, serverVars, clientVars
  <2>. QED
    BY <2>1, <2>2, <2>3, <2>4 DEF Next, OnMessage
<1>. QED
  BY <1>1, <1>2, UpHolds, PTL DEF Spec, RequestsDelivered, Requests!PipeSpec
-----------------------------------------------------------------------------
\* The way back.

\* The header that the client has read and whose body it is waiting for.
InClient == IF client.at = "body" THEN client.len ELSE <<>>

\* As long as no recv() was cut short: what was read of the copies that append()
\* made is what they are, and the rest is on its way in whole frames.
Copies(data) ==
    /\ data \in Seq(Streams) /\ Len(data) = replied
    /\ \A i \in 1..replied : data[i] \in CopyRead(Reply(handled[i]))
    /\ Len(got) <= replied
    /\ \A i \in 1..Len(got) : got[i] = data[i]
    /\ client.at = "body" => Len(got) < replied
    /\ Framed(InClient \o (down \o outputbuffer_), Len(got), data)

DownInv == ~short => \E data : Copies(data)

\* erase() of the first part of a stream and some of the second.
LEMMA EraseBehind ==
    ASSUME NEW a \in Streams, NEW b \in Streams, NEW n \in 0..Len(b)
    PROVE  erase(a \o b, Len(a) + n) = erase(b, n)
<1>1. PICK p \in Nat, q \in Nat : p = Len(a) /\ q = Len(b)
  BY LenProperties DEF Streams
<1>2. n \in Nat /\ n <= q
  BY <1>1
<1>3. PICK c \in Streams : /\ c = erase(b, n) /\ Len(c) = q - n
                           /\ \A i \in 1..(q - n) : c[i] = b[n + i]
  <2>1. /\ erase(b, n) \in Streams /\ Len(erase(b, n)) = Len(b) - n
        /\ \A i \in 1..(Len(b) - n) : erase(b, n)[i] = b[n + i]
    BY EraseOf DEF Streams
  <2>. QED
    BY <1>1, <2>1
<1>4. PICK ab \in Streams : /\ ab = a \o b /\ Len(ab) = p + q
                            /\ \A i \in 1..q : ab[p + i] = b[i]
  <2>1. p = Len(a) /\ q = Len(b) /\ a \in Seq(Bytes) /\ b \in Seq(Bytes)
    BY <1>1 DEF Streams
  <2>2. /\ a \o b \in Seq(Bytes) /\ Len(a \o b) = p + q
        /\ \A i \in 1..q : (a \o b)[p + i] = b[i]
    BY ONLY <2>1, p \in Nat, q \in Nat, ConcatOf
  <2>. QED
    BY <2>2, Zenon DEF Streams
<1>5. PICK d \in Streams : /\ d = erase(ab, p + n) /\ Len(d) = (p + q) - (p + n)
                           /\ \A i \in 1..((p + q) - (p + n)) : d[i] = ab[(p + n) + i]
  <2>1. p + n \in 0..Len(ab)
    BY <1>2, <1>4
  <2>2. /\ erase(ab, p + n) \in Streams /\ Len(erase(ab, p + n)) = Len(ab) - (p + n)
        /\ \A i \in 1..(Len(ab) - (p + n)) : erase(ab, p + n)[i] = ab[(p + n) + i]
    BY <2>1, EraseOf DEF Streams
  <2>. QED
    BY <1>4, <2>2
<1>6. (p + q) - (p + n) = q - n
  BY <1>2
<1>7. ASSUME NEW i \in 1..(q - n) PROVE d[i] = c[i]
  <2>1. PICK j \in 1..q : j = n + i /\ (p + n) + i = p + j
    BY <1>2
  <2>. QED
    BY <1>3, <1>4, <1>5, <1>6, <2>1
<1>8. d = c
  BY <1>3, <1>5, <1>6, <1>7, SeqEqual DEF Streams
<1>. QED
  BY <1>1, <1>3, <1>4, <1>5, <1>8

\* The types that the proofs about the way back use.
LEMMA DownTypes ==
    ASSUME TypeOK
    PROVE  /\ down \in Streams /\ outputbuffer_ \in Streams /\ InClient \in Streams
           /\ down \o outputbuffer_ \in Streams
           /\ handled \in Seq(Streams) /\ got \in Seq(Streams)
           /\ client.len \in Streams /\ Len(client.len) = HeaderSize
           /\ Len(got) \in Nat /\ Len(handled) \in Nat /\ replied \in Nat /\ replied <= Len(handled)
<1>1. /\ down \in Streams /\ outputbuffer_ \in Streams
      /\ handled \in Seq(Streams) /\ got \in Seq(Streams)
      /\ replied \in 0..Len(handled)
  BY DEF TypeOK, Streams
<1>2. client.len \in Streams /\ Len(client.len) = HeaderSize
  <2>1. PICK h \in Nat : h = HeaderSize
    BY DEF HeaderSize
  <2>2. client.len \in [1..h -> Bytes]
    BY <2>1 DEF TypeOK
  <2>. QED
    BY <2>1, <2>2 DEF Streams
<1>3. <<>> \in Streams
  BY EmptySeq DEF Streams
<1>4. InClient \in Streams
  BY <1>2, <1>3 DEF InClient
<1>5. down \o outputbuffer_ \in Streams
  BY <1>1, Joined
<1>6. Len(got) \in Nat /\ Len(handled) \in Nat
  BY <1>1, LenProperties
<1>. QED
  BY <1>1, <1>2, <1>4, <1>5, <1>6

\* The header that recv() returns whole goes from the stream to the client.
LEMMA WholeHeader ==
    ASSUME TypeOK, RecvHeader, ~short', NEW data, Copies(data)
    PROVE  Copies(data)'
<1>1. PICK n \in 1..Least(HeaderSize, Len(down)) :
        /\ client' = [at |-> "body",
                      len |-> [i \in 1..HeaderSize |-> IF i <= n THEN down[i] ELSE client.len[i]]]
        /\ down' = erase(down, n)
        /\ short' = (short \/ n < HeaderSize)
  BY DEF RecvHeader
<1>2. UNCHANGED <<outputbuffer_, handled, replied, got>> /\ client.at = "header" /\ down # <<>>
  BY DEF RecvHeader, serverVars
<1>3. /\ down \in Streams /\ outputbuffer_ \in Streams /\ down \o outputbuffer_ \in Streams
      /\ Len(down) \in Nat /\ Len(got) \in Nat /\ replied \in Nat
  BY DownTypes, LenProperties DEF Streams
<1>4. PICK h \in Nat : h = HeaderSize /\ h = n /\ h <= Len(down)
  <2>1. PICK h \in Nat : h = HeaderSize
    BY DEF HeaderSize
  <2>2. ~(n < h)
    BY <1>1, <2>1, Zenon
  <2>3. n \in 1..Least(h, Len(down))
    BY <2>1
  <2>4. h = n /\ h <= Len(down)
    BY <1>3, <2>2, <2>3 DEF Least
  <2>. QED
    BY <2>1, <2>4
<1>5. InClient' = SubSeq(down, 1, h)
  <2>1. client'.len = [i \in 1..h |-> down[i]]
    BY <1>1, <1>4
  <2>2. /\ SubSeq(down, 1, h) \in Seq(Bytes) /\ Len(SubSeq(down, 1, h)) = h
        /\ \A i \in 1..h : SubSeq(down, 1, h)[i] = down[i]
    <3>1. h \in Int /\ h <= Len(down) /\ 1 \in Nat \ {0} /\ h - 1 + 1 = h /\ (1 <= h \/ h = 0)
      BY <1>4
    <3>2. /\ SubSeq(down, 1, h) \in Seq(Bytes)
          /\ Len(SubSeq(down, 1, h)) = IF 1 <= h THEN h - 1 + 1 ELSE 0
          /\ \A i \in 1..(h - 1 + 1) : SubSeq(down, 1, h)[i] = down[1 + i - 1]
      BY <1>3, <3>1, SubSeqOf DEF Streams
    <3>. QED
      BY <3>1, <3>2
  <2>3. client'.len \in Seq(Bytes) /\ Len(client'.len) = h
    <3>1. \A i \in 1..h : down[i] \in Bytes
      BY <1>3, <1>4, ElementOfSeq DEF Streams
    <3>2. client'.len \in [1..h -> Bytes]
      BY <2>1, <3>1
    <3>. QED
      BY <3>2
  <2>4. client'.len = SubSeq(down, 1, h)
    BY <2>1, <2>2, <2>3, SeqEqual
  <2>. QED
    BY <1>1, <2>4 DEF InClient
<1>6. InClient' \o (down' \o outputbuffer_') = InClient \o (down \o outputbuffer_)
  <2>1. h \in 0..Len(down)
    BY <1>4
  <2>2. PICK a \in Streams, b \in Streams : a = SubSeq(down, 1, h) /\ b = erase(down, h)
    BY <1>3, <2>1, Moved
  <2>3. a \o b = down
    BY <1>3, <2>1, <2>2, Moved
  <2>4. (a \o b) \o outputbuffer_ = a \o (b \o outputbuffer_)
    <3>1. outputbuffer_ \in Streams
      BY <1>3
    <3>. QED
      BY ONLY <3>1, a \in Streams, b \in Streams, Joined, ZenonT(20)
  <2>5. <<>> \o (down \o outputbuffer_) = down \o outputbuffer_
    BY <1>3, ConcatEmptySeq DEF Streams
  <2>. QED
    BY <1>1, <1>2, <1>4, <1>5, <2>2, <2>3, <2>4, <2>5 DEF InClient
<1>7. Len(got) < replied
  <2>1. SUFFICES ASSUME Len(got) = replied PROVE FALSE
    BY <1>3 DEF Copies
  <2>2. Framed(down \o outputbuffer_, Len(data), data) /\ data \in Seq(Streams)
    <3>1. <<>> \o (down \o outputbuffer_) = down \o outputbuffer_
      BY <1>3, ConcatEmptySeq DEF Streams
    <3>. QED
      BY <1>2, <2>1, <3>1 DEF Copies, InClient
  <2>3. down \o outputbuffer_ = <<>>
    BY <1>3, <2>2, FramedEnd
  <2>. QED
    BY <1>2, <1>3, <2>3, ConcatSimplifications DEF Streams
<1>. QED
  BY <1>2, <1>6, <1>7 DEF Copies

\* The body that recv() returns whole is the copy of the next reply.
LEMMA WholeBody ==
    ASSUME UpInv, RecvBody, ~short', NEW data, Copies(data)
    PROVE  Copies(data)'
<1>1. PICK n \in 0..Least(Decode(client.len), Len(down)) :
        /\ got' = Append(got, SubSeq(down, 1, n))
        /\ down' = erase(down, n)
        /\ short' = (short \/ n < Decode(client.len))
  BY DEF RecvBody
<1>2. /\ UNCHANGED <<outputbuffer_, handled, replied>>
      /\ client.at = "body" /\ client'.at = "header"
  BY DEF RecvBody, serverVars, UpInv, TypeOK
<1>3. /\ down \in Streams /\ outputbuffer_ \in Streams /\ down \o outputbuffer_ \in Streams
      /\ handled \in Seq(Streams) /\ got \in Seq(Streams)
      /\ client.len \in Streams /\ Len(client.len) = HeaderSize
      /\ replied \in Nat /\ replied <= Len(handled)
  BY DownTypes DEF UpInv
<1>4. PICK k \in Nat, d \in Nat, h \in Nat :
        k = Len(got) /\ d = Len(down) /\ h = HeaderSize /\ k < replied
  BY <1>2, <1>3, LenProperties DEF Copies, Streams, HeaderSize
<1>5. PICK l \in Streams, b \in Streams, s \in Streams :
        /\ l = client.len /\ Len(l) = h /\ b = down \o outputbuffer_ /\ s = l \o b
  <2>1. PICK l \in Streams, b \in Streams :
          l = client.len /\ Len(l) = h /\ b = down \o outputbuffer_
    BY <1>3, <1>4
  <2>2. l \o b \in Streams
    BY Joined
  <2>. QED
    BY <2>1, <2>2
<1>6. data \in Seq(Streams) /\ Len(data) = replied /\ Framed(s, k, data)
  BY <1>2, <1>4, <1>5 DEF Copies, InClient
<1>7. PICK m \in Streams : m = data[k + 1] /\ Len(m) \in Lengths
  <2>1. k + 1 \in 1..replied /\ k + 1 \in 1..Len(handled)
    BY <1>3, <1>4, LenProperties
  <2>2. data[k + 1] \in CopyRead(Reply(handled[k + 1]))
    BY <2>1 DEF Copies
  <2>3. handled[k + 1] \in Bodies
    <3>1. handled[k + 1] = sent[k + 1] /\ k + 1 \in 1..Len(sent)
      <4>1. sent \in Seq(Streams) /\ Len(sent) \in Nat /\ Len(handled) \in Nat
        BY <1>3, LenProperties DEF UpInv, TypeOK, Streams
      <4>. QED
        BY <2>1, <4>1 DEF UpInv, StreamInv
    <3>. QED
      BY <3>1 DEF UpInv, StreamInv
  <2>4. /\ handled[k + 1] \in Streams
        /\ Len(Prefix) + Len(handled[k + 1]) \in Lengths
    BY <2>3, FramingAssumption DEF Streams
  <2>5. data[k + 1] \in Streams /\ Len(data[k + 1]) \in Lengths
    BY <2>2, <2>4, ReplyOf
  <2>. QED
    BY <2>5
<1>8. PICK e \in Nat : e = Len(m)
  BY LenProperties DEF Streams
<1>9. /\ \A i \in 1..(h + e) : s[i] = Frame(m)[i]
      /\ Framed(erase(s, h + e), k + 1, data)
  <2>1. FrameAt(s, 0, m) /\ Framed(erase(s, h + e), k + 1, data)
    BY <1>4, <1>6, <1>7, <1>8, FramedFirst
  <2>2. \A i \in 1..(h + e) : 0 + i = i
    OBVIOUS
  <2>. QED
    BY <1>4, <1>8, <2>1, <2>2 DEF FrameAt
<1>10. PICK f \in Streams : f = Encode(e) /\ Len(f) = h
  BY <1>4, EncodeBytes DEF Streams
<1>11. PICK q \in Nat : /\ q = Len(b)
                        /\ \A i \in 1..h : s[i] = l[i]
                        /\ \A i \in 1..q : s[h + i] = b[i]
  <2>1. PICK q \in Nat : q = Len(b)
    BY LenProperties DEF Streams
  <2>2. h = Len(l) /\ q = Len(b) /\ l \in Seq(Bytes) /\ b \in Seq(Bytes)
    BY <1>5, <2>1 DEF Streams
  <2>3. /\ \A i \in 1..h : (l \o b)[i] = l[i]
        /\ \A i \in 1..q : (l \o b)[h + i] = b[i]
    BY ONLY <2>2, h \in Nat, q \in Nat, ConcatOf
  <2>. QED
    BY <1>5, <2>1, <2>3
<1>12. /\ \A i \in 1..h : Frame(m)[i] = f[i]
       /\ \A i \in 1..e : Frame(m)[h + i] = m[i]
  <2>1. /\ \A i \in 1..HeaderSize : Frame(m)[i] = Encode(Len(m))[i]
        /\ \A i \in 1..Len(m) : Frame(m)[HeaderSize + i] = m[i]
    BY FrameOf DEF Streams
  <2>. QED
    BY <1>4, <1>8, <1>10, <2>1, Zenon
<1>13. n = e /\ e <= d
  <2>1. l = f
    <3>1. \A i \in 1..h : i \in 1..(h + e)
      OBVIOUS
    <3>2. \A i \in 1..h : l[i] = f[i]
      BY <1>9, <1>11, <1>12, <3>1
    <3>. QED
      BY <1>5, <1>10, <3>2, SeqEqual DEF Streams
  <2>2. Decode(client.len) = e
    BY <1>5, <1>7, <1>8, <1>10, <2>1, DecodeEncode
  <2>3. ~(n < e)
    BY <1>1, <2>2, Zenon
  <2>4. n \in 0..Least(e, d)
    BY <1>4, <2>2
  <2>. QED
    BY <2>3, <2>4 DEF Least
<1>14. e \in 0..Len(down)
  BY <1>4, <1>13
<1>15. SubSeq(down, 1, e) = m
  <2>1. /\ SubSeq(down, 1, e) \in Seq(Bytes) /\ Len(SubSeq(down, 1, e)) = e
        /\ \A i \in 1..e : SubSeq(down, 1, e)[i] = down[i]
    <3>1. e \in Int /\ e <= Len(down) /\ 1 \in Nat \ {0} /\ e - 1 + 1 = e /\ (1 <= e \/ e = 0)
      BY <1>4, <1>13
    <3>2. /\ SubSeq(down, 1, e) \in Seq(Bytes)
          /\ Len(SubSeq(down, 1, e)) = IF 1 <= e THEN e - 1 + 1 ELSE 0
          /\ \A i \in 1..(e - 1 + 1) : SubSeq(down, 1, e)[i] = down[1 + i - 1]
      BY <1>3, <3>1, SubSeqOf DEF Streams
    <3>. QED
      BY <3>1, <3>2
  <2>2. \A i \in 1..d : b[i] = down[i] /\ i \in 1..q
    <3>1. PICK o \in Nat : o = Len(outputbuffer_)
      BY <1>3, LenProperties DEF Streams
    <3>2. /\ d = Len(down) /\ o = Len(outputbuffer_)
          /\ down \in Seq(Bytes) /\ outputbuffer_ \in Seq(Bytes)
      BY <1>3, <1>4, <3>1 DEF Streams
    <3>3. /\ Len(down \o outputbuffer_) = d + o
          /\ \A i \in 1..d : (down \o outputbuffer_)[i] = down[i]
      BY ONLY <3>2, d \in Nat, o \in Nat, ConcatOf
    <3>. QED
      BY <1>5, <1>11, <3>3
  <2>3. ASSUME NEW i \in 1..e PROVE down[i] = m[i]
    <3>1. i \in 1..d /\ h + i \in 1..(h + e)
      BY <1>13
    <3>2. down[i] = s[h + i]
      BY <1>11, <2>2, <3>1
    <3>. QED
      BY <1>9, <1>12, <3>1, <3>2
  <2>. QED
    BY <1>8, <2>1, <2>3, SeqEqual DEF Streams
<1>16. got' = Append(got, m) /\ down' = erase(down, e)
  BY <1>1, <1>13, <1>15
<1>17. /\ Len(got') = k + 1 /\ got'[k + 1] = m
       /\ \A i \in 1..k : got'[i] = got[i]
  BY <1>3, <1>4, <1>16, AppendProperties
<1>18. InClient' \o (down' \o outputbuffer_') = erase(s, h + e)
  <2>1. erase(s, h + e) = erase(b, e)
    <3>1. e \in 0..Len(b)
      <4>1. Len(b) = d + Len(outputbuffer_) /\ Len(outputbuffer_) \in Nat
        BY <1>3, <1>4, <1>5, ConcatProperties, LenProperties DEF Streams
      <4>. QED
        BY <1>4, <1>13, <4>1
    <3>. QED
      BY <1>5, <3>1, EraseBehind, ZenonT(20)
  <2>2. erase(b, e) = erase(down, e) \o outputbuffer_ /\ erase(down, e) \in Streams
    BY <1>3, <1>5, <1>14, EraseConcat
  <2>3. erase(down, e) \o outputbuffer_ \in Streams
    BY <1>3, <2>2, Joined
  <2>4. <<>> \o (erase(down, e) \o outputbuffer_) = erase(down, e) \o outputbuffer_
    BY <2>3, ConcatEmptySeq DEF Streams
  <2>. QED
    BY <1>2, <1>16, <2>1, <2>2, <2>4 DEF InClient
<1>19. \A i \in 1..(k + 1) : got'[i] = data[i]
  BY <1>4, <1>7, <1>17 DEF Copies
<1>. QED
  BY <1>2, <1>4, <1>6, <1>9, <1>17, <1>18, <1>19 DEF Copies

\* sendinloop() puts the frame of one more copy behind the others.
LEMMA CopySent ==
    ASSUME TypeOK, SendInLoop, ~short', NEW data, Copies(data)
    PROVE  \E data2 : Copies(data2)'
<1>1. /\ down \in Streams /\ outputbuffer_ \in Streams /\ down \o outputbuffer_ \in Streams
      /\ InClient \in Streams /\ handled \in Seq(Streams)
      /\ Len(got) \in Nat /\ Len(handled) \in Nat /\ replied \in Nat
  BY DownTypes
<1>2. /\ UNCHANGED <<down, handled, client, got>> /\ replied' = replied + 1
      /\ replied < Len(handled)
  BY DEF SendInLoop, clientVars
<1>3. PICK c \in CopyRead(Reply(handled[replied + 1])) :
        outputbuffer_' = appendwithsep(outputbuffer_, c)
  BY DEF SendInLoop
<1>4. c \in Streams
  <2>1. replied + 1 \in 1..Len(handled)
    BY <1>1, <1>2
  <2>2. handled[replied + 1] \in Streams
    BY <1>1, <2>1, ElementOfSeq
  <2>. QED
    BY <1>3, <2>2, ReplyOf
<1>5. PICK g \in Streams : g = Frame(c) /\ outputbuffer_' = outputbuffer_ \o g
  <2>1. Frame(c) \in Streams
    BY <1>4, FrameOf DEF Streams
  <2>. QED
    BY <1>1, <1>3, <1>4, <2>1, AppendWithSepOf
<1>6. InClient' \o (down' \o outputbuffer_') = (InClient \o (down \o outputbuffer_)) \o g
  <2>1. PICK a \in Streams, b \in Streams, o \in Streams :
          a = InClient /\ b = down /\ o = outputbuffer_
    BY <1>1
  <2>2. a \o (b \o (o \o g)) = (a \o (b \o o)) \o g
    BY JoinedTwice, SMTT(30)
  <2>3. InClient' = a /\ down' = b /\ outputbuffer_' = o \o g
    BY <1>2, <1>5, <2>1 DEF InClient
  <2>. QED
    BY <2>1, <2>2, <2>3
<1>7. PICK n \in Nat : n = replied /\ n = Len(data)
  BY <1>1 DEF Copies
<1>8. PICK data2 \in Seq(Streams) : /\ data2 = Append(data, c) /\ Len(data2) = n + 1
                                    /\ data2[n + 1] = c
                                    /\ \A i \in 1..n : data2[i] = data[i]
  <2>1. n = Len(data) /\ data \in Seq(Streams)
    BY <1>7 DEF Copies
  <2>2. /\ Append(data, c) \in Seq(Streams) /\ Len(Append(data, c)) = n + 1
        /\ Append(data, c)[n + 1] = c
        /\ \A j \in 1..n : Append(data, c)[j] = data[j]
    BY ONLY <2>1, n \in Nat, c \in Streams, <1>4, AppendOf
  <2>. QED
    BY <2>2, Zenon
<1>9. Framed((InClient \o (down \o outputbuffer_)) \o g, Len(got), data2)
  <2>1. InClient \o (down \o outputbuffer_) \in Streams
    BY <1>1, Joined
  <2>2. Len(got) \in 0..Len(data)
    BY <1>1 DEF Copies
  <2>. QED
    BY <1>4, <1>5, <1>8, <2>1, <2>2, FramedMore DEF Copies
<1>10. \A i \in 1..(n + 1) : data2[i] \in CopyRead(Reply(handled[i]))
  BY <1>3, <1>7, <1>8 DEF Copies
<1>11. \A i \in 1..Len(got) : got[i] = data2[i]
  BY <1>1, <1>7, <1>8 DEF Copies
<1>12. Copies(data2)'
  BY <1>1, <1>2, <1>6, <1>7, <1>8, <1>9, <1>10, <1>11 DEF Copies
<1>. QED
  BY <1>12

\* The other steps leave the stream to the client as it is.
LEMMA CopiesStill ==
    ASSUME NEW data, Copies(data), UNCHANGED <<replied, got>>, UNCHANGED client.at,
           InClient' \o (down' \o outputbuffer_') = InClient \o (down \o outputbuffer_),
           \A i \in 1..replied : handled'[i] = handled[i]
    PROVE  Copies(data)'
BY DEF Copies

\* Each step keeps the invariant of the way back.
LEMMA DownStep ==
    ASSUME UpInv, DownInv, [Next]_vars
    PROVE  DownInv'
<1>1. SUFFICES ASSUME ~short' PROVE \E data : Copies(data)'
  BY DEF DownInv
<1>2. TypeOK /\ short \in BOOLEAN
  BY DEF UpInv, TypeOK
<1>3. ~short
  BY <1>1, <1>2 DEF Next, SendRequest, RecvHeader, RecvBody, OnMessage, Read, ReadWouldBlock, Pick,
                    SendInLoop, Write, vars, clientVars
<1>4. PICK data : Copies(data)
  BY <1>3 DEF DownInv
<1>5. /\ down \in Streams /\ outputbuffer_ \in Streams /\ InClient \in Streams
      /\ handled \in Seq(Streams) /\ Len(handled) \in Nat /\ replied \in Nat
      /\ replied <= Len(handled)
  BY <1>2, DownTypes
<1>6. ASSUME NEW m \in Bodies, SendRequest(m) PROVE Copies(data)'
  <2>1. UNCHANGED <<down, outputbuffer_, handled, replied, got>> /\ client.at = "header"
        /\ client'.at = "header"
    BY <1>2, <1>6 DEF SendRequest, serverVars, TypeOK
  <2>. QED
    BY <1>4, <2>1, CopiesStill DEF InClient
<1>7. CASE RecvHeader
  BY <1>1, <1>2, <1>4, <1>7, WholeHeader
<1>8. CASE RecvBody
  BY <1>1, <1>4, <1>8, WholeBody
<1>9. CASE Read \/ ReadWouldBlock \/ UNCHANGED vars
  <2>1. UNCHANGED <<down, outputbuffer_, handled, replied, got, client>>
    BY <1>9 DEF Read, ReadWouldBlock, vars, serverVars, clientVars
  <2>. QED
    BY <1>4, <2>1, CopiesStill DEF InClient
<1>10. CASE Pick
  <2>1. UNCHANGED <<down, outputbuffer_, replied, got, client>>
    BY <1>10 DEF Pick, clientVars
  <2>2. \A i \in 1..replied : handled'[i] = handled[i]
    <3>1. PICK r \in pickmessage(inputbuffer_) :
            handled' = Append(handled, r.ss) \/ UNCHANGED handled
      BY <1>10 DEF Pick
    <3>2. r.ss \in Streams
      BY <1>2, PickTypes DEF TypeOK, Streams
    <3>3. \A i \in 1..Len(handled) : Append(handled, r.ss)[i] = handled[i]
      BY <1>5, <3>2, AppendProperties
    <3>. QED
      BY <1>5, <3>1, <3>3
  <2>. QED
    BY <1>4, <2>1, <2>2, CopiesStill DEF InClient
<1>11. CASE SendInLoop
  BY <1>1, <1>2, <1>4, <1>11, CopySent
<1>12. CASE Write
  <2>1. PICK n \in 1..Len(outputbuffer_) : /\ down' = down \o SubSeq(outputbuffer_, 1, n)
                                           /\ outputbuffer_' = erase(outputbuffer_, n)
    BY <1>12 DEF Write
  <2>2. n \in 0..Len(outputbuffer_)
    BY <1>5, LenProperties DEF Streams
  <2>3. down' \o outputbuffer_' = down \o outputbuffer_
    BY <1>5, <2>1, <2>2, Moved
  <2>4. UNCHANGED <<handled, replied, got, client>>
    BY <1>12 DEF Write, clientVars
  <2>. QED
    BY <1>4, <2>3, <2>4, CopiesStill DEF InClient
<1>. QED
  BY <1>4, <1>6, <1>7, <1>8, <1>9, <1>10, <1>11, <1>12 DEF Next, OnMessage

\* strdup() copies the reply to a text whole: neither the request nor the prefix holds a
\* NUL that would end the copy.
LEMMA TextCopied ==
    ASSUME NEW m \in Streams, IsText(m), NEW data \in CopyRead(Reply(m))
    PROVE  data = Reply(m)
<1>1. Prefix \in Seq(Bytes \ {NUL}) /\ m \in Seq(Bytes) /\ Prefix \in Seq(Bytes)
  BY ReplyOf, FramingAssumption, SeqMonotonic DEF Streams
<1>2. PICK p \in Nat, n \in Nat : p = Len(Prefix) /\ n = Len(m)
  BY <1>1, LenProperties
<1>3. Reply(m) \in Seq(Bytes) /\ Len(Reply(m)) = p + n
  BY <1>1, <1>2, ConcatProperties DEF Reply
<1>4. ASSUME NEW j \in 1..(p + n) PROVE Reply(m)[j] # NUL
  <2>1. Reply(m)[j] = IF j <= p THEN Prefix[j] ELSE m[j - p]
    BY <1>1, <1>2, ConcatProperties DEF Reply
  <2>2. j <= p => Prefix[j] # NUL
    <3>1. ASSUME j <= p PROVE j \in 1..Len(Prefix)
      BY <1>2, <3>1
    <3>. QED
      BY <1>1, <3>1, ElementOfSeq
  <2>3. ~(j <= p) => m[j - p] # NUL
    <3>1. ~(j <= p) => j - p \in 1..Len(m)
      BY <1>2
    <3>. QED
      BY <1>1, <3>1, LenProperties DEF IsText
  <2>. QED
    BY <2>1, <2>2, <2>3
<1>5. DOMAIN Reply(m) = 1..(p + n)
  BY <1>3, LenProperties
<1>6. data \in Seq(Bytes) /\ Len(data) = p + n
  BY <1>2, ReplyOf DEF Streams
<1>7. ASSUME NEW i \in 1..(p + n) PROVE data[i] = Reply(m)[i]
  <2>1. 1..(i - 1) \subseteq 1..(p + n)
    BY <1>2
  <2>. QED
    BY <1>4, <1>5, <2>1 DEF CopyRead
<1>. QED
  BY <1>3, <1>6, <1>7, SeqEqual

\* While no recv() of the client returns less than it asks for, each reply it reads has the
\* length of its request with the prefix, and the reply to a text is that text unchanged:
\* neither partial send() calls nor replies queued between them change it (sendinloop(),
\* writecallback()).
THEOREM RepliesFaithfulHolds == Spec => []RepliesFaithful
<1>1. Init => DownInv
  <2>1. SUFFICES ASSUME Init PROVE Copies(<<>>)
    BY DEF DownInv
  <2>2. <<>> \in Seq(Streams) /\ Len(<<>>) = 0 /\ <<>> \in Seq(Bytes)
    BY EmptySeq
  <2>3. InClient \o (down \o outputbuffer_) = <<>>
    BY <2>1, <2>2, ConcatEmptySeq DEF Init, InClient
  <2>4. Framed(<<>>, 0, <<>>)
    BY <2>2, FramedNone
  <2>. QED
    BY <2>1, <2>2, <2>3, <2>4 DEF Init, Copies
<1>2. UpInv /\ DownInv /\ [Next]_vars => DownInv'
  BY DownStep
<1>3. UpInv /\ DownInv => RepliesFaithful
  <2>1. SUFFICES ASSUME UpInv, DownInv, ~short, NEW i \in DOMAIN got
                 PROVE  /\ Len(got[i]) = Len(Prefix) + Len(sent[i])
                        /\ IsText(sent[i]) => got[i] = Reply(sent[i])
    BY DEF RepliesFaithful
  <2>2. PICK data : Copies(data)
    BY <2>1 DEF DownInv
  <2>3. /\ got \in Seq(Streams) /\ Len(got) \in Nat /\ Len(handled) \in Nat
        /\ replied \in Nat /\ replied <= Len(handled)
    BY <2>1, DownTypes DEF UpInv
  <2>4. i \in 1..Len(got) /\ i \in 1..replied /\ i \in 1..Len(handled)
    BY <2>1, <2>2, <2>3 DEF Copies
  <2>5. got[i] \in CopyRead(Reply(handled[i])) /\ handled[i] = sent[i]
    BY <2>1, <2>2, <2>4 DEF Copies, UpInv, StreamInv
  <2>6. PICK m \in Streams : m = handled[i]
    BY <2>1, <2>4, ElementOfSeq, DownTypes DEF UpInv
  <2>7. Len(got[i]) = Len(Prefix) + Len(m)
    BY <2>5, <2>6, ReplyOf
  <2>8. IsText(m) => got[i] = Reply(m)
    BY <2>5, <2>6, TextCopied
  <2>. QED
    BY <2>5, <2>6, <2>7, <2>8
<1>. QED
  BY <1>1, <1>2, <1>3, UpHolds, PTL DEF Spec
=============================================================================

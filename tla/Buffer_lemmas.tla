--------------------------- MODULE Buffer_lemmas ----------------------------
(***************************************************************************)
(* What the operators of Buffer.cpp compute, for every base and every      *)
(* content of the buffer: the header encoding is exact for the lengths an  *)
(* int holds, and a header that is not complete is never taken for one.    *)
(***************************************************************************)
EXTENDS Buffer, SequenceTheorems, TLAPS

\* Division with remainder.
LEMMA DivMod ==
    ASSUME NEW n \in Nat, NEW d \in Nat \ {0}
    PROVE  /\ n \div d \in Nat /\ n % d \in 0..(d - 1)
           /\ n = d * (n \div d) + (n % d)
BY Z3

\* The quotient is the only number with a remainder in range.
LEMMA DivUnique ==
    ASSUME NEW n \in Nat, NEW d \in Nat \ {0}, NEW q \in Nat, NEW r \in 0..(d - 1),
           n = d * q + r
    PROVE  n \div d = q
<1>. DEFINE p == n \div d
            s == n % d
<1>1. p \in Nat /\ s \in 0..(d - 1) /\ n = d * p + s
  BY DivMod
<1>. HIDE DEF p, s
<1>2. ASSUME p < q PROVE FALSE
  <2>1. PICK e \in Nat : q = p + 1 + e
    BY <1>1, <1>2
  <2>2. d * q = d * p + d + d * e /\ d * e \in Nat
    BY <2>1, <1>1
  <2>. QED
    BY <2>2, <1>1
<1>3. ASSUME q < p PROVE FALSE
  <2>1. PICK e \in Nat : p = q + 1 + e
    BY <1>1, <1>3
  <2>2. d * p = d * q + d + d * e /\ d * e \in Nat
    BY <2>1, <1>1
  <2>. QED
    BY <2>2, <1>1
<1>. QED
  BY <1>1, <1>2, <1>3 DEF p

\* Dividing by a product is dividing twice.
LEMMA DivTwice ==
    ASSUME NEW n \in Nat, NEW d \in Nat \ {0}, NEW e \in Nat \ {0}
    PROVE  n \div (d * e) = (n \div d) \div e
<1>. DEFINE p == n \div d
            q == p \div e
            r == n % d
            s == p % e
<1>1. p \in Nat /\ r \in 0..(d - 1) /\ n = d * p + r
  BY DivMod
<1>2. q \in Nat /\ s \in 0..(e - 1) /\ p = e * q + s
  BY <1>1, DivMod
<1>. HIDE DEF p, q, r, s
<1>3. n = (d * e) * q + (d * s + r)
  BY <1>1, <1>2
<1>4. d * e \in Nat \ {0}
  BY Z3
<1>5. d * s + r \in 0..(d * e - 1)
  <2>1. PICK x \in Nat : e = s + 1 + x
    BY <1>2
  <2>2. d * e = d * s + d + d * x /\ d * x \in Nat /\ d * s \in Nat
    BY <2>1, <1>2
  <2>. QED
    BY <2>2, <1>1
<1>6. n \div (d * e) = q
  BY <1>2, <1>3, <1>4, <1>5, DivUnique
<1>. QED
  BY <1>6 DEF q, p
-----------------------------------------------------------------------------
\* memcpy() of an int gives four bytes.
LEMMA EncodeBytes ==
    ASSUME NEW n \in Nat
    PROVE  /\ Encode(n) \in Seq(Bytes) /\ Len(Encode(n)) = HeaderSize
           /\ Encode(n) \in [1..HeaderSize -> Bytes]
<1>1. Base \in Nat \ {0} /\ Base * Base \in Nat \ {0} /\ Base * Base * Base \in Nat \ {0}
  BY BufferAssumption, Z3
<1>2. \A k \in Nat : k % Base \in Bytes
  BY <1>1, DivMod DEF Bytes
<1>3. /\ n \div Base \in Nat /\ n \div (Base * Base) \in Nat
      /\ n \div (Base * Base * Base) \in Nat
  BY <1>1, DivMod
<1>4. /\ n % Base \in Bytes /\ (n \div Base) % Base \in Bytes
      /\ (n \div (Base * Base)) % Base \in Bytes
      /\ (n \div (Base * Base * Base)) % Base \in Bytes
  BY <1>2, <1>3
<1>. QED
  BY <1>4 DEF Encode, HeaderSize

\* The four digits of a length below half of the range, put together again.
LEMMA Digits ==
    ASSUME NEW b \in Nat, NEW half \in Nat, b = 2 * half, half > 0,
           NEW n \in Nat, NEW q1 \in Nat, NEW q2 \in Nat, NEW q3 \in Nat,
           NEW r0 \in 0..(b - 1), NEW r1 \in 0..(b - 1), NEW r2 \in 0..(b - 1),
           n = b * q1 + r0, q1 = b * q2 + r1, q2 = b * q3 + r2,
           n < b * b * b * half
    PROVE  q3 < half /\ n = r0 + r1 * b + r2 * b * b + q3 * b * b * b
<1>1. n = r0 + r1 * b + r2 * b * b + q3 * b * b * b
  BY Z3
<1>2. /\ r1 * b \in Nat /\ r2 * b * b \in Nat
      /\ q3 * b * b * b \in Nat /\ b * b * b * half \in Nat
  BY Z3
<1>3. ASSUME q3 >= half PROVE FALSE
  <2>1. PICK e \in Nat : q3 = half + e
    BY <1>3
  <2>2. q3 * b * b * b = b * b * b * half + e * b * b * b /\ e * b * b * b \in Nat
    BY <2>1
  <2>. QED
    BY <2>2, <1>1, <1>2
<1>. QED
  BY <1>1, <1>3

\* The receiver's memcpy() returns the length that the sender's wrote.
LEMMA DecodeEncode ==
    ASSUME NEW n \in Lengths
    PROVE  Decode(Encode(n)) = n
<1>. DEFINE half == Base \div 2
            q1 == n \div Base
            q2 == n \div (Base * Base)
            q3 == n \div (Base * Base * Base)
            r0 == n % Base
            r1 == q1 % Base
            r2 == q2 % Base
<1>1. /\ Base \in Nat \ {0} /\ Base * Base \in Nat \ {0} /\ Base * Base * Base \in Nat \ {0}
      /\ n \in Nat
  BY BufferAssumption, Z3 DEF Lengths
<1>2. q2 = q1 \div Base /\ q3 = q2 \div Base
  BY <1>1, DivTwice
<1>3. q1 \in Nat /\ r0 \in 0..(Base - 1) /\ n = Base * q1 + r0
  BY <1>1, DivMod
<1>4. q2 \in Nat /\ r1 \in 0..(Base - 1) /\ q1 = Base * q2 + r1
  BY <1>1, <1>2, <1>3, DivMod
<1>5. q3 \in Nat /\ r2 \in 0..(Base - 1) /\ q2 = Base * q3 + r2
  BY <1>1, <1>2, <1>4, DivMod
<1>6. half \in Nat /\ Base = 2 * half /\ half > 0
  <2>1. half \in Nat /\ Base = 2 * half + (Base % 2)
    BY BufferAssumption, DivMod
  <2>. QED
    BY <2>1, BufferAssumption
<1>7. Encode(n) = <<r0, r1, r2, q3 % Base>>
  BY DEF Encode
<1>8. n < Base * Base * Base * half
  <2>. HIDE DEF half
  <2>1. /\ Base * Base * Base * Base = 2 * (Base * Base * Base * half)
        /\ Base * Base * Base * half \in Nat
    BY <1>1, <1>6
  <2>2. (2 * (Base * Base * Base * half)) \div 2 = Base * Base * Base * half
    BY <2>1
  <2>. QED
    BY <2>1, <2>2 DEF Lengths
<1>. HIDE DEF q1, q2, q3, r0, r1, r2
<1>9. q3 < half /\ n = r0 + r1 * Base + r2 * Base * Base + q3 * Base * Base * Base
  <2>. HIDE DEF half
  <2>. QED
    BY <1>1, <1>3, <1>4, <1>5, <1>6, <1>8, Digits
<1>10. q3 % Base = q3
  <2>1. q3 \in 0..(Base - 1)
    <3>. HIDE DEF half
    <3>. QED
      BY <1>5, <1>6, <1>9
  <2>. QED
    BY <2>1, <1>1
<1>11. Decode(Encode(n)) = r0 + r1 * Base + r2 * Base * Base + q3 * Base * Base * Base - 0
  <2>1. Encode(n) = <<r0, r1, r2, q3>> /\ ~(q3 >= Base \div 2)
    BY <1>5, <1>6, <1>7, <1>9, <1>10
  <2>2. ASSUME NEW h, h = <<r0, r1, r2, q3>>
        PROVE  Decode(h) = r0 + r1 * Base + r2 * Base * Base + q3 * Base * Base * Base - 0
    BY <2>1, <2>2 DEF Decode
  <2>. QED
    BY <2>1, <2>2
<1>12. q3 * Base * Base * Base - 0 = q3 * Base * Base * Base
  BY <1>1, <1>5
<1>. QED
  BY <1>9, <1>11, <1>12
-----------------------------------------------------------------------------
\* A negative length with a zero among its two middle bytes is far below -4.
LEMMA NegativeIsHuge ==
    ASSUME NEW b \in Nat, b >= 4, NEW h1 \in 0..(b - 1), NEW h2 \in 0..(b - 1),
           NEW h3 \in 0..(b - 1), NEW h4 \in 0..(b - 1), h2 = 0 \/ h3 = 0
    PROVE  h1 + h2 * b + h3 * b * b + h4 * b * b * b - b * b * b * b < -4
<1>. DEFINE b2 == b * b
            b3 == b * b * b
            b4 == b * b * b * b
<1>1. /\ b2 \in Nat /\ b3 \in Nat /\ b4 \in Nat
      /\ b2 >= 4 * b /\ b3 >= 4 * b2 /\ b4 >= 4 * b3
  <2>1. b2 \in Nat /\ b2 >= 4 * b
    BY Z3
  <2>2. b3 = b2 * b /\ b4 = b3 * b
    OBVIOUS
  <2>. HIDE DEF b2, b3, b4
  <2>3. b3 \in Nat /\ b3 >= 4 * b2
    BY <2>1, <2>2
  <2>4. b4 \in Nat /\ b4 >= 4 * b3
    BY <2>2, <2>3
  <2>. QED
    BY <2>1, <2>3, <2>4
<1>2. h4 * b * b * b \in Nat /\ h4 * b * b * b <= b4 - b3
  <2>1. PICK e \in Nat : b = h4 + 1 + e
    OBVIOUS
  <2>2. b4 = h4 * b * b * b + b3 + e * b * b * b /\ e * b * b * b \in Nat
    BY <2>1
  <2>. QED
    BY <2>2, <1>1
<1>3. h3 * b * b \in Nat /\ h3 * b * b <= b3 - b2
  <2>1. PICK e \in Nat : b = h3 + 1 + e
    OBVIOUS
  <2>2. b3 = h3 * b * b + b2 + e * b * b /\ e * b * b \in Nat
    BY <2>1
  <2>. QED
    BY <2>2, <1>1
<1>4. h2 * b \in Nat /\ h2 * b <= b2 - b
  <2>1. PICK e \in Nat : b = h2 + 1 + e
    OBVIOUS
  <2>2. b2 = h2 * b + b + e * b /\ e * b \in Nat
    BY <2>1
  <2>. QED
    BY <2>2, <1>1
<1>. HIDE DEF b2, b3, b4
<1>5. CASE h2 = 0
  <2>1. h2 * b = 0
    BY <1>5
  <2>2. h1 + h2 * b + h3 * b * b + h4 * b * b * b - b4 < -4
    BY <2>1, <1>1, <1>2, <1>3
  <2>. QED
    BY <2>2 DEF b4
<1>6. CASE h3 = 0
  <2>1. h3 * b * b = 0
    BY <1>6
  <2>2. h1 + h2 * b + h3 * b * b + h4 * b * b * b - b4 < -4
    BY <2>1, <1>1, <1>2, <1>4
  <2>. QED
    BY <2>2 DEF b4
<1>. QED
  BY <1>5, <1>6

\* The terminator of the string keeps a header that is partly not there from
\* being taken for a length between -4 and -1, the only ones that would pass the
\* test of the size and make substr() throw.
LEMMA PartialHeader ==
    ASSUME NEW buf \in Seq(Bytes), buf # <<>>, Len(buf) < HeaderSize,
           NEW h \in HeaderRead(buf)
    PROVE  TooShort(buf, Decode(h))
<1>1. h \in [1..4 -> Bytes] /\ h[Len(buf) + 1] = 0
  BY DEF HeaderRead, HeaderSize, NUL
<1>2. PICK k \in 1..3 : k = Len(buf)
  <2>1. PICK n \in Nat : n = Len(buf)
    BY LenProperties
  <2>2. n # 0 /\ n < 4
    BY <2>1, EmptySeq DEF HeaderSize
  <2>. QED
    BY <2>1, <2>2
<1>3. PICK h1 \in Bytes, h2 \in Bytes, h3 \in Bytes, h4 \in Bytes :
        h1 = h[1] /\ h2 = h[2] /\ h3 = h[3] /\ h4 = h[4]
  BY <1>1
<1>4. /\ h1 \in 0..(Base - 1) /\ h2 \in 0..(Base - 1) /\ h3 \in 0..(Base - 1) /\ h4 \in 0..(Base - 1)
      /\ Base \in Nat /\ Base >= 4
  BY BufferAssumption DEF Bytes
<1>5. Base \div 2 >= 2
  BY BufferAssumption
<1>6. /\ h1 \in Nat /\ h2 * Base \in Nat /\ h3 * Base * Base \in Nat
      /\ h4 * Base * Base * Base \in Nat /\ Base * Base * Base * Base \in Nat
  BY <1>4
<1>7. CASE h4 >= Base \div 2
  <2>1. h2 = 0 \/ h3 = 0
    <3>1. h4 # 0
      BY <1>4, <1>5, <1>7
    <3>2. h[k + 1] = 0
      BY <1>1, <1>2, Zenon
    <3>3. k + 1 = 2 \/ k + 1 = 3 \/ k + 1 = 4
      OBVIOUS
    <3>4. h[2] = 0 \/ h[3] = 0 \/ h[4] = 0
      BY <3>2, <3>3, Zenon
    <3>. QED
      BY <1>3, <3>1, <3>4
  <2>2. h1 + h2 * Base + h3 * Base * Base + h4 * Base * Base * Base
          - Base * Base * Base * Base < -4
    BY <2>1, <1>4, NegativeIsHuge
  <2>3. Decode(h) = h1 + h2 * Base + h3 * Base * Base + h4 * Base * Base * Base
                      - Base * Base * Base * Base
    BY <1>3, <1>7 DEF Decode
  <2>4. Decode(h) \in Int
    BY <2>3, <1>6
  <2>. QED
    BY <2>2, <2>3, <2>4 DEF TooShort, HeaderSize
<1>8. CASE ~(h4 >= Base \div 2)
  <2>1. Decode(h) = h1 + h2 * Base + h3 * Base * Base + h4 * Base * Base * Base - 0
    BY <1>3, <1>8 DEF Decode
  <2>2. Decode(h) \in Nat
    BY <2>1, <1>6
  <2>. QED
    BY <2>2, <1>2 DEF TooShort, HeaderSize
<1>. QED
  BY <1>7, <1>8
-----------------------------------------------------------------------------
\* SubSeq() at a place where it stays within the sequence.
LEMMA SubSeqOf ==
    ASSUME NEW S, NEW s \in Seq(S), NEW m \in Nat \ {0}, NEW n \in Int, n <= Len(s)
    PROVE  /\ SubSeq(s, m, n) \in Seq(S)
           /\ Len(SubSeq(s, m, n)) = IF m <= n THEN n - m + 1 ELSE 0
           /\ \A i \in 1..(n - m + 1) : SubSeq(s, m, n)[i] = s[m + i - 1]
<1>1. \A i \in m..n : s[i] \in S
  BY ElementOfSeq, LenProperties
<1>. QED
  BY <1>1, SubSeqProperties

\* append().
LEMMA ConcatOf ==
    ASSUME NEW S, NEW s \in Seq(S), NEW t \in Seq(S),
           NEW m \in Nat, NEW n \in Nat, m = Len(s), n = Len(t)
    PROVE  /\ s \o t \in Seq(S) /\ Len(s \o t) = m + n
           /\ \A i \in 1..m : (s \o t)[i] = s[i]
           /\ \A i \in 1..n : (s \o t)[m + i] = t[i]
<1>1. /\ s \o t \in Seq(S) /\ Len(s \o t) = m + n
      /\ \A i \in 1..(m + n) : (s \o t)[i] = IF i <= m THEN s[i] ELSE t[i - m]
  BY ConcatProperties
<1>2. ASSUME NEW i \in 1..n PROVE (s \o t)[m + i] = t[i]
  <2>1. m + i \in 1..(m + n) /\ ~(m + i <= m) /\ (m + i) - m = i
    OBVIOUS
  <2>. QED
    BY <1>1, <2>1
<1>. QED
  BY <1>1, <1>2

\* erase(0, n).
LEMMA EraseOf ==
    ASSUME NEW S, NEW s \in Seq(S), NEW n \in 0..Len(s)
    PROVE  /\ erase(s, n) \in Seq(S) /\ Len(erase(s, n)) = Len(s) - n
           /\ \A i \in 1..(Len(s) - n) : erase(s, n)[i] = s[n + i]
<1>1. Len(s) \in Nat /\ n \in Nat
  BY LenProperties
<1>2. n + 1 \in Nat \ {0} /\ Len(s) \in Int /\ Len(s) <= Len(s)
  BY <1>1
<1>3. /\ erase(s, n) \in Seq(S)
      /\ Len(erase(s, n)) = IF n + 1 <= Len(s) THEN Len(s) - (n + 1) + 1 ELSE 0
      /\ \A i \in 1..(Len(s) - (n + 1) + 1) : erase(s, n)[i] = s[n + 1 + i - 1]
  BY <1>2, SubSeqOf DEF erase
<1>. QED
  BY <1>1, <1>3

\* A header read at data() is one of four bytes.
LEMMA HeaderBytes ==
    ASSUME NEW buf \in Seq(Bytes), NEW h \in HeaderRead(buf)
    PROVE  \A i \in 1..4 : h[i] \in Bytes
<1>1. CASE Len(buf) >= HeaderSize
  <2>1. PICK n \in Nat : n = Len(buf) /\ n >= 4
    BY <1>1, LenProperties DEF HeaderSize
  <2>2. /\ \A i \in 1..(4 - 1 + 1) : SubSeq(buf, 1, 4)[i] = buf[1 + i - 1]
        /\ h = SubSeq(buf, 1, 4)
    BY <2>1, <1>1, SubSeqOf DEF HeaderRead, HeaderSize
  <2>. QED
    BY <2>1, <2>2, ElementOfSeq
<1>2. CASE ~(Len(buf) >= HeaderSize)
  BY <1>2 DEF HeaderRead, HeaderSize
<1>. QED
  BY <1>1, <1>2

\* An int is a number, whatever its bytes.
LEMMA DecodeType ==
    ASSUME NEW h, \A i \in 1..4 : h[i] \in Bytes
    PROVE  Decode(h) \in Int
<1>1. PICK h1 \in Bytes, h2 \in Bytes, h3 \in Bytes, h4 \in Bytes :
        h1 = h[1] /\ h2 = h[2] /\ h3 = h[3] /\ h4 = h[4]
  OBVIOUS
<1>2. /\ h1 \in Nat /\ h2 \in Nat /\ h3 \in Nat /\ h4 \in Nat /\ Base \in Nat
  BY BufferAssumption DEF Bytes
<1>3. /\ h2 * Base \in Nat /\ h3 * Base * Base \in Nat
      /\ h4 * Base * Base * Base \in Nat /\ Base * Base * Base * Base \in Nat
  BY <1>2
<1>4. Decode(h) = h1 + h2 * Base + h3 * Base * Base + h4 * Base * Base * Base
                    - (IF h4 >= Base \div 2 THEN Base * Base * Base * Base ELSE 0)
  BY <1>1 DEF Decode
<1>. QED
  BY <1>2, <1>3, <1>4

\* pickmessage() never throws, and what it returns and leaves are bytes.
LEMMA PickTypes ==
    ASSUME NEW buf \in Seq(Bytes), NEW r \in pickmessage(buf)
    PROVE  /\ r.result \in {"none", "message"}
           /\ r.ss \in Seq(Bytes) /\ r.rest \in Seq(Bytes)
<1>1. CASE r = Nothing
  BY <1>1, EmptySeq DEF Nothing
<1>2. ASSUME buf # <<>>, NEW h \in HeaderRead(buf), NEW len, len = Decode(h),
             r = IF TooShort(buf, len) THEN Nothing
                 ELSE IF Len(buf) < HeaderSize THEN [Nothing EXCEPT !.result = "throw"]
                 ELSE [result |-> "message", ss |-> Body(buf, len),
                       rest |-> erase(buf, len + HeaderSize)]
      PROVE  /\ r.result \in {"none", "message"}
             /\ r.ss \in Seq(Bytes) /\ r.rest \in Seq(Bytes)
  <2>1. CASE TooShort(buf, len)
    BY <1>2, <2>1, EmptySeq DEF Nothing
  <2>2. CASE ~TooShort(buf, len)
    <3>1. ~(Len(buf) < HeaderSize)
      BY <1>2, <2>2, PartialHeader
    <3>2. len \in Int /\ Len(buf) \in Nat /\ 0 <= len + 4 /\ len + 4 <= Len(buf) /\ 4 <= Len(buf)
      BY <1>2, <2>2, <3>1, HeaderBytes, DecodeType, LenProperties DEF TooShort, HeaderSize
    <3>3. len + 4 \in 0..Len(buf)
      BY <3>2
    <3>4. erase(buf, len + HeaderSize) \in Seq(Bytes)
      BY <3>3, EraseOf DEF HeaderSize
    <3>5. Body(buf, len) \in Seq(Bytes)
      <4>. DEFINE last == IF len < 0 \/ HeaderSize + len > Len(buf) THEN Len(buf)
                          ELSE HeaderSize + len
      <4>1. last \in Int /\ last <= Len(buf) /\ HeaderSize + 1 \in Nat \ {0}
        BY <3>2 DEF HeaderSize
      <4>. HIDE DEF last
      <4>2. SubSeq(buf, HeaderSize + 1, last) \in Seq(Bytes)
        BY <4>1, SubSeqOf
      <4>. QED
        BY <4>2 DEF Body, last
    <3>6. r.result = "message" /\ r.ss = Body(buf, len) /\ r.rest = erase(buf, len + HeaderSize)
      BY <1>2, <2>2, <3>1
    <3>. QED
      BY <3>4, <3>5, <3>6
  <2>. QED
    BY <2>1, <2>2
<1>. QED
  BY <1>1, <1>2 DEF pickmessage

\* What appendwithsep() puts into a stream for the message m.
Frame(m) == Encode(Len(m)) \o m

\* What Buffer::appendwithsep() appends: the four bytes of the header, then the message.
LEMMA FrameOf ==
    ASSUME NEW m \in Seq(Bytes)
    PROVE  /\ Frame(m) \in Seq(Bytes) /\ Len(Frame(m)) = HeaderSize + Len(m)
           /\ \A i \in 1..HeaderSize : Frame(m)[i] = Encode(Len(m))[i]
           /\ \A i \in 1..Len(m) : Frame(m)[HeaderSize + i] = m[i]
<1>1. PICK k \in Nat : k = Len(m)
  BY LenProperties
<1>2. PICK f \in Nat : f = HeaderSize
  BY DEF HeaderSize
<1>3. PICK e \in Seq(Bytes) : e = Encode(k) /\ Len(e) = f
  BY <1>2, EncodeBytes
<1>4. f = Len(e)
  BY <1>3
<1>5. /\ e \o m \in Seq(Bytes) /\ Len(e \o m) = f + k
      /\ \A i \in 1..f : (e \o m)[i] = e[i]
      /\ \A i \in 1..k : (e \o m)[f + i] = m[i]
  BY ONLY <1>1, <1>4, k \in Nat, f \in Nat, e \in Seq(Bytes), m \in Seq(Bytes), ConcatOf
<1>. QED
  BY <1>1, <1>2, <1>3, <1>5 DEF Frame

\* When the stream that arrives begins with the frame of m, pickmessage() gets m
\* and leaves what follows, as soon as the frame is complete and never before.
LEMMA PickWhole ==
    ASSUME NEW buf \in Seq(Bytes), NEW m \in Seq(Bytes), Len(m) \in Lengths,
           \A i \in 1..Len(buf) : i <= HeaderSize + Len(m) => buf[i] = Frame(m)[i],
           NEW r \in pickmessage(buf)
    PROVE  /\ Len(buf) < HeaderSize + Len(m) => r.result = "none"
           /\ Len(buf) >= HeaderSize + Len(m) =>
                /\ r.result = "message" /\ r.ss = m
                /\ r.rest = erase(buf, HeaderSize + Len(m))
<1>1. PICK n \in Nat, k \in Nat : n = Len(buf) /\ k = Len(m)
  BY LenProperties
<1>4. \A i \in 1..n : i <= 4 + k => buf[i] = Frame(m)[i]
  BY <1>1 DEF HeaderSize
<1>5. /\ \A i \in 1..4 : Frame(m)[i] = Encode(k)[i]
      /\ \A i \in 1..k : Frame(m)[4 + i] = m[i]
  BY <1>1, FrameOf DEF HeaderSize
<1>2. CASE buf = <<>>
  <2>1. r = Nothing /\ n = 0
    BY <1>1, <1>2 DEF pickmessage
  <2>. QED
    BY <2>1, <1>1 DEF Nothing, HeaderSize
<1>3. ASSUME buf # <<>>, NEW h \in HeaderRead(buf),
             r = IF TooShort(buf, Decode(h)) THEN Nothing
                 ELSE IF Len(buf) < HeaderSize THEN [Nothing EXCEPT !.result = "throw"]
                 ELSE [result |-> "message", ss |-> Body(buf, Decode(h)),
                       rest |-> erase(buf, Decode(h) + HeaderSize)]
      PROVE  /\ Len(buf) < HeaderSize + Len(m) => r.result = "none"
             /\ Len(buf) >= HeaderSize + Len(m) =>
                  /\ r.result = "message" /\ r.ss = m
                  /\ r.rest = erase(buf, HeaderSize + Len(m))
  <2>1. CASE n < 4
    <3>1. TooShort(buf, Decode(h))
      BY <1>1, <1>3, <2>1, PartialHeader DEF HeaderSize
    <3>. QED
      BY <1>1, <1>3, <2>1, <3>1 DEF Nothing, HeaderSize
  <2>2. CASE n >= 4
    <3>1. /\ h = SubSeq(buf, 1, 4) /\ Len(h) = 4 /\ h \in Seq(Bytes)
          /\ \A i \in 1..4 : h[i] = buf[i]
      <4>1. h = SubSeq(buf, 1, 4)
        BY <1>1, <1>3, <2>2 DEF HeaderRead, HeaderSize
      <4>2. /\ Len(SubSeq(buf, 1, 4)) = 4 /\ SubSeq(buf, 1, 4) \in Seq(Bytes)
            /\ \A i \in 1..(4 - 1 + 1) : SubSeq(buf, 1, 4)[i] = buf[1 + i - 1]
        BY <1>1, <2>2, SubSeqOf
      <4>. QED
        BY <4>1, <4>2
    <3>2. h = Encode(k)
      <4>1. Encode(k) \in Seq(Bytes) /\ Len(Encode(k)) = 4
        BY EncodeBytes DEF HeaderSize
      <4>2. \A i \in 1..4 : h[i] = Encode(k)[i]
        BY <1>1, <1>4, <1>5, <2>2, <3>1
      <4>. QED
        BY <3>1, <4>1, <4>2, SeqEqual
    <3>3. Decode(h) = k
      BY <1>1, <3>2, DecodeEncode
    <3>4. CASE n < 4 + k
      BY <1>1, <1>3, <3>3, <3>4 DEF TooShort, Nothing, HeaderSize
    <3>5. CASE n >= 4 + k
      <4>1. r = [result |-> "message", ss |-> Body(buf, k), rest |-> erase(buf, k + HeaderSize)]
        BY <1>1, <1>3, <2>2, <3>3, <3>5 DEF TooShort, HeaderSize
      <4>2. Body(buf, k) = SubSeq(buf, 5, 4 + k)
        BY <1>1, <3>5 DEF Body, HeaderSize
      <4>3. /\ SubSeq(buf, 5, 4 + k) \in Seq(Bytes) /\ Len(SubSeq(buf, 5, 4 + k)) = k
            /\ \A i \in 1..k : SubSeq(buf, 5, 4 + k)[i] = buf[4 + i]
        <5>1. /\ SubSeq(buf, 5, 4 + k) \in Seq(Bytes)
              /\ Len(SubSeq(buf, 5, 4 + k)) = IF 5 <= 4 + k THEN (4 + k) - 5 + 1 ELSE 0
              /\ \A i \in 1..((4 + k) - 5 + 1) : SubSeq(buf, 5, 4 + k)[i] = buf[5 + i - 1]
          BY <1>1, <3>5, SubSeqOf
        <5>. QED
          BY <5>1
      <4>4. \A i \in 1..k : buf[4 + i] = m[i]
        BY <1>4, <1>5, <3>5
      <4>5. Body(buf, k) = m
        BY <1>1, <4>2, <4>3, <4>4, SeqEqual
      <4>. QED
        BY <1>1, <3>5, <4>1, <4>5 DEF HeaderSize
    <3>. QED
      BY <3>4, <3>5
  <2>. QED
    BY <2>1, <2>2
<1>. QED
  BY <1>2, <1>3 DEF pickmessage
=============================================================================

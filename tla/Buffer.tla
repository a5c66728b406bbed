------------------------------- MODULE Buffer -------------------------------
(***************************************************************************)
(* Buffer.cpp: the operations on buf_, a std::string of bytes, with        *)
(* sep_ = 1 (messages behind a header of four bytes), the only value used. *)
(* A byte is a digit: the header is a little-endian two's complement       *)
(* number of four digits, as an int is of four bytes.                      *)
(***************************************************************************)
EXTENDS Integers, Sequences

CONSTANT Base       \* the number of byte values; 256 in the code

\* -4..-1 end in three digits Base - 1, as in an int: what pickmessage() relies on.
ASSUME BufferAssumption == Base \in Nat /\ Base >= 4 /\ Base % 2 = 0

HeaderSize == 4
Bytes == 0..(Base - 1)
NUL == 0

\* Mutant of Encode: only the lowest byte is used.
EncodeOneByte(n) == <<n, 0, 0, 0>>

\* memcpy() between an int and four bytes.
Encode(n) == <<n % Base, (n \div Base) % Base,
               (n \div (Base * Base)) % Base, (n \div (Base * Base * Base)) % Base>>
Decode(h) == h[1] + h[2] * Base + h[3] * Base * Base + h[4] * Base * Base * Base
               - (IF h[4] >= Base \div 2 THEN Base * Base * Base * Base ELSE 0)

\* The lengths that fit into an int.
Lengths == {n \in Nat : n < (Base * Base * Base * Base) \div 2}

\* append() and erase(0, n).
append(buf, data) == buf \o data
erase(buf, n) == SubSeq(buf, n + 1, Len(buf))

\* appendwithsep(): the low four bytes of the size_t, then the data.
appendwithsep(buf, data) == buf \o Encode(Len(data)) \o data

\* Mutant of HeaderRead: a buffer without the terminator of std::string.
HeaderReadUnterminated(buf) ==
    IF Len(buf) >= HeaderSize THEN {SubSeq(buf, 1, HeaderSize)}
    ELSE {h \in [1..HeaderSize -> Bytes] : \A i \in DOMAIN buf : h[i] = buf[i]}

\* The four bytes that memcpy() may find at data().  With fewer in the buffer the
\* next one is the string's terminator, and what follows it is left over from
\* earlier contents.
HeaderRead(buf) ==
    IF Len(buf) >= HeaderSize THEN {SubSeq(buf, 1, HeaderSize)}
    ELSE {h \in [1..HeaderSize -> Bytes] :
            h[Len(buf) + 1] = NUL /\ \A i \in DOMAIN buf : h[i] = buf[i]}

\* Mutant of TooShort: the header is not counted.
TooShortByHeader(buf, len) == Len(buf) < len

\* buf_.size() < len+4, where a negative len+4 becomes a huge size_t.
TooShort(buf, len) == len + HeaderSize < 0 \/ Len(buf) < len + HeaderSize

\* substr(4, len) ends with the string at the latest; a negative len is a huge one.
Body(buf, len) ==
    SubSeq(buf, HeaderSize + 1,
           IF len < 0 \/ HeaderSize + len > Len(buf) THEN Len(buf) ELSE HeaderSize + len)

Nothing == [result |-> "none", ss |-> <<>>, rest |-> <<>>]

\* pickmessage(): the possible outcomes; substr() throws if it starts past the end.
pickmessage(buf) ==
    IF buf = <<>> THEN {Nothing}
    ELSE {LET len == Decode(h) IN
          IF TooShort(buf, len) THEN Nothing
          ELSE IF Len(buf) < HeaderSize THEN [Nothing EXCEPT !.result = "throw"]
          ELSE [result |-> "message", ss |-> Body(buf, len), rest |-> erase(buf, len + HeaderSize)]
          : h \in HeaderRead(buf)}
=============================================================================

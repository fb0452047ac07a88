---------------------------- MODULE Socks5Proofs ----------------------------
(***************************************************************************)
(* The SOCKS5 encoding (relay/socks5.rs) for every address, every message  *)
(* and every way the stream is cut: what is written is what is read.       *)
(***************************************************************************)
EXTENDS Socks5, SequenceTheorems, TLAPS

Byte == {b \in Nat : b < 256}
Bytes == Seq(Byte)
PortNumber == {p \in Nat : p < 65536}

\* The addresses a program can hold: four or sixteen bytes of an IP address, or a
\* name that is a String of at most 255 bytes (write_domain_name_address asserts
\* the length), and a u16 port.
Addresses ==
    [type : {"v4"}, ip : {ip \in Bytes : Len(ip) = 4}, port : PortNumber]
      \cup [type : {"v6"}, ip : {ip \in Bytes : Len(ip) = 16}, port : PortNumber]
      \cup [type : {"name"}, name : {name \in Bytes : Len(name) < 256 /\ Utf8(name)}, port : PortNumber]

-----------------------------------------------------------------------------
(* Ports, and sequences joined and cut *)

\* The two bytes of a port give back the port (put_u16_be and read_u16_be).
LEMMA PortFacts ==
    ASSUME NEW n \in PortNumber
    PROVE  /\ put_u16(n) \in Bytes /\ Len(put_u16(n)) = 2
           /\ put_u16(n)[1] \in Byte /\ put_u16(n)[2] \in Byte
           /\ 256 * put_u16(n)[1] + put_u16(n)[2] = n
<1>0. n \in Nat /\ n < 65536
  BY DEF PortNumber
<1>1. n \div 256 \in Byte /\ n % 256 \in Byte
  BY <1>0 DEF Byte
<1>2. 256 * (n \div 256) + (n % 256) = n
  BY <1>0
<1>3. PICK h \in Byte : h = n \div 256
  BY <1>1
<1>4. PICK l \in Byte : l = n % 256
  BY <1>1
<1>5. put_u16(n) = <<h, l>>
  BY <1>3, <1>4 DEF put_u16
<1>6. <<h, l>> \in Seq(Byte) /\ Len(<<h, l>>) = 2 /\ <<h, l>>[1] = h /\ <<h, l>>[2] = l
  OBVIOUS
<1>7. 256 * h + l = n
  BY <1>2, <1>3, <1>4
<1> QED BY <1>5, <1>6, <1>7 DEF Bytes

\* Sequences of bytes by the facts about them that the readers need.
Size(s) == Len(s)
At(s, i) == s[i]
Joined(x, y) == x \o y
Piece(s, m, n) == SubSeq(s, m, n)

\* j is x with y behind it.
IsJoin(j, x, y) ==
    /\ j \in Bytes /\ Size(x) \in Nat /\ Size(y) \in Nat /\ Size(j) = Size(x) + Size(y)
    /\ \A i \in 1..Size(x) : At(j, i) = At(x, i)
    /\ \A i \in 1..Size(y) : At(j, Size(x) + i) = At(y, i)

\* Joining is what IsJoin says.
LEMMA JoinFacts == \A x, y \in Bytes : IsJoin(Joined(x, y), x, y)
BY DEF Bytes, Size, Joined, At, IsJoin

\* The piece of s that starts after k bytes and has the bytes of y is y.
LEMMA PieceFacts ==
    ASSUME NEW s \in Bytes, NEW y \in Bytes, NEW k \in Nat, k + Size(y) <= Size(s),
           \A i \in 1..Size(y) : At(s, k + i) = At(y, i)
    PROVE  Piece(s, k + 1, k + Size(y)) = y
<1>1. Size(y) \in Nat /\ Size(s) \in Nat /\ \A i \in 1..Size(s) : At(s, i) \in Byte
  BY LenProperties, ElementOfSeq DEF Size, At, Bytes
<1>2. PICK n \in Nat : n = Size(y)
  BY <1>1
<1>3. \A i \in k + 1..k + n : s[i] \in Byte
  BY <1>1, <1>2 DEF At
<1>4. PICK u : u = SubSeq(s, k + 1, k + n)
  BY Zenon
<1>5. /\ SubSeq(s, k + 1, k + n) \in Seq(Byte)
      /\ Len(SubSeq(s, k + 1, k + n)) = IF k + 1 <= k + n THEN (k + n) - (k + 1) + 1 ELSE 0
      /\ \A i \in 1..(k + n) - (k + 1) + 1 : SubSeq(s, k + 1, k + n)[i] = s[(k + 1) + i - 1]
  BY <1>3, SubSeqProperties
<1>6. Len(SubSeq(s, k + 1, k + n)) = n /\ \A i \in 1..n : SubSeq(s, k + 1, k + n)[i] = s[k + i]
  BY <1>5
<1>7. u \in Seq(Byte) /\ Size(u) = n /\ \A i \in 1..n : At(u, i) = At(s, k + i)
  BY <1>4, <1>5, <1>6, Zenon DEF Size, At
<1>8. \A i \in 1..n : At(u, i) = At(y, i)
  BY <1>2, <1>7
<1>9. u = y
  BY <1>2, <1>7, <1>8, SeqEqual, Zenon DEF Size, At, Bytes
<1> QED BY <1>2, <1>4, <1>9, Zenon DEF Piece

-----------------------------------------------------------------------------
(* The parts of an address *)

\* s is a head, a host and a port, in all w, with rest behind them.
Lies(s, w, h, host, p, rest) ==
    /\ w \in Bytes /\ s \in Bytes
    /\ Size(w) = Size(h) + Size(host) + 2 /\ Size(s) = Size(w) + Size(rest)
    /\ \A i \in 1..Size(h) : At(w, i) = At(h, i) /\ At(s, i) = At(h, i)
    /\ Piece(s, Size(h) + 1, Size(h) + Size(host)) = host
    /\ get_u16(s, Size(h) + Size(host) + 1) = p
    /\ Piece(s, Size(w) + 1, Size(s)) = rest

\* A head, a host and a port that are joined lie behind each other.
LEMMA AddressParts ==
    ASSUME NEW h \in Bytes, NEW host \in Bytes, NEW p \in PortNumber, NEW rest \in Bytes,
           NEW w, w = Joined(Joined(h, host), put_u16(p)),
           NEW s, s = Joined(w, rest)
    PROVE  Lies(s, w, h, host, p, rest)
<1>1. PICK q \in Bytes : q = put_u16(p) /\ Size(q) = 2 /\ At(q, 1) \in Byte /\ At(q, 2) \in Byte /\ 256 * At(q, 1) + At(q, 2) = p
  BY PortFacts DEF Size, At
<1>2. PICK v \in Bytes : v = Joined(h, host)
  BY JoinFacts DEF IsJoin
<1>3. IsJoin(v, h, host)
  BY <1>2, JoinFacts
<1>4. w \in Bytes /\ IsJoin(w, v, q)
  <2>1. w = Joined(v, q)
    BY <1>1, <1>2
  <2>2. IsJoin(w, v, q)
    BY <2>1, JoinFacts
  <2> QED BY <2>2 DEF IsJoin
<1>5. s \in Bytes /\ IsJoin(s, w, rest)
  <2>1. IsJoin(s, w, rest)
    BY <1>4, JoinFacts
  <2> QED BY <2>1 DEF IsJoin
<1>6. /\ Size(v) = Size(h) + Size(host) /\ Size(w) = Size(v) + 2 /\ Size(s) = Size(w) + Size(rest)
      /\ Size(h) \in Nat /\ Size(host) \in Nat /\ Size(rest) \in Nat
      /\ \A i \in 1..Size(h) : At(v, i) = At(h, i)
      /\ \A i \in 1..Size(host) : At(v, Size(h) + i) = At(host, i)
      /\ \A i \in 1..Size(v) : At(w, i) = At(v, i)
      /\ \A i \in 1..2 : At(w, Size(v) + i) = At(q, i)
      /\ \A i \in 1..Size(w) : At(s, i) = At(w, i)
      /\ \A i \in 1..Size(rest) : At(s, Size(w) + i) = At(rest, i)
  BY <1>1, <1>3, <1>4, <1>5 DEF IsJoin
<1>8. \A i \in 1..Size(h) : At(w, i) = At(h, i) /\ At(s, i) = At(h, i)
  BY <1>6
<1>9. \A i \in 1..Size(host) : At(s, Size(h) + i) = At(host, i)
  BY <1>6
<1>10. Piece(s, Size(h) + 1, Size(h) + Size(host)) = host
  BY <1>5, <1>6, <1>9, PieceFacts
<1>11. At(s, Size(h) + Size(host) + 1) = At(q, 1) /\ At(s, (Size(h) + Size(host) + 1) + 1) = At(q, 2)
  BY <1>6
<1>12. get_u16(s, Size(h) + Size(host) + 1) = p
  BY <1>1, <1>11 DEF get_u16, At
<1>13. Piece(s, Size(w) + 1, Size(w) + Size(rest)) = rest
  <2>1. Size(w) \in Nat /\ Size(w) + Size(rest) <= Size(s) /\ \A i \in 1..Size(rest) : At(s, Size(w) + i) = At(rest, i)
    BY <1>6
  <2> QED BY <1>5, <2>1, PieceFacts, Zenon
<1> QED BY <1>4, <1>5, <1>6, <1>8, <1>10, <1>12, <1>13 DEF Lies

\* The head and the host of address a, as write_address puts them: the head is
\* the type and, for a name, its length.
Written(a, h, host) ==
    \/ /\ a = [type |-> "v4", ip |-> host, port |-> a.port]
       /\ Size(host) = 4 /\ Size(h) = 1 /\ At(h, 1) = 1
    \/ /\ a = [type |-> "v6", ip |-> host, port |-> a.port]
       /\ Size(host) = 16 /\ Size(h) = 1 /\ At(h, 1) = 4
    \/ /\ a = [type |-> "name", name |-> host, port |-> a.port] /\ Utf8(host)
       /\ Size(h) = 2 /\ At(h, 1) = 3 /\ At(h, 2) = Size(host)

\* write_address writes a head, a host and the port.
LEMMA WrittenAs ==
    ASSUME NEW a \in Addresses
    PROVE  /\ a.port \in PortNumber
           /\ \E h \in Bytes, host \in Bytes :
                Written(a, h, host) /\ write_address(a) = Joined(Joined(h, host), put_u16(a.port))
<1>1. a.port \in PortNumber
  BY DEF Addresses
<1>2. CASE a \in [type : {"v4"}, ip : {ip \in Bytes : Len(ip) = 4}, port : PortNumber]
  <2>1. a.type = "v4" /\ a.ip \in Bytes /\ Size(a.ip) = 4 /\ a = [type |-> "v4", ip |-> a.ip, port |-> a.port]
    BY <1>2 DEF Size
  <2>2. <<1>> \in Bytes /\ Size(<<1>>) = 1 /\ At(<<1>>, 1) = 1
    BY DEF Bytes, Byte, Size, At
  <2>3. write_address(a) = Joined(Joined(<<1>>, a.ip), put_u16(a.port))
    BY <2>1 DEF write_address, Joined
  <2> QED BY <1>1, <2>1, <2>2, <2>3 DEF Written
<1>3. CASE a \in [type : {"v6"}, ip : {ip \in Bytes : Len(ip) = 16}, port : PortNumber]
  <2>1. a.type = "v6" /\ a.ip \in Bytes /\ Size(a.ip) = 16 /\ a = [type |-> "v6", ip |-> a.ip, port |-> a.port]
    BY <1>3 DEF Size
  <2>2. <<4>> \in Bytes /\ Size(<<4>>) = 1 /\ At(<<4>>, 1) = 4
    BY DEF Bytes, Byte, Size, At
  <2>3. write_address(a) = Joined(Joined(<<4>>, a.ip), put_u16(a.port))
    BY <2>1 DEF write_address, Joined
  <2> QED BY <1>1, <2>1, <2>2, <2>3 DEF Written
<1>4. CASE a \in [type : {"name"}, name : {name \in Bytes : Len(name) < 256 /\ Utf8(name)}, port : PortNumber]
  <2>1. /\ a.type = "name" /\ a.name \in Bytes /\ Size(a.name) < 256 /\ Utf8(a.name)
        /\ a = [type |-> "name", name |-> a.name, port |-> a.port]
    BY <1>4 DEF Size
  <2>2. PICK n \in Byte : n = Size(a.name)
    BY <2>1 DEF Bytes, Byte, Size
  <2>3. <<3, n>> \in Bytes /\ Size(<<3, n>>) = 2 /\ At(<<3, n>>, 1) = 3 /\ At(<<3, n>>, 2) = n
    BY DEF Bytes, Byte, Size, At
  <2>4. write_address(a) = Joined(Joined(<<3, n>>, a.name), put_u16(a.port))
    BY <2>1, <2>2 DEF write_address, Joined, Size
  <2> QED BY <1>1, <2>1, <2>2, <2>3, <2>4 DEF Written
<1> QED BY <1>2, <1>3, <1>4 DEF Addresses

\* What read_address makes of bytes that begin with each of the types.
LEMMA ReadAs ==
    ASSUME NEW s \in Bytes, Size(s) > 0
    PROVE  /\ At(s, 1) = 1 =>
                read_address(s) = IF Size(s) < 4 + 3 THEN Wait
                                  ELSE Got([type |-> "v4", ip |-> Piece(s, 2, 4 + 1), port |-> get_u16(s, 4 + 2)], 4 + 3, s)
           /\ At(s, 1) = 4 =>
                read_address(s) = IF Size(s) < 16 + 3 THEN Wait
                                  ELSE Got([type |-> "v6", ip |-> Piece(s, 2, 16 + 1), port |-> get_u16(s, 16 + 2)], 16 + 3, s)
           /\ At(s, 1) = 3 /\ Size(s) < 2 => read_address(s) = Wait
           /\ At(s, 1) = 3 /\ ~(Size(s) < 2) =>
                read_address(s) = IF Size(s) < At(s, 2) + 4 THEN Wait
                                  ELSE IF ~Utf8(Piece(s, 3, At(s, 2) + 2)) THEN Refused("GeneralFailure")
                                  ELSE Got([type |-> "name", name |-> Piece(s, 3, At(s, 2) + 2), port |-> get_u16(s, At(s, 2) + 3)], At(s, 2) + 4, s)
<1>1. s # <<>>
  BY DEF Size, Bytes
<1>2. At(s, 1) = 1 =>
        read_address(s) = IF Size(s) < 4 + 3 THEN Wait
                          ELSE Got([type |-> "v4", ip |-> Piece(s, 2, 4 + 1), port |-> get_u16(s, 4 + 2)], 4 + 3, s)
  BY <1>1 DEF read_address, At, Size, Piece
<1>3. At(s, 1) = 4 =>
        read_address(s) = IF Size(s) < 16 + 3 THEN Wait
                          ELSE Got([type |-> "v6", ip |-> Piece(s, 2, 16 + 1), port |-> get_u16(s, 16 + 2)], 16 + 3, s)
  BY <1>1 DEF read_address, At, Size, Piece
<1>4. At(s, 1) = 3 /\ Size(s) < 2 => read_address(s) = Wait
  BY <1>1 DEF read_address, At, Size, Piece
<1>5. At(s, 1) = 3 /\ ~(Size(s) < 2) =>
        read_address(s) = IF Size(s) < At(s, 2) + 4 THEN Wait
                          ELSE IF ~Utf8(Piece(s, 3, At(s, 2) + 2)) THEN Refused("GeneralFailure")
                          ELSE Got([type |-> "name", name |-> Piece(s, 3, At(s, 2) + 2), port |-> get_u16(s, At(s, 2) + 3)], At(s, 2) + 4, s)
  BY <1>1 DEF read_address, At, Size, Piece
<1> QED BY <1>2, <1>3, <1>4, <1>5

-----------------------------------------------------------------------------
(* What is written is what is read *)

\* Address::read_from reads from what write_address wrote, whatever follows it, the
\* same address, and takes none of the bytes behind it: the payload of a
\* connection starts where the address ends.
THEOREM AddressRoundTrip ==
    ASSUME NEW a \in Addresses, NEW rest \in Bytes
    PROVE  read_address(write_address(a) \o rest) = [status |-> "ok", value |-> a, rest |-> rest]
<1>1. PICK h \in Bytes, host \in Bytes :
        Written(a, h, host) /\ write_address(a) = Joined(Joined(h, host), put_u16(a.port))
  BY WrittenAs
<1>2. PICK w : w = write_address(a)
  OBVIOUS
<1>3. PICK s : s = Joined(w, rest)
  OBVIOUS
<1>4. PICK p \in PortNumber : p = a.port
  BY WrittenAs
<1>5. Lies(s, w, h, host, p, rest)
  <2>1. w = Joined(Joined(h, host), put_u16(p))
    BY <1>1, <1>2, <1>4
  <2> QED BY <1>3, <2>1, AddressParts
<1>6. Size(rest) \in Nat /\ Size(host) \in Nat
  BY DEF Bytes, Size
<1>7. Got(a, Size(w), s) = [status |-> "ok", value |-> a, rest |-> rest]
  BY <1>5, Zenon DEF Lies, Got, Piece, Size
<1>8. CASE a = [type |-> "v4", ip |-> host, port |-> p] /\ Size(host) = 4 /\ Size(h) = 1 /\ At(h, 1) = 1
  <2>1. Size(s) > 0 /\ At(s, 1) = 1 /\ ~(Size(s) < 4 + 3) /\ Size(w) = 4 + 3
    BY <1>5, <1>6, <1>8 DEF Lies
  <2>2. Piece(s, 2, 4 + 1) = host /\ get_u16(s, 4 + 2) = p
    BY <1>5, <1>8 DEF Lies
  <2>3. read_address(s) = Got(a, Size(w), s)
    BY <1>5, <1>8, <2>1, <2>2, ReadAs, Zenon DEF Lies
  <2> QED BY <1>2, <1>3, <1>7, <2>3 DEF Joined
<1>9. CASE a = [type |-> "v6", ip |-> host, port |-> p] /\ Size(host) = 16 /\ Size(h) = 1 /\ At(h, 1) = 4
  <2>1. Size(s) > 0 /\ At(s, 1) = 4 /\ ~(Size(s) < 16 + 3) /\ Size(w) = 16 + 3
    BY <1>5, <1>6, <1>9 DEF Lies
  <2>2. Piece(s, 2, 16 + 1) = host /\ get_u16(s, 16 + 2) = p
    BY <1>5, <1>9 DEF Lies
  <2>3. read_address(s) = Got(a, Size(w), s)
    BY <1>5, <1>9, <2>1, <2>2, ReadAs, Zenon DEF Lies
  <2> QED BY <1>2, <1>3, <1>7, <2>3 DEF Joined
<1>10. CASE /\ a = [type |-> "name", name |-> host, port |-> p] /\ Utf8(host)
            /\ Size(h) = 2 /\ At(h, 1) = 3 /\ At(h, 2) = Size(host)
  <2>1. /\ Size(s) > 0 /\ At(s, 1) = 3 /\ ~(Size(s) < 2) /\ At(s, 2) = Size(host)
        /\ ~(Size(s) < At(s, 2) + 4) /\ Size(w) = At(s, 2) + 4
    BY <1>5, <1>6, <1>10 DEF Lies
  <2>2. Piece(s, 3, At(s, 2) + 2) = host /\ get_u16(s, At(s, 2) + 3) = p
    BY <1>5, <1>6, <1>10, <2>1 DEF Lies
  <2>3. read_address(s) = Got(a, Size(w), s)
    BY <1>5, <1>10, <2>1, <2>2, ReadAs, Zenon DEF Lies
  <2> QED BY <1>2, <1>3, <1>7, <2>3 DEF Joined
<1> QED BY <1>1, <1>4, <1>8, <1>9, <1>10 DEF Written

\* While a part of an address is missing, Address::read_from waits: it neither
\* refuses the part nor takes it for a shorter address, wherever the stream cuts.
THEOREM PartOfAddressWaits ==
    ASSUME NEW a \in Addresses, NEW n \in Nat, n < Len(write_address(a))
    PROVE  read_address(SubSeq(write_address(a), 1, n)) = Wait
<1>1. PICK h \in Bytes, host \in Bytes :
        Written(a, h, host) /\ write_address(a) = Joined(Joined(h, host), put_u16(a.port))
  BY WrittenAs
<1>2. PICK w : w = write_address(a)
  OBVIOUS
<1>3. PICK p \in PortNumber : p = a.port
  BY WrittenAs
<1>4. /\ w \in Bytes /\ Size(w) = Size(h) + Size(host) + 2
      /\ \A i \in 1..Size(h) : At(w, i) = At(h, i)
  <2>1. w = Joined(Joined(h, host), put_u16(p)) /\ <<>> \in Bytes
    BY <1>1, <1>2, <1>3 DEF Bytes
  <2>2. PICK s : s = Joined(w, <<>>)
    OBVIOUS
  <2>3. PICK e \in Bytes : e = <<>>
    BY <2>1
  <2>4. Lies(s, w, h, host, p, e)
    BY <2>1, <2>2, <2>3, AddressParts
  <2> QED BY <2>4 DEF Lies
<1>5. PICK t \in Bytes : /\ t = SubSeq(w, 1, n) /\ Size(t) = n
                         /\ \A i \in 1..n : At(t, i) = At(w, i)
  <2>1. \A i \in 1..Size(w) : At(w, i) \in Byte
    BY <1>4, ElementOfSeq DEF Size, At, Bytes
  <2>2. Size(w) \in Nat /\ n < Size(w)
    BY <1>2, <1>4 DEF Size, Bytes
  <2>3. \A i \in 1..n : w[i] \in Byte
    BY <2>1, <2>2 DEF At
  <2>4. /\ SubSeq(w, 1, n) \in Seq(Byte)
        /\ Len(SubSeq(w, 1, n)) = IF 1 <= n THEN n - 1 + 1 ELSE 0
        /\ \A i \in 1..n - 1 + 1 : SubSeq(w, 1, n)[i] = w[1 + i - 1]
    BY <2>3, SubSeqProperties
  <2>5. Len(SubSeq(w, 1, n)) = n /\ \A i \in 1..n : SubSeq(w, 1, n)[i] = w[i]
    BY <2>4
  <2> QED BY <2>4, <2>5, Zenon DEF Bytes, Size, At
<1>6. n < Size(h) + Size(host) + 2 /\ Size(h) \in Nat /\ Size(host) \in Nat
  BY <1>2, <1>4 DEF Size, Bytes
<1>7. read_address(t) = Wait
  <2>1. CASE n = 0
    <3>1. t = <<>>
      BY <1>5, <2>1 DEF Size, Bytes
    <3> QED BY <3>1 DEF read_address
  <2>2. CASE n > 0
    <3>1. Size(h) > 0 => At(t, 1) = At(h, 1)
      BY <1>4, <1>5, <1>6, <2>2
    <3>2. CASE Size(host) = 4 /\ Size(h) = 1 /\ At(h, 1) = 1
      <4>1. Size(t) > 0 /\ At(t, 1) = 1 /\ Size(t) < 4 + 3
        BY <1>5, <1>6, <2>2, <3>1, <3>2
      <4> QED BY <4>1, ReadAs, Zenon
    <3>3. CASE Size(host) = 16 /\ Size(h) = 1 /\ At(h, 1) = 4
      <4>1. Size(t) > 0 /\ At(t, 1) = 4 /\ Size(t) < 16 + 3
        BY <1>5, <1>6, <2>2, <3>1, <3>3
      <4> QED BY <4>1, ReadAs, Zenon
    <3>4. CASE Size(h) = 2 /\ At(h, 1) = 3 /\ At(h, 2) = Size(host)
      <4>1. n >= 2 => At(t, 2) = Size(host)
        BY <1>4, <1>5, <1>6, <3>4
      <4>2. CASE n < 2
        <5>1. Size(t) > 0 /\ At(t, 1) = 3 /\ Size(t) < 2
          BY <1>5, <2>2, <3>1, <3>4, <4>2
        <5> QED BY <5>1, ReadAs, Zenon
      <4>3. CASE ~(n < 2)
        <5>1. Size(t) > 0 /\ At(t, 1) = 3 /\ ~(Size(t) < 2) /\ Size(t) < At(t, 2) + 4
          BY <1>5, <1>6, <2>2, <3>1, <3>4, <4>1, <4>3
        <5> QED BY <5>1, ReadAs, Zenon
      <4> QED BY <4>2, <4>3
    <3> QED BY <1>1, <3>2, <3>3, <3>4 DEF Written
  <2> QED BY <2>1, <2>2
<1> QED BY <1>2, <1>5, <1>7

\* Joining strings of bytes is associative.
LEMMA JoinAssociative ==
  \A x, y, z \in Bytes : Joined(Joined(x, y), z) = Joined(x, Joined(y, z))
<1> SUFFICES ASSUME NEW x \in Seq(Byte), NEW y \in Seq(Byte), NEW z \in Seq(Byte)
             PROVE  (x \o y) \o z = x \o (y \o z)
  BY Zenon DEF Bytes, Joined
<1> QED BY ConcatAssociative, SMTT(60)

\* Three bytes in front of an address.
LEMMA MessageParts ==
    ASSUME NEW a \in Addresses, NEW rest \in Bytes, NEW c \in Byte
    PROVE  LET s == <<SOCKS5_VERSION, c, 0>> \o write_address(a) \o rest
           IN  /\ ~(Len(s) < 3) /\ s[1] = SOCKS5_VERSION /\ s[2] = c
               /\ SubSeq(s, 3 + 1, Len(s)) = write_address(a) \o rest
<1>1. PICK w \in Bytes : w = write_address(a)
  <2>1. PICK h \in Bytes, host \in Bytes : write_address(a) = Joined(Joined(h, host), put_u16(a.port))
    BY WrittenAs
  <2>2. PICK q \in Bytes : q = put_u16(a.port)
    BY WrittenAs, PortFacts
  <2>3. PICK v \in Bytes : v = Joined(h, host)
    BY JoinFacts DEF IsJoin
  <2>4. IsJoin(Joined(v, q), v, q)
    BY JoinFacts
  <2> QED BY <2>1, <2>2, <2>3, <2>4 DEF IsJoin
<1>2. PICK m \in Bytes : m = <<5, c, 0>> /\ Size(m) = 3 /\ At(m, 1) = 5 /\ At(m, 2) = c
  <2>1. 5 \in Byte /\ 0 \in Byte
    BY DEF Byte
  <2>2. <<5, c, 0>> \in Seq(Byte) /\ Len(<<5, c, 0>>) = 3 /\ <<5, c, 0>>[1] = 5 /\ <<5, c, 0>>[2] = c
    BY <2>1
  <2> QED BY <2>2, Zenon DEF Bytes, Size, At
<1>3. PICK z \in Bytes : z = Joined(w, rest)
  BY JoinFacts DEF IsJoin
<1>4. PICK s : s = Joined(m, z)
  OBVIOUS
<1>5. IsJoin(s, m, z)
  BY <1>4, JoinFacts
<1>6. /\ s \in Bytes /\ Size(s) = 3 + Size(z) /\ Size(z) \in Nat /\ At(s, 1) = 5 /\ At(s, 2) = c
      /\ \A i \in 1..Size(z) : At(s, 3 + i) = At(z, i)
  BY <1>2, <1>5 DEF IsJoin
<1>7. Piece(s, 3 + 1, Size(s)) = z
  <2>1. PICK k \in Nat : k = 3
    OBVIOUS
  <2>2. Piece(s, k + 1, k + Size(z)) = z
    BY <1>6, <2>1, PieceFacts
  <2> QED BY <1>6, <2>1, <2>2
<1>8. ~(Size(s) < 3)
  BY <1>6
<1>9. s = <<SOCKS5_VERSION, c, 0>> \o write_address(a) \o rest
  <2>1. (m \o w) \o rest = m \o (w \o rest)
    <3>1. m \in Bytes /\ w \in Bytes /\ rest \in Bytes
      BY Zenon
    <3> QED BY <3>1, JoinAssociative, Zenon DEF Joined
  <2> QED BY <1>1, <1>2, <1>3, <1>4, <2>1, Zenon DEF Joined, SOCKS5_VERSION
<1>10. /\ ~(Len(s) < 3) /\ s[1] = SOCKS5_VERSION /\ s[2] = c
       /\ SubSeq(s, 3 + 1, Len(s)) = write_address(a) \o rest
  BY <1>1, <1>3, <1>6, <1>7, <1>8, Zenon DEF Joined, Piece, Size, At, SOCKS5_VERSION
<1> QED BY <1>9, <1>10, Zenon

\* TcpRequestHeader::read_from reads from what TcpRequestHeader::write_to wrote the
\* same command and the same address, and nothing of what follows.
THEOREM RequestRoundTrip ==
    ASSUME NEW a \in Addresses, NEW rest \in Bytes, NEW c \in 1..3
    PROVE  read_request(write_request(c, a) \o rest) =
              [status |-> "ok", value |-> [command |-> CommandOf[c], address |-> a], rest |-> rest]
<1>1. PICK s : s = write_request(c, a) \o rest
  BY Zenon
<1>2. c \in Byte
  BY DEF Byte
<1>3. /\ ~(Len(s) < 3) /\ s[1] = SOCKS5_VERSION /\ s[2] = c
      /\ SubSeq(s, 3 + 1, Len(s)) = write_address(a) \o rest
  <2>1. s = <<SOCKS5_VERSION, c, 0>> \o write_address(a) \o rest
    BY <1>1 DEF write_request
  <2> QED BY <1>2, <2>1, MessageParts, Zenon
<1>4. PICK r : r = read_address(write_address(a) \o rest)
  OBVIOUS
<1>5. r.status = "ok" /\ r.value = a /\ r.rest = rest
  BY <1>4, AddressRoundTrip
<1>6. CommandOf[c] # "none"
  BY DEF CommandOf
<1>7. read_request(s) = [status |-> "ok", value |-> [command |-> CommandOf[s[2]], address |-> r.value], rest |-> r.rest]
  BY <1>3, <1>4, <1>5, <1>6, Zenon DEF read_request, ThenAddress
<1> QED BY <1>1, <1>3, <1>5, <1>7

\* TcpResponseHeader::read_from reads from what TcpResponseHeader::write_to wrote the
\* code of the same reply and the same address, and nothing of what follows.
THEOREM ResponseRoundTrip ==
    ASSUME NEW a \in Addresses, NEW rest \in Bytes, NEW reply \in DOMAIN ReplyCode
    PROVE  read_response(write_response(reply, a) \o rest) =
              [status |-> "ok", value |-> [reply |-> ReplyCode[reply], address |-> a], rest |-> rest]
<1>1. PICK s : s = write_response(reply, a) \o rest
  BY Zenon
<1>2. PICK c \in Byte : c = ReplyCode[reply]
  BY DEF Byte, ReplyCode
<1>3. /\ ~(Len(s) < 3) /\ s[1] = SOCKS5_VERSION /\ s[2] = c
      /\ SubSeq(s, 3 + 1, Len(s)) = write_address(a) \o rest
  <2>1. s = <<SOCKS5_VERSION, c, 0>> \o write_address(a) \o rest
    BY <1>1, <1>2 DEF write_response
  <2> QED BY <2>1, MessageParts, Zenon
<1>4. PICK r : r = read_address(write_address(a) \o rest)
  OBVIOUS
<1>5. r.status = "ok" /\ r.value = a /\ r.rest = rest
  BY <1>4, AddressRoundTrip
<1>6. read_response(s) = [status |-> "ok", value |-> [reply |-> s[2], address |-> r.value], rest |-> r.rest]
  BY <1>3, <1>4, <1>5, Zenon DEF read_response, ThenAddress
<1> QED BY <1>1, <1>2, <1>3, <1>5, <1>6
=============================================================================

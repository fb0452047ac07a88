-------------------------- MODULE AeadStreamProofs --------------------------
(***************************************************************************)
(* For all sizes of salt, tag, packets, writes and pipe, and whatever is   *)
(* changed in flight: the receiver gets what was sent, in order; an end of *)
(* file means that nothing is missing; and nothing of a connection with a  *)
(* repeated salt is delivered.                                             *)
(*                                                                         *)
(* The argument is about positions.  The writer's bytes are the salt and   *)
(* then one seal after the other: starts[j] of them come before seal j,    *)
(* and the seals up to j hold the first ends[j] bytes of the application.  *)
(***************************************************************************)
EXTENDS AeadStream, TLAPS

Bytes == Nat \X Nat
Texts == Seq(Nat)

\* Sequences, under names that the proofs need not unfold: a sequence's length,
\* its k-th entry, its first n entries, what follows them, and two in a row.
Long(q) == Len(q)
At(q, k) == q[k]
Front(q, n) == SubSeq(q, 1, n)
Rest(q, n) == SubSeq(q, n + 1, Len(q))
Join(q, r) == q \o r

\* What the variables range over.
TypeOK ==
    /\ wpc \in {"idle", "writing", "shut", "dead"} /\ nonce \in BOOLEAN
    /\ wbuf \in Seq(Bytes) /\ wlen \in Nat /\ sealed \in Seq(Texts) /\ written \in Nat
    /\ pipe \in Seq(Bytes) /\ garbled \in Nat
    /\ rpc \in {"salt", "length", "data", "eof", "err"} /\ rsalt \in BOOLEAN /\ rops \in Nat
    /\ rbuf \in Seq(Bytes) /\ plain \in Texts /\ delivered \in Texts /\ replayed \in BOOLEAN

\* q holds the bytes of the application that come after the first n.
Counts(q, n) == \A k \in 1..Long(q) : At(q, k) = n + k

\* The seals in the writer's stream: a length and a payload in turn, the payloads
\* holding the bytes of the application one after the other.
SealAt(j, text, starts, ends) ==
    IF j % 2 = 1
    THEN At(starts, j + 1) = At(starts, j) + LenSize + TagSize /\ At(ends, j) = At(ends, j - 1)
    ELSE /\ At(starts, j + 1) = At(starts, j) + Long(text) + TagSize
         /\ At(ends, j) = At(ends, j - 1) + Long(text)
         /\ Counts(text, At(ends, j - 1))

Layout(seals, starts, ends) ==
    /\ \A j \in 1..Long(seals) + 1 : At(starts, j) \in Nat
    /\ \A j \in 0..Long(seals) : At(ends, j) \in Nat
    /\ At(starts, 1) = SaltSize /\ At(ends, 0) = 0
    /\ \A j \in 1..Long(seals) : SealAt(j, At(seals, j), starts, ends)
    /\ \A i, j \in 1..Long(seals) + 1 : i < j => At(starts, i) < At(starts, j)
    /\ \A i, j \in 0..Long(seals) : i <= j => At(ends, i) <= At(ends, j)

\* Where both ends are in the stream: what the reader opened and what is on the
\* way to it make up all that was sealed, and a write has returned when the last
\* byte of its packet is on the way.
InFlight == Long(rbuf) + Long(pipe) + Long(wbuf)

Positions(starts, ends) ==
    LET last == Long(sealed)
    IN  /\ nonce => last = 0 /\ InFlight = 0 /\ rpc \in {"salt", "err"}
        /\ ~nonce /\ rpc = "salt" => InFlight = At(starts, last + 1)
        /\ rpc \in {"length", "data"} => At(starts, rops + 1) + InFlight = At(starts, last + 1)
        /\ wbuf = <<>> => written = At(ends, last)
        /\ wbuf # <<>> => /\ last >= 2 /\ written = At(ends, last - 2) /\ At(ends, last) = written + wlen
                          /\ last > 2 => Long(wbuf) <= At(starts, last + 1) - At(starts, last - 1)
        /\ Long(delivered) + Long(plain) = At(ends, rops)

StreamInv == \E starts, ends : Layout(sealed, starts, ends) /\ Positions(starts, ends)

\* The states that go together: lengths and payloads are opened in turn, nothing
\* without the salt, and a writer that is not writing has nothing left to write.
ControlInv ==
    /\ rops <= Long(sealed) /\ Long(sealed) % 2 = 0
    /\ rpc = "salt" => rops = 0
    /\ rpc = "length" => rops % 2 = 0
    /\ rpc = "data" => rops % 2 = 1
    /\ rops > 0 => rsalt
    /\ wpc \in {"idle", "shut"} => wbuf = <<>>
    /\ wpc = "writing" => wbuf # <<>>

\* The bytes of the application that came out of the reader, in order.
PlainInv == Counts(delivered, 0) /\ Counts(plain, Long(delivered))

\* As long as the reader goes on, a byte that was changed is still on its way,
\* or it was one of the salt.
HasGarbage(q) == \E k \in 1..Long(q) : At(q, k) = Garbage

GarbleInv ==
    garbled > 0 => \/ HasGarbage(rbuf) \/ HasGarbage(pipe)
                   \/ rpc \in {"length", "eof"} /\ rops = 0 /\ ~rsalt
                   \/ rpc = "err"

\* The bytes of q, which come after n others, are of the salt as far as it goes.
SaltByte(k) == <<0, k>>
SaltFrom(q, n) == \A k \in 1..Long(q) : n + k <= SaltSize => At(q, k) = SaltByte(n + k)

\* While the reader waits for the salt and nothing was changed, the salt is what
\* it gets first.
SaltInv ==
    garbled = 0 =>
        /\ rpc = "salt" => /\ SaltFrom(rbuf, 0) /\ SaltFrom(pipe, Long(rbuf))
                           /\ SaltFrom(wbuf, Long(rbuf) + Long(pipe))
        /\ replayed => rops = 0 /\ rpc \in {"salt", "err"}

\* An end of file is the end: nothing is left, and nothing more comes.
EofInv ==
    rpc = "eof" => /\ wpc \in {"shut", "dead"} /\ pipe = <<>> /\ rbuf = <<>> /\ plain = <<>>
                   /\ Long(delivered) = written

Inv == TypeOK /\ StreamInv /\ ControlInv /\ PlainInv /\ GarbleInv /\ SaltInv /\ EofInv

\* The invariant under the name that the lemmas about the steps have it by.
Sound == Inv
-----------------------------------------------------------------------------
(* Buffers *)

LEMMA SeqFacts ==
    ASSUME NEW S, NEW q \in Seq(S)
    PROVE  /\ Long(q) \in Nat /\ (Long(q) = 0 <=> q = <<>>)
           /\ \A k \in 1..Long(q) : At(q, k) \in S
  BY SMTT(60) DEF Long, At

LEMMA EmptyFacts == \A S : <<>> \in Seq(S) /\ Long(<<>>) = 0
  BY SMTT(60) DEF Long

\* Taking n bytes off the front of a buffer (poll_write, poll_read, consume).
LEMMA CutFacts ==
    ASSUME NEW S, NEW q \in Seq(S), NEW n \in Nat, n <= Long(q)
    PROVE  /\ Front(q, n) \in Seq(S) /\ Long(Front(q, n)) = n
           /\ Rest(q, n) \in Seq(S) /\ Long(Rest(q, n)) = Long(q) - n
           /\ \A k \in 1..n : At(Front(q, n), k) = At(q, k)
           /\ \A k \in 1..Long(q) - n : At(Rest(q, n), k) = At(q, n + k)
<1>1. Len(q) \in Nat /\ n <= Len(q) /\ \A k \in 1..Len(q) : q[k] \in S
  BY SMTT(60) DEF Long
<1>2. \A k \in 1..n : q[k] \in S
  BY <1>1
<1>3. \A k \in n + 1..Len(q) : q[k] \in S
  BY <1>1
<1>4. /\ SubSeq(q, 1, n) \in Seq(S)
      /\ Len(SubSeq(q, 1, n)) = IF 1 <= n THEN n - 1 + 1 ELSE 0
      /\ \A k \in 1..n - 1 + 1 : SubSeq(q, 1, n)[k] = q[1 + k - 1]
  BY <1>1, <1>2, SMTT(60)
<1>5. /\ SubSeq(q, n + 1, Len(q)) \in Seq(S)
      /\ Len(SubSeq(q, n + 1, Len(q))) = IF n + 1 <= Len(q) THEN Len(q) - (n + 1) + 1 ELSE 0
      /\ \A k \in 1..Len(q) - (n + 1) + 1 : SubSeq(q, n + 1, Len(q))[k] = q[n + 1 + k - 1]
  BY <1>1, <1>3, SMTT(60)
<1>6. Len(SubSeq(q, 1, n)) = n /\ \A k \in 1..n : SubSeq(q, 1, n)[k] = q[k]
  BY <1>4
<1>7. /\ Len(SubSeq(q, n + 1, Len(q))) = Len(q) - n
      /\ \A k \in 1..Len(q) - n : SubSeq(q, n + 1, Len(q))[k] = q[n + k]
  BY <1>1, <1>5
<1> QED BY <1>4, <1>5, <1>6, <1>7 DEF Front, Rest, Long, At

\* Putting the bytes of r behind those of q.
LEMMA JoinFacts ==
    ASSUME NEW S, NEW q \in Seq(S), NEW r \in Seq(S)
    PROVE  /\ Join(q, r) \in Seq(S) /\ Long(Join(q, r)) = Long(q) + Long(r)
           /\ \A k \in 1..Long(q) + Long(r) :
                At(Join(q, r), k) = IF k <= Long(q) THEN At(q, k) ELSE At(r, k - Long(q))
  BY SMTT(60) DEF Join, Long, At

LEMMA JoinFront ==
    ASSUME NEW S, NEW q \in Seq(S), NEW r \in Seq(S)
    PROVE  /\ Join(q, r) \in Seq(S) /\ Long(Join(q, r)) = Long(q) + Long(r)
           /\ Long(q) \in Nat /\ Long(r) \in Nat
           /\ \A k \in 1..Long(q) : At(Join(q, r), k) = At(q, k)
<1>1. Long(q) \in Nat /\ Long(r) \in Nat
  BY SeqFacts
<1>2. \A k \in 1..Long(q) : k \in 1..Long(q) + Long(r) /\ k <= Long(q)
  BY <1>1
<1> QED BY <1>1, <1>2, JoinFacts

\* A packet adds its length and its payload to what was sealed.
LEMMA TwoSeals ==
    ASSUME NEW q \in Seq(Texts), NEW a \in Texts, NEW b \in Texts
    PROVE  LET u == Join(q, <<a, b>>)
           IN  /\ u \in Seq(Texts) /\ Long(u) = Long(q) + 2
               /\ \A j \in 1..Long(q) : At(u, j) = At(q, j)
               /\ At(u, Long(q) + 1) = a /\ At(u, Long(q) + 2) = b
<1> DEFINE two == <<a, b>>
<1>1. two \in Seq(Texts) /\ Long(two) = 2 /\ At(two, 1) = a /\ At(two, 2) = b
  BY DEF Long, At
<1> HIDE DEF two
<1>2. Long(q) \in Nat
  BY SeqFacts
<1>3. /\ Join(q, two) \in Seq(Texts) /\ Long(Join(q, two)) = Long(q) + 2
      /\ \A j \in 1..Long(q) : At(Join(q, two), j) = At(q, j)
      /\ At(Join(q, two), Long(q) + 1) = At(two, 1) /\ At(Join(q, two), Long(q) + 2) = At(two, 2)
  BY <1>1, <1>2, JoinFacts, SMTT(60)
<1> QED BY <1>1, <1>3, SMTT(60) DEF two

\* What is said of the bytes of two buffers in a row, and of both parts of one
\* that is cut.
LEMMA CountsParts ==
    ASSUME NEW q \in Texts, NEW n \in Nat
    PROVE  /\ \A r \in Texts : Counts(q, n) /\ Counts(r, n + Long(q)) => Counts(Join(q, r), n)
           /\ \A k \in Nat : k <= Long(q) /\ Counts(q, n)
                               => Counts(Front(q, k), n) /\ Counts(Rest(q, k), n + k)
<1>1. Long(q) \in Nat /\ q \in Seq(Nat)
  BY SeqFacts DEF Texts
<1>2. ASSUME NEW r \in Texts, Counts(q, n), Counts(r, n + Long(q)) PROVE Counts(Join(q, r), n)
  <2>1. Long(r) \in Nat /\ r \in Seq(Nat)
    BY SeqFacts DEF Texts
  <2>2. /\ Long(Join(q, r)) = Long(q) + Long(r)
        /\ \A k \in 1..Long(q) + Long(r) :
              At(Join(q, r), k) = IF k <= Long(q) THEN At(q, k) ELSE At(r, k - Long(q))
    BY <1>1, <2>1, JoinFacts
  <2>3. ASSUME NEW k \in 1..Long(q) + Long(r) PROVE At(Join(q, r), k) = n + k
    <3>1. CASE k <= Long(q)
      BY <1>1, <1>2, <2>1, <2>2, <3>1 DEF Counts
    <3>2. CASE ~(k <= Long(q))
      <4>1. k - Long(q) \in 1..Long(r) /\ n + Long(q) + (k - Long(q)) = n + k
        BY <1>1, <2>1, <3>2
      <4> QED BY <1>2, <2>2, <3>2, <4>1 DEF Counts
    <3> QED BY <3>1, <3>2
  <2> QED BY <2>2, <2>3 DEF Counts
<1>3. ASSUME NEW k \in Nat, k <= Long(q), Counts(q, n)
      PROVE  Counts(Front(q, k), n) /\ Counts(Rest(q, k), n + k)
  <2>1. /\ Long(Front(q, k)) = k /\ Long(Rest(q, k)) = Long(q) - k
        /\ \A i \in 1..k : At(Front(q, k), i) = At(q, i)
        /\ \A i \in 1..Long(q) - k : At(Rest(q, k), i) = At(q, k + i)
    BY <1>1, <1>3, CutFacts, SMTT(60)
  <2>2. \A i \in 1..k : At(q, i) = n + i
    BY <1>1, <1>3 DEF Counts
  <2>3. \A i \in 1..Long(q) - k : k + i \in 1..Long(q) /\ n + (k + i) = n + k + i
    BY <1>1
  <2> QED BY <1>3, <2>1, <2>2, <2>3 DEF Counts
<1> QED BY <1>2, <1>3

LEMMA SaltParts ==
    ASSUME NEW q \in Seq(Bytes), NEW n \in Nat
    PROVE  /\ \A r \in Seq(Bytes) : SaltFrom(q, n) /\ SaltFrom(r, n + Long(q)) => SaltFrom(Join(q, r), n)
           /\ \A k \in Nat : k <= Long(q) /\ SaltFrom(q, n)
                               => SaltFrom(Front(q, k), n) /\ SaltFrom(Rest(q, k), n + k)
<1>1. Long(q) \in Nat
  BY SeqFacts
<1>2. ASSUME NEW r \in Seq(Bytes), SaltFrom(q, n), SaltFrom(r, n + Long(q)) PROVE SaltFrom(Join(q, r), n)
  <2>1. Long(r) \in Nat
    BY SeqFacts
  <2>2. /\ Long(Join(q, r)) = Long(q) + Long(r)
        /\ \A k \in 1..Long(q) + Long(r) :
              At(Join(q, r), k) = IF k <= Long(q) THEN At(q, k) ELSE At(r, k - Long(q))
    BY JoinFacts
  <2>3. ASSUME NEW k \in 1..Long(q) + Long(r), n + k <= SaltSize PROVE At(Join(q, r), k) = SaltByte(n + k)
    <3>1. CASE k <= Long(q)
      BY <1>1, <1>2, <2>1, <2>2, <2>3, <3>1 DEF SaltFrom
    <3>2. CASE ~(k <= Long(q))
      <4>1. PICK d \in 1..Long(r) : d = k - Long(q) /\ n + Long(q) + d = n + k
        <5>1. k - Long(q) \in 1..Long(r) /\ n + Long(q) + (k - Long(q)) = n + k
          BY <1>1, <2>1, <3>2
        <5> QED BY <5>1
      <4>2. At(r, d) = SaltByte(n + Long(q) + d)
        BY <1>2, <2>3, <4>1 DEF SaltFrom
      <4>3. At(Join(q, r), k) = At(r, d)
        BY <2>2, <3>2, <4>1
      <4>4. SaltByte(n + Long(q) + d) = SaltByte(n + k)
        BY <4>1
      <4> QED BY <4>2, <4>3, <4>4
    <3> QED BY <3>1, <3>2
  <2> QED BY <2>2, <2>3 DEF SaltFrom
<1>3. ASSUME NEW k \in Nat, k <= Long(q), SaltFrom(q, n)
      PROVE  SaltFrom(Front(q, k), n) /\ SaltFrom(Rest(q, k), n + k)
  <2>1. /\ Long(Front(q, k)) = k /\ Long(Rest(q, k)) = Long(q) - k
        /\ \A i \in 1..k : At(Front(q, k), i) = At(q, i)
        /\ \A i \in 1..Long(q) - k : At(Rest(q, k), i) = At(q, k + i)
    BY <1>3, CutFacts
  <2>2. \A i \in 1..k : n + i <= SaltSize => At(q, i) = SaltByte(n + i)
    BY <1>1, <1>3 DEF SaltFrom
  <2>3. \A i \in 1..Long(q) - k : k + i \in 1..Long(q) /\ n + (k + i) = n + k + i
    BY <1>1
  <2> QED BY <1>3, <2>1, <2>2, <2>3 DEF SaltFrom
<1> QED BY <1>2, <1>3

LEMMA GarbageParts ==
    ASSUME NEW q \in Seq(Bytes)
    PROVE  /\ \A r \in Seq(Bytes) : HasGarbage(q) \/ HasGarbage(r) => HasGarbage(Join(q, r))
           /\ \A k \in Nat : k <= Long(q) /\ HasGarbage(q)
                               => HasGarbage(Front(q, k)) \/ HasGarbage(Rest(q, k))
<1>1. Long(q) \in Nat
  BY SeqFacts
<1>2. ASSUME NEW r \in Seq(Bytes), HasGarbage(q) \/ HasGarbage(r) PROVE HasGarbage(Join(q, r))
  <2>1. Long(r) \in Nat
    BY SeqFacts
  <2>2. /\ Long(Join(q, r)) = Long(q) + Long(r)
        /\ \A k \in 1..Long(q) + Long(r) :
              At(Join(q, r), k) = IF k <= Long(q) THEN At(q, k) ELSE At(r, k - Long(q))
    BY JoinFacts
  <2>3. CASE HasGarbage(q)
    BY <1>1, <2>1, <2>2, <2>3 DEF HasGarbage
  <2>4. CASE HasGarbage(r)
    <3>1. PICK k \in 1..Long(r) : At(r, k) = Garbage
      BY <2>4 DEF HasGarbage
    <3>2. /\ Long(q) + k \in 1..Long(q) + Long(r) /\ ~(Long(q) + k <= Long(q))
          /\ Long(q) + k - Long(q) = k
      BY <1>1, <2>1
    <3>3. PICK d \in 1..Long(q) + Long(r) : ~(d <= Long(q)) /\ d - Long(q) = k
      BY <1>1, <2>1, <3>2
    <3>4. At(Join(q, r), d) = Garbage
      BY <2>2, <3>1, <3>3
    <3> QED BY <2>2, <3>4 DEF HasGarbage
  <2> QED BY <1>2, <2>3, <2>4
<1>3. ASSUME NEW k \in Nat, k <= Long(q), HasGarbage(q)
      PROVE  HasGarbage(Front(q, k)) \/ HasGarbage(Rest(q, k))
  <2>1. /\ Long(Front(q, k)) = k /\ Long(Rest(q, k)) = Long(q) - k
        /\ \A i \in 1..k : At(Front(q, k), i) = At(q, i)
        /\ \A i \in 1..Long(q) - k : At(Rest(q, k), i) = At(q, k + i)
    BY <1>3, CutFacts
  <2>2. PICK i \in 1..Long(q) : At(q, i) = Garbage
    BY <1>3 DEF HasGarbage
  <2>3. CASE i <= k
    BY <1>1, <2>1, <2>2, <2>3 DEF HasGarbage
  <2>4. CASE ~(i <= k)
    <3>1. i - k \in 1..Long(q) - k /\ k + (i - k) = i
      BY <1>1, <2>4
    <3> QED BY <2>1, <2>2, <3>1 DEF HasGarbage
  <2> QED BY <2>3, <2>4
<1> QED BY <1>2, <1>3

\* Salt and seals are bytes of the length the code reserves, and none of them is
\* what a changed byte becomes.
LEMMA SealFacts ==
    ASSUME NEW j \in Nat, j > 0, NEW n \in Nat
    PROVE  /\ Seal(j, n) \in Seq(Bytes) /\ Long(Seal(j, n)) = n + TagSize /\ ~HasGarbage(Seal(j, n))
<1>1. Seal(j, n) \in [1..n + TagSize -> Bytes] /\ n + TagSize \in Nat
  BY AeadAssumption DEF Seal, Bytes
<1>2. Seal(j, n) \in Seq(Bytes) /\ Long(Seal(j, n)) = n + TagSize
  BY <1>1 DEF Long
<1>3. \A k \in 1..n + TagSize : At(Seal(j, n), k) # Garbage
  BY DEF Seal, Garbage, At
<1> QED BY <1>2, <1>3 DEF HasGarbage

LEMMA SaltFacts ==
    /\ SaltBytes \in Seq(Bytes) /\ Long(SaltBytes) = SaltSize /\ ~HasGarbage(SaltBytes)
    /\ SaltFrom(SaltBytes, 0)
    /\ \A q \in Seq(Bytes) : Long(q) = SaltSize /\ SaltFrom(q, 0) => q = SaltBytes
<1>1. SaltBytes \in [1..SaltSize -> Bytes] /\ SaltSize \in Nat
  BY AeadAssumption DEF SaltBytes, Bytes
<1>2. SaltBytes \in Seq(Bytes) /\ Long(SaltBytes) = SaltSize
  BY <1>1 DEF Long
<1>3. \A k \in 1..SaltSize : At(SaltBytes, k) = SaltByte(0 + k) /\ At(SaltBytes, k) # Garbage
  BY AeadAssumption DEF SaltBytes, SaltByte, Garbage, At
<1>4. ASSUME NEW q \in Seq(Bytes), Long(q) = SaltSize, SaltFrom(q, 0) PROVE q = SaltBytes
  <2>1. \A k \in 1..SaltSize : q[k] = SaltBytes[k]
    <3>1. \A k \in 1..SaltSize : At(q, k) = SaltByte(0 + k)
      BY <1>1, <1>4 DEF SaltFrom
    <3> QED BY <1>3, <3>1 DEF At
  <2>2. Len(q) = SaltSize /\ Len(SaltBytes) = SaltSize
    BY <1>2, <1>4 DEF Long
  <2> QED BY <1>2, <2>1, <2>2, SMTT(60)
<1> QED BY <1>2, <1>3, <1>4 DEF HasGarbage, SaltFrom
-----------------------------------------------------------------------------
\* Init establishes the invariant.
LEMMA InitInv == Init => Sound
<1> SUFFICES ASSUME Init PROVE Inv
  BY DEF Sound
<1> USE AeadAssumption
<1>1. TypeOK
  <2>1. <<>> \in Seq(Bytes) /\ <<>> \in Texts /\ <<>> \in Seq(Texts)
    BY EmptyFacts DEF Texts
  <2> QED BY <2>1, Zenon DEF Init, TypeOK
<1>2. /\ Long(sealed) = 0 /\ Long(rbuf) = 0 /\ Long(pipe) = 0 /\ Long(wbuf) = 0
      /\ Long(plain) = 0 /\ Long(delivered) = 0
  BY EmptyFacts DEF Init
<1>3. StreamInv
  <2> DEFINE starts == [j \in 1..1 |-> SaltSize]
             ends == [j \in 0..0 |-> 0]
  <2>1. At(starts, 1) = SaltSize /\ At(ends, 0) = 0
    BY DEF At
  <2> HIDE DEF starts, ends
  <2>2. Layout(sealed, starts, ends)
    BY <1>2, <2>1 DEF Layout
  <2>3. Positions(starts, ends)
    BY <1>2, <2>1 DEF Positions, InFlight, Init
  <2> QED BY <2>2, <2>3 DEF StreamInv
<1>4. ControlInv /\ PlainInv /\ GarbleInv /\ SaltInv /\ EofInv
  BY <1>2 DEF Init, ControlInv, PlainInv, GarbleInv, SaltInv, EofInv, Counts, SaltFrom
<1> QED BY <1>1, <1>3, <1>4 DEF Inv

\* S and E tell where the seals of more are and end: where starts and ends did,
\* and a packet with a payload of n bytes behind them.
Grown(more, S, E, starts, ends, c, n) ==
    /\ Layout(more, S, E)
    /\ \A j \in 1..c + 1 : At(S, j) = At(starts, j)
    /\ \A j \in 0..c : At(E, j) = At(ends, j)
    /\ At(S, c + 3) = At(starts, c + 1) + (LenSize + TagSize + n + TagSize)
    /\ At(E, c + 2) = At(ends, c) + n

\* more has the c seals, and two more of which the second holds the payload.
Longer(more, seals, ends, c, n, payload) ==
    /\ c = Long(seals) /\ c % 2 = 0 /\ Long(more) = c + 2
    /\ \A j \in 1..c : At(more, j) = At(seals, j)
    /\ At(more, c + 2) = payload /\ Long(payload) = n /\ Counts(payload, At(ends, c))

\* Two more seals: where they are and what they hold.
LEMMA GrowLayout ==
    ASSUME NEW seals, NEW starts, NEW ends, Layout(seals, starts, ends),
           NEW c \in Nat, NEW n \in Nat, NEW more, NEW payload,
           Longer(more, seals, ends, c, n, payload)
    PROVE  \E S, E : Grown(more, S, E, starts, ends, c, n)
<1>0. /\ c = Long(seals) /\ c % 2 = 0 /\ Long(more) = c + 2
      /\ \A j \in 1..c : At(more, j) = At(seals, j)
      /\ At(more, c + 2) = payload /\ Long(payload) = n /\ Counts(payload, At(ends, c))
  BY DEF Longer
<1> USE <1>0
<1> USE AeadAssumption
<1>1. /\ \A j \in 1..c + 1 : At(starts, j) \in Nat
      /\ \A j \in 0..c : At(ends, j) \in Nat
      /\ At(starts, 1) = SaltSize /\ At(ends, 0) = 0
  BY DEF Layout
<1>2. \A j \in 1..c : SealAt(j, At(seals, j), starts, ends)
  BY DEF Layout
<1>3. \A i, j \in 1..c + 1 : i < j => At(starts, i) < At(starts, j)
  BY DEF Layout
<1>4. \A i, j \in 0..c : i <= j => At(ends, i) <= At(ends, j)
  BY DEF Layout
<1>5. PICK top \in Nat, sent \in Nat : top = At(starts, c + 1) /\ sent = At(ends, c)
  <2>1. At(starts, c + 1) \in Nat /\ At(ends, c) \in Nat
    BY <1>1
  <2> QED BY <2>1
<1>6. PICK mid \in Nat, end \in Nat, total \in Nat :
        mid = top + LenSize + TagSize /\ end = mid + n + TagSize /\ total = sent + n
  OBVIOUS
<1> DEFINE S == [j \in 1..c + 3 |-> IF j = c + 3 THEN end ELSE IF j = c + 2 THEN mid ELSE At(starts, j)]
           E == [j \in 0..c + 2 |-> IF j = c + 2 THEN total ELSE IF j = c + 1 THEN sent ELSE At(ends, j)]
<1>7. /\ At(S, c + 3) = end /\ At(S, c + 2) = mid
      /\ \A j \in 1..c + 1 : At(S, j) = At(starts, j)
  <2>1. S[c + 3] = end /\ S[c + 2] = mid /\ \A j \in 1..c + 1 : S[j] = At(starts, j)
    OBVIOUS
  <2> HIDE DEF S
  <2> QED BY <2>1 DEF At
<1>8. /\ At(E, c + 2) = total /\ At(E, c + 1) = sent
      /\ \A j \in 0..c : At(E, j) = At(ends, j)
  <2>1. E[c + 2] = total /\ E[c + 1] = sent /\ \A j \in 0..c : E[j] = At(ends, j)
    OBVIOUS
  <2> HIDE DEF E
  <2> QED BY <2>1 DEF At
<1> HIDE DEF S, E
<1>9. At(S, 1) = SaltSize /\ At(E, 0) = 0
  BY <1>1, <1>7, <1>8
<1>10. ASSUME NEW j \in 1..c + 2 PROVE SealAt(j, At(more, j), S, E)
  <2>1. CASE j \in 1..c
    <3>1. j + 1 \in 1..c + 1 /\ j \in 1..c + 1 /\ j \in 0..c /\ j - 1 \in 0..c
      BY <2>1
    <3>2. /\ At(S, j + 1) = At(starts, j + 1) /\ At(S, j) = At(starts, j)
          /\ At(E, j) = At(ends, j) /\ At(E, j - 1) = At(ends, j - 1)
      BY <1>7, <1>8, <3>1
    <3> QED BY <1>2, <2>1, <3>2 DEF SealAt
  <2>2. CASE j = c + 1
    <3>1. (c + 1) % 2 = 1
      OBVIOUS
    <3>2. c + 1 + 1 = c + 2 /\ c + 1 - 1 = c
      OBVIOUS
    <3>3. At(S, c + 2) = At(S, c + 1) + LenSize + TagSize /\ At(E, c + 1) = At(E, c)
      BY <1>5, <1>6, <1>7, <1>8
    <3> QED BY <2>2, <3>1, <3>2, <3>3 DEF SealAt
  <2>3. CASE j = c + 2
    <3>1. (c + 2) % 2 # 1
      OBVIOUS
    <3>2. c + 2 + 1 = c + 3 /\ c + 2 - 1 = c + 1
      OBVIOUS
    <3>3. /\ At(S, c + 3) = At(S, c + 2) + Long(payload) + TagSize
          /\ At(E, c + 2) = At(E, c + 1) + Long(payload) /\ Counts(payload, At(E, c + 1))
      BY <1>5, <1>6, <1>7, <1>8
    <3> QED BY <2>3, <3>1, <3>2, <3>3 DEF SealAt
  <2> QED BY <2>1, <2>2, <2>3
<1>11. /\ \A j \in 1..c + 3 : At(S, j) \in Nat
       /\ \A j \in 0..c + 2 : At(E, j) \in Nat
  <2>1. ASSUME NEW j \in 1..c + 3 PROVE At(S, j) \in Nat
    <3>1. j = c + 3 \/ j = c + 2 \/ j \in 1..c + 1
      OBVIOUS
    <3> QED BY <1>1, <1>7, <3>1
  <2>2. ASSUME NEW j \in 0..c + 2 PROVE At(E, j) \in Nat
    <3>1. j = c + 2 \/ j = c + 1 \/ j \in 0..c
      OBVIOUS
    <3> QED BY <1>1, <1>8, <3>1
  <2> QED BY <2>1, <2>2
<1>12. ASSUME NEW i \in 1..c + 3, NEW j \in 1..c + 3, i < j PROVE At(S, i) < At(S, j)
  <2>1. top < mid /\ mid < end
    BY <1>5, <1>6
  <2>2. \A k \in 1..c + 1 : At(starts, k) \in Nat /\ At(starts, k) <= top
    BY <1>1, <1>3, <1>5
  <2>3. CASE i \in 1..c + 1 /\ j \in 1..c + 1
    BY <1>3, <1>7, <1>12, <2>3
  <2>4. CASE i \in 1..c + 1 /\ j \in {c + 2, c + 3}
    BY <1>7, <2>1, <2>2, <2>4
  <2>5. CASE i = c + 2 /\ j = c + 3
    BY <1>7, <2>1, <2>5
  <2>6. \/ i \in 1..c + 1 /\ j \in 1..c + 1
        \/ i \in 1..c + 1 /\ j \in {c + 2, c + 3}
        \/ i = c + 2 /\ j = c + 3
    BY <1>12
  <2> QED BY <2>3, <2>4, <2>5, <2>6
<1>13. ASSUME NEW i \in 0..c + 2, NEW j \in 0..c + 2, i <= j PROVE At(E, i) <= At(E, j)
  <2>1. \A k \in 0..c : At(ends, k) \in Nat /\ At(ends, k) <= sent
    BY <1>1, <1>4, <1>5
  <2>2. CASE i \in 0..c /\ j \in 0..c
    BY <1>4, <1>8, <1>13, <2>2
  <2>3. CASE i \in 0..c /\ j \in {c + 1, c + 2}
    BY <1>5, <1>6, <1>8, <2>1, <2>3
  <2>4. CASE i \in {c + 1, c + 2} /\ j \in {c + 1, c + 2}
    BY <1>5, <1>6, <1>8, <1>13, <2>4
  <2>5. \/ i \in 0..c /\ j \in 0..c
        \/ i \in 0..c /\ j \in {c + 1, c + 2}
        \/ i \in {c + 1, c + 2} /\ j \in {c + 1, c + 2}
    BY <1>13, SMTT(60)
  <2> QED BY <2>2, <2>3, <2>4, <2>5
<1>14. Layout(more, S, E)
  <2>1. 1..Long(more) + 1 = 1..c + 3 /\ 0..Long(more) = 0..c + 2 /\ 1..Long(more) = 1..c + 2
    OBVIOUS
  <2> QED BY <1>9, <1>10, <1>11, <1>12, <1>13, <2>1 DEF Layout
<1> QED BY <1>5, <1>6, <1>7, <1>8, <1>14 DEF Grown

\* A packet: two seals are added to the stream, the first one after the salt.
LEMMA StartWriteInv ==
    ASSUME Sound, NEW m \in 0..MaxWrite, StartWrite(m)
    PROVE  Sound'
<1> SUFFICES ASSUME Inv PROVE Inv'
  BY DEF Sound
<1> USE AeadAssumption
<1>1. PICK n \in Nat, c \in Nat, payload \in Texts, salt \in Seq(Bytes) :
        /\ c = Long(sealed) /\ payload = [k \in 1..n |-> written + k]
        /\ salt = IF nonce THEN SaltBytes ELSE <<>>
        /\ wpc = "idle" /\ wpc' = "writing" /\ wlen' = n /\ nonce' = FALSE /\ wbuf = <<>>
        /\ sealed' = Join(sealed, <<<<n>>, payload>>)
        /\ wbuf' = Join(Join(salt, Seal(c + 1, LenSize)), Seal(c + 2, n))
        /\ UNCHANGED <<written, pipe, garbled, rpc, rsalt, rops, rbuf, plain, delivered, replayed>>
  <2> DEFINE n == IF m > MAX_PACKET_SIZE THEN MAX_PACKET_SIZE ELSE m
             c == Long(sealed)
             payload == [k \in 1..n |-> written + k]
             salt == IF nonce THEN SaltBytes ELSE <<>>
  <2>1. /\ wpc = "idle" /\ wpc' = "writing" /\ wlen' = n /\ nonce' = FALSE /\ wbuf = <<>>
        /\ sealed' = Join(sealed, <<<<n>>, payload>>)
        /\ wbuf' = Join(Join(salt, Seal(c + 1, LenSize)), Seal(c + 2, n))
        /\ UNCHANGED <<written, pipe, garbled, rpc, rsalt, rops, rbuf, plain, delivered, replayed>>
    BY DEF StartWrite, reader, Inv, ControlInv, Join, Long
  <2>2. n \in Nat /\ c \in Nat /\ salt \in Seq(Bytes)
    BY SeqFacts, EmptyFacts, SaltFacts DEF Inv, TypeOK
  <2> HIDE DEF n
  <2>3. payload \in Texts
    <3>1. payload \in [1..n -> Nat]
      BY <2>2 DEF Inv, TypeOK
    <3> QED BY <2>2, <3>1 DEF Texts
  <2> HIDE DEF c, payload, salt
  <2> QED BY <2>1, <2>2, <2>3, Zenon DEF c, payload, salt
<1>2. /\ Long(sealed) = c /\ written \in Nat /\ rops \in Nat /\ rops <= c /\ c % 2 = 0
      /\ Long(payload) = n /\ Counts(payload, written)
      /\ Long(wbuf) = 0 /\ Long(rbuf) \in Nat /\ Long(pipe) \in Nat
  <2>1. /\ written \in Nat /\ rops \in Nat /\ rops <= c /\ c % 2 = 0
    BY <1>1 DEF Inv, TypeOK, ControlInv
  <2>2. Long(payload) = n /\ Counts(payload, written)
    BY <1>1, <2>1 DEF Counts, Long, At
  <2>3. Long(wbuf) = 0 /\ Long(rbuf) \in Nat /\ Long(pipe) \in Nat
    BY <1>1, EmptyFacts, SeqFacts DEF Inv, TypeOK
  <2> QED BY <1>1, <2>1, <2>2, <2>3
<1>3. /\ Long(sealed') = c + 2 /\ sealed' \in Seq(Texts)
      /\ \A j \in 1..c : At(sealed', j) = At(sealed, j)
      /\ At(sealed', c + 2) = payload
  <2>1. sealed \in Seq(Texts) /\ <<n>> \in Texts
    BY DEF Inv, TypeOK, Texts
  <2>2. PICK a \in Texts : a = <<n>>
    BY <2>1
  <2> DEFINE u == Join(sealed, <<a, payload>>)
  <2>3. /\ u \in Seq(Texts) /\ Long(u) = Long(sealed) + 2
        /\ \A j \in 1..Long(sealed) : At(u, j) = At(sealed, j)
        /\ At(u, Long(sealed) + 2) = payload
    BY <2>1, TwoSeals
  <2>4. sealed' = u
    BY <1>1, <2>2
  <2> HIDE DEF u
  <2> QED BY <1>2, <2>3, <2>4
<1>4. /\ wbuf' \in Seq(Bytes) /\ Long(salt) \in Nat /\ Long(salt) = IF nonce THEN SaltSize ELSE 0
      /\ Long(wbuf') = Long(salt) + (LenSize + TagSize + n + TagSize)
      /\ \A k \in 1..Long(salt) : At(wbuf', k) = At(salt, k)
  <2>1. Long(salt) = (IF nonce THEN SaltSize ELSE 0) /\ Long(salt) \in Nat
    BY <1>1, SaltFacts, EmptyFacts
  <2> DEFINE first == Seal(c + 1, LenSize)
             second == Seal(c + 2, n)
  <2>2. /\ first \in Seq(Bytes) /\ Long(first) = LenSize + TagSize
        /\ second \in Seq(Bytes) /\ Long(second) = n + TagSize
    <3>1. c + 1 \in Nat /\ c + 1 > 0 /\ c + 2 \in Nat /\ c + 2 > 0 /\ LenSize \in Nat
      OBVIOUS
    <3> QED BY <3>1, SealFacts, Zenon
  <2>3. wbuf' = Join(Join(salt, first), second)
    BY <1>1
  <2> HIDE DEF first, second
  <2>4. PICK head \in Seq(Bytes) :
          /\ head = Join(salt, first) /\ Long(head) = Long(salt) + Long(first)
          /\ \A k \in 1..Long(salt) : At(head, k) = At(salt, k)
    <3>1. Long(salt) \in Nat /\ first \in Seq(Bytes)
      BY <2>1, <2>2
    <3>2. /\ Join(salt, first) \in Seq(Bytes) /\ Long(Join(salt, first)) = Long(salt) + Long(first)
          /\ \A k \in 1..Long(salt) : At(Join(salt, first), k) = At(salt, k)
      BY <3>1, JoinFront
    <3> QED BY <3>2
  <2>5. Long(salt) <= Long(head)
    BY <2>1, <2>2, <2>4
  <2>6. /\ wbuf' \in Seq(Bytes) /\ Long(wbuf') = Long(head) + Long(second)
        /\ \A k \in 1..Long(salt) : At(wbuf', k) = At(head, k)
    <3>1. Long(salt) \in Nat /\ second \in Seq(Bytes)
      BY <2>1, <2>2
    <3>2. /\ Join(head, second) \in Seq(Bytes) /\ Long(Join(head, second)) = Long(head) + Long(second)
          /\ \A k \in 1..Long(head) : At(Join(head, second), k) = At(head, k) /\ Long(head) \in Nat
      BY <3>1, JoinFront
    <3>3. \A k \in 1..Long(salt) : k \in 1..Long(head)
      BY <2>5, <3>1, <3>2
    <3> QED BY <2>3, <2>4, <3>2, <3>3
  <2>7. Long(wbuf') = Long(salt) + (LenSize + TagSize + n + TagSize)
    BY <2>1, <2>2, <2>4, <2>6
  <2> QED BY <2>1, <2>4, <2>6, <2>7, SMTT(60)
<1>5. TypeOK'
  BY <1>1, <1>3, <1>4, Zenon DEF Inv, TypeOK
<1>6. wbuf' # <<>> /\ Long(wbuf') \in Nat /\ Long(wbuf') > 0
  BY <1>4, EmptyFacts
<1>7. PICK starts, ends : Layout(sealed, starts, ends) /\ Positions(starts, ends)
  BY DEF Inv, StreamInv
<1>8. /\ written = At(ends, c) /\ At(starts, c + 1) \in Nat /\ At(ends, c) \in Nat
      /\ At(starts, 1) = SaltSize /\ SaltSize <= At(starts, c + 1)
  <2>1. written = At(ends, c)
    BY <1>1, <1>2, <1>7 DEF Positions
  <2>2. /\ \A j \in 1..c + 1 : At(starts, j) \in Nat
        /\ \A j \in 0..c : At(ends, j) \in Nat
        /\ At(starts, 1) = SaltSize
        /\ \A i, j \in 1..c + 1 : i < j => At(starts, i) < At(starts, j)
    BY <1>2, <1>7 DEF Layout
  <2>3. 1 \in 1..c + 1 /\ c + 1 \in 1..c + 1 /\ c \in 0..c /\ (c = 0 \/ 1 < c + 1)
    BY SMTT(60)
  <2> QED BY <2>1, <2>2, <2>3, SMTT(60)
<1>9. /\ nonce => c = 0 /\ Long(rbuf) + Long(pipe) = 0 /\ rpc \in {"salt", "err"}
      /\ ~nonce /\ rpc = "salt" => Long(rbuf) + Long(pipe) = At(starts, c + 1)
      /\ rpc \in {"length", "data"} => At(starts, rops + 1) + (Long(rbuf) + Long(pipe)) = At(starts, c + 1)
      /\ Long(delivered) + Long(plain) = At(ends, rops)
  <2>1. InFlight = Long(rbuf) + Long(pipe)
    BY <1>2 DEF InFlight
  <2> QED BY <1>1, <1>2, <1>7, <2>1 DEF Positions
<1>10. StreamInv'
  <2>0. PICK more : more = sealed'
    OBVIOUS
  <2>1. PICK S, E :
              /\ Layout(sealed', S, E)
              /\ \A j \in 1..c + 1 : At(S, j) = At(starts, j)
              /\ \A j \in 0..c : At(E, j) = At(ends, j)
              /\ At(S, c + 3) = At(starts, c + 1) + (LenSize + TagSize + n + TagSize)
              /\ At(E, c + 2) = At(ends, c) + n
    <3>1. Layout(sealed, starts, ends) /\ Longer(more, sealed, ends, c, n, payload)
      BY <1>2, <1>3, <1>7, <1>8, <2>0 DEF Longer
    <3>2. PICK S, E : Grown(more, S, E, starts, ends, c, n)
      BY <3>1, GrowLayout
    <3> QED BY <2>0, <3>2, ZenonT(60) DEF Grown
  <2>2. InFlight' = Long(rbuf) + Long(pipe) + Long(wbuf') /\ InFlight' \in Nat
    BY <1>1, <1>2, <1>6, SMTT(60) DEF InFlight
  <2>3. PICK g \in Nat : g = LenSize + TagSize + n + TagSize
    OBVIOUS
  <2>4. PICK x \in Nat, w \in Nat, top \in Nat, z \in Nat :
          /\ x = Long(rbuf) + Long(pipe) /\ w = Long(wbuf') /\ top = At(starts, c + 1) /\ z = Long(salt)
          /\ w = z + g /\ InFlight' = x + w /\ At(S, c + 3) = top + g
    <3>1. Long(rbuf) + Long(pipe) \in Nat /\ Long(wbuf') \in Nat /\ At(starts, c + 1) \in Nat /\ Long(salt) \in Nat
      BY <1>2, <1>4, <1>6, <1>8, SMTT(60)
    <3>2. Long(wbuf') = Long(salt) + g /\ At(S, c + 3) = At(starts, c + 1) + g
      BY <1>4, <2>1, <2>3, <3>1
    <3> QED BY <2>2, <3>1, <3>2, SMTT(60)
  <2>5. rpc = "salt" => InFlight' = At(S, c + 3)
    <3>1. nonce => x = 0 /\ z = SaltSize /\ top = SaltSize
      BY <1>4, <1>8, <1>9, <2>4, SMTT(60)
    <3>2. ~nonce /\ rpc = "salt" => x = top /\ z = 0
      BY <1>4, <1>9, <2>4
    <3>3. rpc = "salt" => x + (z + g) = top + g
      BY <3>1, <3>2, SMTT(60)
    <3> QED BY <2>4, <3>3, SMTT(60)
  <2>6. /\ rpc \in {"length", "data"} => At(S, rops + 1) + InFlight' = At(S, c + 3)
        /\ c + 2 >= 2 /\ written = At(E, c) /\ At(E, c + 2) = written + n
        /\ c + 2 > 2 => Long(wbuf') <= At(S, c + 3) - At(S, c + 1)
    <3>1. ASSUME rpc \in {"length", "data"} PROVE At(S, rops + 1) + InFlight' = At(S, c + 3)
      <4>1. PICK y \in Nat : y = At(starts, rops + 1)
        BY <1>2, <1>7, SMTT(60) DEF Layout
      <4>2. At(S, rops + 1) = y
        BY <1>2, <2>1, <4>1
      <4>3. y + x = top /\ z = 0
        BY <1>4, <1>9, <2>4, <3>1, <4>1, ZenonT(60)
      <4>4. y + (x + (z + g)) = top + g
        BY <4>3
      <4> QED BY <2>4, <4>2, <4>4, SMTT(60)
    <3>2. c + 2 >= 2 /\ written = At(E, c) /\ At(E, c + 2) = written + n
      BY <1>8, <2>1
    <3>3. ASSUME c + 2 > 2 PROVE Long(wbuf') <= At(S, c + 3) - At(S, c + 1)
      <4>1. z = 0
        BY <1>4, <1>9, <2>4, <3>3, SMTT(60)
      <4>2. At(S, c + 1) = top
        BY <2>1, <2>4
      <4>3. z + g <= top + g - top
        BY <4>1, SMTT(60)
      <4> QED BY <2>4, <4>2, <4>3, SMTT(60)
    <3> QED BY <3>1, <3>2, <3>3
  <2>7. Long(delivered) + Long(plain) = At(E, rops)
    BY <1>2, <1>9, <2>1
  <2>8. Long(sealed') = c + 2 /\ c + 2 + 1 = c + 3 /\ c + 2 - 2 = c /\ c + 2 - 1 = c + 1
    BY <1>3, SMTT(60)
  <2>9. Positions(S, E)'
    BY <1>1, <1>6, <2>5, <2>6, <2>7, <2>8, SMTT(60) DEF Positions
  <2> QED BY <2>1, <2>9 DEF StreamInv
<1>11. ControlInv'
  BY <1>1, <1>2, <1>3, <1>6, SMTT(60) DEF Inv, ControlInv
<1>12. PlainInv' /\ GarbleInv' /\ EofInv'
  BY <1>1 DEF Inv, PlainInv, GarbleInv, EofInv
<1>13. SaltInv'
  <2>1. CASE garbled # 0 \/ rpc # "salt"
    BY <1>1, <2>1 DEF Inv, SaltInv
  <2>2. CASE garbled = 0 /\ rpc = "salt"
    <3>1. SaltFrom(wbuf', Long(rbuf) + Long(pipe))
      <4>1. CASE nonce
        <5>1. Long(rbuf) + Long(pipe) = 0
          BY <1>9, <4>1, SMTT(60)
        <5>2. Long(salt) = SaltSize /\ SaltFrom(salt, 0)
          BY <1>1, <4>1, SaltFacts, SMTT(60)
        <5>3. \A k \in 1..Long(wbuf') : 0 + k <= SaltSize => At(wbuf', k) = SaltByte(0 + k)
          BY <1>4, <1>6, <5>2, SMTT(60) DEF SaltFrom
        <5> QED BY <5>1, <5>3 DEF SaltFrom
      <4>2. CASE ~nonce
        BY <1>2, <1>6, <1>8, <1>9, <2>2, <4>2, SMTT(60) DEF SaltFrom
      <4> QED BY <4>1, <4>2
    <3> QED BY <1>1, <2>2, <3>1 DEF Inv, SaltInv
  <2> QED BY <2>1, <2>2
<1> QED BY <1>5, <1>10, <1>11, <1>12, <1>13 DEF Inv

\* The lengths of all buffers are numbers.
LEMMA LengthFacts ==
    ASSUME TypeOK
    PROVE  /\ Long(wbuf) \in Nat /\ Long(pipe) \in Nat /\ Long(rbuf) \in Nat /\ InFlight \in Nat
           /\ Long(plain) \in Nat /\ Long(delivered) \in Nat /\ Long(sealed) \in Nat
           /\ (Long(wbuf) = 0 <=> wbuf = <<>>) /\ (Long(pipe) = 0 <=> pipe = <<>>)
           /\ (Long(rbuf) = 0 <=> rbuf = <<>>)
<1>1. /\ Long(wbuf) \in Nat /\ Long(pipe) \in Nat /\ Long(rbuf) \in Nat
      /\ (Long(wbuf) = 0 <=> wbuf = <<>>) /\ (Long(pipe) = 0 <=> pipe = <<>>)
      /\ (Long(rbuf) = 0 <=> rbuf = <<>>)
  BY SeqFacts DEF TypeOK
<1>2. Long(plain) \in Nat /\ Long(delivered) \in Nat /\ Long(sealed) \in Nat
  BY SeqFacts DEF TypeOK, Texts
<1> QED BY <1>1, <1>2 DEF InFlight

\* Bytes go from the writer's buffer into the connection; with the last of them
\* the write returns.
LEMMA PipeWriteInv ==
    ASSUME Sound, NEW n \in 1..PipeSize, PipeWrite(n)
    PROVE  Sound'
<1> SUFFICES ASSUME Inv PROVE Inv'
  BY DEF Sound
<1> USE AeadAssumption
<1>1. /\ wpc = "writing" /\ n <= Long(wbuf) /\ n \in Nat /\ n > 0
      /\ pipe' = Join(pipe, Front(wbuf, n)) /\ wbuf' = Rest(wbuf, n)
      /\ IF n = Long(wbuf) THEN wpc' = "idle" /\ written' = written + wlen
                           ELSE wpc' = wpc /\ written' = written
      /\ UNCHANGED <<nonce, wlen, sealed, garbled, rpc, rsalt, rops, rbuf, rlen, plain, delivered, replayed>>
  BY SMTT(60) DEF PipeWrite, reader, Join, Front, Rest, Long
<1>2. /\ Long(wbuf) \in Nat /\ Long(pipe) \in Nat /\ Long(rbuf) \in Nat /\ Long(sealed) \in Nat
      /\ wbuf # <<>> /\ wbuf \in Seq(Bytes) /\ pipe \in Seq(Bytes)
  BY <1>1, LengthFacts, SMTT(60) DEF Inv, TypeOK, ControlInv
<1>3. /\ Front(wbuf, n) \in Seq(Bytes) /\ Long(Front(wbuf, n)) = n
      /\ wbuf' \in Seq(Bytes) /\ Long(wbuf') = Long(wbuf) - n
  BY <1>1, <1>2, CutFacts, SMTT(60)
<1>4. pipe' \in Seq(Bytes) /\ Long(pipe') = Long(pipe) + n
  BY <1>1, <1>2, <1>3, JoinFacts, SMTT(60)
<1>5. TypeOK'
  BY <1>1, <1>3, <1>4, SMTT(60) DEF Inv, TypeOK
<1>6. Long(wbuf') \in Nat /\ (wbuf' = <<>> <=> n = Long(wbuf))
  BY <1>1, <1>2, <1>3, SeqFacts, SMTT(60)
<1>7. InFlight' = InFlight
  BY <1>1, <1>2, <1>3, <1>4, SMTT(60) DEF InFlight
<1>8. StreamInv'
  <2>1. PICK starts, ends : Layout(sealed, starts, ends) /\ Positions(starts, ends)
    BY SMTT(60) DEF Inv, StreamInv
  <2>2. /\ Long(sealed) >= 2 /\ written = At(ends, Long(sealed) - 2) /\ At(ends, Long(sealed)) = written + wlen
        /\ Long(sealed) > 2 => Long(wbuf) <= At(starts, Long(sealed) + 1) - At(starts, Long(sealed) - 1)
    BY <1>2, <2>1, SMTT(60) DEF Positions
  <2>3. Long(sealed) > 2 => At(starts, Long(sealed) + 1) \in Nat /\ At(starts, Long(sealed) - 1) \in Nat
    BY <1>2, <2>1, SMTT(60) DEF Layout
  <2>4. Long(sealed) > 2 => Long(wbuf') <= At(starts, Long(sealed) + 1) - At(starts, Long(sealed) - 1)
    BY <1>1, <1>2, <1>3, <2>2, <2>3, SMTT(60)
  <2>5. Positions(starts, ends)'
    BY <1>1, <1>6, <1>7, <2>1, <2>2, <2>4 DEF Positions
  <2> QED BY <1>1, <2>1, <2>5 DEF StreamInv
<1>9. ControlInv'
  BY <1>1, <1>6 DEF Inv, ControlInv
<1>10. PlainInv' /\ EofInv'
  BY <1>1 DEF Inv, PlainInv, EofInv
<1>11. GarbleInv'
  <2>1. HasGarbage(pipe) => HasGarbage(pipe')
    BY <1>1, <1>2, <1>3, GarbageParts
  <2> QED BY <1>1, <2>1, SMTT(60) DEF Inv, GarbleInv
<1>12. SaltInv'
  <2>1. CASE garbled # 0 \/ rpc # "salt"
    BY <1>1, <2>1, SMTT(60) DEF Inv, SaltInv
  <2>2. CASE garbled = 0 /\ rpc = "salt"
    <3>1. SaltFrom(pipe, Long(rbuf)) /\ SaltFrom(wbuf, Long(rbuf) + Long(pipe))
      BY <2>2 DEF Inv, SaltInv
    <3>2. PICK z \in Nat : z = Long(rbuf) + Long(pipe)
      BY <1>2, SMTT(60)
    <3>3. SaltFrom(Front(wbuf, n), z) /\ SaltFrom(wbuf', z + n)
      BY <1>1, <1>2, <3>1, <3>2, SaltParts, SMTT(60)
    <3>4. SaltFrom(pipe', Long(rbuf))
      BY <1>1, <1>2, <1>3, <3>1, <3>2, <3>3, SaltParts, SMTT(60)
    <3>5. Long(rbuf) + Long(pipe') = z + n
      BY <1>1, <1>2, <1>4, <3>2
    <3> QED BY <1>1, <2>2, <3>1, <3>3, <3>4, <3>5, SMTT(60) DEF Inv, SaltInv
  <2> QED BY <2>1, <2>2, SMTT(60)
<1> QED BY <1>5, <1>8, <1>9, <1>10, <1>11, <1>12 DEF Inv

\* The writer stops, or the connection breaks: only who goes on changes.
LEMMA StopInv ==
    ASSUME Sound, Shutdown \/ WriterDies \/ PipeError
    PROVE  Sound'
<1> SUFFICES ASSUME Inv PROVE Inv'
  BY DEF Sound
<1>1. /\ UNCHANGED <<nonce, wbuf, wlen, sealed, written, pipe, garbled>>
      /\ UNCHANGED <<rsalt, rops, rbuf, plain, delivered, replayed>>
      /\ \/ wpc = "idle" /\ wpc' = "shut" /\ rpc' = rpc
         \/ wpc \in {"idle", "writing"} /\ wpc' = "dead" /\ rpc' = rpc
         \/ wpc' = wpc /\ rpc' = "err" /\ rpc # "eof"
  BY DEF Shutdown, WriterDies, PipeError, writer, reader
<1>2. TypeOK'
  BY <1>1 DEF Inv, TypeOK
<1>3. InFlight' = InFlight
  BY <1>1 DEF InFlight
<1>4. StreamInv'
  <2>1. PICK starts, ends : Layout(sealed, starts, ends) /\ Positions(starts, ends)
    BY SMTT(60) DEF Inv, StreamInv
  <2>2. Positions(starts, ends)'
    BY <1>1, <1>3, <2>1, SMTT(60) DEF Positions
  <2> QED BY <1>1, <2>1, <2>2 DEF StreamInv
<1>5. ControlInv' /\ PlainInv'
  BY <1>1, SMTT(60) DEF Inv, ControlInv, PlainInv
<1>6. GarbleInv' /\ SaltInv' /\ EofInv'
  BY <1>1 DEF Inv, GarbleInv, SaltInv, EofInv
<1> QED BY <1>2, <1>4, <1>5, <1>6 DEF Inv

\* A byte changes on its way: it stays one byte.
LEMMA GarbledInv ==
    ASSUME Sound, NEW k \in 1..PipeSize, Garble(k)
    PROVE  Sound'
<1> SUFFICES ASSUME Inv PROVE Inv'
  BY DEF Sound
<1>1. /\ k \in 1..Long(pipe) /\ pipe' = [pipe EXCEPT ![k] = Garbage] /\ garbled' = garbled + 1
      /\ UNCHANGED <<wpc, nonce, wbuf, wlen, sealed, written>>
      /\ UNCHANGED <<rpc, rsalt, rops, rbuf, plain, delivered, replayed>>
  BY DEF Garble, writer, reader, Long
<1>2. pipe' \in Seq(Bytes) /\ Long(pipe') = Long(pipe) /\ At(pipe', k) = Garbage
  <2>1. pipe \in Seq(Bytes) /\ k \in 1..Len(pipe) /\ Garbage \in Bytes
    BY <1>1, SMTT(60) DEF Inv, TypeOK, Long, Garbage, Bytes
  <2> HIDE DEF Garbage
  <2> QED BY <1>1, <2>1 DEF Long, At
<1>3. garbled \in Nat /\ garbled' > 0 /\ pipe # <<>>
  <2>1. garbled \in Nat /\ Long(pipe) \in Nat /\ (Long(pipe) = 0 <=> pipe = <<>>)
    BY LengthFacts, SMTT(60) DEF Inv, TypeOK
  <2> QED BY <1>1, <2>1
<1>4. TypeOK'
  BY <1>1, <1>2, <1>3 DEF Inv, TypeOK
<1>5. InFlight' = InFlight
  BY <1>1, <1>2 DEF InFlight
<1>6. StreamInv'
  <2>1. PICK starts, ends : Layout(sealed, starts, ends) /\ Positions(starts, ends)
    BY SMTT(60) DEF Inv, StreamInv
  <2>2. Positions(starts, ends)'
    BY <1>1, <1>5, <2>1 DEF Positions
  <2> QED BY <1>1, <2>1, <2>2 DEF StreamInv
<1>7. ControlInv' /\ PlainInv'
  BY <1>1 DEF Inv, ControlInv, PlainInv
<1>8. HasGarbage(pipe')
  BY <1>1, <1>2, SMTT(60) DEF HasGarbage
<1>9. GarbleInv' /\ SaltInv' /\ EofInv'
  BY <1>1, <1>3, <1>8 DEF Inv, GarbleInv, SaltInv, EofInv
<1> QED BY <1>4, <1>6, <1>7, <1>9 DEF Inv

\* The connection ends.  Between two packets, and with nothing on the way, the
\* reader has opened every seal of the writes that returned: if more was sealed,
\* it is the packet of the write in progress, and none of it was sent.
LEMMA PipeEofInv ==
    ASSUME Sound, PipeEof
    PROVE  Sound'
<1> SUFFICES ASSUME Inv PROVE Inv'
  BY DEF Sound
<1>1. /\ rpc \in {"salt", "length", "data"} /\ plain = <<>> /\ pipe = <<>> /\ wpc \in {"shut", "dead"}
      /\ rpc' = IF rpc = "length" /\ rbuf = <<>> THEN "eof" ELSE "err"
      /\ UNCHANGED <<wpc, nonce, wbuf, wlen, sealed, written, pipe, garbled>>
      /\ UNCHANGED <<rsalt, rops, rbuf, plain, delivered, replayed>>
  BY DEF PipeEof, writer
<1>2. TypeOK'
  BY <1>1 DEF Inv, TypeOK
<1>3. InFlight' = InFlight
  BY <1>1 DEF InFlight
<1>4. PICK starts, ends : Layout(sealed, starts, ends) /\ Positions(starts, ends)
  BY DEF Inv, StreamInv
<1>5. StreamInv'
  <2>1. Positions(starts, ends)'
    BY <1>1, <1>3, <1>4, SMTT(60) DEF Positions
  <2> QED BY <1>1, <1>4, <2>1, SMTT(60) DEF StreamInv
<1>6. ControlInv' /\ PlainInv'
  BY <1>1 DEF Inv, ControlInv, PlainInv
<1>7. ASSUME rpc = "length", rbuf = <<>> PROVE Long(delivered) = written
  <2>1. /\ Long(wbuf) \in Nat /\ Long(pipe) = 0 /\ Long(rbuf) = 0 /\ Long(delivered) \in Nat
        /\ (Long(wbuf) = 0 <=> wbuf = <<>>) /\ Long(plain) = 0
    BY <1>1, <1>7, LengthFacts, EmptyFacts, SMTT(60) DEF Inv
  <2>2. PICK last \in Nat, r \in Nat, w \in Nat : last = Long(sealed) /\ r = rops /\ w = Long(wbuf)
    BY <2>1, LengthFacts DEF Inv, TypeOK
  <2>3. r <= last /\ r % 2 = 0 /\ last % 2 = 0
    BY <1>7, <2>2, SMTT(60) DEF Inv, ControlInv
  <2>4. /\ \A j \in 1..last + 1 : At(starts, j) \in Nat
        /\ \A i, j \in 1..last + 1 : i < j => At(starts, i) < At(starts, j)
    BY <1>4, <2>2, SMTT(60) DEF Layout
  <2>5. At(starts, r + 1) + w = At(starts, last + 1) /\ Long(delivered) = At(ends, r)
    <3>1. InFlight = w
      BY <2>1, <2>2, SMTT(60) DEF InFlight
    <3> QED BY <1>4, <1>7, <2>1, <2>2, <3>1 DEF Positions
  <2>6. CASE wbuf = <<>>
    <3>1. ~(r + 1 < last + 1)
      BY <2>1, <2>2, <2>3, <2>4, <2>5, <2>6, SMTT(60)
    <3>2. r = last
      BY <2>3, <3>1
    <3> QED BY <1>4, <2>2, <2>5, <2>6, <3>2, SMTT(60) DEF Positions
  <2>7. CASE wbuf # <<>>
    <3>1. w > 0 /\ last >= 2 /\ written = At(ends, last - 2)
          /\ (last > 2 => w <= At(starts, last + 1) - At(starts, last - 1))
      BY <1>4, <2>1, <2>2, <2>7, SMTT(60) DEF Positions
    <3>2. r # last
      BY <2>4, <2>5, <3>1, SMTT(60)
    <3>3. last > 2 => r + 1 >= last - 1
      <4> SUFFICES ASSUME last > 2, r + 1 < last - 1 PROVE FALSE
        BY <2>3
      <4>1. r + 1 \in 1..last + 1 /\ last - 1 \in 1..last + 1 /\ last + 1 \in 1..last + 1
        BY <2>3
      <4>2. At(starts, r + 1) < At(starts, last - 1)
        BY <2>4, <4>1, SMTT(60)
      <4>3. At(starts, r + 1) \in Nat /\ At(starts, last - 1) \in Nat /\ At(starts, last + 1) \in Nat
        BY <2>4, <4>1
      <4> QED BY <2>5, <3>1, <4>2, <4>3
    <3>4. r = last - 2
      BY <2>3, <3>1, <3>2, <3>3, SMTT(60)
    <3> QED BY <2>5, <3>1, <3>4, SMTT(60)
  <2> QED BY <2>6, <2>7, SMTT(60)
<1>8. EofInv'
  BY <1>1, <1>7 DEF EofInv
<1>9. GarbleInv'
  <2>1. rbuf = <<>> => ~HasGarbage(rbuf)
    BY EmptyFacts DEF HasGarbage
  <2>2. ~HasGarbage(pipe)
    BY <1>1, EmptyFacts, SMTT(60) DEF HasGarbage
  <2> QED BY <1>1, <2>1, <2>2 DEF Inv, GarbleInv
<1>10. SaltInv'
  BY <1>1 DEF Inv, SaltInv
<1> QED BY <1>2, <1>5, <1>6, <1>8, <1>9, <1>10 DEF Inv

\* The application takes decrypted bytes.
LEMMA DeliverInv ==
    ASSUME Sound, NEW n \in 1..MAX_PACKET_SIZE, Deliver(n)
    PROVE  Sound'
<1> SUFFICES ASSUME Inv PROVE Inv'
  BY DEF Sound
<1> USE AeadAssumption
<1>1. /\ n <= Long(plain) /\ n \in Nat /\ n > 0
      /\ delivered' = Join(delivered, Front(plain, n)) /\ plain' = Rest(plain, n)
      /\ UNCHANGED <<wpc, nonce, wbuf, wlen, sealed, written, pipe, garbled>>
      /\ UNCHANGED <<rpc, rsalt, rops, rbuf, replayed>>
  BY SMTT(60) DEF Deliver, writer, Join, Front, Rest, Long
<1>2. plain \in Texts /\ delivered \in Texts /\ Long(plain) \in Nat /\ Long(delivered) \in Nat
  BY LengthFacts, SMTT(60) DEF Inv, TypeOK
<1>3. /\ Front(plain, n) \in Texts /\ Long(Front(plain, n)) = n
      /\ plain' \in Texts /\ Long(plain') = Long(plain) - n
  BY <1>1, <1>2, CutFacts, SMTT(60) DEF Texts
<1>4. delivered' \in Texts /\ Long(delivered') = Long(delivered) + n
  BY <1>1, <1>2, <1>3, JoinFacts, SMTT(60) DEF Texts
<1>5. TypeOK'
  BY <1>1, <1>3, <1>4, SMTT(60) DEF Inv, TypeOK
<1>6. InFlight' = InFlight /\ Long(delivered') + Long(plain') = Long(delivered) + Long(plain)
  BY <1>1, <1>2, <1>3, <1>4, SMTT(60) DEF InFlight
<1>7. StreamInv'
  <2>1. PICK starts, ends : Layout(sealed, starts, ends) /\ Positions(starts, ends)
    BY SMTT(60) DEF Inv, StreamInv
  <2>2. Positions(starts, ends)'
    BY <1>1, <1>6, <2>1, SMTT(60) DEF Positions
  <2> QED BY <1>1, <2>1, <2>2 DEF StreamInv
<1>8. ControlInv' /\ GarbleInv' /\ SaltInv'
  BY <1>1 DEF Inv, ControlInv, GarbleInv, SaltInv
<1>9. PlainInv'
  <2>1. Counts(Front(plain, n), Long(delivered)) /\ Counts(plain', Long(delivered) + n)
    BY <1>1, <1>2, CountsParts DEF Inv, PlainInv
  <2>2. 0 \in Nat /\ 0 + Long(delivered) = Long(delivered)
    BY <1>2, SMTT(60)
  <2>3. Counts(delivered', 0)
    BY <1>1, <1>2, <1>3, <2>1, <2>2, CountsParts, SMTT(60) DEF Inv, PlainInv
  <2> QED BY <1>4, <2>1, <2>3, SMTT(60) DEF PlainInv
<1>10. EofInv'
  <2>1. plain # <<>>
    BY <1>1, EmptyFacts, SMTT(60)
  <2> QED BY <1>1, <2>1, SMTT(60) DEF Inv, EofInv
<1> QED BY <1>5, <1>7, <1>8, <1>9, <1>10, SMTT(60) DEF Inv

-----------------------------------------------------------------------------
(* The reader gets n more bytes and has buf of what it is reading. *)
ReadStep(n, buf) ==
    /\ n \in Nat /\ n > 0 /\ n <= Long(pipe) /\ buf = Join(rbuf, Front(pipe, n))
    /\ rpc \in {"salt", "length", "data"} /\ plain = <<>> /\ pipe' = Rest(pipe, n)
    /\ UNCHANGED <<wpc, nonce, wbuf, wlen, sealed, written, garbled, delivered, replayed>>

LEMMA ReadFacts ==
    ASSUME Sound, NEW n, NEW buf, ReadStep(n, buf)
    PROVE  /\ buf \in Seq(Bytes) /\ Long(buf) \in Nat /\ Long(buf) = Long(rbuf) + n
           /\ pipe' \in Seq(Bytes) /\ Long(pipe') \in Nat /\ ~nonce
           /\ InFlight = Long(buf) + (Long(pipe') + Long(wbuf))
           /\ HasGarbage(rbuf) \/ HasGarbage(pipe) => HasGarbage(buf) \/ HasGarbage(pipe')
           /\ garbled = 0 /\ rpc = "salt" => /\ SaltFrom(buf, 0) /\ SaltFrom(pipe', Long(buf))
                                             /\ SaltFrom(wbuf, Long(buf) + Long(pipe'))
<1> Inv
  BY DEF Sound
<1> USE AeadAssumption
<1>1. /\ n \in Nat /\ n > 0 /\ n <= Long(pipe) /\ buf = Join(rbuf, Front(pipe, n)) /\ pipe' = Rest(pipe, n)
  BY SMTT(60) DEF ReadStep
<1>2. /\ Long(wbuf) \in Nat /\ Long(pipe) \in Nat /\ Long(rbuf) \in Nat
      /\ pipe \in Seq(Bytes) /\ rbuf \in Seq(Bytes)
  BY LengthFacts, SMTT(60) DEF Inv, TypeOK
<1>3. /\ Front(pipe, n) \in Seq(Bytes) /\ Long(Front(pipe, n)) = n
      /\ pipe' \in Seq(Bytes) /\ Long(pipe') = Long(pipe) - n
  BY <1>1, <1>2, CutFacts, SMTT(60)
<1>4. buf \in Seq(Bytes) /\ Long(buf) = Long(rbuf) + n
  BY <1>1, <1>2, <1>3, JoinFacts, SMTT(60)
<1>5. Long(buf) \in Nat /\ Long(pipe') \in Nat /\ InFlight = Long(buf) + (Long(pipe') + Long(wbuf))
  BY <1>1, <1>2, <1>3, <1>4, SMTT(60) DEF InFlight
<1>6. ~nonce
  <2>1. PICK starts, ends : Positions(starts, ends)
    BY DEF Inv, StreamInv
  <2>2. InFlight # 0
    BY <1>1, <1>2, SMTT(60) DEF InFlight
  <2> QED BY <2>1, <2>2 DEF Positions
<1>7. HasGarbage(rbuf) \/ HasGarbage(pipe) => HasGarbage(buf) \/ HasGarbage(pipe')
  <2>1. HasGarbage(pipe) => HasGarbage(Front(pipe, n)) \/ HasGarbage(pipe')
    BY <1>1, <1>2, GarbageParts, SMTT(60)
  <2>2. HasGarbage(rbuf) \/ HasGarbage(Front(pipe, n)) => HasGarbage(buf)
    BY <1>1, <1>2, <1>3, GarbageParts, SMTT(60)
  <2> QED BY <2>1, <2>2, SMTT(60)
<1>8. ASSUME garbled = 0, rpc = "salt"
      PROVE  /\ SaltFrom(buf, 0) /\ SaltFrom(pipe', Long(buf))
             /\ SaltFrom(wbuf, Long(buf) + Long(pipe'))
  <2>1. /\ SaltFrom(rbuf, 0) /\ SaltFrom(pipe, Long(rbuf)) /\ SaltFrom(wbuf, Long(rbuf) + Long(pipe))
    BY <1>8, SMTT(60) DEF Inv, SaltInv
  <2>2. SaltFrom(Front(pipe, n), Long(rbuf)) /\ SaltFrom(pipe', Long(rbuf) + n)
    BY <1>1, <1>2, <2>1, SaltParts, SMTT(60)
  <2>3. 0 \in Nat /\ 0 + Long(rbuf) = Long(rbuf) /\ Long(buf) + Long(pipe') = Long(rbuf) + Long(pipe)
    BY <1>1, <1>2, <1>3, <1>4, SMTT(60)
  <2>4. SaltFrom(buf, 0)
    BY <1>1, <1>2, <1>3, <2>1, <2>2, <2>3, SaltParts, SMTT(60)
  <2> QED BY <1>4, <2>1, <2>2, <2>3, <2>4, SMTT(60)
<1> QED BY <1>3, <1>4, <1>5, <1>6, <1>7, <1>8, SMTT(60)

\* It is not all yet (poll_read_exact returns NotReady).
LEMMA PartReadInv ==
    ASSUME Sound, NEW n, NEW buf, ReadStep(n, buf),
           rbuf' = buf, UNCHANGED <<rpc, rsalt, rops, plain>>
    PROVE  Sound'
<1> SUFFICES ASSUME Inv PROVE Inv'
  BY DEF Sound
<1>1. /\ buf \in Seq(Bytes) /\ pipe' \in Seq(Bytes)
      /\ InFlight = Long(buf) + (Long(pipe') + Long(wbuf)) /\ Long(buf) \in Nat /\ Long(pipe') \in Nat
      /\ HasGarbage(rbuf) \/ HasGarbage(pipe) => HasGarbage(buf) \/ HasGarbage(pipe')
      /\ garbled = 0 /\ rpc = "salt" => /\ SaltFrom(buf, 0) /\ SaltFrom(pipe', Long(buf))
                                        /\ SaltFrom(wbuf, Long(buf) + Long(pipe'))
  BY ReadFacts, SMTT(60)
<1>2. /\ UNCHANGED <<wpc, nonce, wbuf, wlen, sealed, written, garbled, delivered, replayed>>
      /\ UNCHANGED <<rpc, rsalt, rops, plain>> /\ rbuf' = buf /\ rpc # "eof"
  BY SMTT(60) DEF ReadStep
<1>3. TypeOK'
  BY <1>1, <1>2, SMTT(60) DEF Inv, TypeOK
<1>4. InFlight' = InFlight
  <2>1. Long(wbuf) \in Nat
    BY LengthFacts, SMTT(60) DEF Inv
  <2> QED BY <1>1, <1>2, <2>1, SMTT(60) DEF InFlight
<1>5. StreamInv'
  <2>1. PICK starts, ends : Layout(sealed, starts, ends) /\ Positions(starts, ends)
    BY SMTT(60) DEF Inv, StreamInv
  <2>2. Positions(starts, ends)'
    BY <1>2, <1>4, <2>1, SMTT(60) DEF Positions
  <2> QED BY <1>2, <2>1, <2>2 DEF StreamInv
<1>6. ControlInv' /\ PlainInv' /\ EofInv'
  BY <1>2, SMTT(60) DEF Inv, ControlInv, PlainInv, EofInv
<1>7. GarbleInv' /\ SaltInv'
  BY <1>1, <1>2 DEF Inv, GarbleInv, SaltInv
<1> QED BY <1>3, <1>5, <1>6, <1>7, SMTT(60) DEF Inv

\* What it got is refused.
LEMMA RefuseInv ==
    ASSUME Sound, NEW n, NEW buf, ReadStep(n, buf),
           rbuf' = <<>>, rpc' = "err", UNCHANGED <<rops, plain>>,
           rsalt' \in BOOLEAN, rops > 0 => rsalt'
    PROVE  Sound'
<1> SUFFICES ASSUME Inv PROVE Inv'
  BY DEF Sound
<1>1. pipe' \in Seq(Bytes) /\ ~nonce
  BY ReadFacts
<1>2. /\ UNCHANGED <<wpc, nonce, wbuf, wlen, sealed, written, garbled, delivered, replayed>>
      /\ UNCHANGED <<rops, plain>> /\ rpc' = "err"
  BY SMTT(60) DEF ReadStep
<1>3. TypeOK'
  BY <1>1, <1>2, EmptyFacts DEF Inv, TypeOK
<1>4. StreamInv'
  <2>1. PICK starts, ends : Layout(sealed, starts, ends) /\ Positions(starts, ends)
    BY SMTT(60) DEF Inv, StreamInv
  <2>2. Positions(starts, ends)'
    BY <1>1, <1>2, <2>1, SMTT(60) DEF Positions
  <2> QED BY <1>2, <2>1, <2>2 DEF StreamInv
<1>5. ControlInv' /\ PlainInv' /\ EofInv' /\ GarbleInv'
  BY <1>2, SMTT(60) DEF Inv, ControlInv, PlainInv, EofInv, GarbleInv
<1>6. SaltInv'
  BY <1>2, SMTT(60) DEF Inv, SaltInv
<1> QED BY <1>3, <1>4, <1>5, <1>6, SMTT(60) DEF Inv

\* The salt is complete and taken.
LEMMA TakeSaltInv ==
    ASSUME Sound, NEW n, NEW buf, ReadStep(n, buf), rpc = "salt", Long(buf) = SaltSize,
           rbuf' = <<>>, rpc' = "length", UNCHANGED <<rops, plain>>,
           rsalt' = (buf = SaltBytes), ~(buf = SaltBytes /\ replayed)
    PROVE  Sound'
<1> SUFFICES ASSUME Inv PROVE Inv'
  BY DEF Sound
<1> USE AeadAssumption
<1>1. /\ buf \in Seq(Bytes) /\ pipe' \in Seq(Bytes) /\ ~nonce
      /\ InFlight = Long(buf) + (Long(pipe') + Long(wbuf)) /\ Long(pipe') \in Nat
      /\ HasGarbage(rbuf) \/ HasGarbage(pipe) => HasGarbage(buf) \/ HasGarbage(pipe')
      /\ garbled = 0 => SaltFrom(buf, 0)
  BY ReadFacts, SMTT(60)
<1>2. /\ UNCHANGED <<wpc, nonce, wbuf, wlen, sealed, written, garbled, delivered, replayed>>
      /\ UNCHANGED <<rops, plain>> /\ rbuf' = <<>> /\ rpc' = "length" /\ rops = 0 /\ Long(rbuf') = 0
  BY EmptyFacts, SMTT(60) DEF ReadStep, Inv, ControlInv
<1>3. TypeOK'
  BY <1>1, <1>2, EmptyFacts, SMTT(60) DEF Inv, TypeOK
<1>4. Long(wbuf) \in Nat /\ InFlight' = Long(pipe') + Long(wbuf)
  <2>1. Long(wbuf) \in Nat
    BY LengthFacts, SMTT(60) DEF Inv
  <2> QED BY <1>1, <1>2, <2>1, SMTT(60) DEF InFlight
<1>5. StreamInv'
  <2>1. PICK starts, ends : Layout(sealed, starts, ends) /\ Positions(starts, ends)
    BY SMTT(60) DEF Inv, StreamInv
  <2>2. At(starts, 1) = SaltSize /\ InFlight = At(starts, Long(sealed) + 1)
    BY <1>1, <2>1, SMTT(60) DEF Layout, Positions
  <2>3. At(starts, rops + 1) + InFlight' = At(starts, Long(sealed) + 1)
    <3>1. At(starts, rops + 1) = SaltSize
      BY <1>2, <2>2, SMTT(60)
    <3>2. SaltSize + (Long(pipe') + Long(wbuf)) = At(starts, Long(sealed) + 1)
      BY <1>1, <2>2, SMTT(60)
    <3> QED BY <1>4, <3>1, <3>2, SMTT(60)
  <2>4. Positions(starts, ends)'
    BY <1>1, <1>2, <2>1, <2>3, SMTT(60) DEF Positions
  <2> QED BY <1>2, <2>1, <2>4, SMTT(60) DEF StreamInv
<1>6. ControlInv' /\ PlainInv' /\ EofInv'
  BY <1>2, SMTT(60) DEF Inv, ControlInv, PlainInv, EofInv
<1>7. GarbleInv'
  <2>1. HasGarbage(buf) => ~rsalt'
    BY SaltFacts, ZenonT(60)
  <2> QED BY <1>1, <1>2, <2>1 DEF Inv, GarbleInv
<1>8. SaltInv'
  <2>1. garbled = 0 => ~replayed
    BY <1>1, SaltFacts, SMTT(60)
  <2> QED BY <1>2, <2>1, SMTT(60) DEF SaltInv
<1> QED BY <1>3, <1>5, <1>6, <1>7, <1>8, SMTT(60) DEF Inv

\* The next seal is opened: it is the one the writer sealed next, whole.
LEMMA OpenFacts ==
    ASSUME Sound, NEW n, NEW buf, ReadStep(n, buf), rpc \in {"length", "data"}, Opens(buf),
           NEW starts, NEW ends, Layout(sealed, starts, ends), Positions(starts, ends)
    PROVE  /\ rops \in Nat /\ rops + 1 \in 1..Long(sealed) /\ rsalt /\ ~HasGarbage(buf)
           /\ At(sealed, rops + 1) \in Texts
           /\ At(starts, rops + 2) + (Long(pipe') + Long(wbuf)) = At(starts, Long(sealed) + 1)
           /\ At(ends, rops + 1) = At(ends, rops) + (IF rpc = "length" THEN 0 ELSE Long(At(sealed, rops + 1)))
           /\ rpc = "data" => Counts(At(sealed, rops + 1), Long(delivered))
           /\ Long(delivered) = At(ends, rops)
<1> Inv
  BY DEF Sound
<1> USE AeadAssumption
<1>1. /\ rops \in Nat /\ Long(sealed) \in Nat /\ sealed \in Seq(Texts) /\ Long(wbuf) \in Nat
      /\ Long(delivered) \in Nat /\ Long(plain) = 0
  BY LengthFacts, EmptyFacts, SMTT(60) DEF Inv, TypeOK, ReadStep
<1>2. /\ rsalt /\ rops + 1 \in 1..Long(sealed)
      /\ buf = Seal(rops + 1, IF rpc = "length" THEN LenSize ELSE Long(At(sealed, rops + 1)))
  <2>1. DOMAIN sealed = 1..Long(sealed)
    BY <1>1, SMTT(60) DEF Long
  <2> QED BY <2>1, SMTT(60) DEF Opens, Long, At
<1>3. At(sealed, rops + 1) \in Texts /\ Long(At(sealed, rops + 1)) \in Nat
  <2>1. At(sealed, rops + 1) \in Texts
    BY <1>1, <1>2, SeqFacts, SMTT(60)
  <2> QED BY <2>1, SeqFacts, SMTT(60) DEF Texts
<1>4. PICK z \in Nat : z = IF rpc = "length" THEN LenSize ELSE Long(At(sealed, rops + 1))
  BY <1>3, SMTT(60)
<1>5. Long(buf) = z + TagSize /\ ~HasGarbage(buf)
  <2>1. rops + 1 \in Nat /\ rops + 1 > 0 /\ buf = Seal(rops + 1, z)
    BY <1>1, <1>2, <1>4, SMTT(60)
  <2> QED BY <2>1, SealFacts, SMTT(60)
<1>6. At(starts, rops + 1) + InFlight = At(starts, Long(sealed) + 1) /\ Long(delivered) = At(ends, rops)
  BY <1>1, SMTT(60) DEF Positions
<1>7. SealAt(rops + 1, At(sealed, rops + 1), starts, ends)
  BY <1>2, SMTT(60) DEF Layout
<1>8. PICK j \in Nat : j = rops + 1 /\ j + 1 = rops + 2 /\ j - 1 = rops
  BY <1>1, SMTT(60)
<1>9. /\ At(starts, rops + 2) = At(starts, rops + 1) + z + TagSize
      /\ At(ends, rops + 1) = At(ends, rops) + (IF rpc = "length" THEN 0 ELSE Long(At(sealed, rops + 1)))
      /\ rpc = "data" => Counts(At(sealed, rops + 1), At(ends, rops))
  <2>1. CASE rpc = "length"
    <3>1. (rops + 1) % 2 = 1
      BY <1>1, <2>1, SMTT(60) DEF Inv, ControlInv
    <3>2. At(starts, rops + 2) = At(starts, rops + 1) + LenSize + TagSize /\ At(ends, rops + 1) = At(ends, rops)
      <4>1. SealAt(j, At(sealed, j), starts, ends) /\ j % 2 = 1
        BY <1>7, <1>8, <3>1, SMTT(60)
      <4>2. At(starts, j + 1) = At(starts, j) + LenSize + TagSize /\ At(ends, j) = At(ends, j - 1)
        BY <4>1, SMTT(60) DEF SealAt
      <4> QED BY <1>8, <4>2, SMTT(60)
    <3> QED BY <1>1, <1>4, <1>6, <2>1, <3>2, SMTT(60)
  <2>2. CASE rpc = "data"
    <3>1. (rops + 1) % 2 # 1
      BY <1>1, <2>2, SMTT(60) DEF Inv, ControlInv
    <3>2. /\ At(starts, rops + 2) = At(starts, rops + 1) + Long(At(sealed, rops + 1)) + TagSize
          /\ At(ends, rops + 1) = At(ends, rops) + Long(At(sealed, rops + 1))
          /\ Counts(At(sealed, rops + 1), At(ends, rops))
      <4>1. SealAt(j, At(sealed, j), starts, ends) /\ j % 2 # 1
        BY <1>7, <1>8, <3>1, SMTT(60)
      <4>2. /\ At(starts, j + 1) = At(starts, j) + Long(At(sealed, j)) + TagSize
            /\ At(ends, j) = At(ends, j - 1) + Long(At(sealed, j))
            /\ Counts(At(sealed, j), At(ends, j - 1))
        BY <4>1, SMTT(60) DEF SealAt
      <4> QED BY <1>8, <4>2, SMTT(60)
    <3> QED BY <1>4, <2>2, <3>2, SMTT(60)
  <2> QED BY <2>1, <2>2, SMTT(60)
<1>10. At(starts, rops + 2) + (Long(pipe') + Long(wbuf)) = At(starts, Long(sealed) + 1)
  <2>1. InFlight = Long(buf) + (Long(pipe') + Long(wbuf)) /\ Long(pipe') \in Nat
    BY ReadFacts
  <2>2. At(starts, rops + 1) \in Nat
    BY <1>1, <1>2, SMTT(60) DEF Layout
  <2> QED BY <1>1, <1>5, <1>6, <1>9, <2>1, <2>2, SMTT(60)
<1> QED BY <1>1, <1>2, <1>3, <1>5, <1>6, <1>9, <1>10, SMTT(60)

\* A length is opened.
LEMMA TakeLengthInv ==
    ASSUME Sound, NEW n, NEW buf, ReadStep(n, buf), rpc = "length", Opens(buf),
           rbuf' = <<>>, rpc' = "data", rops' = rops + 1, UNCHANGED <<rsalt, plain>>
    PROVE  Sound'
<1> SUFFICES ASSUME Inv PROVE Inv'
  BY DEF Sound
<1>1. /\ pipe' \in Seq(Bytes) /\ ~nonce /\ Long(pipe') \in Nat
      /\ HasGarbage(rbuf) \/ HasGarbage(pipe) => HasGarbage(buf) \/ HasGarbage(pipe')
  BY ReadFacts, SMTT(60)
<1>2. /\ UNCHANGED <<wpc, nonce, wbuf, wlen, sealed, written, garbled, delivered, replayed>>
      /\ UNCHANGED <<rsalt, plain>> /\ rops' = rops + 1 /\ rpc' = "data" /\ Long(rbuf') = 0 /\ plain = <<>>
  BY EmptyFacts, SMTT(60) DEF ReadStep
<1>3. PICK starts, ends : Layout(sealed, starts, ends) /\ Positions(starts, ends)
  BY SMTT(60) DEF Inv, StreamInv
<1>4. /\ rops \in Nat /\ rops + 1 \in 1..Long(sealed) /\ rsalt /\ ~HasGarbage(buf)
      /\ At(starts, rops + 2) + (Long(pipe') + Long(wbuf)) = At(starts, Long(sealed) + 1)
      /\ At(ends, rops + 1) = At(ends, rops) + 0 /\ Long(delivered) = At(ends, rops)
  BY <1>3, OpenFacts, SMTT(60)
<1>5. Long(wbuf) \in Nat /\ Long(delivered) \in Nat /\ Long(plain) = 0 /\ Long(sealed) \in Nat
  BY <1>2, LengthFacts, EmptyFacts, SMTT(60) DEF Inv
<1>6. TypeOK'
  BY <1>1, <1>2, <1>4, EmptyFacts, SMTT(60) DEF Inv, TypeOK
<1>7. InFlight' = Long(pipe') + Long(wbuf)
  BY <1>1, <1>2, <1>5, SMTT(60) DEF InFlight
<1>8. StreamInv'
  <2>1. rops' + 1 = rops + 2
    BY <1>2, <1>4, SMTT(60)
  <2>2. Long(delivered) + Long(plain) = At(ends, rops + 1)
    BY <1>4, <1>5
  <2>3. Positions(starts, ends)'
    BY <1>1, <1>2, <1>3, <1>4, <1>7, <2>1, <2>2, ZenonT(60) DEF Positions
  <2> QED BY <1>2, <1>3, <2>3, SMTT(60) DEF StreamInv
<1>9. ControlInv'
  <2>1. rops % 2 = 0
    BY SMTT(60) DEF Inv, ControlInv
  <2>2. rops' % 2 = 1 /\ rops' > 0
    BY <1>2, <1>4, <2>1, SMTT(60)
  <2>3. rops' <= Long(sealed) /\ rpc' = "data" /\ rsalt'
    BY <1>2, <1>4, SMTT(60)
  <2> QED BY <1>2, <2>2, <2>3, SMTT(60) DEF Inv, ControlInv
<1>10. PlainInv' /\ EofInv' /\ SaltInv'
  BY <1>2, SMTT(60) DEF Inv, PlainInv, EofInv, SaltInv
<1>11. GarbleInv'
  BY <1>1, <1>2, <1>4, SMTT(60) DEF Inv, GarbleInv
<1> QED BY <1>6, <1>8, <1>9, <1>10, <1>11, SMTT(60) DEF Inv

\* A payload is opened.
LEMMA TakeDataInv ==
    ASSUME Sound, NEW n, NEW buf, ReadStep(n, buf), rpc = "data", Opens(buf),
           rbuf' = <<>>, rpc' = "length", plain' = At(sealed, rops + 1), rops' = rops + 1, UNCHANGED rsalt
    PROVE  Sound'
<1> SUFFICES ASSUME Inv PROVE Inv'
  BY DEF Sound
<1>1. /\ pipe' \in Seq(Bytes) /\ ~nonce /\ Long(pipe') \in Nat
      /\ HasGarbage(rbuf) \/ HasGarbage(pipe) => HasGarbage(buf) \/ HasGarbage(pipe')
  BY ReadFacts, SMTT(60)
<1>2. /\ UNCHANGED <<wpc, nonce, wbuf, wlen, sealed, written, garbled, delivered, replayed>>
      /\ rsalt' = rsalt /\ rops' = rops + 1 /\ rpc' = "length" /\ Long(rbuf') = 0
  BY EmptyFacts, SMTT(60) DEF ReadStep
<1>3. PICK starts, ends : Layout(sealed, starts, ends) /\ Positions(starts, ends)
  BY DEF Inv, StreamInv
<1>4. /\ rops \in Nat /\ rops + 1 \in 1..Long(sealed) /\ rsalt /\ ~HasGarbage(buf)
      /\ plain' \in Texts
      /\ At(starts, rops + 2) + (Long(pipe') + Long(wbuf)) = At(starts, Long(sealed) + 1)
      /\ At(ends, rops + 1) = At(ends, rops) + Long(plain') /\ Long(delivered) = At(ends, rops)
      /\ Counts(plain', Long(delivered))
  BY <1>3, OpenFacts, ZenonT(60)
<1>5. Long(wbuf) \in Nat /\ Long(delivered) \in Nat /\ Long(sealed) \in Nat
  BY <1>2, LengthFacts, SMTT(60) DEF Inv
<1>6. TypeOK'
  BY <1>1, <1>2, <1>4, EmptyFacts, SMTT(60) DEF Inv, TypeOK
<1>7. InFlight' = Long(pipe') + Long(wbuf)
  BY <1>1, <1>2, <1>5, SMTT(60) DEF InFlight
<1>8. StreamInv'
  <2>1. rops' + 1 = rops + 2
    BY <1>2, <1>4, SMTT(60)
  <2>2. Long(delivered) + Long(plain') = At(ends, rops + 1)
    BY <1>4
  <2>3. Positions(starts, ends)'
    BY <1>1, <1>2, <1>3, <1>4, <1>7, <2>1, <2>2, ZenonT(60) DEF Positions
  <2> QED BY <1>2, <1>3, <2>3, SMTT(60) DEF StreamInv
<1>9. ControlInv'
  <2>1. rops % 2 = 1
    BY SMTT(60) DEF Inv, ControlInv
  <2>2. rops' % 2 = 0 /\ rops' > 0
    BY <1>2, <1>4, <2>1, SMTT(60)
  <2>3. rops' <= Long(sealed) /\ rpc' = "length" /\ rsalt'
    BY <1>2, <1>4, SMTT(60)
  <2> QED BY <1>2, <2>2, <2>3, SMTT(60) DEF Inv, ControlInv
<1>10. PlainInv' /\ EofInv' /\ SaltInv'
  <2>1. PlainInv'
    BY <1>2, <1>4, SMTT(60) DEF Inv, PlainInv
  <2>2. EofInv'
    BY <1>2 DEF EofInv
  <2>3. SaltInv'
    BY <1>2, <1>4, ZenonT(60) DEF Inv, SaltInv
  <2> QED BY <2>1, <2>2, <2>3, SMTT(60)
<1>11. GarbleInv'
  BY <1>1, <1>2, <1>4, ZenonT(60) DEF Inv, GarbleInv
<1> QED BY <1>6, <1>8, <1>9, <1>10, <1>11, SMTT(60) DEF Inv

\* A read of the connection, by what it completes.
LEMMA PipeReadInv ==
    ASSUME Sound, NEW n \in 1..PipeSize, PipeRead(n)
    PROVE  Sound'
<1> Inv
  BY DEF Sound
<1> USE AeadAssumption
<1> DEFINE buf == Join(rbuf, Front(pipe, n))
<1>1. /\ ReadStep(n, buf)
      /\ \/ rbuf' = buf /\ UNCHANGED <<rpc, rsalt, rops, plain>>
         \/ /\ rbuf' = <<>> /\ rpc = "salt" /\ GotSalt(buf)
            /\ ~(Long(buf) < SaltSize) /\ n <= SaltSize - Long(rbuf)
         \/ rbuf' = <<>> /\ rpc = "length" /\ GotLength(buf)
         \/ rbuf' = <<>> /\ rpc = "data" /\ GotData(buf)
  <2>1. ReadStep(n, buf)
    BY DEF PipeRead, ReadStep, writer, Join, Front, Rest, Long
  <2>2. rpc = "salt" => Size = SaltSize
    BY SMTT(60) DEF Size
  <2>3. \/ rbuf' = buf /\ UNCHANGED <<rpc, rsalt, rops, plain>>
        \/ /\ rbuf' = <<>> /\ ~(Long(buf) < Size) /\ n <= Size - Long(rbuf)
           /\ \/ rpc = "salt" /\ GotSalt(buf)
              \/ rpc = "length" /\ GotLength(buf)
              \/ rpc = "data" /\ GotData(buf)
    BY SMTT(60) DEF PipeRead, Join, Front, Long
  <2> QED BY <2>1, <2>2, <2>3, SMTT(60)
<1> HIDE DEF buf
<1>2. CASE rbuf' = buf /\ UNCHANGED <<rpc, rsalt, rops, plain>>
  BY <1>1, <1>2, PartReadInv
<1>3. CASE /\ rbuf' = <<>> /\ rpc = "salt" /\ GotSalt(buf)
           /\ ~(Long(buf) < SaltSize) /\ n <= SaltSize - Long(rbuf)
  <2>1. Long(buf) = SaltSize
    <3>1. Long(buf) \in Nat /\ Long(buf) = Long(rbuf) + n
      BY <1>1, ReadFacts, SMTT(60)
    <3>2. Long(rbuf) \in Nat
      BY LengthFacts, SMTT(60) DEF Inv
    <3> QED BY <1>3, <3>1, <3>2, SMTT(60)
  <2>2. rops = 0
    BY <1>3, SMTT(60) DEF Inv, ControlInv
  <2>3. CASE buf = SaltBytes /\ replayed
    <3>1. rpc' = "err" /\ UNCHANGED <<rops, plain>> /\ rsalt' \in BOOLEAN /\ (rops > 0 => rsalt')
      BY <1>3, <2>2, <2>3, SMTT(60) DEF GotSalt
    <3> QED BY <1>1, <1>3, <3>1, RefuseInv, SMTT(60)
  <2>4. CASE ~(buf = SaltBytes /\ replayed)
    <3>1. rpc' = "length" /\ UNCHANGED <<rops, plain>> /\ rsalt' = (buf = SaltBytes)
      BY <1>3, <2>4, SMTT(60) DEF GotSalt
    <3> QED BY <1>1, <1>3, <2>1, <2>4, <3>1, TakeSaltInv, SMTT(60)
  <2> QED BY <2>3, <2>4, SMTT(60)
<1>4. CASE rbuf' = <<>> /\ rpc = "length" /\ GotLength(buf)
  <2>1. CASE Opens(buf)
    <3>1. rpc' = "data" /\ rops' = rops + 1 /\ UNCHANGED <<rsalt, plain>>
      BY <1>4, <2>1, SMTT(60) DEF GotLength
    <3> QED BY <1>1, <1>4, <2>1, <3>1, TakeLengthInv, SMTT(60)
  <2>2. CASE ~Opens(buf)
    <3>1. rpc' = "err" /\ UNCHANGED <<rops, plain>> /\ rsalt' \in BOOLEAN /\ (rops > 0 => rsalt')
      BY <1>4, <2>2, SMTT(60) DEF GotLength, Inv, TypeOK, ControlInv
    <3> QED BY <1>1, <1>4, <3>1, RefuseInv, SMTT(60)
  <2> QED BY <2>1, <2>2, SMTT(60)
<1>5. CASE rbuf' = <<>> /\ rpc = "data" /\ GotData(buf)
  <2>1. CASE Opens(buf)
    <3>1. rpc' = "length" /\ plain' = At(sealed, rops + 1) /\ rops' = rops + 1 /\ UNCHANGED rsalt
      BY <1>5, <2>1, SMTT(60) DEF GotData, At
    <3> QED BY <1>1, <1>5, <2>1, <3>1, TakeDataInv, SMTT(60)
  <2>2. CASE ~Opens(buf)
    <3>1. rpc' = "err" /\ UNCHANGED <<rops, plain>> /\ rsalt' \in BOOLEAN /\ (rops > 0 => rsalt')
      BY <1>5, <2>2 DEF GotData, Inv, TypeOK, ControlInv
    <3> QED BY <1>1, <1>5, <3>1, RefuseInv, SMTT(60)
  <2> QED BY <2>1, <2>2, SMTT(60)
<1> QED BY <1>1, <1>2, <1>3, <1>4, <1>5, SMTT(60)
-----------------------------------------------------------------------------
\* Every step keeps the invariant.
LEMMA NextInv == Sound /\ [Next]_vars => Sound'
<1> SUFFICES ASSUME Sound, [Next]_vars PROVE Sound'
  BY SMTT(60)
<1>1. CASE Next
  <2>1. CASE \E m \in 0..MaxWrite : StartWrite(m)
    BY <2>1, StartWriteInv
  <2>2. CASE WriterStep
    BY <2>2, PipeWriteInv DEF WriterStep
  <2>3. CASE Shutdown \/ WriterDies \/ PipeError
    BY <2>3, StopInv
  <2>4. CASE \E k \in 1..PipeSize : Garble(k)
    BY <2>4, GarbledInv, SMTT(60)
  <2>5. CASE ReaderStep
    BY <2>5, PipeReadInv, PipeEofInv, DeliverInv, SMTT(60) DEF ReaderStep
  <2> QED BY <1>1, <2>1, <2>2, <2>3, <2>4, <2>5, SMTT(60) DEF Next
<1>2. CASE UNCHANGED vars
  <2> SUFFICES ASSUME Inv PROVE Inv'
    BY DEF Sound
  <2>1. UNCHANGED <<wpc, nonce, wbuf, wlen, sealed, written, pipe, garbled>>
    BY <1>2, SMTT(60) DEF vars, writer
  <2>2. UNCHANGED <<rpc, rsalt, rops, rbuf, rlen, plain, delivered, replayed>>
    BY <1>2 DEF vars, reader
  <2>3. TypeOK' /\ ControlInv' /\ PlainInv' /\ GarbleInv' /\ SaltInv' /\ EofInv'
    <3>1. TypeOK'
      BY <2>1, <2>2, Zenon DEF Inv, TypeOK
    <3>2. ControlInv' /\ PlainInv'
      BY <2>1, <2>2, Zenon DEF Inv, ControlInv, PlainInv
    <3>3. GarbleInv' /\ EofInv'
      BY <2>1, <2>2, Zenon DEF Inv, GarbleInv, EofInv
    <3>4. SaltInv'
      BY <2>1, <2>2, ZenonT(60) DEF Inv, SaltInv
    <3> QED BY <3>1, <3>2, <3>3, <3>4, Zenon
  <2>4. InFlight' = InFlight
    BY <2>1, <2>2, SMTT(60) DEF InFlight
  <2>5. StreamInv'
    <3>1. PICK starts, ends : Layout(sealed, starts, ends) /\ Positions(starts, ends)
      BY DEF Inv, StreamInv
    <3>2. Positions(starts, ends)'
      BY <2>1, <2>2, <2>4, <3>1, Zenon DEF Positions
    <3> QED BY <2>1, <3>1, <3>2 DEF StreamInv
  <2> QED BY <2>3, <2>5, SMTT(60) DEF Inv
<1> QED BY <1>1, <1>2

\* Whatever the connection does, both ends of it stay where the positions say
\* they are (EncryptedWriter, DecryptedReader).
THEOREM StreamInvariant == Spec => []Inv
<1>1. Sound => Inv
  BY DEF Sound
<1> QED BY <1>1, InitInv, NextInv, PTL DEF Spec

\* The receiving application gets the bytes the sending one wrote, in order, none
\* twice and none left out, however the connection cuts, breaks or changes them
\* (poll_read_decrypted, poll_write_encrypted).
THEOREM ReaderDeliversInOrder == Spec => []DeliveredInOrder
<1>1. Inv => DeliveredInOrder
  <2> SUFFICES ASSUME Inv, NEW k \in DOMAIN delivered PROVE delivered[k] = k /\ k <= written + wlen
    BY DEF DeliveredInOrder
  <2>1. /\ Long(delivered) \in Nat /\ Long(plain) \in Nat /\ Long(sealed) \in Nat
        /\ delivered \in Seq(Nat) /\ written \in Nat /\ wlen \in Nat /\ rops \in Nat /\ rops <= Long(sealed)
    BY LengthFacts DEF Inv, TypeOK, ControlInv, Texts
  <2>2. k \in 1..Long(delivered)
    BY <2>1, SMTT(60) DEF Long
  <2>3. delivered[k] = k
    <3>1. At(delivered, k) = 0 + k
      BY <2>2 DEF Inv, PlainInv, Counts
    <3> QED BY <2>1, <2>2, <3>1, SMTT(60) DEF At
  <2>4. PICK starts, ends : Layout(sealed, starts, ends) /\ Positions(starts, ends)
    BY DEF Inv, StreamInv
  <2>5. /\ At(ends, rops) \in Nat /\ At(ends, Long(sealed)) \in Nat
        /\ At(ends, rops) <= At(ends, Long(sealed)) /\ Long(delivered) + Long(plain) = At(ends, rops)
    <3>1. rops \in 0..Long(sealed) /\ Long(sealed) \in 0..Long(sealed)
      BY <2>1
    <3>2. Long(delivered) + Long(plain) = At(ends, rops)
      BY <2>4, Zenon DEF Positions
    <3>3. At(ends, rops) \in Nat /\ At(ends, Long(sealed)) \in Nat
      BY <2>4, <3>1, Zenon DEF Layout
    <3>4. At(ends, rops) <= At(ends, Long(sealed))
      BY <2>1, <2>4, <3>1, ZenonT(60) DEF Layout
    <3> QED BY <3>2, <3>3, <3>4, ZenonT(60)
  <2>6. At(ends, Long(sealed)) = written \/ At(ends, Long(sealed)) = written + wlen
    BY <2>4, SMTT(60) DEF Positions
  <2> QED BY <2>1, <2>2, <2>3, <2>5, <2>6, SMTT(60)
<1> QED BY <1>1, StreamInvariant, PTL

\* An end of file is reported only if everything whose write returned was read
\* and nothing was changed on the way, but in a salt that nothing followed
\* (poll_read_exact with allow_eof).
THEOREM EofMissesNothing == Spec => []EofIsComplete
<1>1. Inv => EofIsComplete
  <2> SUFFICES ASSUME Inv, rpc = "eof" PROVE Len(delivered) = written /\ (garbled = 0 \/ rops = 0)
    BY DEF EofIsComplete
  <2>1. pipe = <<>> /\ rbuf = <<>> /\ Long(delivered) = written
    BY DEF Inv, EofInv
  <2>2. ~HasGarbage(pipe) /\ ~HasGarbage(rbuf)
    BY <2>1, EmptyFacts, SMTT(60) DEF HasGarbage
  <2>3. garbled = 0 \/ rops = 0
    BY <2>2, SMTT(60) DEF Inv, GarbleInv, TypeOK
  <2> QED BY <2>1, <2>3 DEF Long
<1> QED BY <1>1, StreamInvariant, PTL

\* Nothing of a connection whose salt was seen before reaches the application
\* (CryptoStream::poll_read_handshake, "detected repeated iv/salt").
THEOREM ReplayIsRefused == Spec => []ReplayRefused
<1>1. Inv => ReplayRefused
  <2> SUFFICES ASSUME Inv, replayed, garbled = 0 PROVE plain = <<>> /\ delivered = <<>>
    BY DEF ReplayRefused
  <2>1. rops = 0
    BY DEF Inv, SaltInv
  <2>2. PICK starts, ends : Layout(sealed, starts, ends) /\ Positions(starts, ends)
    BY SMTT(60) DEF Inv, StreamInv
  <2>3. Long(delivered) + Long(plain) = 0 /\ Long(delivered) \in Nat /\ Long(plain) \in Nat
    BY <2>1, <2>2, LengthFacts, SMTT(60) DEF Inv, Layout, Positions
  <2>4. plain \in Seq(Nat) /\ delivered \in Seq(Nat)
    BY DEF Inv, TypeOK, Texts
  <2> QED BY <2>3, <2>4, SeqFacts
<1> QED BY <1>1, StreamInvariant, PTL
=============================================================================

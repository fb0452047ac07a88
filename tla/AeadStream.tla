----------------------------- MODULE AeadStream -----------------------------
(***************************************************************************)
(* One direction of a TCP connection that is encrypted with an AEAD cipher *)
(* (relay/tcprelay/aead.rs behind relay/tcprelay/crypto_io.rs): the        *)
(* EncryptedWriter of one end, the bytes in flight, and the salt handshake *)
(* and the DecryptedReader of the other end.                               *)
(*                                                                         *)
(* Every seal (encryption) has a number, its cipher nonce.  A byte on the  *)
(* wire is the number of the seal it belongs to (0 for the salt) and its   *)
(* place in it; opening a seal succeeds only with all of its bytes, in     *)
(* order, under its number and the right salt.  A byte of the application  *)
(* is its serial number.                                                   *)
(***************************************************************************)
EXTENDS Naturals, Sequences

CONSTANTS
    SaltSize,           \* CipherType::salt_size
    TagSize,            \* CipherType::tag_size
    LenSize,            \* size of a packet's length (2)
    MAX_PACKET_SIZE,    \* 0x3FFF in the code
    PipeSize,           \* bytes the connection holds in flight
    MaxWrite,           \* bound: bytes given to one write
    MaxPackets,         \* bound: packets written
    MaxGarbled          \* bound: bytes changed in flight

ASSUME AeadAssumption ==
    /\ SaltSize \in Nat \ {0} /\ TagSize \in Nat \ {0} /\ LenSize \in Nat \ {0}
    /\ MAX_PACKET_SIZE \in Nat \ {0} /\ PipeSize \in Nat \ {0}
    /\ MaxWrite \in Nat /\ MaxPackets \in Nat /\ MaxGarbled \in Nat

VARIABLES
    wpc,        \* writer: "idle", "writing", "shut", "dead"
    nonce,      \* writer: the salt was not written yet
    wbuf,       \* writer: what is left of the buffer in EncryptWriteStep::Writing
    wlen,       \* writer: length of the data of the write in progress
    sealed,     \* what was encrypted so far, by seal number
    written,    \* bytes of the application whose write returned
    pipe,       \* bytes in flight
    garbled,    \* bytes that were changed in flight
    rpc,        \* reader: "salt", "length", "data", "eof", "err"
    rsalt,      \* reader: the salt it got is the writer's
    rops,       \* reader: seals it opened
    rbuf,       \* reader: bytes of the seal it is reading
    rlen,       \* reader: length of the packet it is reading
    plain,      \* reader: decrypted bytes not yet read by the application
    delivered,  \* bytes the application read
    replayed    \* the salt is one the reader's nonce filter has seen

writer == <<wpc, nonce, wbuf, wlen, sealed, written>>
reader == <<rpc, rsalt, rops, rbuf, rlen, plain, delivered, replayed>>
vars == <<writer, pipe, garbled, reader>>

Garbage == <<0, 0>>
SaltBytes == [k \in 1..SaltSize |-> <<0, k>>]

\* The encrypted form of a text of n bytes: the text and its tag.
Seal(number, n) == [k \in 1..n + TagSize |-> <<number, k>>]

Init ==
    /\ wpc = "idle" /\ nonce = TRUE /\ wbuf = <<>> /\ wlen = 0 /\ sealed = <<>> /\ written = 0
    /\ pipe = <<>> /\ garbled = 0
    /\ rpc = "salt" /\ rsalt = FALSE /\ rops = 0 /\ rbuf = <<>> /\ rlen = 0
    /\ plain = <<>> /\ delivered = <<>>
    /\ replayed \in BOOLEAN
-----------------------------------------------------------------------------
(* EncryptedWriter *)

\* poll_write_encrypted, first poll: at most MAX_PACKET_SIZE bytes of the data
\* become one packet, its length and its payload sealed apart; the first packet
\* is preceded by the salt.
StartWrite(m) ==
    LET n == IF m > MAX_PACKET_SIZE THEN MAX_PACKET_SIZE ELSE m
        c == Len(sealed)
    IN  /\ wpc = "idle" /\ c < 2 * MaxPackets
        /\ wpc' = "writing"
        /\ wlen' = n
        /\ sealed' = sealed \o <<<<n>>, [k \in 1..n |-> written + k]>>
        /\ wbuf' = (IF nonce THEN SaltBytes ELSE <<>>) \o Seal(c + 1, LenSize) \o Seal(c + 2, n)
        /\ nonce' = FALSE
        /\ UNCHANGED <<written, pipe, garbled, reader>>

\* The connection takes n bytes; the write returns after the last of them.
PipeWrite(n) ==
    /\ wpc = "writing" /\ n <= Len(wbuf) /\ n <= PipeSize - Len(pipe)
    /\ pipe' = pipe \o SubSeq(wbuf, 1, n)
    /\ wbuf' = SubSeq(wbuf, n + 1, Len(wbuf))
    /\ IF n = Len(wbuf)
       THEN wpc' = "idle" /\ written' = written + wlen
       ELSE UNCHANGED <<wpc, written>>
    /\ UNCHANGED <<nonce, wlen, sealed, garbled, reader>>

\* poll_shutdown, after the last write returned.
Shutdown ==
    /\ wpc = "idle"
    /\ wpc' = "shut"
    /\ UNCHANGED <<nonce, wbuf, wlen, sealed, written, pipe, garbled, reader>>

\* The writer fails or is dropped, possibly in the middle of a packet.
WriterDies ==
    /\ wpc \in {"idle", "writing"}
    /\ wpc' = "dead"
    /\ UNCHANGED <<nonce, wbuf, wlen, sealed, written, pipe, garbled, reader>>

\* A byte changes on its way.
Garble(k) ==
    /\ garbled < MaxGarbled
    /\ k \in 1..Len(pipe) /\ pipe[k] # Garbage
    /\ pipe' = [pipe EXCEPT ![k] = Garbage]
    /\ garbled' = garbled + 1
    /\ UNCHANGED <<writer, reader>>
-----------------------------------------------------------------------------
(* CryptoStream::poll_read_handshake and DecryptedReader *)

\* poll_read_exact: how many bytes the reader collects before it goes on.
Size == CASE rpc = "salt" -> SaltSize
          [] rpc = "length" -> LenSize + TagSize
          [] rpc = "data" -> rlen + TagSize

\* Mutant of Opens: tags are not checked.
OpensUnchecked(buf) == rops + 1 \in DOMAIN sealed

\* The cipher opens buf as its next seal.
Opens(buf) ==
    /\ rsalt
    /\ rops + 1 \in DOMAIN sealed
    /\ buf = Seal(rops + 1, IF rpc = "length" THEN LenSize ELSE Len(sealed[rops + 1]))

\* Mutant of GotSalt: the nonce filter is not asked.
GotSaltUnchecked(buf) ==
    /\ rsalt' = (buf = SaltBytes)
    /\ rpc' = "length"
    /\ UNCHANGED <<rops, rlen, plain>>

\* The salt is complete: it is refused if it was seen before, else it keys the
\* reader.
GotSalt(buf) ==
    LET mine == buf = SaltBytes
    IN  /\ rsalt' = mine
        /\ rpc' = IF mine /\ replayed THEN "err" ELSE "length"
        /\ UNCHANGED <<rops, rlen, plain>>

\* poll_read_decrypted_length
GotLength(buf) ==
    /\ IF Opens(buf)
       THEN rpc' = "data" /\ rlen' = sealed[rops + 1][1] /\ rops' = rops + 1
       ELSE rpc' = "err" /\ UNCHANGED <<rlen, rops>>
    /\ UNCHANGED <<rsalt, plain>>

\* Mutant of GotData: an empty packet is taken for the end of file.
GotDataEmptyEof(buf) ==
    /\ IF Opens(buf)
       THEN /\ plain' = sealed[rops + 1] /\ rops' = rops + 1
            /\ rpc' = IF rlen = 0 THEN "eof" ELSE "length"
       ELSE rpc' = "err" /\ UNCHANGED <<plain, rops>>
    /\ UNCHANGED <<rsalt, rlen>>

\* poll_read_decrypted_data
GotData(buf) ==
    /\ IF Opens(buf)
       THEN rpc' = "length" /\ plain' = sealed[rops + 1] /\ rops' = rops + 1
       ELSE rpc' = "err" /\ UNCHANGED <<plain, rops>>
    /\ UNCHANGED <<rsalt, rlen>>

\* The application reads, nothing decrypted is left, and the connection gives
\* n of the bytes that the reader is missing; with the last of them the reader
\* decrypts.  An empty packet is not an end of file: the loop goes on.
PipeRead(n) ==
    LET buf == rbuf \o SubSeq(pipe, 1, n)
    IN  /\ rpc \in {"salt", "length", "data"} /\ plain = <<>>
        /\ n <= Len(pipe) /\ n <= Size - Len(rbuf)
        /\ pipe' = SubSeq(pipe, n + 1, Len(pipe))
        /\ IF Len(buf) < Size
           THEN rbuf' = buf /\ UNCHANGED <<rpc, rsalt, rops, rlen, plain>>
           ELSE /\ rbuf' = <<>>
                /\ \/ rpc = "salt" /\ GotSalt(buf)
                   \/ rpc = "length" /\ GotLength(buf)
                   \/ rpc = "data" /\ GotData(buf)
        /\ UNCHANGED <<writer, garbled, delivered, replayed>>

\* Mutant of PipeEof: an end inside a packet is waited out.
PipeEofBetween ==
    /\ rpc = "length" /\ rbuf = <<>> /\ plain = <<>>
    /\ pipe = <<>> /\ wpc \in {"shut", "dead"}
    /\ rpc' = "eof"
    /\ UNCHANGED <<writer, pipe, garbled, rsalt, rops, rbuf, rlen, plain, delivered, replayed>>

\* The connection is at its end: fine between two packets, else UnexpectedEof.
PipeEof ==
    /\ rpc \in {"salt", "length", "data"} /\ plain = <<>>
    /\ pipe = <<>> /\ wpc \in {"shut", "dead"}
    /\ rpc' = IF rpc = "length" /\ rbuf = <<>> THEN "eof" ELSE "err"
    /\ UNCHANGED <<writer, pipe, garbled, rsalt, rops, rbuf, rlen, plain, delivered, replayed>>

\* The connection breaks and the read fails.
PipeError ==
    /\ rpc \in {"salt", "length", "data"} /\ plain = <<>>
    /\ rpc' = "err"
    /\ UNCHANGED <<writer, pipe, garbled, rsalt, rops, rbuf, rlen, plain, delivered, replayed>>

\* Mutant of Deliver: the read position does not advance.
DeliverAgain(n) ==
    /\ n <= Len(plain) /\ Len(delivered) < written
    /\ delivered' = delivered \o SubSeq(plain, 1, n)
    /\ UNCHANGED <<writer, pipe, garbled, rpc, rsalt, rops, rbuf, rlen, plain, replayed>>

\* The application takes n of the decrypted bytes.
Deliver(n) ==
    /\ n <= Len(plain)
    /\ delivered' = delivered \o SubSeq(plain, 1, n)
    /\ plain' = SubSeq(plain, n + 1, Len(plain))
    /\ UNCHANGED <<writer, pipe, garbled, rpc, rsalt, rops, rbuf, rlen, replayed>>
-----------------------------------------------------------------------------
WriterStep == \E n \in 1..PipeSize : PipeWrite(n)
ReaderStep == (\E n \in 1..PipeSize : PipeRead(n)) \/ PipeEof \/ \E n \in 1..MAX_PACKET_SIZE : Deliver(n)

Next ==
    \/ \E m \in 0..MaxWrite : StartWrite(m)
    \/ WriterStep \/ Shutdown \/ WriterDies
    \/ (\E k \in 1..PipeSize : Garble(k)) \/ PipeError
    \/ ReaderStep

Spec == Init /\ [][Next]_vars

\* A connection that has room takes bytes, and an application that reads goes
\* on reading.  Nothing makes an application write or shut down.
FairSpec == Spec /\ WF_vars(WriterStep) /\ WF_vars(ReaderStep)
-----------------------------------------------------------------------------
(* Properties *)

\* The receiving application gets the bytes the sending one wrote, in order,
\* none twice and none left out, however the connection cuts them into reads
\* and writes, wherever it ends and whatever it does to them.
DeliveredInOrder ==
    \A k \in DOMAIN delivered : delivered[k] = k /\ k <= written + wlen

\* An end of file is reported only if nothing is missing: everything whose write
\* returned was delivered, and a connection cut inside a packet, or changed
\* anywhere but in a salt nothing follows, ends in an error instead
\* (poll_read_exact with allow_eof).
EofIsComplete == rpc = "eof" => Len(delivered) = written /\ (garbled = 0 \/ rops = 0)

\* Nothing of a connection whose salt was seen before reaches the application
\* ("detected repeated iv/salt").
ReplayRefused == replayed /\ garbled = 0 => plain = <<>> /\ delivered = <<>>

\* What was written is delivered, unless the connection fails: no split of the
\* salt, a length or a payload over reads, and no empty packet, stalls the
\* reader or ends it early.
WrittenIsDelivered ==
    \A k \in 1..MAX_PACKET_SIZE * MaxPackets :
        (written >= k) ~> (Len(delivered) >= k \/ rpc = "err")

\* A reader learns that the other end is gone, wherever that happened.
EndIsNoticed == (wpc \in {"shut", "dead"}) ~> (rpc \in {"eof", "err"})
=============================================================================

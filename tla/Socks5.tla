------------------------------- MODULE Socks5 -------------------------------
(***************************************************************************)
(* The SOCKS5 encoding of addresses and messages (relay/socks5.rs), byte   *)
(* by byte.  The encoding of an address is also how the local server tells *)
(* the server where to connect.                                            *)
(*                                                                         *)
(* A reader takes the bytes that have arrived and answers                  *)
(*   [status |-> "ok", value, rest]      something was read, rest remains  *)
(*   [status |-> "wait"]                 read_exact waits for more bytes   *)
(*   [status |-> "error", reply]         the bytes are refused             *)
(***************************************************************************)
EXTENDS Naturals, Sequences

SOCKS5_VERSION == 5
SOCKS5_AUTH_METHOD_NONE == 0
SOCKS5_AUTH_METHOD_NOT_ACCEPTABLE == 255

CommandOf == [c \in 0..255 |->
    IF c = 1 THEN "TcpConnect" ELSE IF c = 2 THEN "TcpBind" ELSE IF c = 3 THEN "UdpAssociate" ELSE "none"]

ReplyCode ==
    [Succeeded |-> 0, GeneralFailure |-> 1, ConnectionNotAllowed |-> 2, NetworkUnreachable |-> 3,
     HostUnreachable |-> 4, ConnectionRefused |-> 5, TtlExpired |-> 6, CommandNotSupported |-> 7,
     AddressTypeNotSupported |-> 8]

Wait == [status |-> "wait"]
Refused(reply) == [status |-> "error", reply |-> reply]

\* Mutant of Got: one byte too many is taken.
GotMore(v, n, s) == [status |-> "ok", value |-> v, rest |-> SubSeq(s, n + 2, Len(s))]

\* v was read from the first n bytes of s.
Got(v, n, s) == [status |-> "ok", value |-> v, rest |-> SubSeq(s, n + 1, Len(s))]
-----------------------------------------------------------------------------
(* Addresses *)

put_u16(n) == <<n \div 256, n % 256>>
get_u16(s, i) == 256 * s[i] + s[i + 1]

\* Mutant of write_address: the length of a name counts its own byte.
write_address_long(a) ==
    CASE a.type = "v4"   -> <<1>> \o a.ip \o put_u16(a.port)
      [] a.type = "v6"   -> <<4>> \o a.ip \o put_u16(a.port)
      [] a.type = "name" -> <<3, Len(a.name) + 1>> \o a.name \o put_u16(a.port)

write_address(a) ==
    CASE a.type = "v4"   -> <<1>> \o a.ip \o put_u16(a.port)
      [] a.type = "v6"   -> <<4>> \o a.ip \o put_u16(a.port)
      [] a.type = "name" -> <<3, Len(a.name)>> \o a.name \o put_u16(a.port)

\* How many bytes a character that begins with byte b has in UTF-8, and the
\* bytes that may come second.
Continuation == 128..191
Utf8Width(b) == IF b < 128 THEN 1 ELSE IF b < 224 THEN 2 ELSE IF b < 240 THEN 3 ELSE 4
Utf8Second(b) ==
    CASE b = 224 -> 160..191 [] b = 237 -> 128..159 [] b = 240 -> 144..191 [] b = 244 -> 128..143 [] OTHER -> Continuation

\* String::from_utf8 accepts name: the continuation bytes are those that a byte
\* before them asks for, and no character is cut off or has a forbidden byte.
Utf8(name) ==
    \A i \in DOMAIN name :
        /\ name[i] \notin {192, 193} \cup 245..255
        /\ name[i] \in Continuation
               <=> \E j \in 1..(i - 1) : name[j] \notin Continuation /\ i < j + Utf8Width(name[j])
        /\ name[i] \in Continuation \/ i + Utf8Width(name[i]) <= Len(name) + 1
        /\ i > 1 /\ name[i] \in Continuation /\ name[i - 1] \notin Continuation => name[i] \in Utf8Second(name[i - 1])

\* The address type, for a name its length, then what remains in one read_exact.
read_address(s) ==
    LET Fixed(type, n) ==
            IF Len(s) < n + 3 THEN Wait
            ELSE Got([type |-> type, ip |-> SubSeq(s, 2, n + 1), port |-> get_u16(s, n + 2)], n + 3, s)
        Name(n) ==
            IF Len(s) < n + 4 THEN Wait
            ELSE IF ~Utf8(SubSeq(s, 3, n + 2)) THEN Refused("GeneralFailure")
            ELSE Got([type |-> "name", name |-> SubSeq(s, 3, n + 2), port |-> get_u16(s, n + 3)], n + 4, s)
    IN  CASE s = <<>>   -> Wait
          [] s # <<>> /\ s[1] = 1 -> Fixed("v4", 4)
          [] s # <<>> /\ s[1] = 4 -> Fixed("v6", 16)
          [] s # <<>> /\ s[1] = 3 -> IF Len(s) < 2 THEN Wait ELSE Name(s[2])
          [] OTHER      -> Refused("AddressTypeNotSupported")

\* Reading an address after n bytes of something else, v is made from it.
ThenAddress(s, n, V(_)) ==
    LET a == read_address(SubSeq(s, n + 1, Len(s)))
    IN  IF a.status = "ok" THEN [status |-> "ok", value |-> V(a.value), rest |-> a.rest] ELSE a
-----------------------------------------------------------------------------
(* Messages *)

read_handshake_request(s) ==
    IF Len(s) < 2 THEN Wait
    ELSE IF s[1] # SOCKS5_VERSION THEN Refused("none")
    ELSE IF Len(s) < 2 + s[2] THEN Wait
    ELSE Got({s[i] : i \in 3..2 + s[2]}, 2 + s[2], s)

write_handshake_request(methods) == <<SOCKS5_VERSION, Len(methods)>> \o methods

write_handshake_response(chosen_method) == <<SOCKS5_VERSION, chosen_method>>

read_handshake_response(s) ==
    IF Len(s) < 2 THEN Wait
    ELSE IF s[1] # SOCKS5_VERSION THEN Refused("none")
    ELSE Got(s[2], 2, s)

read_request(s) ==
    LET V(a) == [command |-> CommandOf[s[2]], address |-> a]
    IN  IF Len(s) < 3 THEN Wait
        ELSE IF s[1] # SOCKS5_VERSION THEN Refused("ConnectionRefused")
        ELSE IF CommandOf[s[2]] = "none" THEN Refused("CommandNotSupported")
        ELSE ThenAddress(s, 3, V)

write_request(command, address) == <<SOCKS5_VERSION, command, 0>> \o write_address(address)

write_response(reply, address) == <<SOCKS5_VERSION, ReplyCode[reply], 0>> \o write_address(address)

read_response(s) ==
    LET V(a) == [reply |-> s[2], address |-> a]
    IN  IF Len(s) < 3 THEN Wait
        ELSE IF s[1] # SOCKS5_VERSION THEN Refused("ConnectionRefused")
        ELSE ThenAddress(s, 3, V)
=============================================================================

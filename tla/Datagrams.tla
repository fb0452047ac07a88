----------------------------- MODULE Datagrams -----------------------------
(***************************************************************************)
(* The datagrams of the UDP relay (relay/udprelay/crypto_io.rs and         *)
(* client.rs): every datagram starts with a nonce, which goes through the  *)
(* replay filter of the process, in both directions.                       *)
(*                                                                         *)
(* The network loses, repeats, delays, reorders, truncates and damages     *)
(* datagrams, and may bring one back to its sender; nothing is assumed of  *)
(* the nonces that arrive.                                                 *)
(***************************************************************************)
EXTENDS NonceFilter

VARIABLES
    category,       \* "plain" (no nonce), "stream" or "aead"
    sent,           \* the nonce of the datagram sent in the last step, if any
    delivered,      \* the nonce of the datagram delivered in the last step
    later           \* history: how many datagrams passed the filter whole since a
                    \* nonce did, counted to item_count; item_count = it never did

io == <<sent, delivered, later>>
dvars == <<vars, category, io>>

\* gen_init_vec and gen_salt draw any nonce; the plain cipher's is empty.
Drawn == IF category = "plain" THEN {NoNonce} ELSE Nonces

DInit ==
    /\ Init
    /\ category \in {"plain", "stream", "aead"}
    /\ sent = NoNonce /\ delivered = NoNonce
    /\ later = [n \in Nonces |-> item_count]

\* The history when a datagram with nonce n passes.
Passed(n) ==
    [m \in Nonces |-> IF m = n THEN 0
                      ELSE IF n = NoNonce \/ later[m] = item_count THEN later[m]
                      ELSE later[m] + 1]

\* Mutant of encrypt_payload: a repeated nonce is used.
encrypt_payload_any(n) == Accept(n) \/ Refuse(n)

\* A nonce that check_nonce_and_set refuses is drawn again, so the datagram is
\* encrypted under one it accepted.
encrypt_payload(n) == Accept(n)

\* ServerClient::send_to and the associations' tasks.  The nonce is spent when
\* the server's name does not resolve or the send fails or times out, too.
SendTo ==
    /\ \E n \in Drawn :
        /\ encrypt_payload(n)
        /\ sent' \in {n, NoNonce}
        /\ later' = Passed(n)
    /\ delivered' = NoNonce
    /\ UNCHANGED category

\* Mutant of decrypt_payload: the nonce is entered before the length is tested.
decrypt_payload_eager(n, form, opens) ==
    \/ Refuse(n) /\ ~opens
    \/ Accept(n) /\ opens = (form # "short" /\ ~(category = "aead" /\ form = "damaged"))

\* A datagram too short for nonce and tag gives nothing and leaves the filter
\* alone.  Any other enters its nonce into the filter before the tag is checked:
\* a damaged datagram of an AEAD cipher is refused but its nonce is used up, one
\* of a stream cipher is decrypted to other contents.
decrypt_payload(n, form, opens) ==
    \/ form = "short" /\ ~opens /\ UNCHANGED vars
    \/ form # "short" /\ Refuse(n) /\ ~opens
    \/ form # "short" /\ Accept(n) /\ opens = ~(category = "aead" /\ form = "damaged")

\* ServerClient::recv_from and the listening loops.  What was decrypted may not
\* start with an address, and is not delivered then.
RecvFrom ==
    /\ \E n \in Drawn, form \in {"intact", "damaged", "short"}, opens \in BOOLEAN :
        /\ decrypt_payload(n, form, opens)
        /\ delivered' \in (IF opens THEN {n, NoNonce} ELSE {NoNonce})
        /\ later' = IF form # "short" /\ n \in Nonces /\ ~Duplicate(n) THEN Passed(n) ELSE later
    /\ sent' = NoNonce
    /\ UNCHANGED category

DNext == SendTo \/ RecvFrom

DSpec == DInit /\ [][DNext]_dvars
-----------------------------------------------------------------------------
(* Properties *)

\* A datagram is sent or delivered only under a nonce that is none of the
\* item_count nonces the process accepted last, whichever way those went: the
\* process reuses no nonce, delivers no repeated datagram, and none of its own
\* that comes back (encrypt_payload_* and decrypt_payload_*).
FreshNonceUsed ==
    [][\A n \in Nonces : n \in {sent', delivered'} => ~AmongLast(n, item_count)]_dvars

\* The nonce of a datagram is answered as a duplicate until item_count further
\* datagrams passed the filter, each of them encrypted here or received whole:
\* what arrives in pieces too short for a nonce and a tag pushes no nonce out,
\* however much of it arrives and in whatever order (decrypt_payload_* test the
\* length before they call check_nonce_and_set).
OnlyDatagramsCounted == \A n \in Nonces : later[n] < item_count => Duplicate(n)

\* The inductive invariant behind it: at least as many datagrams passed since a
\* nonce did as nonces were accepted.
LaterInv ==
    /\ later \in [Nonces -> 0..item_count]
    /\ \A n \in Nonces : later[n] < item_count => at[n] # 0 /\ accepted <= at[n] + later[n]
=============================================================================

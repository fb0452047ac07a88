---------------------------- MODULE ReplayWindow ----------------------------
(***************************************************************************)
(* What the replay filter of a shadowsocks context promises: a nonce       *)
(* (the IV of a stream cipher, the salt of an AEAD cipher) may be accepted *)
(* only if it is not among the Window nonces accepted last.  A nonce may   *)
(* always be refused, since the filter is allowed false positives.         *)
(***************************************************************************)
EXTENDS Naturals

CONSTANTS
    Nonces,     \* the nonces that occur
    Window      \* how many accepted nonces are remembered

VARIABLES
    accepted,   \* how many nonces were accepted so far
    at          \* at[n] = when n was last accepted (1 is the first), 0 = never

vars == <<accepted, at>>

Init ==
    /\ accepted = 0
    /\ at = [n \in Nonces |-> 0]

\* n is one of the Window nonces accepted last.
Recent(n) == at[n] # 0 /\ accepted < at[n] + Window

Accept(n) ==
    /\ ~Recent(n)
    /\ accepted' = accepted + 1
    /\ at' = [at EXCEPT ![n] = accepted + 1]

Next == \E n \in Nonces : Accept(n)

Spec == Init /\ [][Next]_vars
=============================================================================

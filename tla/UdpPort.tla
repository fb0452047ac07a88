------------------------------ MODULE UdpPort ------------------------------
(***************************************************************************)
(* What the UDP relay of one server does to its port, seen from outside:   *)
(* the listening socket is split in two halves, one for the listening loop *)
(* and one for the response task, and closed when both are dropped.        *)
(***************************************************************************)
VARIABLES
    sock,       \* who holds the socket: "open" both, "loop" or "half" (the
                \* response task) one of them, "closed" nobody
    assoc,      \* some association is alive
    replying    \* the response task is sending a reply

vars == <<sock, assoc, replying>>

\* A relay without a response task of its own has only the loop.
Init == sock \in {"open", "loop"} /\ assoc = FALSE /\ replying = FALSE

\* A client's packet creates an association.
Associate == sock \in {"open", "loop"} /\ assoc' = TRUE /\ UNCHANGED <<sock, replying>>

\* The last association has ended.
Idle == assoc /\ assoc' = FALSE /\ UNCHANGED <<sock, replying>>

\* The response task takes up a reply, which it does only for an association
\* that is alive, ...
Reply ==
    /\ sock \in {"open", "half"} /\ assoc /\ ~replying
    /\ replying' = TRUE
    /\ UNCHANGED <<sock, assoc>>

\* ... and sends it, ...
Sent == replying /\ replying' = FALSE /\ UNCHANGED <<sock, assoc>>

\* ... or cannot, and ends.
Break ==
    /\ replying
    /\ \/ sock = "open" /\ sock' = "loop"
       \/ sock = "half" /\ sock' = "closed"
    /\ replying' = FALSE
    /\ UNCHANGED assoc

\* The listening loop is dropped.
Stop ==
    /\ \/ sock = "open" /\ sock' = "half"
       \/ sock = "loop" /\ sock' = "closed"
    /\ UNCHANGED <<assoc, replying>>

\* Without the loop and without associations the response task ends.
Release ==
    /\ sock = "half" /\ ~assoc /\ ~replying
    /\ sock' = "closed"
    /\ UNCHANGED <<assoc, replying>>

Next == Associate \/ Idle \/ Reply \/ Sent \/ Break \/ Stop \/ Release

Spec == Init /\ [][Next]_vars
=============================================================================

----------------------------- MODULE MCBalancer -----------------------------
(* Small instances of Balancer for TLC. *)
EXTENDS Balancer

\* A fast answer and a timeout.
FastAndTimeout == {1, 4}

OneLatency == {1}

OneConn == {1}
=============================================================================

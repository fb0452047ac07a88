----------------------------- MODULE MCManager -----------------------------
(***************************************************************************)
(* Two ports, the first of them configured, and enough instances to start  *)
(* a server over one that has just been replaced.                          *)
(***************************************************************************)
EXTENDS Manager

CONSTANTS p1, p2

TwoPorts == {p1, p2}
OneConfigured == <<p1>>
=============================================================================

----------------------------- MODULE MCUdpLocal -----------------------------
(***************************************************************************)
(* The UDP relay of the local server with each of its frontends.           *)
(***************************************************************************)
EXTENDS UdpLocal
=============================================================================

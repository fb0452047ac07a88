---------------------------- MODULE MCAeadStream ----------------------------
(***************************************************************************)
(* Packets of up to two bytes from writes of up to three, a connection     *)
(* that holds less than a packet, and one byte changed in flight.          *)
(***************************************************************************)
EXTENDS AeadStream
=============================================================================

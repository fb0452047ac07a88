---------------------------- MODULE MCDatagrams ----------------------------
(***************************************************************************)
(* The datagrams and the replay filter, with six nonces of two bits each.  *)
(* The bits of nonce 4 are covered by those of 1 and 2, the bits of 6 by   *)
(* those of 3 and 5, so false positives happen.                            *)
(***************************************************************************)
EXTENDS Datagrams

MCNonces == 1..6
MCBits == 1..6
MCHash == [n \in MCNonces |-> {n, (2 * n) % 7}]
=============================================================================

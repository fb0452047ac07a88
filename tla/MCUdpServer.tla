---------------------------- MODULE MCUdpServer ----------------------------
(***************************************************************************)
(* The UDP relay server with two clients and two associations: there is    *)
(* room for a client whose association expires and is replaced while the   *)
(* first one still has a packet queued, for a loop that waits for a full   *)
(* queue, and for a reply that comes after the response task has broken.   *)
(***************************************************************************)
EXTENDS UdpServer
=============================================================================

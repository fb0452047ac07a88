------------------------- MODULE MCServerStatistic -------------------------
(* Small instances of ServerStatistic for TLC. *)
EXTENDS ServerStatistic

\* At once, two answers, and a timeout that was noticed a little late.
FourLatencies == {0, 1, 3, 5}

TwoServers == {1, 2}
=============================================================================

-------------------------- MODULE ServerStatistic --------------------------
(***************************************************************************)
(* The statistics of some servers under every sequence of probe results.   *)
(***************************************************************************)
EXTENDS Score

CONSTANT Servers

VARIABLE stat       \* ServerStatisticData of each server

Init == stat = [s \in Servers |-> NewStat]

\* Both check_update_score and report_failure end here.
push_score(s, x) == stat' = [stat EXCEPT ![s] = Pushed(@, x)]

Next == \E s \in Servers, x \in Latencies \cup {Errored} : push_score(s, x)

Spec == Init /\ [][Next]_stat
-----------------------------------------------------------------------------
(* Properties *)

\* The statistics say what the recent results say, whatever was pushed out of the
\* queue: fail_rate is the share of failures, rtt has half of the latencies on
\* either side, and the deviation is that of all pairs of latencies (which is
\* the reference for recalculate_score).  score() makes a natural number of them.
StatisticsAreRecent ==
    \A s \in Servers :
        LET d == stat[s]
            t == Times(d)
            n == Len(t)
            failed == {i \in DOMAIN d.latency_queue : d.latency_queue[i] = Errored}
            pairs == {<<i, j>> \in (1..n) \X (1..n) : i < j}
            sq(p) == (t[p[1]] - t[p[2]]) * (t[p[1]] - t[p[2]])
        IN  /\ d.latency_queue # <<>> =>
                 d.fail_rate[1] * Len(d.latency_queue) = d.fail_rate[2] * Cardinality(failed)
            /\ n > 0 =>
                 /\ 2 * Cardinality({i \in 1..n : t[i] <= d.rtt}) >= n
                 /\ 2 * Cardinality({i \in 1..n : t[i] >= d.rtt}) >= n
            /\ n > 1 => d.variance[1] * n * (n - 1) = d.variance[2] * MapThenSumSet(sq, pairs)
            /\ Score(d) \in Nat

\* A server that failed in every recent probe never looks better than one that
\* failed in none, however slow and unsteady that one is ("The lower errored
\* count, the better" outweighs latency and deviation).
DeadLooksWorse ==
    \A s, t \in Servers : Dead(stat[s]) /\ Healthy(stat[t]) => Score(stat[t]) < Score(stat[s])
=============================================================================

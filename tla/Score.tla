------------------------------- MODULE Score -------------------------------
(***************************************************************************)
(* How a remote server is scored from the results of its recent probes     *)
(* (ServerStatisticData of relay/loadbalancing/server.rs).  Times are      *)
(* whole milliseconds; the code's floating-point fractions are exact here, *)
(* as pairs <<numerator, denominator>>.                                    *)
(***************************************************************************)
EXTENDS Integers, Seqs, TLC

CONSTANTS
    MAX_LATENCY_QUEUE_SIZE,
    MAX_SERVER_RTT,     \* ms; also the time after which a probe is given up
    Latencies,          \* measured times in ms, the ones of timeouts included
    Errored             \* the result of a probe or connection that failed

ASSUME ScoreAssumption ==
    /\ MAX_LATENCY_QUEUE_SIZE \in Nat \ {0}
    /\ MAX_SERVER_RTT \in Nat \ {0}
    /\ Latencies \subseteq Nat /\ Errored \notin Nat

NewStat == [latency_queue |-> <<>>, rtt |-> MAX_SERVER_RTT,
            fail_rate |-> <<1, 1>>, variance |-> <<0, 1>>]

IsLatency(x) == x # Errored

Total(s) == FoldLeft(+, 0, s)

\* Mutant of Median: the latencies are not sorted.
MedianUnsorted(vlat) == vlat[Len(vlat) \div 2 + 1]

Median(vlat) ==
    LET s == SortSeq(vlat, <)
        mid == Len(s) \div 2
    IN  IF Len(s) % 2 = 0 THEN (s[mid + 1] + s[mid]) \div 2 ELSE s[mid + 1]

\* The square of latency_stdev, the corrected sample standard deviation.
Variance(vlat) ==
    LET n == Len(vlat)
        sum == Total(vlat)
    IN  <<n * Total([i \in 1..n |-> vlat[i] * vlat[i]]) - sum * sum, n * (n - 1)>>

\* With no latency in the queue rtt keeps its value, with less than two the
\* deviation does.
Recalculate(d) ==
    LET q == d.latency_queue
        vlat == SelectSeq(q, IsLatency)
    IN  [d EXCEPT !.fail_rate = <<Len(q) - Len(vlat), Len(q)>>,
                  !.rtt = IF vlat = <<>> THEN @ ELSE Median(vlat),
                  !.variance = IF Len(vlat) > 1 THEN Variance(vlat) ELSE @]

Pushed(d, x) ==
    LET q == Append(d.latency_queue, x)
    IN  Recalculate([d EXCEPT !.latency_queue =
            IF Len(q) > MAX_LATENCY_QUEUE_SIZE THEN Tail(q) ELSE q])

\* Mutant of Score: latency and failures weigh the same.
ScoreUnweighted(d) ==
    (1000 * (d.rtt * d.fail_rate[2] + MAX_SERVER_RTT * d.fail_rate[1]))
        \div (MAX_SERVER_RTT * d.fail_rate[2])

\* 1000 * (rtt / M + 3 * fail_rate + stdev / (M / sqrt(2))) / 5, truncated, where
\* M is MAX_SERVER_RTT: the largest k with k <= a/b + 200 * sqrt(2 * variance) / M.
Score(d) ==
    LET n == d.fail_rate[2]
        a == 200 * d.rtt * n + 600 * d.fail_rate[1] * MAX_SERVER_RTT
        b == MAX_SERVER_RTT * n
        num == d.variance[1]
        den == d.variance[2]
        Reaches(k) == k * b <= a \/ (k * b - a) * (k * b - a) * den <= 80000 * n * n * num
    IN  IF num = 0 THEN a \div b
        ELSE CHOOSE k \in (a \div b)..(a \div b) + 1000 : Reaches(k) /\ ~Reaches(k + 1)

\* The latencies among the recent results; a server that failed in all of them,
\* and one that failed in none.
Times(d) == SelectSeq(d.latency_queue, IsLatency)
Dead(d) == d.latency_queue # <<>> /\ Times(d) = <<>>
Healthy(d) == d.latency_queue # <<>> /\ Times(d) = d.latency_queue
=============================================================================

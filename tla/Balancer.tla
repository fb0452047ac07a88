------------------------------ MODULE Balancer ------------------------------
(***************************************************************************)
(* The ping balancer of a local server (relay/loadbalancing/server.rs):    *)
(* one task per remote server probes it and scores the recent results, one *)
(* task keeps choosing the server with the lowest score, and connections   *)
(* are given the server chosen last and report some of their failures.     *)
(* PingBalancer::new starts the tasks and meets them at two barriers.      *)
(***************************************************************************)
EXTENDS Score

CONSTANTS
    NumServers,
    Conns               \* connections open at a time

ASSUME BalancerAssumption ==
    NumServers \in Nat \ {0}

VARIABLES
    stat,               \* ServerStatisticData of each server
    probe,              \* the probing task of each server
    creator,            \* PingBalancer::new
    chooser,            \* the task that recalculates the best server
    best_idx,
    server_running,     \* the context's flag, cleared when the local server ends
    conn,               \* server and route of a connection being established
    quiet               \* history: no statistic changed since the last scan began

tasks == <<probe, creator, chooser>>
vars == <<stat, tasks, best_idx, server_running, conn, quiet>>

Servers == 1..NumServers
-----------------------------------------------------------------------------
(* SharedServerStatisticData: each server's data is behind a lock of its own. *)

push_score(s, x) ==
    /\ stat' = [stat EXCEPT ![s] = Pushed(@, x)]
    /\ quiet' = FALSE
-----------------------------------------------------------------------------
Idle == [pc |-> "none", first |-> TRUE, current |-> 1, idx |-> 1, best |-> 1, best_score |-> -1]

\* With one server nothing is probed and nothing chosen.
Init ==
    /\ stat = [s \in Servers |-> NewStat]
    /\ probe = [s \in Servers |-> IF NumServers > 1 THEN "first" ELSE "none"]
    /\ creator = IF NumServers > 1 THEN "wait_probes" ELSE "ready"
    /\ chooser = Idle
    /\ best_idx = 1
    /\ server_running = TRUE
    /\ conn = [c \in Conns |-> {}]
    /\ quiet = TRUE

(* The probing task of server s *)

\* check_update_score: the request answers, fails, or is given up after
\* MAX_SERVER_RTT, which counts as a latency.
ProbeDone(s) ==
    /\ probe[s] \in {"first", "probing"}
    /\ \E x \in Latencies \cup {Errored} : push_score(s, x)
    /\ probe' = [probe EXCEPT ![s] = IF @ = "first" THEN "barrier" ELSE "loop"]
    /\ UNCHANGED <<creator, chooser, best_idx, server_running, conn>>

\* After the delay: another round while the server runs.
ProbeLoop(s) ==
    /\ probe[s] = "loop"
    /\ probe' = [probe EXCEPT ![s] = IF server_running THEN "probing" ELSE "exited"]
    /\ UNCHANGED <<stat, creator, chooser, best_idx, server_running, conn, quiet>>

(* PingBalancer::new *)

\* Mutant of ProbesStarted: the creator is not counted and goes on with the first task.
ProbesStartedEarly ==
    /\ creator = "wait_probes"
    /\ \E s \in Servers : probe[s] = "barrier"
    /\ probe' = [s \in Servers |-> IF probe[s] = "barrier" THEN "loop" ELSE probe[s]]
    /\ creator' = "spawn"
    /\ UNCHANGED <<stat, chooser, best_idx, server_running, conn, quiet>>

\* Mutant of ProbesStarted: the barrier counts one task too many.
ProbesStartedNever ==
    /\ creator = "wait_probes"
    /\ Cardinality({s \in Servers : probe[s] = "barrier"}) = NumServers + 1
    /\ probe' = [s \in Servers |-> "loop"]
    /\ creator' = "spawn"
    /\ UNCHANGED <<stat, chooser, best_idx, server_running, conn, quiet>>

\* The barrier of 1 + NumServers lets everybody go on.
ProbesStarted ==
    /\ creator = "wait_probes"
    /\ \A s \in Servers : probe[s] = "barrier"
    /\ probe' = [s \in Servers |-> "loop"]
    /\ creator' = "spawn"
    /\ UNCHANGED <<stat, chooser, best_idx, server_running, conn, quiet>>

\* recalculate_best_server begins: the index in use is read first.
StartScan(first) ==
    /\ chooser' = [pc |-> "scan", first |-> first, current |-> best_idx,
                   idx |-> 1, best |-> 1, best_score |-> -1]
    /\ quiet' = TRUE

SpawnChooser ==
    /\ creator = "spawn"
    /\ creator' = "wait_choice"
    /\ StartScan(TRUE)
    /\ UNCHANGED <<stat, probe, best_idx, server_running, conn>>

\* The barrier of two.
ChoiceMade ==
    /\ creator = "wait_choice" /\ chooser.pc = "barrier"
    /\ creator' = "ready"
    /\ chooser' = [chooser EXCEPT !.pc = "loop"]
    /\ UNCHANGED <<stat, probe, best_idx, server_running, conn, quiet>>

(* The choosing task *)

\* Mutant of ScanRead: the highest score wins.
ScanReadHigher ==
    LET score == Score(stat[chooser.idx])
        better == score > chooser.best_score
    IN  /\ chooser.pc = "scan"
        /\ chooser' = [chooser EXCEPT
               !.best = IF better THEN chooser.idx ELSE @,
               !.best_score = IF better THEN score ELSE @,
               !.idx = @ + 1,
               !.pc = IF chooser.idx = NumServers THEN "store" ELSE @]
        /\ UNCHANGED <<stat, probe, creator, best_idx, server_running, conn, quiet>>

\* The score of the next server is read under that server's lock alone; the
\* statistics of the others go on changing (-1 stands for u64::max_value).
ScanRead ==
    LET score == Score(stat[chooser.idx])
        better == chooser.best_score = -1 \/ score < chooser.best_score
    IN  /\ chooser.pc = "scan"
        /\ chooser' = [chooser EXCEPT
               !.best = IF better THEN chooser.idx ELSE @,
               !.best_score = IF better THEN score ELSE @,
               !.idx = @ + 1,
               !.pc = IF chooser.idx = NumServers THEN "store" ELSE @]
        /\ UNCHANGED <<stat, probe, creator, best_idx, server_running, conn, quiet>>

\* Mutant of ScanStore: a choice is stored only if it differs from the first server.
ScanStoreStale ==
    /\ chooser.pc = "store"
    /\ best_idx' = IF chooser.best # 1 THEN chooser.best ELSE best_idx
    /\ chooser' = [Idle EXCEPT !.pc = IF chooser.first THEN "barrier" ELSE "loop"]
    /\ UNCHANGED <<stat, probe, creator, server_running, conn, quiet>>

ScanStore ==
    /\ chooser.pc = "store"
    /\ best_idx' = IF chooser.best # chooser.current THEN chooser.best ELSE best_idx
    /\ chooser' = [Idle EXCEPT !.pc = IF chooser.first THEN "barrier" ELSE "loop"]
    /\ UNCHANGED <<stat, probe, creator, server_running, conn, quiet>>

\* After the delay: another scan while the server runs.
ChooseLoop ==
    /\ chooser.pc = "loop"
    /\ IF server_running
       THEN StartScan(FALSE)
       ELSE /\ chooser' = [Idle EXCEPT !.pc = "exited"]
            /\ UNCHANGED quiet
    /\ UNCHANGED <<stat, probe, creator, best_idx, server_running, conn>>
-----------------------------------------------------------------------------
(* The local server *)

\* One of its futures ended: the others are dropped, a PingBalancer::new that
\* has not returned among them, and set_server_stopped is called.
Stop ==
    /\ server_running
    /\ server_running' = FALSE
    /\ creator' = IF creator = "ready" THEN "ready" ELSE "dropped"
    /\ UNCHANGED <<stat, probe, chooser, best_idx, conn, quiet>>

\* A connection is accepted and given the best server; its target is bypassed
\* or not by the ACL.
Accept(c) ==
    /\ server_running /\ creator = "ready" /\ conn[c] = {}
    /\ \E bypassed \in BOOLEAN :
           conn' = [conn EXCEPT ![c] = {[server |-> best_idx, bypassed |-> bypassed]}]
    /\ UNCHANGED <<stat, tasks, best_idx, server_running, quiet>>

Connected(c) ==
    /\ conn[c] # {}
    /\ conn' = [conn EXCEPT ![c] = {}]
    /\ UNCHANGED <<stat, tasks, best_idx, server_running, quiet>>

\* Whether a failure is reported.  SOCKS5 and HTTP CONNECT ask is_proxied() of
\* the error, which answers `bypassed`; plain HTTP reports its proxied failures;
\* redir and tunnel report nothing.
Reports(protocol, bypassed) ==
    \/ protocol = "connect" /\ bypassed
    \/ protocol = "http" /\ ~bypassed

ConnectFails(c) ==
    /\ conn[c] # {}
    /\ \E protocol \in {"connect", "http", "redir"}, x \in conn[c] :
           IF Reports(protocol, x.bypassed)
           THEN push_score(x.server, Errored)
           ELSE UNCHANGED <<stat, quiet>>
    /\ conn' = [conn EXCEPT ![c] = {}]
    /\ UNCHANGED <<tasks, best_idx, server_running>>
-----------------------------------------------------------------------------
ProbeStep(s) == ProbeDone(s) \/ ProbeLoop(s)
CreatorStep == ProbesStarted \/ SpawnChooser \/ ChoiceMade
ChooserStep == ScanRead \/ ScanStore \/ ChooseLoop

Next ==
    \/ \E s \in Servers : ProbeStep(s)
    \/ CreatorStep \/ ChooserStep \/ Stop
    \/ \E c \in Conns : Accept(c) \/ Connected(c) \/ ConnectFails(c)

Spec == Init /\ [][Next]_vars

\* Probes end by their timeout, delays by the timer, and the runtime polls what
\* was woken.  Nothing is assumed of connections, nor that the server stops.
Fairness ==
    /\ \A s \in Servers : WF_vars(ProbeStep(s))
    /\ WF_vars(CreatorStep)
    /\ WF_vars(ChooserStep)

FairSpec == Spec /\ Fairness
-----------------------------------------------------------------------------
(* Properties *)

\* The first server with the lowest score.
Best == CHOOSE s \in Servers : \A t \in Servers :
            \/ Score(stat[s]) < Score(stat[t])
            \/ Score(stat[s]) = Score(stat[t]) /\ s <= t

\* If no statistic changed since the last scan began, the scan's result is in
\* force and is the best server.
ChoiceIsBest == chooser.pc \in {"barrier", "loop"} /\ quiet => best_idx = Best

\* A connection is given a server only when all servers were probed ("Wait all
\* tasks start (run at least one round)") and the choosing task made a choice.
NoBlindPick ==
    NumServers > 1 /\ (\E c \in Conns : conn[c] # {}) =>
        /\ \A s \in Servers : stat[s].latency_queue # <<>>
        /\ chooser.pc \in {"loop", "exited"} \/ ~chooser.first

\* PingBalancer::new returns, unless it is dropped: every probe ends, with an
\* answer or not, and both barriers open.
Created == <>(creator = "ready" \/ ~server_running)

\* If from some time on server s fails every probe and another one none, s does
\* not stay the best server.
FailsOver ==
    \A s, t \in Servers : <>[](server_running /\ Dead(stat[s]) /\ Healthy(stat[t])) => <>[](best_idx # s)

\* A failed connection that was not proxied leaves the statistics of the servers
\* alone ("Check if it is proxied", "Report to global statistic").
DirectFailureNotCharged ==
    [][\A c \in Conns : \A x \in conn[c] : x.bypassed /\ conn'[c] = {} => UNCHANGED stat]_vars
=============================================================================

--------------------------- MODULE BalancerProofs ---------------------------
(***************************************************************************)
(* For any number of servers: no connection is given a server before all   *)
(* of them were probed and one was chosen; and a scan during which no      *)
(* statistic changed leaves the best server in force.  How a score comes   *)
(* out of the recent results plays no part in either.                      *)
(***************************************************************************)
EXTENDS Balancer, TLAPS

Results == Latencies \cup {Errored}
Fields == {"latency_queue", "rtt", "fail_rate", "variance"}

\* A server's data: its recent results, no more than the code keeps.
Recent(d) ==
    /\ DOMAIN d = Fields
    /\ d.latency_queue \in Seq(Results) /\ Len(d.latency_queue) <= MAX_LATENCY_QUEUE_SIZE

\* The choosing task; in a scan idx is the server to look at, behind it the number
\* of servers plus one.
Choosing(c) ==
    /\ DOMAIN c = {"pc", "first", "current", "idx", "best", "best_score"}
    /\ c.pc \in {"none", "scan", "store", "barrier", "loop", "exited"} /\ c.first \in BOOLEAN
    /\ c.current \in Servers /\ c.best \in Servers
    /\ c.pc = "scan" => c.idx \in Servers
    /\ c.pc = "store" => c.idx = NumServers + 1

\* What the variables range over.
TypeOK ==
    /\ DOMAIN stat = Servers /\ \A s \in Servers : Recent(stat[s])
    /\ probe \in [Servers -> {"none", "first", "barrier", "loop", "probing", "exited"}]
    /\ creator \in {"wait_probes", "spawn", "wait_choice", "ready", "dropped"}
    /\ Choosing(chooser) /\ best_idx \in Servers
    /\ server_running \in BOOLEAN /\ quiet \in BOOLEAN
    /\ DOMAIN conn = Conns
    /\ \A c \in Conns : conn[c] = {} \/ \E s \in Servers, b \in BOOLEAN : conn[c] = {[server |-> s, bypassed |-> b]}

\* The order of the start: every probing task passes the first barrier with a
\* result, the creator goes on behind it, and behind the second one with a choice.
StartInv ==
    /\ \A s \in Servers : probe[s] \notin {"none", "first"} => stat[s].latency_queue # <<>>
    /\ NumServers > 1 =>
        /\ \A s \in Servers : probe[s] # "none"
        /\ creator \in {"spawn", "wait_choice", "ready"} => \A s \in Servers : probe[s] # "first"
        /\ creator \in {"wait_probes", "spawn"} => chooser.pc = "none"
        /\ creator = "wait_choice" => chooser.pc \in {"scan", "store", "barrier"} /\ chooser.first
        /\ creator = "ready" => chooser.pc \in {"loop", "exited"} \/ (chooser.pc # "none" /\ ~chooser.first)
    /\ \A c \in Conns : conn[c] # {} => creator = "ready"

Inv == TypeOK /\ StartInv
-----------------------------------------------------------------------------
\* Init establishes the invariant.
LEMMA InitInv == Init => Inv
<1> SUFFICES ASSUME Init PROVE Inv
  OBVIOUS
<1> USE BalancerAssumption, ScoreAssumption
<1>1. Recent(NewStat)
  <2>1. <<>> \in Seq(Results) /\ Len(<<>>) = 0
    OBVIOUS
  <2> QED BY <2>1 DEF Recent, NewStat, Fields
<1>2. TypeOK
  <2>1. DOMAIN stat = Servers /\ \A s \in Servers : Recent(stat[s])
    BY <1>1 DEF Init
  <2>2. Choosing(chooser) /\ best_idx \in Servers
    BY DEF Init, Idle, Choosing, Servers
  <2> QED BY <2>1, <2>2 DEF Init, TypeOK
<1>3. StartInv
  BY DEF Init, StartInv, Idle
<1> QED BY <1>2, <1>3 DEF Inv

\* A result is recorded (push_score): the queue has it and drops the oldest one
\* when it is full, so that it is never empty again.
LEMMA PushedFacts ==
    ASSUME NEW d, Recent(d), NEW x \in Results
    PROVE  Recent(Pushed(d, x)) /\ Pushed(d, x).latency_queue # <<>>
<1> USE ScoreAssumption
<1> DEFINE q == Append(d.latency_queue, x)
           kept == IF Len(q) > MAX_LATENCY_QUEUE_SIZE THEN Tail(q) ELSE q
<1>1. /\ q \in Seq(Results) /\ Len(q) = Len(d.latency_queue) + 1 /\ Len(d.latency_queue) \in Nat
      /\ Len(d.latency_queue) <= MAX_LATENCY_QUEUE_SIZE
  BY DEF Recent
<1> HIDE DEF q
<1>2. kept \in Seq(Results) /\ Len(kept) <= MAX_LATENCY_QUEUE_SIZE /\ kept # <<>>
  <2>1. CASE Len(q) > MAX_LATENCY_QUEUE_SIZE
    <3>1. q # <<>> /\ Len(q) > 1
      BY <1>1, <2>1
    <3>2. Tail(q) \in Seq(Results) /\ Len(Tail(q)) = Len(q) - 1
      BY <1>1, <3>1
    <3>3. Tail(q) # <<>>
      <4>1. ASSUME NEW r \in Seq(Results), Len(r) = Len(q) - 1 PROVE r # <<>>
        BY <3>1, <4>1
      <4> QED BY <3>2, <4>1, Zenon
    <3> QED BY <1>1, <2>1, <3>2, <3>3
  <2>2. CASE ~(Len(q) > MAX_LATENCY_QUEUE_SIZE)
    <3>1. q # <<>>
      BY <1>1
    <3> QED BY <1>1, <2>2, <3>1
  <2> QED BY <2>1, <2>2
<1>3. Pushed(d, x) = Recalculate([d EXCEPT !.latency_queue = kept])
  BY DEF Pushed, q
<1> HIDE DEF kept
<1>4. DOMAIN Pushed(d, x) = Fields /\ Pushed(d, x).latency_queue = kept
  BY <1>3 DEF Recent, Recalculate, Fields
<1> QED BY <1>2, <1>4 DEF Recent

\* Recording a result keeps the statistics typed, and none of them gets empty.
LEMMA PushKeeps ==
    ASSUME TypeOK, NEW s \in Servers, NEW x \in Results, push_score(s, x)
    PROVE  /\ DOMAIN stat' = Servers /\ \A t \in Servers : Recent(stat'[t])
           /\ stat'[s].latency_queue # <<>>
           /\ \A t \in Servers : stat[t].latency_queue # <<>> => stat'[t].latency_queue # <<>>
           /\ quiet' = FALSE
<1>1. Recent(stat[s])
  BY DEF TypeOK
<1>2. Recent(Pushed(stat[s], x)) /\ Pushed(stat[s], x).latency_queue # <<>>
  BY <1>1, PushedFacts
<1>3. /\ DOMAIN stat' = Servers /\ stat'[s] = Pushed(stat[s], x)
      /\ \A t \in Servers : t # s => stat'[t] = stat[t]
  BY DEF TypeOK, push_score
<1>4. quiet' = FALSE
  BY DEF push_score
<1>5. \A t \in Servers : Recent(stat[t])
  BY DEF TypeOK
<1> HIDE DEF push_score
<1> QED BY <1>2, <1>3, <1>4, <1>5, SMTT(60)

\* The probing tasks.
LEMMA ProbeInv ==
    ASSUME Inv, NEW s \in Servers, ProbeStep(s)
    PROVE  Inv'
<1>1. CASE ProbeDone(s)
  <2>1. PICK x \in Results : push_score(s, x)
    BY <1>1 DEF ProbeDone, Results
  <2>2. /\ DOMAIN stat' = Servers /\ \A t \in Servers : Recent(stat'[t])
        /\ stat'[s].latency_queue # <<>>
        /\ \A t \in Servers : stat[t].latency_queue # <<>> => stat'[t].latency_queue # <<>>
        /\ quiet' = FALSE
    BY <2>1, PushKeeps, Zenon DEF Inv
  <2>3. /\ probe[s] \in {"first", "probing"}
        /\ probe' = [probe EXCEPT ![s] = IF @ = "first" THEN "barrier" ELSE "loop"]
        /\ UNCHANGED <<creator, chooser, best_idx, server_running, conn>>
    BY <1>1 DEF ProbeDone
  <2>4. TypeOK'
    BY <2>2, <2>3, ZenonT(60) DEF Inv, TypeOK
  <2>5. StartInv'
    BY <2>2, <2>3 DEF Inv, TypeOK, StartInv
  <2> QED BY <2>4, <2>5 DEF Inv
<1>2. CASE ProbeLoop(s)
  <2>1. TypeOK'
    BY <1>2 DEF Inv, TypeOK, ProbeLoop
  <2>2. StartInv'
    BY <1>2 DEF Inv, TypeOK, StartInv, ProbeLoop
  <2> QED BY <2>1, <2>2 DEF Inv
<1> QED BY <1>1, <1>2 DEF ProbeStep

\* A scan begins with the index in use.
LEMMA ScanStarts ==
    ASSUME TypeOK, NEW first \in BOOLEAN, StartScan(first)
    PROVE  /\ Choosing(chooser') /\ chooser'.pc = "scan" /\ chooser'.first = first
           /\ chooser'.current = best_idx /\ chooser'.idx = 1 /\ chooser'.best_score = -1
           /\ quiet' = TRUE
<1>1. 1 \in Servers /\ best_idx \in Servers
  BY BalancerAssumption DEF TypeOK, Servers
<1> QED BY <1>1 DEF StartScan, Choosing

\* PingBalancer::new.
LEMMA CreatorInv ==
    ASSUME Inv, CreatorStep
    PROVE  Inv'
<1>1. CASE ProbesStarted
  <2>1. TypeOK'
    BY <1>1 DEF Inv, TypeOK, ProbesStarted
  <2>2. StartInv'
    BY <1>1 DEF Inv, TypeOK, StartInv, ProbesStarted
  <2> QED BY <2>1, <2>2 DEF Inv
<1>2. CASE SpawnChooser
  <2>1. /\ Choosing(chooser') /\ chooser'.pc = "scan" /\ chooser'.first = TRUE
        /\ quiet' = TRUE
    BY <1>2, ScanStarts, Zenon DEF Inv, SpawnChooser
  <2>2. /\ creator = "spawn" /\ creator' = "wait_choice"
        /\ UNCHANGED <<stat, probe, best_idx, server_running, conn>>
    BY <1>2 DEF SpawnChooser
  <2>3. TypeOK'
    BY <2>1, <2>2 DEF Inv, TypeOK
  <2>4. StartInv'
    BY <2>1, <2>2, SMTT(60) DEF Inv, TypeOK, StartInv
  <2> QED BY <2>3, <2>4 DEF Inv
<1>3. CASE ChoiceMade
  <2>1. Choosing(chooser') /\ chooser'.pc = "loop"
    BY <1>3 DEF Inv, TypeOK, ChoiceMade, Choosing
  <2>2. TypeOK'
    BY <1>3, <2>1 DEF Inv, TypeOK, ChoiceMade
  <2>3. StartInv'
    BY <1>3, <2>1, SMTT(60) DEF Inv, TypeOK, StartInv, ChoiceMade
  <2> QED BY <2>2, <2>3 DEF Inv
<1> QED BY <1>1, <1>2, <1>3 DEF CreatorStep

\* The choosing task.
LEMMA ChooserInv ==
    ASSUME Inv, ChooserStep
    PROVE  Inv'
<1>1. CASE ScanRead
  <2>1. /\ chooser.pc = "scan" /\ chooser.idx \in Servers /\ Choosing(chooser)
        /\ UNCHANGED <<stat, probe, creator, best_idx, server_running, conn, quiet>>
    BY <1>1 DEF Inv, TypeOK, Choosing, ScanRead
  <2>2. /\ Choosing(chooser') /\ chooser'.first = chooser.first
        /\ chooser'.pc \in {"scan", "store"}
    <3>1. PICK b, sc :
             /\ b \in Servers
             /\ chooser' = [chooser EXCEPT !.best = b, !.best_score = sc, !.idx = @ + 1,
                                           !.pc = IF chooser.idx = NumServers THEN "store" ELSE @]
      BY <1>1, <2>1, ZenonT(60) DEF ScanRead, Choosing
    <3>2. chooser.idx # NumServers => chooser.idx + 1 \in Servers
      BY <2>1, BalancerAssumption DEF Servers
    <3> QED BY <2>1, <3>1, <3>2 DEF Choosing
  <2>3. TypeOK'
    BY <2>1, <2>2, SMTT(60) DEF Inv, TypeOK
  <2>4. StartInv'
    BY <2>1, <2>2, SMTT(60) DEF Inv, TypeOK, StartInv
  <2> QED BY <2>3, <2>4 DEF Inv
<1>2. CASE ScanStore
  <2>1. Choosing(chooser)
    BY DEF Inv, TypeOK
  <2>2. /\ Choosing(chooser') /\ chooser'.first = TRUE
        /\ chooser'.pc = IF chooser.first THEN "barrier" ELSE "loop"
    BY <1>2, BalancerAssumption DEF ScanStore, Choosing, Idle, Servers
  <2>3. best_idx' \in Servers
    BY <1>2, <2>1 DEF Inv, TypeOK, ScanStore, Choosing
  <2>4. TypeOK'
    BY <1>2, <2>2, <2>3, SMTT(60) DEF Inv, TypeOK, ScanStore
  <2>5. StartInv'
    BY <1>2, <2>1, <2>2, SMTT(60) DEF Inv, TypeOK, StartInv, ScanStore, Choosing
  <2> QED BY <2>4, <2>5 DEF Inv
<1>3. CASE ChooseLoop
  <2>1. /\ chooser.pc = "loop"
        /\ UNCHANGED <<stat, probe, creator, best_idx, server_running, conn>>
    BY <1>3 DEF ChooseLoop
  <2>2. /\ Choosing(chooser') /\ quiet' \in BOOLEAN
        /\ chooser'.pc = "exited" \/ (chooser'.pc = "scan" /\ chooser'.first = FALSE)
    <3>1. CASE server_running
      <4>1. StartScan(FALSE)
        BY <1>3, <3>1, ZenonT(60) DEF ChooseLoop
      <4> QED BY <4>1, ScanStarts, Zenon DEF Inv
    <3>2. CASE ~server_running
      <4>1. chooser' = [Idle EXCEPT !.pc = "exited"] /\ quiet' = quiet
        BY <1>3, <3>2 DEF ChooseLoop
      <4>2. Choosing(chooser') /\ chooser'.pc = "exited"
        BY <4>1, BalancerAssumption DEF Choosing, Idle, Servers
      <4>3. quiet' \in BOOLEAN
        BY <4>1, Zenon DEF Inv, TypeOK
      <4> QED BY <4>2, <4>3
    <3> QED BY <3>1, <3>2, Zenon
  <2>3. TypeOK'
    BY <2>1, <2>2 DEF Inv, TypeOK
  <2>4. StartInv'
    BY <2>1, <2>2 DEF Inv, TypeOK, StartInv
  <2> QED BY <2>3, <2>4 DEF Inv
<1> QED BY <1>1, <1>2, <1>3 DEF ChooserStep

\* The local server and its connections.
LEMMA LocalInv ==
    ASSUME Inv, Stop \/ \E c \in Conns : Accept(c) \/ Connected(c) \/ ConnectFails(c)
    PROVE  Inv'
<1>1. CASE Stop
  <2>1. TypeOK'
    BY <1>1, ZenonT(60) DEF Inv, TypeOK, Stop
  <2>2. StartInv'
    BY <1>1 DEF Inv, TypeOK, StartInv, Stop
  <2> QED BY <2>1, <2>2 DEF Inv
<1>2. ASSUME NEW c \in Conns, Accept(c) PROVE Inv'
  <2>1. TypeOK'
    BY <1>2 DEF Inv, TypeOK, Accept, tasks
  <2>2. StartInv'
    BY <1>2, SMTT(60) DEF Inv, TypeOK, StartInv, Accept, tasks
  <2> QED BY <2>1, <2>2 DEF Inv
<1>3. ASSUME NEW c \in Conns, Connected(c) PROVE Inv'
  <2>1. TypeOK'
    BY <1>3 DEF Inv, TypeOK, Connected, tasks
  <2>2. StartInv'
    BY <1>3 DEF Inv, TypeOK, StartInv, Connected, tasks
  <2> QED BY <2>1, <2>2 DEF Inv
<1>4. ASSUME NEW c \in Conns, ConnectFails(c) PROVE Inv'
  <2>1. PICK protocol \in {"connect", "http", "redir"}, x \in conn[c] :
           IF Reports(protocol, x.bypassed) THEN push_score(x.server, Errored) ELSE UNCHANGED <<stat, quiet>>
    BY <1>4 DEF ConnectFails
  <2>2. x.server \in Servers
    BY DEF Inv, TypeOK
  <2>3. /\ conn' = [conn EXCEPT ![c] = {}]
        /\ UNCHANGED <<probe, creator, chooser, best_idx, server_running>>
    BY <1>4 DEF ConnectFails, tasks
  <2>4. /\ DOMAIN stat' = Servers /\ \A t \in Servers : Recent(stat'[t])
        /\ \A t \in Servers : stat[t].latency_queue # <<>> => stat'[t].latency_queue # <<>>
        /\ quiet' \in BOOLEAN
    <3>1. CASE push_score(x.server, Errored)
      <4>1. Errored \in Results
        BY DEF Results
      <4> QED BY <2>2, <3>1, <4>1, PushKeeps, ZenonT(60) DEF Inv
    <3>2. CASE UNCHANGED <<stat, quiet>>
      BY <3>2 DEF Inv, TypeOK
    <3> QED BY <2>1, <3>1, <3>2
  <2>5. TypeOK'
    BY <2>3, <2>4 DEF Inv, TypeOK
  <2>6. StartInv'
    BY <2>3, <2>4 DEF Inv, TypeOK, StartInv
  <2> QED BY <2>5, <2>6 DEF Inv
<1> QED BY <1>1, <1>2, <1>3, <1>4, SMTT(60)

\* The balancer starts in order and keeps typed statistics, with queues that
\* never outgrow MAX_LATENCY_QUEUE_SIZE.
THEOREM BalancerInvariant == Spec => []Inv
<1>1. Inv /\ [Next]_vars => Inv'
  <2> SUFFICES ASSUME Inv, [Next]_vars PROVE Inv'
    OBVIOUS
  <2>1. CASE UNCHANGED vars
    BY <2>1 DEF Inv, TypeOK, StartInv, vars, tasks
  <2>2. CASE Next
    BY <2>2, ProbeInv, CreatorInv, ChooserInv, LocalInv, SMTT(60) DEF Next
  <2> QED BY <2>1, <2>2
<1> QED BY InitInv, <1>1, PTL DEF Spec

\* A connection is given a server only when every server has a result and the
\* first choice was made (the two barriers of PingBalancer::new).
THEOREM PicksAreInformed == Spec => []NoBlindPick
<1>1. Inv => NoBlindPick
  <2> SUFFICES ASSUME Inv, NumServers > 1, NEW c \in Conns, conn[c] # {}
               PROVE  /\ \A s \in Servers : stat[s].latency_queue # <<>>
                      /\ chooser.pc \in {"loop", "exited"} \/ ~chooser.first
    BY DEF NoBlindPick
  <2> QED BY DEF Inv, TypeOK, StartInv
<1> QED BY BalancerInvariant, <1>1, PTL

-----------------------------------------------------------------------------
(* The best server.  Scores are taken as the u64 numbers score() returns. *)

Scored == \A s \in Servers : Score(stat[s]) \in Nat

\* Server s is chosen before t: it has the lower score, or the same and comes first.
Leads(s, t) ==
    \/ Score(stat[s]) < Score(stat[t])
    \/ Score(stat[s]) = Score(stat[t]) /\ s <= t

\* A scan that no change of the statistics disturbed has the best of the servers
\* it has looked at; the index in use is the one it began with, until it stores
\* its own.
ScanInv ==
    /\ chooser.pc \in {"scan", "store"} => chooser.current = best_idx
    /\ chooser.pc \in {"scan", "store"} /\ quiet =>
           IF chooser.idx = 1
           THEN chooser.best_score = -1
           ELSE /\ chooser.best < chooser.idx
                /\ chooser.best_score = Score(stat[chooser.best])
                /\ \A t \in 1..(chooser.idx - 1) : Leads(chooser.best, t)
    /\ chooser.pc \in {"barrier", "loop"} /\ quiet => \A t \in Servers : Leads(best_idx, t)

\* One server more is looked at.
LEMMA ReadKeepsScan ==
    ASSUME Inv, ScanInv, Scored, ScanRead
    PROVE  ScanInv'
<1>1. /\ chooser.pc = "scan" /\ chooser.idx \in Servers /\ Choosing(chooser) /\ chooser.current = best_idx
      /\ UNCHANGED <<stat, probe, creator, best_idx, server_running, conn, quiet>>
  BY DEF Inv, TypeOK, Choosing, ScanInv, ScanRead
<1>2. PICK i, b, m, n : i = chooser.idx /\ b = chooser.best /\ m = chooser.best_score /\ n = Score(stat[i])
  OBVIOUS
<1>3. PICK b2, m2 :
         /\ IF m = -1 \/ n < m THEN b2 = i /\ m2 = n ELSE b2 = b /\ m2 = m
         /\ chooser' = [chooser EXCEPT !.best = b2, !.best_score = m2, !.idx = @ + 1,
                                       !.pc = IF i = NumServers THEN "store" ELSE @]
  BY <1>2, Zenon DEF ScanRead
<1>4. /\ chooser'.best = b2 /\ chooser'.best_score = m2 /\ chooser'.idx = i + 1
      /\ chooser'.pc \in {"scan", "store"} /\ chooser'.current = best_idx'
  BY <1>1, <1>2, <1>3, SMTT(60) DEF Choosing
<1>5. i \in Nat /\ i >= 1 /\ i \in Servers /\ b \in Servers /\ b \in Nat /\ n \in Nat /\ NumServers \in Nat
  BY <1>1, <1>2, BalancerAssumption, SMTT(60) DEF Choosing, Servers, Scored
<1>6. ASSUME quiet
      PROVE  b2 < i + 1 /\ m2 = Score(stat[b2]) /\ \A t \in 1..i : Leads(b2, t)
  <2>1. CASE i = 1
    <3>1. b2 = 1 /\ m2 = n
      BY <1>1, <1>2, <1>3, <1>6, <2>1, SMTT(60) DEF ScanInv
    <3>2. \A t \in 1..i : t = 1
      BY <2>1
    <3>3. Leads(1, 1)
      BY DEF Leads
    <3>4. m2 = Score(stat[b2])
      BY <1>2, <2>1, <3>1, ZenonT(60)
    <3>5. b2 < i + 1
      BY <2>1, <3>1
    <3>6. \A t \in 1..i : Leads(b2, t)
      BY <3>1, <3>2, <3>3, ZenonT(60)
    <3> QED BY <3>4, <3>5, <3>6, SMTT(60)
  <2>2. CASE i # 1
    <3>1. b < i /\ m = Score(stat[b]) /\ \A t \in 1..(i - 1) : Leads(b, t)
      BY <1>1, <1>2, <1>6, <2>2, SMTT(60) DEF ScanInv
    <3>2. m \in Nat
      BY <1>5, <3>1 DEF Scored
    <3>3. \A t \in 1..(i - 1) : t \in Nat /\ t < i /\ Score(stat[t]) \in Nat
      BY <1>5 DEF Scored, Servers
    <3>4. \A t \in 1..i : t \in 1..(i - 1) \/ t = i
      BY <1>5
    <3>5. CASE n < m
      <4>1. b2 = i /\ m2 = n
        BY <1>3, <3>5, SMTT(60)
      <4>2. \A t \in 1..(i - 1) : Leads(i, t)
        BY <1>2, <1>5, <3>1, <3>2, <3>3, <3>5, SMTT(60) DEF Leads
      <4>3. Leads(i, i)
        BY <1>5, SMTT(60) DEF Leads
      <4> QED BY <1>2, <1>5, <3>4, <4>1, <4>2, <4>3, SMTT(60)
    <3>6. CASE ~(n < m)
      <4>1. b2 = b /\ m2 = m
        BY <1>3, <3>2, <3>6, SMTT(60)
      <4>2. Leads(b, i)
        BY <1>2, <1>5, <3>1, <3>2, <3>6, SMTT(60) DEF Leads
      <4> QED BY <1>5, <3>1, <3>4, <4>1, <4>2, SMTT(60)
    <3> QED BY <3>5, <3>6, SMTT(60)
  <2> QED BY <2>1, <2>2
<1>7. i + 1 # 1 /\ (i + 1) - 1 = i
  BY <1>5
<1>8. ASSUME quiet' PROVE /\ b2 < i + 1 /\ m2 = Score(stat'[b2])
                          /\ \A t \in 1..i : Leads(b2, t)'
  BY <1>1, <1>6, <1>8, SMTT(60) DEF Leads
<1>9. ASSUME quiet' PROVE /\ (chooser.best < chooser.idx)' /\ (chooser.best_score = Score(stat[chooser.best]))'
                          /\ (\A t \in 1..(chooser.idx - 1) : Leads(chooser.best, t))'
  <2>1. (chooser.best < chooser.idx)'
    BY <1>4, <1>8, <1>9, SMTT(60)
  <2>2. (chooser.best_score = Score(stat[chooser.best]))'
    BY <1>4, <1>8, <1>9, ZenonT(60)
  <2>3. 1..(chooser'.idx - 1) = 1..i
    BY <1>4, <1>7, ZenonT(60)
  <2>4. \A t \in 1..(chooser'.idx - 1) : Leads(b2, t)'
    BY <1>8, <1>9, <2>3, ZenonT(60)
  <2>5. (\A t \in 1..(chooser.idx - 1) : Leads(chooser.best, t))'
    BY <1>4, <2>4, ZenonT(60) DEF Leads
  <2> QED BY <2>1, <2>2, <2>5, SMTT(60)
<1> QED BY <1>4, <1>7, <1>9, SMTT(60) DEF ScanInv

\* Every step keeps what the scan knows.
LEMMA NextScan ==
    ASSUME Inv, ScanInv, Scored, [Next]_vars
    PROVE  ScanInv'
<1>1. CASE UNCHANGED <<stat, chooser, best_idx, quiet>>
  BY <1>1 DEF ScanInv, Leads
<1>2. CASE quiet' = FALSE /\ UNCHANGED <<chooser, best_idx>>
  BY <1>2 DEF ScanInv
<1>3. ASSUME NEW s \in Servers, ProbeStep(s)
      PROVE  ScanInv'
  <2>1. CASE ProbeDone(s)
    BY <1>2, <2>1, ZenonT(60) DEF ProbeDone, push_score
  <2>2. CASE ProbeLoop(s)
    BY <1>1, <2>2, SMTT(60) DEF ProbeLoop
  <2> QED BY <1>3, <2>1, <2>2, SMTT(60) DEF ProbeStep
<1>4. ASSUME NEW first \in BOOLEAN, StartScan(first), UNCHANGED best_idx
      PROVE  ScanInv'
  <2>1. /\ chooser'.pc = "scan" /\ chooser'.current = best_idx'
        /\ chooser'.idx = 1 /\ chooser'.best_score = -1
    BY <1>4, ScanStarts, ZenonT(60) DEF Inv
  <2> QED BY <2>1 DEF ScanInv
<1>5. CASE CreatorStep
  <2>1. CASE ProbesStarted
    BY <1>1, <2>1, SMTT(60) DEF ProbesStarted
  <2>2. CASE SpawnChooser
    BY <1>4, <2>2, ZenonT(60) DEF SpawnChooser
  <2>3. CASE ChoiceMade
    <3>1. /\ chooser.pc = "barrier" /\ chooser'.pc = "loop"
          /\ UNCHANGED <<stat, best_idx, quiet>>
      BY <2>3 DEF ChoiceMade, Inv, TypeOK, Choosing
    <3> QED BY <3>1 DEF ScanInv, Leads
  <2> QED BY <1>5, <2>1, <2>2, <2>3, SMTT(60) DEF CreatorStep
<1>6. CASE ScanStore
  <2>1. /\ chooser.pc = "store" /\ chooser'.pc \in {"barrier", "loop"}
        /\ UNCHANGED <<stat, quiet>>
    BY <1>6, SMTT(60) DEF ScanStore, Idle
  <2>2. /\ chooser.current = best_idx /\ chooser.idx = NumServers + 1 /\ NumServers \in Nat \ {0}
    BY <2>1, BalancerAssumption DEF ScanInv, Inv, TypeOK, Choosing
  <2>3. best_idx' = chooser.best
    BY <1>6, <2>2 DEF ScanStore
  <2>4. chooser.idx # 1 /\ 1..(chooser.idx - 1) = Servers
    <3>1. NumServers + 1 # 1 /\ (NumServers + 1) - 1 = NumServers
      BY <2>2
    <3> QED BY <2>2, <3>1, ZenonT(60) DEF Servers
  <2>5. quiet => \A t \in Servers : Leads(chooser.best, t)
    BY <2>1, <2>4, ZenonT(60) DEF ScanInv
  <2>6. quiet' => (\A t \in Servers : Leads(best_idx, t))'
    BY <2>1, <2>3, <2>5, SMTT(60) DEF Leads
  <2> QED BY <2>1, <2>6, SMTT(60) DEF ScanInv
<1>7. CASE ChooseLoop
  <2>1. CASE server_running
    BY <1>4, <1>7, <2>1, ZenonT(60) DEF ChooseLoop
  <2>2. CASE ~server_running
    <3>1. chooser'.pc = "exited"
      BY <1>7, <2>2 DEF ChooseLoop, Idle
    <3> QED BY <3>1 DEF ScanInv
  <2> QED BY <2>1, <2>2
<1>8. CASE Stop
  BY <1>1, <1>8, SMTT(60) DEF Stop
<1>9. ASSUME NEW c \in Conns, Accept(c) \/ Connected(c) \/ ConnectFails(c)
      PROVE  ScanInv'
  <2>1. CASE Accept(c) \/ Connected(c)
    BY <1>1, <2>1 DEF Accept, Connected, tasks
  <2>2. CASE ConnectFails(c)
    <3>1. UNCHANGED <<chooser, best_idx>> /\ (quiet' = FALSE \/ UNCHANGED <<stat, quiet>>)
      BY <2>2, Zenon DEF ConnectFails, tasks, push_score
    <3> QED BY <1>1, <1>2, <3>1, ZenonT(60)
  <2> QED BY <1>9, <2>1, <2>2, SMTT(60)
<1>10. CASE UNCHANGED vars
  BY <1>1, <1>10 DEF vars, tasks
<1> QED BY <1>3, <1>5, <1>6, <1>7, <1>8, <1>9, <1>10, ReadKeepsScan, SMTT(60) DEF Next, ChooserStep

\* If no statistic changed since the last scan of recalculate_best_server began,
\* best_idx is the first server with the lowest score.  score() is declared to
\* return a u64, which is the hypothesis.
THEOREM BestIsChosen == Spec /\ []Scored => []ChoiceIsBest
<1>1. Init => ScanInv
  BY DEF Init, Idle, ScanInv
<1>2. Inv /\ ScanInv /\ Scored /\ [Next]_vars => ScanInv'
  BY NextScan
<1>3. Inv /\ ScanInv /\ Scored => ChoiceIsBest
  <2> SUFFICES ASSUME Inv, ScanInv, Scored, chooser.pc \in {"barrier", "loop"}, quiet
               PROVE  best_idx = Best
    BY DEF ChoiceIsBest
  <2>1. best_idx \in Servers /\ \A t \in Servers : Leads(best_idx, t)
    BY DEF Inv, TypeOK, ScanInv
  <2>2. Best \in Servers /\ \A t \in Servers : Leads(Best, t)
    BY <2>1 DEF Best, Leads
  <2>3. Leads(best_idx, Best) /\ Leads(Best, best_idx)
    BY <2>1, <2>2
  <2>4. PICK b, m, n : b = Best /\ m = Score(stat[Best]) /\ n = Score(stat[best_idx])
    OBVIOUS
  <2>5. b \in Nat /\ best_idx \in Nat /\ m \in Nat /\ n \in Nat
    BY <2>1, <2>2, <2>4, SMTT(60) DEF Scored, Servers
  <2>6. (n < m \/ (n = m /\ best_idx <= b)) /\ (m < n \/ (m = n /\ b <= best_idx))
    BY <2>3, <2>4, ZenonT(60) DEF Leads
  <2>7. best_idx = b
    BY <2>5, <2>6
  <2> QED BY <2>4, <2>7
<1> QED BY <1>1, <1>2, <1>3, BalancerInvariant, PTL DEF Spec
=============================================================================

------------------------------ MODULE Manager ------------------------------
(***************************************************************************)
(* The server manager (relay/manager.rs) and the life of the servers it    *)
(* starts (relay/server.rs run_with).  A server runs in a task of its own  *)
(* in the manager's runtime and races with it for the ports: dropping the  *)
(* watcher in the manager's table only tells the task to quit.             *)
(***************************************************************************)
EXTENDS Naturals, Sequences

CONSTANTS
    Ports,
    NoPort,         \* of an instance not started yet
    Configured,     \* ports of the servers in the configuration, in order
    MaxInst,        \* bound: instances started in a behaviour
    MaxFailures     \* bound: running servers that fail

ASSUME ManagerAssumption ==
    /\ NoPort \notin Ports
    /\ Configured \in Seq(Ports)
    /\ MaxInst \in Nat /\ Len(Configured) <= MaxInst
    /\ MaxFailures \in Nat

VARIABLES
    mode,           \* the manager's Mode, given to every server
    booted,         \* how many configured servers were started
    servers,        \* the table: port -> instance, 0 = none
    started,        \* how many instances were started
    port,           \* port of an instance
    pc,             \* the task of an instance
    tcp,            \* an instance holds the TCP listener
    udp,            \* what an instance holds of its UDP socket
    assoc,          \* an instance has UDP associations
    replying,       \* the response task of an instance is sending a reply
    failures        \* running servers that failed

table == <<mode, booted, servers, started, port>>
relays == <<udp, assoc, replying>>
sockets == <<tcp, relays>>
vars == <<table, pc, sockets, failures>>

Ids == 1..MaxInst

Init ==
    /\ mode \in {"tcp_only", "udp_only", "tcp_and_udp"}
    /\ booted = 0
    /\ servers = [p \in Ports |-> 0]
    /\ started = 0
    /\ port = [i \in Ids |-> NoPort]
    /\ pc = [i \in Ids |-> "none"]
    /\ tcp = [i \in Ids |-> FALSE]
    /\ udp = [i \in Ids |-> "unbound"]
    /\ assoc = [i \in Ids |-> FALSE]
    /\ replying = [i \in Ids |-> FALSE]
    /\ failures = 0

enable_tcp == mode # "udp_only"
enable_udp == mode # "tcp_only"
-----------------------------------------------------------------------------
(* The manager *)

\* ServerInstance::start_server: the task is spawned and the instance replaces,
\* and by that drops, whatever the table had under the port.
start_server(p) ==
    LET i == started + 1
    IN  /\ started < MaxInst
        /\ started' = i
        /\ port' = [port EXCEPT ![i] = p]
        /\ pc' = [pc EXCEPT ![i] = "spawned"]
        /\ servers' = [servers EXCEPT ![p] = i]

\* The servers of the configuration are started first ...
Boot ==
    /\ booted < Len(Configured)
    /\ start_server(Configured[booted + 1])
    /\ booted' = booted + 1
    /\ UNCHANGED <<mode, sockets, failures>>

\* ... then commands are served one after the other.
Serving == booted = Len(Configured)

\* "add": the old instance under the port is removed, the new one started, and
\* the client is told "ok" (without waiting for either).
HandleAdd(p) ==
    /\ Serving
    /\ start_server(p)
    /\ UNCHANGED <<mode, booted, sockets, failures>>

HandleRemove(p) ==
    /\ Serving
    /\ servers' = [servers EXCEPT ![p] = 0]
    /\ UNCHANGED <<mode, booted, started, port, pc, sockets, failures>>

\* "list", "ping" and "stat", requests that do not parse and unknown methods
\* change nothing.
-----------------------------------------------------------------------------
(* The task of an instance.  Its first poll runs the server up to both      *)
(* listening sockets before it looks at the watcher.                        *)

Listed(i) == \E p \in Ports : servers[p] = i

TcpFree(p) == \A j \in Ids : tcp[j] => port[j] # p

\* Mutant of UdpFree: the descriptor of a released socket leaks.
UdpFreeLeaks(p) == \A j \in Ids : udp[j] # "unbound" => port[j] # p

\* A socket is open as long as one of its halves is.
UdpFree(p) == \A j \in Ids : udp[j] \in {"open", "loop", "half"} => port[j] # p

\* tcprelay::server::run binds the listener and panics if the port is taken.
BindTcp(i) ==
    /\ pc[i] = "spawned" /\ enable_tcp
    /\ IF TcpFree(port[i])
       THEN /\ tcp' = [tcp EXCEPT ![i] = TRUE]
            /\ pc' = [pc EXCEPT ![i] = IF enable_udp THEN "bind_udp" ELSE "run"]
       ELSE /\ pc' = [pc EXCEPT ![i] = "gone"]
            /\ UNCHANGED tcp
    /\ UNCHANGED <<table, relays, failures>>

\* Mutant of BindUdp: the server goes on without its UDP relay.
BindUdpIgnored(i) ==
    /\ pc[i] = (IF enable_tcp THEN "bind_udp" ELSE "spawned") /\ enable_udp
    /\ udp' = IF UdpFree(port[i]) THEN [udp EXCEPT ![i] = "open"] ELSE udp
    /\ pc' = [pc EXCEPT ![i] = "run"]
    /\ UNCHANGED <<table, tcp, assoc, replying, failures>>

\* Mutant of BindUdp: the server ends only when its watcher is dropped.
BindUdpBlocks(i) ==
    /\ pc[i] = (IF enable_tcp THEN "bind_udp" ELSE "spawned") /\ enable_udp
    /\ UdpFree(port[i])
    /\ udp' = [udp EXCEPT ![i] = "open"]
    /\ pc' = [pc EXCEPT ![i] = "run"]
    /\ UNCHANGED <<table, tcp, assoc, replying, failures>>

\* udprelay::server::run returns an error if the port is taken; select_all then
\* ends run_with, and the TCP listener is dropped with the other futures.
BindUdp(i) ==
    /\ pc[i] = (IF enable_tcp THEN "bind_udp" ELSE "spawned") /\ enable_udp
    /\ IF UdpFree(port[i])
       THEN /\ udp' = [udp EXCEPT ![i] = "open"]
            /\ pc' = [pc EXCEPT ![i] = "run"]
            /\ UNCHANGED tcp
       ELSE /\ tcp' = [tcp EXCEPT ![i] = FALSE]
            /\ pc' = [pc EXCEPT ![i] = "gone"]
            /\ UNCHANGED udp
    /\ UNCHANGED <<table, assoc, replying, failures>>

\* The futures of run_with are dropped: the TCP listener, and the half of the
\* UDP socket that the listening loop owns.
DropServer(i) ==
    /\ pc' = [pc EXCEPT ![i] = "gone"]
    /\ tcp' = [tcp EXCEPT ![i] = FALSE]
    /\ udp' = [udp EXCEPT ![i] = IF @ = "open" THEN "half"
                                 ELSE IF @ = "loop" THEN "closed" ELSE @]
    /\ UNCHANGED <<assoc, replying>>

\* The watcher was dropped and the task looks at it.
Quit(i) ==
    /\ pc[i] = "run" /\ ~Listed(i)
    /\ DropServer(i)
    /\ UNCHANGED <<table, failures>>

\* accept or recv_from fails, or a relay panics; the table keeps the instance.
Fail(i) ==
    /\ pc[i] = "run" /\ failures < MaxFailures
    /\ DropServer(i)
    /\ failures' = failures + 1
    /\ UNCHANGED table
-----------------------------------------------------------------------------
(* The UDP relay of an instance.  UdpServer has it in full; here it is the   *)
(* abstraction UdpServer was shown to implement (UdpPort).  The halves of    *)
(* its socket are held by the listening loop, which is part of the           *)
(* instance's task, and by the response task, which is not.                  *)

UdpAssociate(i) ==
    /\ pc[i] = "run" /\ udp[i] \in {"open", "loop"} /\ ~assoc[i]
    /\ assoc' = [assoc EXCEPT ![i] = TRUE]
    /\ UNCHANGED <<table, pc, tcp, udp, replying, failures>>

\* The associations expired, and something looked at the map: the listening
\* loop or, for a server that is gone, the response task on a late reply.
UdpIdle(i) ==
    /\ assoc[i]
    /\ assoc' = [assoc EXCEPT ![i] = FALSE]
    /\ UNCHANGED <<table, pc, tcp, udp, replying, failures>>

\* The response task takes up a reply, ...
UdpReply(i) ==
    /\ udp[i] \in {"open", "half"} /\ assoc[i] /\ ~replying[i]
    /\ replying' = [replying EXCEPT ![i] = TRUE]
    /\ UNCHANGED <<table, pc, tcp, udp, assoc, failures>>

\* ... sends it, ...
UdpSent(i) ==
    /\ replying[i]
    /\ replying' = [replying EXCEPT ![i] = FALSE]
    /\ UNCHANGED <<table, pc, tcp, udp, assoc, failures>>

\* ... or breaks out of its loop because it cannot: the listening loop goes on
\* without it.
UdpBreak(i) ==
    /\ replying[i]
    /\ replying' = [replying EXCEPT ![i] = FALSE]
    /\ udp' = [udp EXCEPT ![i] = IF @ = "open" THEN "loop" ELSE "closed"]
    /\ UNCHANGED <<table, pc, tcp, assoc, failures>>

\* It ends when the listening loop and every association are gone.
UdpRelease(i) ==
    /\ udp[i] = "half" /\ ~assoc[i] /\ ~replying[i]
    /\ udp' = [udp EXCEPT ![i] = "closed"]
    /\ UNCHANGED <<table, pc, tcp, assoc, replying, failures>>
-----------------------------------------------------------------------------
TaskStep(i) == BindTcp(i) \/ BindUdp(i) \/ Quit(i)
ResponseStep(i) == UdpSent(i) \/ UdpBreak(i) \/ UdpRelease(i)

Next ==
    \/ Boot
    \/ \E p \in Ports : HandleAdd(p) \/ HandleRemove(p)
    \/ \E i \in Ids :
        \/ TaskStep(i) \/ Fail(i)
        \/ UdpAssociate(i) \/ UdpIdle(i) \/ UdpReply(i) \/ ResponseStep(i)

Spec == Init /\ [][Next]_vars

\* The runtime polls every task that is woken; sending a datagram returns, and
\* the response task of an idle relay ends (IdlePortReleased of UdpServer).
\* Nothing is assumed of clients and remotes.
Fairness == \A i \in Ids : WF_vars(TaskStep(i)) /\ WF_vars(ResponseStep(i))

FairSpec == Spec /\ Fairness
-----------------------------------------------------------------------------
(* Properties *)

\* Type invariant.
TypeOK ==
    /\ mode \in {"tcp_only", "udp_only", "tcp_and_udp"}
    /\ booted \in 0..Len(Configured)
    /\ servers \in [Ports -> 0..started]
    /\ started \in 0..MaxInst
    /\ port \in [Ids -> Ports \cup {NoPort}]
    /\ pc \in [Ids -> {"none", "spawned", "bind_udp", "run", "gone"}]
    /\ tcp \in [Ids -> BOOLEAN]
    /\ udp \in [Ids -> {"unbound", "open", "loop", "half", "closed"}]
    /\ assoc \in [Ids -> BOOLEAN] /\ replying \in [Ids -> BOOLEAN]
    /\ failures \in Nat

\* The listening loop of an instance is there.
Listens(i) == udp[i] \in {"open", "loop"}

\* A server that runs has every socket its mode asks for, and a server that
\* stopped, at whichever bind, on a failure or because it was removed, has no
\* TCP listener and no listening loop left (run_with ends when one of its
\* futures does, and drops the others).
AllOrNothing ==
    \A i \in Ids :
        /\ pc[i] = "run" => tcp[i] = enable_tcp /\ Listens(i) = enable_udp
        /\ pc[i] \in {"none", "spawned", "gone"} => ~tcp[i] /\ ~Listens(i)

\* No two instances share a port, whatever the order in which old ones quit and
\* new ones bind.
ExclusivePorts ==
    \A i, j \in Ids : i # j /\ port[i] = port[j] =>
        /\ ~(tcp[i] /\ tcp[j])
        /\ ~(udp[i] \in {"open", "loop", "half"} /\ udp[j] \in {"open", "loop", "half"})

\* The table has, under a port, the instance started last on it: the watcher of
\* every older one was dropped ("Close it first").
TableHasNewest ==
    \A p \in Ports : servers[p] # 0 =>
        /\ port[servers[p]] = p
        /\ \A j \in Ids : port[j] = p => j <= servers[p]

\* An instance removed from the table or replaced in it stops and gives back its
\* TCP port ("dropping watcher_tx will inform server task to quit"), even if its
\* task had not run when it was removed.
RemovedServerStops ==
    \A i \in Ids : (pc[i] # "none" /\ ~Listed(i)) ~> (pc[i] = "gone" /\ ~tcp[i])

\* The port has no other user: the older instances on it are gone.
OnlyUser(i) ==
    \A j \in Ids \ {i} : port[j] = port[i] => pc[j] = "gone" /\ udp[j] \in {"unbound", "closed"}

\* "add" on a port no earlier instance still uses starts a server.
FreshAddRuns ==
    \A i \in Ids : (pc[i] = "spawned" /\ Listed(i) /\ OnlyUser(i)) ~> (pc[i] = "run" \/ ~Listed(i))

\* "add" starts a server, replacing the one on its port if there is one
\* ("`add` - Starts a server instance", "Close it first").
AddedServerRuns ==
    \A i \in Ids : (pc[i] = "spawned" /\ Listed(i)) ~> (pc[i] = "run" \/ ~Listed(i))

\* The inductive invariant behind the safety properties: instances are numbered
\* in the order they were started, and where a task is determines what it holds.
ManagerInv ==
    /\ \A i \in Ids :
        /\ started < i => port[i] = NoPort /\ pc[i] = "none"
        /\ i <= started => port[i] \in Ports
        /\ pc[i] \in {"none", "spawned", "bind_udp"} => udp[i] = "unbound"
        /\ pc[i] = "bind_udp" => tcp[i]
        /\ replying[i] => udp[i] \in {"open", "half"}
    /\ AllOrNothing
    /\ ExclusivePorts
    /\ TableHasNewest
=============================================================================

--------------------------- MODULE ManagerProofs ---------------------------
(***************************************************************************)
(* For any ports, configuration and number of instances and failures: what *)
(* the manager's servers hold, and which of them the table has.            *)
(***************************************************************************)
EXTENDS Manager, TLAPS

Inv == TypeOK /\ ManagerInv

\* Init establishes the invariant.
LEMMA InitInv == Init => Inv
<1> SUFFICES ASSUME Init PROVE Inv
  OBVIOUS
<1>1. TypeOK
  BY ManagerAssumption DEF Init, TypeOK, Ids
<1>2. ManagerInv
  BY ManagerAssumption
  DEF Init, ManagerInv, AllOrNothing, Listens, ExclusivePorts, TableHasNewest, Ids, enable_tcp, enable_udp
<1> QED BY <1>1, <1>2 DEF Inv

\* The manager starts a server, at boot or on "add".
LEMMA StartInv ==
    ASSUME Inv, NEW p \in Ports, start_server(p),
           UNCHANGED <<mode, tcp, udp, assoc, replying, failures>>,
           booted' \in 0..Len(Configured)
    PROVE  Inv'
<1> USE ManagerAssumption
<1> DEFINE n == started + 1
<1>1. /\ n \in Ids /\ started \in Nat /\ pc[n] = "none" /\ udp[n] = "unbound" /\ ~tcp[n]
      /\ \A j \in Ids : port[j] \in Ports => j <= started
  BY DEF Inv, TypeOK, ManagerInv, AllOrNothing, start_server, Ids
<1>2. /\ started' = n /\ port'[n] = p /\ pc'[n] = "spawned" /\ servers'[p] = n
      /\ \A j \in Ids \ {n} : port'[j] = port[j] /\ pc'[j] = pc[j]
      /\ \A q \in Ports \ {p} : servers'[q] = servers[q]
  BY <1>1 DEF Inv, TypeOK, start_server
<1>3. TypeOK'
  <2>1. servers' \in [Ports -> 0..started'] /\ started' \in 0..MaxInst
    BY <1>1 DEF Inv, TypeOK, start_server, Ids
  <2> QED BY <1>1, <2>1 DEF Inv, TypeOK, start_server
<1>4. AllOrNothing'
  BY <1>1, <1>2 DEF Inv, ManagerInv, AllOrNothing, Listens, enable_tcp, enable_udp
<1>5. ExclusivePorts'
  BY <1>1, <1>2 DEF Inv, ManagerInv, ExclusivePorts
<1>6. TableHasNewest'
  <2> SUFFICES ASSUME NEW q \in Ports, servers'[q] # 0
               PROVE  /\ port'[servers'[q]] = q
                      /\ \A j \in Ids : port'[j] = q => j <= servers'[q]
    BY DEF TableHasNewest
  <2>1. CASE q = p
    BY <1>1, <1>2, <2>1 DEF Inv, ManagerInv, Ids
  <2>2. CASE q # p
    <3>1. servers[q] \in 1..started /\ servers[q] \in Ids \ {n} /\ servers'[q] = servers[q]
      BY <1>1, <1>2, <2>2 DEF Inv, TypeOK, Ids
    <3>2. /\ port[servers[q]] = q
          /\ \A j \in Ids : port[j] = q => j <= servers[q]
      BY <3>1 DEF Inv, ManagerInv, TableHasNewest
    <3> QED BY <1>2, <2>2, <3>1, <3>2
  <2> QED BY <2>1, <2>2
<1>7. \A i \in Ids :
        /\ started' < i => port'[i] = NoPort /\ pc'[i] = "none"
        /\ i <= started' => port'[i] \in Ports
        /\ pc'[i] \in {"none", "spawned", "bind_udp"} => udp'[i] = "unbound"
        /\ pc'[i] = "bind_udp" => tcp'[i]
        /\ replying'[i] => udp'[i] \in {"open", "half"}
  <2> SUFFICES ASSUME NEW i \in Ids
               PROVE  /\ started' < i => port'[i] = NoPort /\ pc'[i] = "none"
                      /\ i <= started' => port'[i] \in Ports
                      /\ pc'[i] \in {"none", "spawned", "bind_udp"} => udp'[i] = "unbound"
                      /\ pc'[i] = "bind_udp" => tcp'[i]
                      /\ replying'[i] => udp'[i] \in {"open", "half"}
    OBVIOUS
  <2>1. CASE i = n
    BY <1>1, <1>2, <2>1 DEF Inv, ManagerInv, Ids
  <2>2. CASE i # n
    <3>1. (started' < i => started < i) /\ (i <= started' => i <= started)
      BY <1>1, <1>2, <2>2 DEF Ids
    <3> QED BY <1>2, <2>2, <3>1 DEF Inv, ManagerInv
  <2> QED BY <2>1, <2>2
<1> QED BY <1>3, <1>4, <1>5, <1>6, <1>7 DEF Inv, ManagerInv

\* "remove" takes an instance out of the table; nothing else changes.
LEMMA RemoveInv ==
    ASSUME Inv, NEW p \in Ports, HandleRemove(p)
    PROVE  Inv'
<1>1. /\ UNCHANGED <<mode, booted, started, port, pc, tcp, udp, assoc, replying, failures>>
      /\ servers' = [servers EXCEPT ![p] = 0]
  BY DEF HandleRemove, sockets, relays
<1>2. TypeOK'
  BY <1>1, ManagerAssumption DEF Inv, TypeOK
<1>3. TableHasNewest'
  BY <1>1 DEF Inv, TypeOK, ManagerInv, TableHasNewest
<1> QED
  BY <1>1, <1>2, <1>3
  DEF Inv, ManagerInv, AllOrNothing, Listens, ExclusivePorts, enable_tcp, enable_udp

\* The task of an instance binds a socket only if nobody has the port.
LEMMA BindTcpInv ==
    ASSUME Inv, NEW i \in Ids, BindTcp(i)
    PROVE  Inv'
<1>1. /\ UNCHANGED <<mode, booted, servers, started, port, udp, assoc, replying, failures>>
      /\ pc[i] = "spawned" /\ enable_tcp
  BY DEF BindTcp, table, relays
<1>2. \/ /\ TcpFree(port[i]) /\ tcp' = [tcp EXCEPT ![i] = TRUE]
         /\ pc' = [pc EXCEPT ![i] = IF enable_udp THEN "bind_udp" ELSE "run"]
      \/ pc' = [pc EXCEPT ![i] = "gone"] /\ tcp' = tcp
  BY DEF BindTcp
<1>3. TypeOK'
  BY <1>1, <1>2, ZenonT(60) DEF Inv, TypeOK
<1>4. ExclusivePorts'
  BY <1>1, <1>2 DEF Inv, TypeOK, ManagerInv, ExclusivePorts, TcpFree
<1>5. AllOrNothing'
  <2> DEFINE P(k) ==
        /\ pc'[k] = "run" => tcp'[k] = enable_tcp /\ Listens(k) = enable_udp
        /\ pc'[k] \in {"none", "spawned", "gone"} => ~tcp'[k] /\ ~Listens(k)
  <2>1. ASSUME NEW k \in Ids, k # i PROVE P(k)
    <3>1. pc'[k] = pc[k] /\ tcp'[k] = tcp[k]
      BY <1>2, <2>1 DEF Inv, TypeOK
    <3> QED BY <3>1 DEF Inv, ManagerInv, AllOrNothing
  <2>2. P(i)
    <3>1. ~Listens(i) /\ ~tcp[i]
      BY <1>1, ZenonT(60) DEF Inv, ManagerInv, AllOrNothing
    <3>2. CASE tcp'[i] = TRUE /\ pc'[i] = (IF enable_udp THEN "bind_udp" ELSE "run")
      <4>1. CASE enable_udp
        BY <3>2, <4>1
      <4>2. CASE ~enable_udp
        <5>1. tcp'[i] = enable_tcp
          BY <1>1, <3>2, Zenon DEF enable_tcp
        <5>2. Listens(i) = enable_udp
          BY <3>1, <4>2, SMT DEF Listens, enable_udp
        <5> QED BY <3>2, <4>2, <5>1, <5>2
      <4> QED BY <4>1, <4>2
    <3>3. CASE pc'[i] = "gone" /\ tcp'[i] = tcp[i]
      BY <3>1, <3>3
    <3> QED BY <1>2, <3>2, <3>3, ZenonT(60) DEF Inv, TypeOK
  <2> QED BY <1>1, <2>1, <2>2 DEF AllOrNothing, Listens, enable_tcp, enable_udp
<1>6. TableHasNewest'
  BY <1>1 DEF Inv, ManagerInv, TableHasNewest
<1>7. ~(started < i)
  BY <1>1 DEF Inv, ManagerInv
<1> QED BY <1>1, <1>2, <1>3, <1>4, <1>5, <1>6, <1>7 DEF Inv, TypeOK, ManagerInv

\* The same for the UDP socket, whose failure closes the TCP listener.
LEMMA BindUdpInv ==
    ASSUME Inv, NEW i \in Ids, BindUdp(i)
    PROVE  Inv'
<1>1. /\ UNCHANGED <<mode, booted, servers, started, port, assoc, replying, failures>>
      /\ pc[i] = (IF enable_tcp THEN "bind_udp" ELSE "spawned") /\ enable_udp
  BY DEF BindUdp, table
<1>2. \/ /\ UdpFree(port[i]) /\ udp' = [udp EXCEPT ![i] = "open"]
         /\ pc' = [pc EXCEPT ![i] = "run"] /\ tcp' = tcp
      \/ pc' = [pc EXCEPT ![i] = "gone"] /\ tcp' = [tcp EXCEPT ![i] = FALSE] /\ udp' = udp
  BY DEF BindUdp
<1>3. TypeOK'
  BY <1>1, <1>2, ZenonT(60) DEF Inv, TypeOK
<1>4. ExclusivePorts'
  BY <1>1, <1>2 DEF Inv, TypeOK, ManagerInv, ExclusivePorts, UdpFree
<1>5. AllOrNothing'
  BY <1>1, <1>2 DEF Inv, TypeOK, ManagerInv, AllOrNothing, Listens, enable_tcp, enable_udp
<1>6. TableHasNewest'
  BY <1>1 DEF Inv, ManagerInv, TableHasNewest
<1>7. ~(started < i)
  BY <1>1 DEF Inv, ManagerInv
<1> QED BY <1>1, <1>2, <1>3, <1>4, <1>5, <1>6, <1>7 DEF Inv, TypeOK, ManagerInv

\* A server that runs is dropped.
LEMMA DropInv ==
    ASSUME Inv, NEW i \in Ids, pc[i] = "run", DropServer(i),
           UNCHANGED table, failures' \in Nat
    PROVE  Inv'
<1>1. /\ UNCHANGED <<mode, booted, servers, started, port, assoc, replying>>
      /\ pc' = [pc EXCEPT ![i] = "gone"] /\ tcp' = [tcp EXCEPT ![i] = FALSE]
      /\ udp' = [udp EXCEPT ![i] = IF udp[i] = "open" THEN "half"
                                   ELSE IF udp[i] = "loop" THEN "closed" ELSE udp[i]]
  BY DEF DropServer, table
<1>2. TypeOK'
  BY <1>1 DEF Inv, TypeOK
<1>3. ExclusivePorts'
  BY <1>1 DEF Inv, TypeOK, ManagerInv, ExclusivePorts
<1>4. AllOrNothing'
  BY <1>1 DEF Inv, TypeOK, ManagerInv, AllOrNothing, Listens, enable_tcp, enable_udp
<1>5. TableHasNewest'
  BY <1>1 DEF Inv, ManagerInv, TableHasNewest
<1>6. ~(started < i)
  BY DEF Inv, ManagerInv
<1> QED BY <1>1, <1>2, <1>3, <1>4, <1>5, <1>6 DEF Inv, TypeOK, ManagerInv

\* The UDP relay of an instance never opens a socket.
LEMMA RelayInv ==
    ASSUME Inv, NEW i \in Ids,
           UdpAssociate(i) \/ UdpIdle(i) \/ UdpReply(i) \/ ResponseStep(i)
    PROVE  Inv'
<1> USE DEF ResponseStep, UdpAssociate, UdpIdle, UdpReply, UdpSent, UdpBreak, UdpRelease
<1>1. /\ UNCHANGED <<mode, booted, servers, started, port, pc, tcp, failures>>
      /\ \/ udp' = udp
         \/ udp' = [udp EXCEPT ![i] = "closed"] /\ udp[i] = "half"
         \/ udp' = [udp EXCEPT ![i] = "loop"] /\ udp[i] = "open"
  BY DEF Inv, ManagerInv, table
<1>2. assoc' \in [Ids -> BOOLEAN] /\ replying' \in [Ids -> BOOLEAN]
  BY ZenonT(60) DEF Inv, TypeOK
<1>3. TypeOK'
  BY <1>1, <1>2 DEF Inv, TypeOK
<1>8. \A k \in Ids : replying'[k] => udp'[k] \in {"open", "half"}
  BY DEF Inv, TypeOK, ManagerInv
<1>4. ExclusivePorts'
  BY <1>1 DEF Inv, TypeOK, ManagerInv, ExclusivePorts
<1>5. AllOrNothing'
  BY <1>1 DEF Inv, TypeOK, ManagerInv, AllOrNothing, Listens, enable_tcp, enable_udp
<1>6. TableHasNewest'
  BY <1>1 DEF Inv, ManagerInv, TableHasNewest
<1> QED BY <1>1, <1>3, <1>4, <1>5, <1>6, <1>8 DEF Inv, TypeOK, ManagerInv

\* Every step preserves the invariant.
LEMMA NextInv == Inv /\ [Next]_vars => Inv'
<1> SUFFICES ASSUME Inv, [Next]_vars PROVE Inv'
  OBVIOUS
<1>1. CASE UNCHANGED vars
  BY <1>1
  DEF Inv, TypeOK, ManagerInv, AllOrNothing, Listens, ExclusivePorts, TableHasNewest,
      enable_tcp, enable_udp, vars, table, sockets, relays
<1>2. CASE Boot
  <2>1. /\ Configured[booted + 1] \in Ports /\ start_server(Configured[booted + 1])
        /\ booted' \in 0..Len(Configured)
    BY <1>2, ManagerAssumption DEF Inv, TypeOK, Boot
  <2> QED BY <1>2, <2>1, StartInv DEF Boot, sockets, relays
<1>3. ASSUME NEW p \in Ports, HandleAdd(p) PROVE Inv'
  <2>1. start_server(p) /\ booted' \in 0..Len(Configured)
    BY <1>3 DEF Inv, TypeOK, HandleAdd
  <2> QED BY <1>3, <2>1, StartInv DEF HandleAdd, sockets, relays
<1>4. ASSUME NEW i \in Ids, Quit(i) \/ Fail(i) PROVE Inv'
  <2>1. pc[i] = "run" /\ DropServer(i) /\ UNCHANGED table /\ failures' \in Nat
    BY <1>4 DEF Inv, TypeOK, Quit, Fail
  <2> QED BY <2>1, DropInv
<1> QED
  BY <1>1, <1>2, <1>3, <1>4, RemoveInv, BindTcpInv, BindUdpInv, RelayInv DEF Next, TaskStep

\* The manager and its servers keep the invariant ManagerInv.
THEOREM ManagerInvariant == Spec => [](TypeOK /\ ManagerInv)
<1>1. Spec => []Inv
  BY InitInv, NextInv, PTL DEF Spec
<1> QED BY <1>1, PTL DEF Inv

\* A server has all of its sockets or none, on every path by which it ends.
THEOREM ServersAllOrNothing == Spec => []AllOrNothing
<1>1. ManagerInv => AllOrNothing
  BY DEF ManagerInv
<1> QED BY <1>1, ManagerInvariant, PTL

\* Two instances never share a port.
THEOREM PortsAreExclusive == Spec => []ExclusivePorts
<1>1. ManagerInv => ExclusivePorts
  BY DEF ManagerInv
<1> QED BY <1>1, ManagerInvariant, PTL

\* The table has the instance started last on a port.
THEOREM NewestIsListed == Spec => []TableHasNewest
<1>1. ManagerInv => TableHasNewest
  BY DEF ManagerInv
<1> QED BY <1>1, ManagerInvariant, PTL
=============================================================================

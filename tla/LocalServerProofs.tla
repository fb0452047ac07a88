------------------------- MODULE LocalServerProofs -------------------------
(***************************************************************************)
(* Proofs about the local server at work, for every configuration, every   *)
(* ACL and every set of addresses: what the server refuses to connect to   *)
(* is never reached, connections are routed as the ACL says, and the DNS   *)
(* relay has recorded the addresses that it replies with.                  *)
(***************************************************************************)
EXTENDS LocalServer, WellFoundedInduction, TLAPS

-----------------------------------------------------------------------------
(* Which step changes what *)

\* No step changes the configuration.
LEMMA ConfigStays == Next => UNCHANGED config
<1> SUFFICES ASSUME Next PROVE UNCHANGED config
  OBVIOUS
<1>1. CASE Launch
  BY <1>1, SMTT(60) DEF Launch, run_local, run_with, check_plugins_started, PluginListens, PluginWatched
<1>2. CASE Fails
  BY <1>2, SMTT(60) DEF Fails, PluginExits, RelayEnds
<1>3. CASE Dns
  BY <1>3, ZenonT(60) DEF Dns, DnsStep, DnsRecv, udp_lookup, socks5_lookup, acl_lookup, DnsRecord
<1>4. CASE DnsPanics
  BY <1>4, SMTT(60) DEF DnsPanics, socks5_lookup_panics, RelayEnds
<1>5. CASE \E t \in Tasks : Ask(t)
  BY <1>5, ZenonT(60) DEF Ask, AskStep, add_to_reverse_lookup_cache, AskCache, AskReverse, AskRules
<1>6. CASE LocalStep
  <2>1. CASE LocalAccept \/ LocalHello \/ LocalRequest \/ LocalHolds \/ LocalRoute
    BY <2>1 DEF LocalAccept, Socks5Accept, TunnelAccept, RedirAccept, LocalAccepts, LocalHello, LocalRequest, LocalHolds, LocalRoute
  <2>2. CASE LocalConnectDirect \/ LocalConnectProxied \/ LocalHandshake
    BY <2>2, SMTT(60) DEF LocalConnectDirect, LocalConnectProxied, LocalHandshake
  <2>3. CASE Socks5Relay \/ TunnelRelay \/ RedirRelay \/ ConnectRelay \/ LocalTimeout \/ LocalGone
    BY <2>3, ZenonT(60) DEF Socks5Relay, TunnelRelay, RedirRelay, ConnectRelay, RelayPoll, LocalTimeout, LocalGone
  <2> QED BY <1>6, <2>1, <2>2, <2>3 DEF LocalStep
<1>7. CASE ServerStep
  BY <1>7, ZenonT(60) DEF ServerStep, ServerAccept, ServerAddress, ServerConnect, ServerPoll, ServerTimeout, ServerGone
<1>8. CASE PeerStep \/ PeerChoice
  BY <1>8, ZenonT(60) DEF PeerStep, PeerChoice, ClientRequest, ClientConnected, ClientReads, ClientHangsUp, Arrive, TargetReads,
       TargetHangsUp, ClientConnects, ClientHello, ClientWrites, ClientFinishes, ClientLeaves, TargetWrites,
       TargetFinishes, TargetLeaves
<1>9. CASE HttpStep \/ HttpForgets \/ HttpClientSends \/ HttpClientGets
  BY <1>9, Zenon DEF HttpStep, HttpAccept, LocalAccepts, HttpDispatch, HttpRoute, HttpSend, HttpRespond, HttpEof, HttpForgets,
       HttpClientSends, HttpClientGets
<1> QED BY <1>1, <1>2, <1>3, <1>4, <1>5, <1>6, <1>7, <1>8, <1>9, SMTT(60) DEF Next

\* Only its own task changes what the server has of a connection.
LEMMA ServerAlone == Next => UNCHANGED server \/ ServerStep
<1> SUFFICES ASSUME Next PROVE UNCHANGED server \/ ServerStep
  OBVIOUS
<1>1. CASE Launch \/ Fails \/ Dns \/ DnsPanics \/ \E t \in Tasks : Ask(t)
  BY <1>1, SMTT(60) DEF Launch, Fails, Dns, DnsPanics, Ask, tunnel
<1>2. CASE LocalStep
  <2>1. CASE LocalAccept \/ LocalHello \/ LocalRequest \/ LocalHolds \/ LocalRoute
    BY <2>1, SMTT(60) DEF LocalAccept, Socks5Accept, TunnelAccept, RedirAccept, LocalAccepts, LocalHello, LocalRequest, LocalHolds, LocalRoute
  <2>2. CASE LocalConnectDirect \/ LocalConnectProxied \/ LocalHandshake
    BY <2>2, SMTT(60) DEF LocalConnectDirect, LocalConnectProxied, LocalHandshake
  <2>3. CASE Socks5Relay \/ TunnelRelay \/ RedirRelay \/ ConnectRelay \/ LocalTimeout \/ LocalGone
    BY <2>3, ZenonT(60) DEF Socks5Relay, TunnelRelay, RedirRelay, ConnectRelay, RelayPoll, LocalTimeout, LocalGone
  <2> QED BY <1>2, <2>1, <2>2, <2>3, SMTT(60) DEF LocalStep
<1>3. CASE PeerStep \/ PeerChoice
  BY <1>3, ZenonT(60) DEF PeerStep, PeerChoice, ClientRequest, ClientConnected, ClientReads, ClientHangsUp, Arrive, TargetReads,
       TargetHangsUp, ClientConnects, ClientHello, ClientWrites, ClientFinishes, ClientLeaves, TargetWrites,
       TargetFinishes, TargetLeaves
<1>4. CASE HttpStep \/ HttpForgets \/ HttpClientSends \/ HttpClientGets
  BY <1>4, Zenon DEF HttpStep, HttpAccept, LocalAccepts, HttpDispatch, HttpRoute, HttpSend, HttpRespond, HttpEof, HttpForgets,
       HttpClientSends, HttpClientGets, tunnel
<1> QED BY <1>1, <1>2, <1>3, <1>4, SMTT(60) DEF Next
-----------------------------------------------------------------------------
(* What the server is not to connect to *)

\* From the address on, what the server was asked for is not blocked; a name that
\* is not may still have addresses that are.
BlockInv ==
    /\ DOMAIN server = {"pc", "addr", "ip", "timer"}
    /\ server.pc \in {"connect", "relay"} =>
           \A a \in config.server_acl : ~check_address_matched(outbound_block(a), server.addr)
    /\ server.pc = "relay" => \A a \in config.server_acl : server.ip \notin outbound_block(a).ip

LEMMA ServerStepBlocks ==
    ASSUME BlockInv, ServerStep, UNCHANGED config
    PROVE  BlockInv'
<1>1. ASSUME NEW n, ServerEnds(n) PROVE BlockInv'
  BY <1>1, SMTT(60) DEF BlockInv, ServerEnds
<1>2. CASE ServerAccept
  <2>1. \/ ServerEnds(net)
        \/ server' = [server EXCEPT !.pc = "address", !.timer = "armed"]
    BY <1>2 DEF ServerAccept
  <2> QED BY <1>1, <2>1, Zenon DEF BlockInv
<1>3. CASE ServerAddress
  <2>1. PICK r : r = read_address(net["proxy"].up)
    OBVIOUS
  <2>2. \/ \E n : ServerEnds(n)
        \/ /\ \A a \in config.server_acl : ~check_outbound_blocked(a, r.value)
           /\ server' = [server EXCEPT !.pc = "connect", !.addr = r.value, !.timer = "none"]
    BY <1>3, <2>1, Zenon DEF ServerAddress
  <2> QED BY <1>1, <2>2, ZenonT(60) DEF BlockInv, check_outbound_blocked
<1>4. CASE ServerConnect
  <2>1. CASE ServerEnds(net)
    BY <1>1, <2>1, SMTT(60)
  <2>2. ASSUME NEW ips \in AddressesOf(server.addr), NEW ip \in lookup_outbound_then(server.addr, ips),
               server' = [server EXCEPT !.pc = "relay", !.ip = ip, !.timer = "new"]
        PROVE  BlockInv'
    <3>1. \A a \in config.server_acl : ~check_address_matched(outbound_block(a), server.addr)
      BY <1>4, ZenonT(60) DEF BlockInv, ServerConnect
    <3>2. ASSUME NEW a \in config.server_acl PROVE ip \notin outbound_block(a).ip
      <4>1. PICK j \in DOMAIN ips : /\ ip = ips[j]
                                    /\ server.addr.type = "name" => ~check_resolved_outbound_blocked(a, ips[j])
        BY ZenonT(60) DEF lookup_outbound_then
      <4>2. CASE server.addr.type = "name"
        BY <4>1, <4>2, SMTT(60) DEF check_resolved_outbound_blocked
      <4>3. CASE server.addr.type # "name"
        <5>1. ips = <<server.addr.ip>>
          BY <4>3, SMTT(60) DEF AddressesOf
        <5>2. ip = server.addr.ip
          BY <4>1, <5>1, SMTT(60)
        <5> QED BY <3>1, <4>3, <5>2, SMTT(60) DEF check_address_matched
      <4> QED BY <4>2, <4>3, SMTT(60)
    <3>3. /\ DOMAIN server' = DOMAIN server /\ server'.pc = "relay" /\ server'.addr = server.addr /\ server'.ip = ip
      BY <2>2, SMTT(60) DEF BlockInv
    <3> QED BY <3>1, <3>2, <3>3, SMTT(60) DEF BlockInv
  <2> QED BY <1>4, <2>1, <2>2, ZenonT(60) DEF ServerConnect
<1>5. CASE ServerPoll
  <2>1. \/ \E n : ServerEnds(n)
        \/ \E timer : server' = [server EXCEPT !.timer = timer]
    BY <1>5, ZenonT(60) DEF ServerPoll
  <2> QED BY <1>1, <2>1, SMTT(60) DEF BlockInv
<1>6. CASE ServerTimeout \/ ServerGone
  BY <1>1, <1>6, SMTT(60) DEF ServerTimeout, ServerGone
<1> QED BY <1>2, <1>3, <1>4, <1>5, <1>6, SMTT(60) DEF ServerStep

\* The server never has a connection to an address that its outbound_block_list
\* contains, asked for as such or reached through a name, whatever the list and
\* whatever the name resolves to.
THEOREM BlockedIsNotReached == Spec => []BlockedNeverReached
<1>1. Init => BlockInv
  BY DEF Init, TunnelInit, BlockInv
<1>2. BlockInv /\ [Next]_vars => BlockInv'
  <2>1. BlockInv /\ UNCHANGED vars => BlockInv'
    BY DEF BlockInv, vars, tunnel
  <2>2. BlockInv /\ Next => BlockInv'
    <3> SUFFICES ASSUME BlockInv, Next PROVE BlockInv'
      OBVIOUS
    <3>1. UNCHANGED config /\ (UNCHANGED server \/ ServerStep)
      BY ConfigStays, ServerAlone, SMTT(60)
    <3>2. CASE UNCHANGED server
      BY <3>1, <3>2, SMTT(60) DEF BlockInv
    <3> QED BY <3>1, <3>2, ServerStepBlocks, SMTT(60)
  <2> QED BY <2>1, <2>2, SMTT(60)
<1>3. BlockInv => BlockedNeverReached
  BY SMTT(60) DEF BlockInv, BlockedNeverReached
<1> QED BY <1>1, <1>2, <1>3, PTL DEF Spec

-----------------------------------------------------------------------------
(* The DNS relay and the reverse lookup cache *)

Asking == {"pc", "addr", "name", "answer", "seen"}

\* A step of a connection leaves the cache and the relay alone, and puts or takes
\* back at most its own question.
AsksOnly ==
    /\ UNCHANGED <<reverse_lookup_cache, holder, recorded, relay>>
    /\ \/ UNCHANGED ask
       \/ /\ DOMAIN ask' = Tasks /\ ask'["dns"] = ask["dns"]
          /\ DOMAIN ask'["conn"] = Asking
          /\ ask'["conn"].pc \in {"none", "done", "rules", "lock"}

LEMMA QuestionFacts ==
    ASSUME NEW addr
    PROVE  /\ Question(addr).pc \in {"done", "rules", "lock"} /\ Question(addr).addr = addr
           /\ Question(addr).name = NoName /\ Question(addr).answer = FALSE
           /\ DOMAIN Question(addr) = Asking
           /\ NoQuestion.pc = "none" /\ DOMAIN NoQuestion = Asking
BY DEF Question, NoQuestion, Asking

LEMMA OthersAsk ==
    ASSUME Next, DOMAIN ask = Tasks
    PROVE  AsksOnly \/ Dns \/ DnsPanics \/ \E t \in Tasks : Ask(t)
<1>1. CASE Launch \/ Fails
  BY <1>1, SMTT(60) DEF Launch, Fails, context, relay, AsksOnly
<1>2. ASSUME UNCHANGED <<context, relay>> PROVE AsksOnly
  BY <1>2, SMTT(60) DEF context, AsksOnly
<1>0. NoQuestion.pc \in {"none", "done", "rules", "lock"} /\ DOMAIN NoQuestion = Asking
  BY SMTT(60) DEF NoQuestion, Asking
<1>3. ASSUME NEW addr, NEW pc, LocalAsks(addr, pc), UNCHANGED <<reverse_lookup_cache, holder, recorded, relay>> PROVE AsksOnly
  <2>1. Question(addr).pc \in {"none", "done", "rules", "lock"} /\ DOMAIN Question(addr) = Asking
    BY QuestionFacts, ZenonT(60)
  <2>2. ask' = [ask EXCEPT !["conn"] = Question(addr)]
    BY <1>3 DEF LocalAsks
  <2> QED BY <1>3, <2>1, <2>2, SMTT(60) DEF AsksOnly, Tasks
<1>4. CASE (LocalStep \/ ServerStep \/ PeerStep \/ PeerChoice) /\ UNCHANGED <<http, relay>>
  <2>1. CASE LocalAccept
    <3>1. CASE Socks5Accept \/ TunnelAccept
      BY <1>4, <3>1, SMTT(60) DEF Socks5Accept, TunnelAccept, LocalAccepts, AsksOnly
    <3>2. CASE RedirAccept
      BY <1>3, <1>4, <3>2, SMTT(60) DEF RedirAccept, LocalAccepts
    <3> QED BY <2>1, <3>1, <3>2, SMTT(60) DEF LocalAccept
  <2>2. CASE LocalRequest
    <3>1. UNCHANGED ask \/ \E addr, pc : LocalAsks(addr, pc)
      BY <2>2, ZenonT(60) DEF LocalRequest
    <3>2. UNCHANGED <<reverse_lookup_cache, holder, recorded, relay>>
      BY <1>4, <2>2, SMTT(60) DEF LocalRequest
    <3> QED BY <1>3, <3>1, <3>2, SMTT(60) DEF AsksOnly
  <2>3. CASE LocalRoute
    <3>1. ask' = [ask EXCEPT !["conn"] = NoQuestion] /\ UNCHANGED <<reverse_lookup_cache, holder, recorded, relay>>
      BY <1>4, <2>3, SMTT(60) DEF LocalRoute
    <3> QED BY <1>0, <3>1, SMTT(60) DEF AsksOnly, Tasks
  <2>4. CASE LocalHello \/ LocalHolds \/ LocalConnectDirect \/ LocalConnectProxied \/ LocalHandshake
    BY <1>2, <1>4, <2>4, SMTT(60) DEF LocalHello, LocalHolds, LocalConnectDirect, LocalConnectProxied, LocalHandshake
  <2>5. CASE Socks5Relay \/ TunnelRelay \/ RedirRelay \/ ConnectRelay \/ LocalTimeout \/ LocalGone
    BY <1>2, <1>4, <2>5, ZenonT(60) DEF Socks5Relay, TunnelRelay, RedirRelay, ConnectRelay, RelayPoll, LocalTimeout, LocalGone
  <2>6. CASE ServerStep
    BY <1>2, <1>4, <2>6, ZenonT(60) DEF ServerStep, ServerAccept, ServerAddress, ServerConnect, ServerPoll, ServerTimeout, ServerGone
  <2>7. CASE PeerStep \/ PeerChoice
    BY <1>2, <1>4, <2>7, ZenonT(60) DEF PeerStep, PeerChoice, ClientRequest, ClientConnected, ClientReads, ClientHangsUp, Arrive,
         TargetReads, TargetHangsUp, ClientConnects, ClientHello, ClientWrites, ClientFinishes, ClientLeaves,
         TargetWrites, TargetFinishes, TargetLeaves
  <2> QED BY <1>4, <2>1, <2>2, <2>3, <2>4, <2>5, <2>6, <2>7 DEF LocalStep
<1>5. CASE (HttpStep \/ HttpForgets \/ HttpClientSends \/ HttpClientGets) /\ UNCHANGED relay
  <2>1. CASE HttpAccept
    BY <1>5, <2>1, SMTT(60) DEF HttpAccept, LocalAccepts, AsksOnly
  <2>2. CASE HttpDispatch
    <3>1. UNCHANGED ask \/ \E addr, pc : LocalAsks(addr, pc)
      BY <2>2, ZenonT(60) DEF HttpDispatch
    <3>2. UNCHANGED <<reverse_lookup_cache, holder, recorded, relay>>
      BY <1>5, <2>2, SMTT(60) DEF HttpDispatch
    <3> QED BY <1>3, <3>1, <3>2 DEF AsksOnly
  <2>3. CASE HttpRoute
    <3>1. ask' = [ask EXCEPT !["conn"] = NoQuestion] /\ UNCHANGED <<reverse_lookup_cache, holder, recorded, relay>>
      BY <1>5, <2>3, SMTT(60) DEF HttpRoute
    <3> QED BY <1>0, <3>1 DEF AsksOnly, Tasks
  <2>4. CASE HttpSend \/ HttpRespond \/ HttpEof \/ HttpForgets \/ HttpClientSends \/ HttpClientGets
    BY <1>2, <1>5, <2>4, ZenonT(60) DEF HttpSend, HttpRespond, HttpEof, HttpForgets, HttpClientSends, HttpClientGets
  <2> QED BY <1>5, <2>1, <2>2, <2>3, <2>4, SMTT(60) DEF HttpStep
<1> QED BY <1>1, <1>4, <1>5, SMTT(60) DEF Next

Responding ==
    {"pc", "name", "local_response", "remote_response", "qname_bypassed", "ip_bypassed", "i", "result"}

Records == Seq(Ips \cup {NoIp})

\* What the variables range over.
DnsType ==
    /\ DOMAIN ask = Tasks /\ \A t \in Tasks : DOMAIN ask[t] = Asking
    /\ DOMAIN reverse_lookup_cache = Ips
    /\ DOMAIN dns = Responding /\ dns.i \in Nat
    /\ dns.local_response.answers \in Records /\ dns.remote_response.answers \in Records
    /\ dns.result.answers \in Records
    /\ DOMAIN replied = {"count", "answered", "added"}

\* Only the relay enters names, for one record of its answer after the other: the
\* one it is at may still wait for the lock, those before it are entered.  What
\* the cache has was entered for that address, whatever was evicted since.
RecordInv ==
    /\ ask["conn"].pc # "insert"
    /\ ask["dns"].pc = "insert" =>
           /\ dns.pc = "record"
           /\ ask["dns"].addr = dns.result.answers[dns.i] /\ ask["dns"].name = dns.name
    /\ dns.pc = "record" =>
           /\ dns.i <= Len(dns.result.answers)
           /\ \A k \in 1..dns.i : \/ dns.result.answers[k] = NoIp
                                  \/ <<dns.result.answers[k], dns.name>> \in recorded
                                  \/ k = dns.i /\ ask["dns"].pc = "insert"
    /\ replied.answered \subseteq recorded
    /\ \A ip \in Ips : reverse_lookup_cache[ip] # NoName => <<ip, reverse_lookup_cache[ip]>> \in recorded

CacheInv == DnsType /\ RecordInv

LEMMA NoRecords == <<>> \in Records /\ NoMessage.answers = <<>>
BY SMTT(60) DEF Records, NoMessage

LEMMA InitCache == Init => CacheInv
<1> SUFFICES ASSUME Init PROVE CacheInv
  OBVIOUS
<1>1. DnsType
  BY NoRecords, SMTT(60) DEF Init, DnsType, ContextInit, DnsInit, Idle, NoQuestion, Asking, Responding
<1>2. RecordInv
  BY DEF Init, RecordInv, ContextInit, DnsInit, Idle, NoQuestion, Tasks
<1> QED BY <1>1, <1>2, SMTT(60) DEF CacheInv

\* A question is answered, or a name is entered.
LEMMA AskCacheInv ==
    ASSUME CacheInv, NEW t \in Tasks, Ask(t)
    PROVE  CacheInv'
<1>1. UNCHANGED <<dns, replied>>
  BY DEF Ask, relay
<1>2. CASE add_to_reverse_lookup_cache(t)
  <2>1. /\ t = "dns" /\ ask["dns"].pc = "insert" /\ dns.pc = "record"
        /\ ask["dns"].addr = dns.result.answers[dns.i] /\ ask["dns"].name = dns.name
    BY <1>2, SMTT(60) DEF add_to_reverse_lookup_cache, CacheInv, RecordInv, Tasks
  <2>2. PICK victim, cache :
           /\ cache = [reverse_lookup_cache EXCEPT ![victim] = NoName, ![ask[t].addr] = ask[t].name]
           /\ reverse_lookup_cache' = cache
           /\ ask' = [u \in Tasks |->
                  IF u = t THEN [ask[u] EXCEPT !.pc = "done", !.answer = TRUE]
                  ELSE IF ask[u].pc = "lock" THEN [ask[u] EXCEPT !.seen = @ \cup {Lookup(cache, ask[u].addr.ip)}]
                  ELSE ask[u]]
    <3>1. PICK victim :
             LET cache == [reverse_lookup_cache EXCEPT ![victim] = NoName, ![ask[t].addr] = ask[t].name]
             IN  /\ reverse_lookup_cache' = cache
                 /\ ask' = [u \in Tasks |->
                        IF u = t THEN [ask[u] EXCEPT !.pc = "done", !.answer = TRUE]
                        ELSE IF ask[u].pc = "lock" THEN [ask[u] EXCEPT !.seen = @ \cup {Lookup(cache, ask[u].addr.ip)}]
                        ELSE ask[u]]
      BY <1>2, ZenonT(60) DEF add_to_reverse_lookup_cache
    <3>2. PICK cache : cache = [reverse_lookup_cache EXCEPT ![victim] = NoName, ![ask[t].addr] = ask[t].name]
      OBVIOUS
    <3> QED BY <3>1, <3>2, ZenonT(60)
  <2>3. recorded' = recorded \cup {<<ask["dns"].addr, ask["dns"].name>>}
    <3>1. recorded' = recorded \cup {<<ask[t].addr, ask[t].name>>}
      BY <1>2, ZenonT(60) DEF add_to_reverse_lookup_cache
    <3> QED BY <2>1, <3>1, ZenonT(60)
  <2>4. /\ DOMAIN ask' = Tasks /\ \A u \in Tasks : DOMAIN ask'[u] = Asking
        /\ ask'["dns"].pc = "done" /\ ask'["conn"].pc = ask["conn"].pc
    <3>1. "dns" \in Tasks /\ "conn" \in Tasks /\ \A u \in Tasks : DOMAIN ask[u] = Asking
      BY DEF CacheInv, DnsType, Tasks
    <3>2. DOMAIN ask' = Tasks
      BY <2>2, ZenonT(60)
    <3>3. ask'["dns"] = [ask["dns"] EXCEPT !.pc = "done", !.answer = TRUE]
      BY <2>1, <2>2, <3>1, ZenonT(60)
    <3>4. \/ ask'["conn"] = ask["conn"]
          \/ \E seen : ask'["conn"] = [ask["conn"] EXCEPT !.seen = seen]
      BY <2>1, <2>2, <3>1, ZenonT(60)
    <3>5. DOMAIN ask'["dns"] = Asking /\ ask'["dns"].pc = "done"
      BY <3>1, <3>3, SMTT(60) DEF Asking
    <3>6. DOMAIN ask'["conn"] = Asking /\ ask'["conn"].pc = ask["conn"].pc
      <4>1. CASE \E seen : ask'["conn"] = [ask["conn"] EXCEPT !.seen = seen]
        <5>1. PICK seen : ask'["conn"] = [ask["conn"] EXCEPT !.seen = seen]
          BY <4>1
        <5> QED BY <3>1, <5>1 DEF Asking
      <4> QED BY <3>1, <3>4, <4>1
    <3> QED BY <3>2, <3>5, <3>6, SMTT(60) DEF Tasks
  <2>5. /\ DOMAIN reverse_lookup_cache' = Ips
        /\ \A ip \in Ips : \/ reverse_lookup_cache'[ip] \in {NoName, reverse_lookup_cache[ip]}
                           \/ ip = ask["dns"].addr /\ reverse_lookup_cache'[ip] = ask["dns"].name
    <3>1. PICK addr, name : addr = ask["dns"].addr /\ name = ask["dns"].name
      BY SMTT(60)
    <3>2. reverse_lookup_cache' = [reverse_lookup_cache EXCEPT ![victim] = NoName, ![addr] = name]
      BY <2>1, <2>2, <3>1, ZenonT(60)
    <3>3. DOMAIN reverse_lookup_cache = Ips
      BY DEF CacheInv, DnsType
    <3>4. PICK c : c = [reverse_lookup_cache EXCEPT ![victim] = NoName]
      OBVIOUS
    <3>5. DOMAIN c = Ips /\ \A ip \in Ips : c[ip] \in {NoName, reverse_lookup_cache[ip]}
      BY <3>3, <3>4, ZenonT(60)
    <3>6. reverse_lookup_cache' = [c EXCEPT ![addr] = name]
      BY <3>2, <3>4, ZenonT(60)
    <3>7. /\ DOMAIN reverse_lookup_cache' = Ips
          /\ \A ip \in Ips : reverse_lookup_cache'[ip] = c[ip] \/ (ip = addr /\ reverse_lookup_cache'[ip] = name)
      BY <3>5, <3>6, ZenonT(60)
    <3>8. ASSUME NEW ip \in Ips
          PROVE  \/ reverse_lookup_cache'[ip] \in {NoName, reverse_lookup_cache[ip]}
                 \/ ip = ask["dns"].addr /\ reverse_lookup_cache'[ip] = ask["dns"].name
      <4>1. c[ip] \in {NoName, reverse_lookup_cache[ip]}
        BY <3>5
      <4>2. reverse_lookup_cache'[ip] = c[ip] \/ (ip = addr /\ reverse_lookup_cache'[ip] = name)
        BY <3>7
      <4> QED BY <3>1, <4>1, <4>2
    <3> QED BY <3>7, <3>8
  <2>6. DnsType'
    BY <1>1, <2>4, <2>5, SMTT(60) DEF CacheInv, DnsType
  <2>7. RecordInv'
    BY <1>1, <2>1, <2>3, <2>4, <2>5, SMTT(60) DEF CacheInv, DnsType, RecordInv
  <2> QED BY <2>6, <2>7, SMTT(60) DEF CacheInv
<1>3. CASE AskCache(t) \/ AskReverse(t) \/ AskRules(t)
  <2>1. /\ ask[t].pc \in {"lock", "reverse", "rules"} /\ UNCHANGED <<reverse_lookup_cache, recorded>>
        /\ \/ ask' = GoOn(t) \/ \E b : ask' = Answer(t, b)
           \/ \E n : ask' = [ask EXCEPT ![t].pc = "reverse", ![t].name = n]
    BY <1>3, ZenonT(60) DEF AskCache, AskReverse, AskRules
  <2>2. /\ DOMAIN ask' = Tasks /\ \A u \in Tasks : DOMAIN ask'[u] = Asking
        /\ ask'[t].pc \in {"rules", "reverse", "done"} /\ \A u \in Tasks \ {t} : ask'[u] = ask[u]
    BY <2>1, SMTT(60) DEF GoOn, Answer, CacheInv, DnsType, Asking
  <2>3. DnsType'
    BY <1>1, <2>1, <2>2, SMTT(60) DEF CacheInv, DnsType
  <2>4. RecordInv'
    BY <1>1, <2>1, <2>2, SMTT(60) DEF CacheInv, DnsType, RecordInv, Tasks
  <2> QED BY <2>3, <2>4 DEF CacheInv
<1> QED BY <1>2, <1>3, SMTT(60) DEF Ask, AskStep

\* What a name server responds, and a failed lookup, have sequences of records.
LEMMA ResponsesHaveRecords == \A m \in Responses \cup {NoMessage} : m.answers \in Records
BY NoRecords, ResponsesAssumption, ZenonT(60) DEF Records

\* The relay up to its choice.
LEMMA LookupCacheInv ==
    ASSUME CacheInv, DnsRecv \/ udp_lookup \/ socks5_lookup \/ acl_lookup
    PROVE  CacheInv'
<1>1. CASE DnsRecv
  <2>1. PICK q : q = config.queries[asked + 1]
    BY SMTT(60)
  <2>2. /\ dns.pc = "recv" /\ UNCHANGED <<reverse_lookup_cache, ask, recorded>>
        /\ dns' = IF q.is = "query" THEN [Idle EXCEPT !.pc = "local", !.name = to_string(q.name)] ELSE Idle
        /\ UNCHANGED replied \/ Replied(NoMessage, NoName)
    BY <1>1, <2>1, SMTT(60) DEF DnsRecv, context
  <2>3. /\ DOMAIN dns' = Responding /\ dns'.i = 0 /\ dns'.pc \in {"recv", "local"}
        /\ dns'.local_response = NoMessage /\ dns'.remote_response = NoMessage /\ dns'.result = NoMessage
    BY <2>2, SMTT(60) DEF Idle, Responding
  <2>4. DOMAIN replied' = {"count", "answered", "added"} /\ replied'.answered = replied.answered
    <3>1. AnswersFor(NoMessage, NoName) = {}
      BY SMTT(60) DEF AnswersFor, NoMessage, Range
    <3>2. CASE UNCHANGED replied
      BY <3>2, SMTT(60) DEF CacheInv, DnsType
    <3>3. CASE Replied(NoMessage, NoName)
      BY <3>1, <3>3, SMTT(60) DEF Replied
    <3> QED BY <2>2, <3>2, <3>3, SMTT(60)
  <2>5. DnsType'
    BY <2>2, <2>3, <2>4, NoRecords, SMTT(60) DEF CacheInv, DnsType
  <2>6. RecordInv'
    BY <2>2, <2>3, <2>4, SMTT(60) DEF CacheInv, RecordInv
  <2> QED BY <2>5, <2>6, SMTT(60) DEF CacheInv
<1>2. CASE udp_lookup
  <2>1. PICK m \in Responses \cup {NoMessage} : dns' = [dns EXCEPT !.pc = "remote", !.local_response = m]
    BY <1>2, ZenonT(60) DEF udp_lookup
  <2>2. dns.pc = "local" /\ UNCHANGED <<reverse_lookup_cache, ask, replied, recorded>> /\ m.answers \in Records
    BY <1>2, ResponsesHaveRecords, ZenonT(60) DEF udp_lookup, context
  <2>3. DnsType'
    BY <2>1, <2>2, SMTT(60) DEF CacheInv, DnsType, Responding
  <2>4. dns'.pc = "remote"
    BY <2>1, SMTT(60) DEF CacheInv, DnsType, Responding
  <2>5. RecordInv'
    BY <2>2, <2>4, SMTT(60) DEF CacheInv, RecordInv
  <2> QED BY <2>3, <2>5, SMTT(60) DEF CacheInv
<1>3. CASE socks5_lookup
  <2>1. PICK m \in Responses \cup {NoMessage} : dns' = [dns EXCEPT !.pc = "name", !.remote_response = m]
    BY <1>3, ZenonT(60) DEF socks5_lookup
  <2>2. dns.pc = "remote" /\ UNCHANGED <<reverse_lookup_cache, replied, recorded>> /\ m.answers \in Records
    BY <1>3, ResponsesHaveRecords, ZenonT(60) DEF socks5_lookup
  <2>3. ask' = [ask EXCEPT !["dns"] = Question(DomainName(dns.name))]
    BY <1>3, ZenonT(60) DEF socks5_lookup
  <2>4. /\ DOMAIN ask' = Tasks /\ \A u \in Tasks : DOMAIN ask'[u] = Asking
        /\ ask'["dns"].pc # "insert" /\ ask'["conn"] = ask["conn"]
    BY <2>3, QuestionFacts, ZenonT(60) DEF CacheInv, DnsType, Tasks
  <2>5. DnsType'
    BY <2>1, <2>2, <2>4 DEF CacheInv, DnsType, Responding
  <2>6. dns'.pc = "name"
    BY <2>1, SMTT(60) DEF CacheInv, DnsType, Responding
  <2>7. RecordInv'
    BY <2>2, <2>4, <2>6, SMTT(60) DEF CacheInv, RecordInv
  <2> QED BY <2>5, <2>7 DEF CacheInv
<1>4. CASE acl_lookup
  <2>1. /\ dns.pc \in {"name", "ip"} /\ ask["dns"].pc = "done"
        /\ UNCHANGED <<reverse_lookup_cache, replied, recorded>>
    BY <1>4, SMTT(60) DEF acl_lookup, Answered
  <2>2. PICK d : /\ d = IF dns.pc = "name" THEN [dns EXCEPT !.qname_bypassed = ask["dns"].answer, !.pc = "ip", !.i = 1]
                        ELSE [dns EXCEPT !.ip_bypassed = @ \/ ask["dns"].answer, !.i = @ + 1]
                 /\ \/ /\ dns' = d
                       /\ ask' = [ask EXCEPT !["dns"] = RecordQuestion(d.local_response.answers[d.i])]
                    \/ /\ dns' = [Idle EXCEPT !.pc = "record", !.name = d.name, !.result = Pick(d)]
                       /\ ask' = [ask EXCEPT !["dns"] = NoQuestion]
    BY <1>4, ZenonT(60) DEF acl_lookup
  <2>3. /\ DOMAIN d = Responding /\ d.i \in Nat /\ d.pc = "ip"
        /\ d.local_response = dns.local_response /\ d.remote_response = dns.remote_response /\ d.result = dns.result
    BY <2>1, <2>2, SMTT(60) DEF CacheInv, DnsType, Responding
  <2>4. Pick(d).answers \in Records
    BY <2>3, SMTT(60) DEF Pick, CacheInv, DnsType
  <2>5. /\ DOMAIN ask' = Tasks /\ \A u \in Tasks : DOMAIN ask'[u] = Asking
        /\ ask'["dns"].pc # "insert" /\ ask'["conn"] = ask["conn"]
    <3>1. PICK q : ask' = [ask EXCEPT !["dns"] = q] /\ q.pc # "insert" /\ DOMAIN q = Asking
      <4>1. NoQuestion.pc # "insert" /\ DOMAIN NoQuestion = Asking
        BY DEF NoQuestion, Asking
      <4>2. ASSUME NEW rec PROVE RecordQuestion(rec).pc # "insert" /\ DOMAIN RecordQuestion(rec) = Asking
        <5>1. CASE rec = NoIp
          BY <5>1, SMTT(60) DEF RecordQuestion, NoQuestion, Asking
        <5>2. CASE rec # NoIp
          BY <5>2, QuestionFacts, ZenonT(60) DEF RecordQuestion
        <5> QED BY <5>1, <5>2
      <4> QED BY <2>2, <4>1, <4>2, ZenonT(60)
    <3> QED BY <3>1, SMTT(60) DEF CacheInv, DnsType, Tasks
  <2>6. /\ DOMAIN dns' = Responding /\ dns'.i \in Nat
        /\ dns'.pc = "ip" \/ (dns'.pc = "record" /\ dns'.i = 0)
        /\ dns'.local_response.answers \in Records /\ dns'.remote_response.answers \in Records
        /\ dns'.result.answers \in Records
    <3>1. CASE dns' = d
      BY <2>3, <3>1, SMTT(60) DEF CacheInv, DnsType
    <3>2. CASE dns' = [Idle EXCEPT !.pc = "record", !.name = d.name, !.result = Pick(d)]
      BY <2>3, <2>4, <3>2, NoRecords, SMTT(60) DEF Idle, Responding
    <3> QED BY <2>2, <3>1, <3>2
  <2>7. DnsType'
    BY <2>1, <2>5, <2>6, SMTT(60) DEF CacheInv, DnsType
  <2>8. RecordInv'
    <3>1. dns'.pc = "record" => dns'.i <= Len(dns'.result.answers) /\ 1..dns'.i = {}
      BY <2>6, SMTT(60) DEF Records
    <3> QED BY <2>1, <2>5, <2>6, <3>1, SMTT(60) DEF CacheInv, RecordInv
  <2> QED BY <2>7, <2>8 DEF CacheInv
<1> QED BY <1>1, <1>2, <1>3, <1>4

\* The relay goes on to the next record of its answer, or replies.
LEMMA RecordCacheInv ==
    ASSUME CacheInv, DnsRecord
    PROVE  CacheInv'
<1>0. PICK R : R = dns.result.answers
  BY SMTT(60)
<1>1. /\ dns.pc = "record" /\ ask["dns"].pc \in {"none", "done"}
      /\ UNCHANGED <<reverse_lookup_cache, recorded>>
  BY SMTT(60) DEF DnsRecord
<1>2. /\ R \in Records /\ Len(R) \in Nat /\ dns.i \in Nat /\ dns.i <= Len(R)
      /\ DOMAIN R = 1..Len(R)
      /\ \A k \in 1..dns.i : R[k] = NoIp \/ <<R[k], dns.name>> \in recorded
  <2>1. R \in Seq(Ips \cup {NoIp}) /\ dns.i \in Nat
    BY <1>0, SMTT(60) DEF CacheInv, DnsType, Records
  <2>2. dns.i <= Len(R) /\ \A k \in 1..dns.i : R[k] = NoIp \/ <<R[k], dns.name>> \in recorded
    BY <1>0, <1>1, SMTT(60) DEF CacheInv, RecordInv
  <2>3. \A S : R \in Seq(S) => Len(R) \in Nat /\ DOMAIN R = 1..Len(R)
    BY SMTT(60)
  <2> QED BY <2>1, <2>2, <2>3, SMTT(60) DEF Records
<1>3. CASE dns.i < Len(R)
  <2>1. /\ dns' = [dns EXCEPT !.i = @ + 1]
        /\ ask' = [ask EXCEPT !["dns"] = RecordEntry(R[dns.i + 1], dns.name)]
        /\ UNCHANGED replied
    BY <1>0, <1>3, SMTT(60) DEF DnsRecord
  <2>2. PICK j \in Nat : j = dns.i + 1 /\ j \in 1..Len(R)
    BY <1>2, <1>3, SMTT(60)
  <2>3. /\ DOMAIN dns' = Responding /\ dns'.i = j /\ dns'.pc = "record" /\ dns'.name = dns.name
        /\ dns'.result = dns.result /\ dns'.local_response = dns.local_response
        /\ dns'.remote_response = dns.remote_response
    BY <1>1, <2>1, <2>2, SMTT(60) DEF CacheInv, DnsType, Responding
  <2>4. PICK q : /\ q = RecordEntry(R[j], dns.name) /\ ask' = [ask EXCEPT !["dns"] = q]
    BY <2>1, <2>2, ZenonT(60)
  <2>5. /\ DOMAIN q = Asking
        /\ \/ q.pc = "insert" /\ q.addr = R[j] /\ q.name = dns.name
           \/ q.pc = "none" /\ R[j] = NoIp
    BY <2>4, SMTT(60) DEF RecordEntry, Insertion, NoQuestion, Asking
  <2>6. /\ DOMAIN ask' = Tasks /\ \A u \in Tasks : DOMAIN ask'[u] = Asking
        /\ ask'["conn"] = ask["conn"] /\ ask'["dns"] = q
    BY <2>4, <2>5, SMTT(60) DEF CacheInv, DnsType, Tasks
  <2>7. DnsType'
    BY <1>1, <2>1, <2>3, <2>6, SMTT(60) DEF CacheInv, DnsType
  <2>8. \A k \in 1..j : k \in 1..dns.i \/ k = j
    BY <1>2, <2>2, SMTT(60)
  <2>9. j <= Len(R) /\ \A k \in 1..j : \/ R[k] = NoIp
                                       \/ <<R[k], dns.name>> \in recorded
                                       \/ k = j /\ ask'["dns"].pc = "insert"
    <3>1. ASSUME NEW k \in 1..j
          PROVE  R[k] = NoIp \/ <<R[k], dns.name>> \in recorded \/ (k = j /\ ask'["dns"].pc = "insert")
      BY <1>2, <2>5, <2>6, <2>8, ZenonT(60)
    <3>2. j <= Len(R)
      BY <1>2, <2>2, SMTT(60)
    <3> QED BY <3>1, <3>2, ZenonT(60)
  <2>10. RecordInv'
    <3>1. /\ ask["conn"].pc # "insert" /\ replied.answered \subseteq recorded
          /\ \A ip \in Ips : reverse_lookup_cache[ip] # NoName => <<ip, reverse_lookup_cache[ip]>> \in recorded
      BY SMTT(60) DEF CacheInv, RecordInv
    <3> QED BY <1>0, <1>1, <2>1, <2>3, <2>5, <2>6, <2>9, <3>1, SMTT(60) DEF RecordInv
  <2> QED BY <2>7, <2>10, SMTT(60) DEF CacheInv
<1>4. CASE ~(dns.i < Len(R))
  <2>1. /\ dns' = Idle /\ ask' = [ask EXCEPT !["dns"] = NoQuestion]
        /\ Replied(dns.result, dns.name)
    BY <1>0, <1>4, SMTT(60) DEF DnsRecord
  <2>2. dns.i = Len(R)
    BY <1>2, <1>4, SMTT(60)
  <2>3. /\ DOMAIN dns' = Responding /\ dns'.pc = "recv" /\ dns'.i = 0
        /\ dns'.local_response = NoMessage /\ dns'.remote_response = NoMessage /\ dns'.result = NoMessage
    BY <2>1, SMTT(60) DEF Idle, Responding
  <2>4. /\ DOMAIN ask' = Tasks /\ \A u \in Tasks : DOMAIN ask'[u] = Asking
        /\ ask'["conn"] = ask["conn"] /\ ask'["dns"].pc = "none"
    BY <2>1, SMTT(60) DEF CacheInv, DnsType, Tasks, Asking, NoQuestion
  <2>5. /\ DOMAIN replied' = {"count", "answered", "added"}
        /\ replied'.answered = replied.answered \cup AnswersFor(dns.result, dns.name)
    BY <2>1, SMTT(60) DEF Replied
  <2>6. AnswersFor(dns.result, dns.name) \subseteq recorded
    <3> SUFFICES ASSUME NEW ip \in Range(R) \ {NoIp} PROVE <<ip, dns.name>> \in recorded
      BY <1>0, SMTT(60) DEF AnswersFor
    <3>1. PICK k \in DOMAIN R : ip = R[k]
      BY ZenonT(60) DEF Range
    <3> QED BY <1>2, <2>2, <3>1, SMTT(60)
  <2>7. DnsType'
    BY <1>1, <2>3, <2>4, <2>5, NoRecords, SMTT(60) DEF CacheInv, DnsType
  <2>8. RecordInv'
    BY <1>1, <2>3, <2>4, <2>5, <2>6, SMTT(60) DEF CacheInv, RecordInv
  <2> QED BY <2>7, <2>8, SMTT(60) DEF CacheInv
<1> QED BY <1>3, <1>4, SMTT(60)

\* The cache and the relay agree in every state.
LEMMA NextCache == CacheInv /\ [Next]_vars => CacheInv'
<1> SUFFICES ASSUME CacheInv, [Next]_vars PROVE CacheInv'
  BY SMTT(60)
<1>1. CASE UNCHANGED vars
  BY <1>1, SMTT(60) DEF CacheInv, DnsType, RecordInv, vars, context, relay
<1>2. CASE Next
  <2>2. CASE AsksOnly
    <3>1. UNCHANGED <<reverse_lookup_cache, dns, replied, recorded>>
      BY <2>2, SMTT(60) DEF AsksOnly, relay
    <3>2. /\ DOMAIN ask' = Tasks /\ \A t \in Tasks : DOMAIN ask'[t] = Asking
          /\ ask'["conn"].pc # "insert" /\ ask'["dns"] = ask["dns"]
      BY <2>2, SMTT(60) DEF AsksOnly, CacheInv, DnsType, RecordInv, Tasks
    <3>3. DnsType'
      BY <3>1, <3>2, SMTT(60) DEF CacheInv, DnsType
    <3>4. RecordInv'
      BY <3>1, <3>2, SMTT(60) DEF CacheInv, RecordInv
    <3> QED BY <3>3, <3>4, SMTT(60) DEF CacheInv
  <2>3. CASE Dns
    BY <2>3, LookupCacheInv, RecordCacheInv, SMTT(60) DEF Dns, DnsStep
  <2>4. CASE DnsPanics
    <3>1. /\ dns.pc = "remote" /\ dns' = Idle /\ UNCHANGED <<reverse_lookup_cache, ask, replied, recorded>>
      BY <2>4, SMTT(60) DEF DnsPanics, socks5_lookup_panics, context
    <3>2. /\ DOMAIN dns' = Responding /\ dns'.pc = "recv" /\ dns'.i = 0
          /\ dns'.local_response = NoMessage /\ dns'.remote_response = NoMessage /\ dns'.result = NoMessage
      BY <3>1, SMTT(60) DEF Idle, Responding
    <3>3. DnsType'
      BY <3>1, <3>2, NoRecords, SMTT(60) DEF CacheInv, DnsType
    <3>4. RecordInv'
      BY <3>1, <3>2, SMTT(60) DEF CacheInv, RecordInv
    <3> QED BY <3>3, <3>4 DEF CacheInv
  <2>5. CASE \E t \in Tasks : Ask(t)
    BY <2>5, AskCacheInv, SMTT(60)
  <2>6. DOMAIN ask = Tasks
    BY DEF CacheInv, DnsType
  <2> QED BY <1>2, <2>2, <2>3, <2>4, <2>5, <2>6, OthersAsk, SMTT(60)
<1> QED BY <1>1, <1>2, SMTT(60)

\* The invariant of the relay and the cache.  In particular whatever name the
\* cache has for an address was entered for that address, and only the DNS relay
\* enters names, for a cache of any capacity.
THEOREM CacheInvariant == Spec => []CacheInv
BY InitCache, NextCache, PTL DEF Spec

\* A reply of the DNS relay is sent only when every address among its answers has
\* been entered into the reverse lookup cache under the name asked for, for
\* answers of any length, any capacity of the cache and any order in which the
\* tasks get the cache's lock.
THEOREM RepliesAreRecorded == Spec => []RecordedBeforeReply
<1>1. CacheInv => RecordedBeforeReply
  BY DEF CacheInv, RecordInv, RecordedBeforeReply
<1> QED BY <1>1, CacheInvariant, PTL

-----------------------------------------------------------------------------
(* Verdicts of the ACL *)

\* A set of positions has a first one.
LEMMA FirstExists ==
    ASSUME NEW hits, hits \subseteq Nat, hits # {}
    PROVE  \E i \in hits : \A j \in hits : i <= j
<1> DEFINE less == OpToRel(<, Nat)
<1>1. PICK i \in hits : \A j \in hits : ~(<<j, i>> \in less)
  <2>1. IsWellFoundedOn(less, Nat)
    BY NatLessThanWellFounded, Zenon
  <2> HIDE DEF less
  <2> QED BY <2>1, WFMin
<1>2. ASSUME NEW j \in hits PROVE i <= j
  <2>1. i \in Nat /\ j \in Nat /\ ~(<<j, i>> \in less)
    BY <1>1, Zenon
  <2>2. j < i => <<j, i>> \in less
    BY <2>1, Zenon DEF OpToRel
  <2> HIDE DEF less
  <2> QED BY <2>1, <2>2, SMT
<1> QED BY <1>2

Listing(a) == black_list(a).ip \cup white_list(a).ip

\* FirstMatch finds the first address that one of the lists has.
LEMMA FirstMatchFacts ==
    ASSUME NEW a, NEW ips \in Seq(Ips)
    PROVE  \/ FirstMatch(a, ips) = 0 /\ InNone(a, ips)
           \/ /\ FirstMatch(a, ips) # 0 /\ FirstMatch(a, ips) \in DOMAIN ips
              /\ ips[FirstMatch(a, ips)] \in Listing(a)
              /\ \A j \in 1..(FirstMatch(a, ips) - 1) : ips[j] \notin Listing(a)
<1> DEFINE hits == {i \in DOMAIN ips : ips[i] \in Listing(a)}
<1>1. DOMAIN ips = 1..Len(ips) /\ Len(ips) \in Nat
  BY SMT
<1>2. FirstMatch(a, ips) = IF hits = {} THEN 0 ELSE CHOOSE i \in hits : \A j \in hits : i <= j
  BY ZenonT(60) DEF FirstMatch, Listing
<1>3. CASE hits = {}
  BY <1>2, <1>3, ZenonT(60) DEF InNone, Listing
<1>4. CASE hits # {}
  <2>1. hits \subseteq Nat
    BY <1>1, SMT
  <2>2. PICK h : h = FirstMatch(a, ips)
    OBVIOUS
  <2>3. h \in hits /\ \A j \in hits : h <= j
    <3> HIDE DEF hits
    <3>1. \E i \in hits : \A j \in hits : i <= j
      BY <1>4, <2>1, FirstExists
    <3> QED BY <1>2, <1>4, <2>2, <3>1, ZenonT(60)
  <2>4. h \in DOMAIN ips /\ ips[h] \in Listing(a)
    BY <2>3, ZenonT(60)
  <2>5. h # 0 /\ h \in Nat /\ h <= Len(ips)
    BY <1>1, <2>4, SMT
  <2>6. ASSUME NEW j \in 1..(h - 1) PROVE ips[j] \notin Listing(a)
    <3>1. j \in DOMAIN ips /\ ~(h <= j)
      BY <1>1, <2>5, SMT
    <3> QED BY <2>3, <3>1, ZenonT(60)
  <2> QED BY <2>2, <2>4, <2>5, <2>6, ZenonT(60)
<1> QED BY <1>3, <1>4

\* Whatever check_target_bypassed answers is a verdict that the rules allow.
LEMMA VerdictFacts ==
    ASSUME NEW a, a.mode \in {"BlackList", "WhiteList"}, NEW host, NEW ips \in ResolvedTo(host)
    PROVE  /\ target_bypassed(a, host, ips) \in BOOLEAN
           /\ target_bypassed(a, host, ips) => MayBypass(a, host)
           /\ ~target_bypassed(a, host, ips) => MayProxy(a, host)
<1>1. target_bypassed(a, host, ips) \in BOOLEAN
  BY ZenonT(60) DEF target_bypassed
<1>2. ips \in Seq(Ips)
  <2>1. <<>> \in Seq(Ips)
    BY SMT
  <2> QED BY <2>1, ContextAssumption, ZenonT(60) DEF ResolvedTo
<1>3. PICK hit : hit = FirstMatch(a, ips)
  OBVIOUS
<1>4. PICK black, white, B, W :
         /\ black = check_address_matched(black_list(a), host) /\ white = check_address_matched(white_list(a), host)
         /\ B = black_list(a).ip /\ W = white_list(a).ip
  OBVIOUS
<1>5. target_bypassed(a, host, ips) <=>
          black \/ (~white /\ IF hit # 0 THEN ips[hit] \in B ELSE a.mode = "WhiteList")
  BY <1>3, <1>4, ZenonT(60) DEF target_bypassed
<1>6. \/ hit = 0 /\ InNone(a, ips)
      \/ hit # 0 /\ ips[hit] \in B /\ FirstIn(a, ips, B)
      \/ hit # 0 /\ ips[hit] \notin B /\ FirstIn(a, ips, W \ B)
  BY <1>2, <1>3, <1>4, FirstMatchFacts, ZenonT(60) DEF FirstIn, Listing
<1>7. (FirstIn(a, ips, B) \/ (InNone(a, ips) /\ a.mode = "WhiteList")) /\ ~white => MayBypass(a, host)
  BY <1>4, ZenonT(60) DEF MayBypass
<1>8. black => MayBypass(a, host)
  BY <1>4, ZenonT(60) DEF MayBypass
<1>9. (FirstIn(a, ips, W \ B) \/ (InNone(a, ips) /\ a.mode = "BlackList")) /\ ~black => MayProxy(a, host)
  BY <1>4, ZenonT(60) DEF MayProxy
<1>10. white /\ ~black => MayProxy(a, host)
  BY <1>4, ZenonT(60) DEF MayProxy
<1>11. target_bypassed(a, host, ips) => MayBypass(a, host)
  BY <1>5, <1>6, <1>7, <1>8, ZenonT(60)
<1>12. ~target_bypassed(a, host, ips) => MayProxy(a, host)
  BY <1>5, <1>6, <1>9, <1>10, ZenonT(60)
<1> QED BY <1>1, <1>11, <1>12

-----------------------------------------------------------------------------
(* Routes *)

\* What AclHonoured asks of a direct and of a proxied connection to addr, if the
\* cache had the names of seen for it.
MayGoDirect(addr, seen) ==
    \E a \in acl : MayBypass(a, addr) \/ \E n \in seen \ {NoName} : MayBypass(a, DomainName(n))

NameProxied(addr, seen) ==
    \A a \in acl : addr.type = "name" \/ \E n \in seen : n = NoName \/ MayProxy(a, DomainName(n))

MayGoProxied(addr, seen) == (\A a \in acl : MayProxy(a, addr)) /\ NameProxied(addr, seen)

Connecting == {"pc", "addr", "route", "tries", "timer", "seen"}

\* A tunnel never asks.
RouteType ==
    /\ config \in Configs
    /\ DOMAIN local = Connecting
    /\ config.config_type = "TunnelLocal" =>
           local.pc \in {"none", "connect", "handshake", "relay", "closed"} /\ local.route # "direct"

\* A question on its way to the answer: until it is looked up, what the cache has
\* for the address is among what was seen.
AskInv(q) ==
    \/ q.pc = "lock" /\ q.addr.type # "name" /\ Cached(q.addr.ip) \in q.seen
    \/ q.pc = "reverse" /\ q.addr.type # "name" /\ q.name \in q.seen \ {NoName}
    \/ q.pc = "rules" /\ NameProxied(q.addr, q.seen)
    \/ q.pc = "done" /\ q.answer = TRUE /\ MayGoDirect(q.addr, q.seen)
    \/ q.pc = "done" /\ q.answer = FALSE /\ MayGoProxied(q.addr, q.seen)

RouteHonoured ==
    /\ local.route = "direct" => MayGoDirect(local.addr, local.seen)
    /\ local.route = "proxied" /\ config.config_type # "TunnelLocal" => MayGoProxied(local.addr, local.seen)

RouteInv ==
    /\ RouteType /\ RouteHonoured
    /\ local.pc \in {"ask", "http_ask"} =>
           local.route = "none" /\ ask["conn"].addr = local.addr /\ AskInv(ask["conn"])

\* What a step of the connection may do with its route.
KeepsRoute ==
    /\ DOMAIN local' = Connecting /\ local'.addr = local.addr /\ local'.route = local.route /\ local'.seen = local.seen
    /\ local'.pc \notin {"ask", "http_ask"}
    /\ config.config_type = "TunnelLocal" => local'.pc \in {"none", "connect", "handshake", "relay", "closed"}

Idles == UNCHANGED <<local, ask, reverse_lookup_cache>>

Asks ==
    /\ config.config_type # "TunnelLocal"
    /\ \E addr, pc : pc \in {"ask", "http_ask"} /\ LocalAsks(addr, pc)
    /\ UNCHANGED reverse_lookup_cache

TakesRoute ==
    /\ local.pc \in {"ask", "http_ask"} /\ ask["conn"].pc = "done"
    /\ \E pc : pc \in {"connect", "http_send"} /\ local' = Routed(pc)

\* Whatever the connection leaves behind, its end leaves its route alone.
LEMMA EndsKeep ==
    ASSUME RouteType, NEW n, LocalEnds(n)
    PROVE  KeepsRoute
BY SMTT(60) DEF RouteType, LocalEnds, KeepsRoute, Connecting

LEMMA RouteSteps ==
    ASSUME RouteType, Next
    PROVE  \/ Idles \/ KeepsRoute \/ Asks \/ TakesRoute
           \/ TunnelAccept
           \/ (Dns \/ DnsPanics \/ \E t \in Tasks : Ask(t)) /\ UNCHANGED local
<1>1. CASE Launch \/ Fails
  BY <1>1, SMTT(60) DEF Launch, Fails, context, relay, tunnel, Idles
<1>2. CASE Dns \/ DnsPanics \/ \E t \in Tasks : Ask(t)
  BY <1>2, SMTT(60) DEF Dns, DnsPanics, Ask, tunnel
<1>3. CASE LocalStep /\ UNCHANGED <<http, relay>>
  <2>1. CASE LocalAccept
    <3>1. CASE Socks5Accept
      BY <3>1, SMTT(60) DEF Socks5Accept, LocalAccepts, RouteType, KeepsRoute, Connecting
    <3>2. CASE TunnelAccept
      BY <3>2, SMTT(60) DEF TunnelAccept, LocalAccepts
    <3>3. CASE RedirAccept
      <4>1. LocalAsks(config.addr, "ask") /\ config.config_type # "TunnelLocal" /\ UNCHANGED reverse_lookup_cache
        BY <3>3, SMTT(60) DEF RedirAccept, LocalAccepts
      <4> QED BY <4>1, SMTT(60) DEF Asks
    <3> QED BY <2>1, <3>1, <3>2, <3>3, SMTT(60) DEF LocalAccept
  <2>2. CASE LocalHello
    <3>1. local.pc = "hello" /\ UNCHANGED reverse_lookup_cache
      BY <2>2, SMTT(60) DEF LocalHello, context
    <3>2. \/ \E n : LocalEnds(n)
          \/ local' = [local EXCEPT !.pc = "request"]
      BY <2>2, ZenonT(60) DEF LocalHello
    <3> QED BY <3>1, <3>2, EndsKeep, SMTT(60) DEF RouteType, KeepsRoute, Connecting
  <2>3. CASE LocalRequest
    <3>1. local.pc = "request" /\ UNCHANGED reverse_lookup_cache
      BY <2>3, SMTT(60) DEF LocalRequest
    <3>2. \/ \E n : LocalEnds(n)
          \/ local' = [local EXCEPT !.pc = "hold"]
          \/ \E addr : LocalAsks(addr, "ask")
      BY <2>3, ZenonT(60) DEF LocalRequest
    <3>3. config.config_type # "TunnelLocal"
      BY <3>1, SMTT(60) DEF RouteType
    <3>4. CASE \E addr : LocalAsks(addr, "ask")
      BY <3>1, <3>3, <3>4, SMTT(60) DEF Asks
    <3>5. CASE local' = [local EXCEPT !.pc = "hold"]
      BY <3>1, <3>3, <3>5, SMTT(60) DEF RouteType, KeepsRoute, Connecting
    <3> QED BY <3>1, <3>2, <3>4, <3>5, EndsKeep, SMTT(60)
  <2>4. CASE LocalHolds
    <3>1. local.pc = "hold" /\ UNCHANGED <<reverse_lookup_cache, ask>>
      BY <2>4, SMTT(60) DEF LocalHolds, context
    <3>2. (\E n : LocalEnds(n)) \/ UNCHANGED local
      BY <2>4, ZenonT(60) DEF LocalHolds
    <3> QED BY <3>1, <3>2, EndsKeep, SMTT(60) DEF Idles
  <2>5. CASE LocalRoute
    BY <2>5, ZenonT(60) DEF LocalRoute, Answered, TakesRoute
  <2>6. CASE LocalConnectDirect \/ LocalConnectProxied \/ LocalHandshake
    <3>1. local.pc \in {"connect", "handshake"} /\ UNCHANGED <<reverse_lookup_cache, ask>>
      BY <2>6, SMTT(60) DEF LocalConnectDirect, LocalConnectProxied, LocalHandshake, context
    <3>2. \/ \E n : LocalEnds(n)
          \/ local' = [local EXCEPT !.pc = "relay", !.timer = "new"]
          \/ local' = [local EXCEPT !.pc = "handshake"]
          \/ local' = [local EXCEPT !.tries = @ + 1]
      BY <2>6, ZenonT(60) DEF LocalConnectDirect, LocalConnectProxied, LocalHandshake
    <3> QED BY <3>1, <3>2, EndsKeep, ZenonT(60) DEF RouteType, KeepsRoute, Connecting
  <2>7. CASE Socks5Relay \/ TunnelRelay \/ RedirRelay \/ ConnectRelay
    <3>1. PICK kind : RelayPoll(kind)
      BY <2>7, SMTT(60) DEF Socks5Relay, TunnelRelay, RedirRelay, ConnectRelay
    <3>2. local.pc = "relay" /\ UNCHANGED <<reverse_lookup_cache, ask>>
      BY <3>1, SMTT(60) DEF RelayPoll, context
    <3>3. (\E n : LocalEnds(n)) \/ local' = [local EXCEPT !.timer = "armed"]
      BY <3>1, ZenonT(60) DEF RelayPoll
    <3> QED BY <3>2, <3>3, EndsKeep, SMTT(60) DEF RouteType, KeepsRoute, Connecting
  <2>8. CASE LocalTimeout \/ LocalGone
    BY <2>8, EndsKeep, SMTT(60) DEF LocalTimeout, LocalGone, context
  <2> QED BY <1>3, <2>1, <2>2, <2>3, <2>4, <2>5, <2>6, <2>7, <2>8, SMTT(60) DEF LocalStep
<1>4. CASE ServerStep /\ UNCHANGED <<http, relay>>
  BY <1>4, ZenonT(60) DEF ServerStep, ServerAccept, ServerAddress, ServerConnect, ServerPoll, ServerTimeout, ServerGone,
       context, relay, Idles
<1>5. CASE (PeerStep \/ PeerChoice) /\ UNCHANGED <<http, relay>>
  BY <1>5, ZenonT(60) DEF PeerStep, PeerChoice, ClientRequest, ClientConnected, ClientReads, ClientHangsUp, Arrive,
       TargetReads, TargetHangsUp, ClientConnects, ClientHello, ClientWrites, ClientFinishes, ClientLeaves,
       TargetWrites, TargetFinishes, TargetLeaves, context, relay, Idles
<1>6. CASE (HttpStep \/ HttpForgets \/ HttpClientSends \/ HttpClientGets) /\ UNCHANGED relay
  <2>1. CASE HttpAccept
    BY <2>1, SMTT(60) DEF HttpAccept, LocalAccepts, RouteType, KeepsRoute, Connecting
  <2>2. ASSUME NEW n, NEW status, NEW keep, Responds(n, status, keep), UNCHANGED reverse_lookup_cache,
               config.config_type # "TunnelLocal"
        PROVE  KeepsRoute
    <3>1. (\E m : LocalEnds(m)) \/ local' = [local EXCEPT !.pc = "http"]
      BY <2>2, SMTT(60) DEF Responds
    <3> QED BY <2>2, <3>1, EndsKeep, SMTT(60) DEF RouteType, KeepsRoute, Connecting
  <2>3. CASE HttpDispatch
    <3>1. local.pc = "http" /\ UNCHANGED reverse_lookup_cache
      BY <2>3, SMTT(60) DEF HttpDispatch
    <3>2. \/ \E n : Responds(n, 400, TRUE)
          \/ \E addr, pc : pc \in {"ask", "http_ask"} /\ LocalAsks(addr, pc)
      BY <2>3, ZenonT(60) DEF HttpDispatch
    <3>3. config.config_type # "TunnelLocal"
      BY <3>1, SMTT(60) DEF RouteType
    <3> QED BY <2>2, <3>1, <3>2, <3>3, ZenonT(60) DEF Asks
  <2>4. CASE HttpRoute
    BY <2>4, ZenonT(60) DEF HttpRoute, Answered, TakesRoute
  <2>5. CASE HttpSend
    <3>1. local.pc = "http_send" /\ UNCHANGED reverse_lookup_cache
      BY <2>5 DEF HttpSend, context
    <3>2. (\E n : Responds(n, 500, TRUE)) \/ local' = [local EXCEPT !.pc = "http_wait"]
      BY <2>5, ZenonT(60) DEF HttpSend
    <3>3. config.config_type # "TunnelLocal"
      BY <3>1, SMTT(60) DEF RouteType
    <3> QED BY <2>2, <3>1, <3>2, <3>3, ZenonT(60) DEF RouteType, KeepsRoute, Connecting
  <2>6. CASE HttpRespond
    <3>1. local.pc = "http_wait" /\ UNCHANGED reverse_lookup_cache
      BY <2>6, ZenonT(60) DEF HttpRespond, context
    <3>2. \E n, status, keep : Responds(n, status, keep)
      BY <2>6, ZenonT(60) DEF HttpRespond
    <3>3. config.config_type # "TunnelLocal"
      BY <3>1, SMTT(60) DEF RouteType
    <3> QED BY <2>2, <3>1, <3>2, <3>3, SMTT(60)
  <2>7. CASE HttpEof
    BY <2>7, EndsKeep, SMTT(60) DEF HttpEof, context
  <2>8. CASE HttpForgets \/ HttpClientSends \/ HttpClientGets
    BY <2>8, SMTT(60) DEF HttpForgets, HttpClientSends, HttpClientGets, context, tunnel, Idles
  <2> QED BY <1>6, <2>1, <2>3, <2>4, <2>5, <2>6, <2>7, <2>8, SMTT(60) DEF HttpStep
<1> QED BY <1>1, <1>2, <1>3, <1>4, <1>5, <1>6, SMTT(60) DEF Next

\* The verdict about a name that was seen.
LEMMA NameFacts ==
    ASSUME RouteType, NEW a \in acl, NEW addr, NEW seen, NEW n \in seen \ {NoName},
           NEW ips \in Resolutions \cup {<<>>}
    PROVE  /\ target_bypassed(a, DomainName(n), ips) => MayGoDirect(addr, seen)
           /\ ~target_bypassed(a, DomainName(n), ips) => NameProxied(addr, seen)
<1>1. a.mode \in {"BlackList", "WhiteList"} /\ \A b \in acl : b = a
  BY ConfigAssumption, SMTT(60) DEF acl, RouteType
<1>2. ips \in ResolvedTo(DomainName(n))
  BY SMTT(60) DEF ResolvedTo, DomainName
<1>3. /\ target_bypassed(a, DomainName(n), ips) => MayBypass(a, DomainName(n))
      /\ ~target_bypassed(a, DomainName(n), ips) => MayProxy(a, DomainName(n))
  BY <1>1, <1>2, VerdictFacts
<1>4. MayBypass(a, DomainName(n)) => MayGoDirect(addr, seen)
  BY ZenonT(60) DEF MayGoDirect
<1>5. MayProxy(a, DomainName(n)) => NameProxied(addr, seen)
  BY <1>1, ZenonT(60) DEF NameProxied
<1> QED BY <1>3, <1>4, <1>5, ZenonT(60)

\* The connection's question goes on.
LEMMA AskRoute ==
    ASSUME CacheInv, RouteType, AskInv(ask["conn"]), Ask("conn"), UNCHANGED config
    PROVE  ask'["conn"].addr = ask["conn"].addr /\ AskInv(ask["conn"])'
<1> DEFINE q == ask["conn"]
<1>1. DOMAIN ask = Tasks /\ DOMAIN q = Asking /\ "conn" \in Tasks /\ acl' = acl
  BY SMTT(60) DEF CacheInv, DnsType, Tasks, acl
<1>2. ASSUME NEW addr, NEW seen
      PROVE  /\ MayGoDirect(addr, seen)' <=> MayGoDirect(addr, seen)
             /\ NameProxied(addr, seen)' <=> NameProxied(addr, seen)
             /\ MayGoProxied(addr, seen)' <=> MayGoProxied(addr, seen)
  BY <1>1, ZenonT(60) DEF MayGoDirect, NameProxied, MayGoProxied
<1>3. ASSUME ask' = GoOn("conn"), NameProxied(q.addr, q.seen)
      PROVE  ask'["conn"].addr = q.addr /\ AskInv(q)'
  <2>1. ask'["conn"].pc = "rules" /\ ask'["conn"].addr = q.addr /\ ask'["conn"].seen = q.seen
    BY <1>1, <1>3, SMTT(60) DEF GoOn, Asking
  <2>2. NameProxied(q.addr, q.seen)'
    BY <1>1, <1>3, <2>1, ZenonT(60) DEF NameProxied
  <2> QED BY <2>1, <2>2, ZenonT(60) DEF AskInv
<1>4. ASSUME ask' = Answer("conn", TRUE), MayGoDirect(q.addr, q.seen)
      PROVE  ask'["conn"].addr = q.addr /\ AskInv(q)'
  <2>1. ask'["conn"].pc = "done" /\ ask'["conn"].addr = q.addr /\ ask'["conn"].answer = TRUE /\ ask'["conn"].seen = q.seen
    BY <1>1, <1>4, SMTT(60) DEF Answer, Asking
  <2>2. MayGoDirect(q.addr, q.seen)'
    BY <1>1, <1>4, <2>1, ZenonT(60) DEF MayGoDirect
  <2> QED BY <2>1, <2>2, ZenonT(60) DEF AskInv
<1>5. ASSUME ask' = Answer("conn", FALSE), MayGoProxied(q.addr, q.seen)
      PROVE  ask'["conn"].addr = q.addr /\ AskInv(q)'
  <2>1. ask'["conn"].pc = "done" /\ ask'["conn"].addr = q.addr /\ ask'["conn"].answer = FALSE /\ ask'["conn"].seen = q.seen
    BY <1>1, <1>5, SMTT(60) DEF Answer, Asking
  <2>2. MayGoProxied(q.addr, q.seen)'
    BY <1>1, <1>5, <2>1, ZenonT(60) DEF MayGoProxied, NameProxied
  <2> QED BY <2>1, <2>2, ZenonT(60) DEF AskInv
<1>6. <<>> \in Resolutions \cup {<<>>}
  OBVIOUS
<1>7. CASE AskCache("conn")
  <2>1. PICK a, n :
           /\ a \in acl /\ n = Cached(q.addr.ip) /\ q.pc = "lock"
           /\ IF n = NoName THEN ask' = GoOn("conn")
              ELSE \/ ask' = [ask EXCEPT !["conn"].pc = "reverse", !["conn"].name = n]
                   \/ ask' = IF target_bypassed(a, DomainName(n), <<>>) THEN Answer("conn", TRUE) ELSE GoOn("conn")
    <3>1. PICK a \in acl :
             LET h == [type |-> "name", name |-> Cached(q.addr.ip)]
             IN  /\ q.pc = "lock"
                 /\ IF h.name = NoName THEN ask' = GoOn("conn")
                    ELSE \/ ask' = [ask EXCEPT !["conn"].pc = "reverse", !["conn"].name = h.name]
                         \/ ask' = IF target_bypassed(a, h, <<>>) THEN Answer("conn", TRUE) ELSE GoOn("conn")
      BY <1>7, ZenonT(60) DEF AskCache
    <3>2. PICK n : n = Cached(q.addr.ip)
      OBVIOUS
    <3>3. [type |-> "name", name |-> Cached(q.addr.ip)] = DomainName(n) /\ DomainName(n).name = n
      BY <3>2 DEF DomainName
    <3> QED BY <3>1, <3>2, <3>3, ZenonT(60)
  <2>2. q.addr.type # "name" /\ n \in q.seen
    BY <2>1, ZenonT(60) DEF AskInv
  <2>3. CASE n = NoName
    <3>1. NameProxied(q.addr, q.seen)
      BY <2>2, <2>3, ZenonT(60) DEF NameProxied
    <3> QED BY <1>3, <2>1, <2>3, <3>1, ZenonT(60)
  <2>4. CASE n # NoName
    <3>1. CASE ask' = [ask EXCEPT !["conn"].pc = "reverse", !["conn"].name = n]
      <4>1. ask'["conn"].pc = "reverse" /\ ask'["conn"].addr = q.addr /\ ask'["conn"].name = n /\ ask'["conn"].seen = q.seen
        BY <1>1, <3>1, SMTT(60) DEF Asking
      <4> QED BY <2>2, <2>4, <4>1, ZenonT(60) DEF AskInv
    <3>2. CASE ask' = IF target_bypassed(a, DomainName(n), <<>>) THEN Answer("conn", TRUE) ELSE GoOn("conn")
      <4>1. /\ target_bypassed(a, DomainName(n), <<>>) => MayGoDirect(q.addr, q.seen)
            /\ ~target_bypassed(a, DomainName(n), <<>>) => NameProxied(q.addr, q.seen)
        BY <1>6, <2>1, <2>2, <2>4, NameFacts, ZenonT(60)
      <4> QED BY <1>3, <1>4, <3>2, <4>1, ZenonT(60)
    <3> QED BY <2>1, <2>4, <3>1, <3>2, ZenonT(60)
  <2> QED BY <2>3, <2>4
<1>8. CASE AskReverse("conn")
  <2>1. PICK a \in acl, ips \in Resolutions \cup {<<>>} :
           /\ q.pc = "reverse"
           /\ ask' = IF target_bypassed(a, DomainName(q.name), ips) THEN Answer("conn", TRUE) ELSE GoOn("conn")
    BY <1>8, ZenonT(60) DEF AskReverse, DomainName
  <2>2. q.name \in q.seen \ {NoName}
    BY <2>1, ZenonT(60) DEF AskInv
  <2>3. /\ target_bypassed(a, DomainName(q.name), ips) => MayGoDirect(q.addr, q.seen)
        /\ ~target_bypassed(a, DomainName(q.name), ips) => NameProxied(q.addr, q.seen)
    BY <2>2, NameFacts, ZenonT(60)
  <2> QED BY <1>3, <1>4, <2>1, <2>3, ZenonT(60)
<1>9. CASE AskRules("conn")
  <2>1. PICK a \in acl, ips \in Resolutions \cup {<<>>} :
           /\ q.pc = "rules" /\ (Decided(a, q.addr) => ips = <<>>)
           /\ ask' = Answer("conn", target_bypassed(a, q.addr, ips))
    BY <1>9, ZenonT(60) DEF AskRules
  <2>2. NameProxied(q.addr, q.seen)
    BY <2>1, ZenonT(60) DEF AskInv
  <2>3. a.mode \in {"BlackList", "WhiteList"} /\ \A b \in acl : b = a
    BY ConfigAssumption, SMTT(60) DEF acl, RouteType
  <2>4. ips \in ResolvedTo(q.addr)
    BY <2>1, ZenonT(60) DEF ResolvedTo, Decided
  <2>5. /\ target_bypassed(a, q.addr, ips) \in BOOLEAN
        /\ target_bypassed(a, q.addr, ips) => MayBypass(a, q.addr)
        /\ ~target_bypassed(a, q.addr, ips) => MayProxy(a, q.addr)
    BY <2>3, <2>4, VerdictFacts
  <2>6. CASE target_bypassed(a, q.addr, ips)
    <3>1. target_bypassed(a, q.addr, ips) = TRUE
      BY <2>5, <2>6, ZenonT(60)
    <3>2. MayGoDirect(q.addr, q.seen)
      BY <2>5, <2>6, ZenonT(60) DEF MayGoDirect
    <3> QED BY <1>4, <2>1, <3>1, <3>2, ZenonT(60)
  <2>7. CASE ~target_bypassed(a, q.addr, ips)
    <3>1. target_bypassed(a, q.addr, ips) = FALSE
      BY <2>5, <2>7, ZenonT(60)
    <3>2. MayGoProxied(q.addr, q.seen)
      BY <2>2, <2>3, <2>5, <2>7, ZenonT(60) DEF MayGoProxied
    <3> QED BY <1>5, <2>1, <3>1, <3>2, ZenonT(60)
  <2> QED BY <2>6, <2>7
<1>10. ~add_to_reverse_lookup_cache("conn")
  BY ZenonT(60) DEF CacheInv, RecordInv, add_to_reverse_lookup_cache
<1> QED BY <1>7, <1>8, <1>9, <1>10, ZenonT(60) DEF Ask, AskStep

\* The relay's question goes on; if it enters a name, a connection that waits for
\* the lock has seen it.
LEMMA OtherAsks ==
    ASSUME CacheInv, AskInv(ask["conn"]), Ask("dns"), UNCHANGED config
    PROVE  ask'["conn"].addr = ask["conn"].addr /\ AskInv(ask["conn"])'
<1>1. DOMAIN ask = Tasks /\ DOMAIN ask["conn"] = Asking /\ "conn" \in Tasks /\ "dns" \in Tasks /\ acl' = acl
  BY SMTT(60) DEF CacheInv, DnsType, Tasks, acl
<1>2. ASSUME ask'["conn"] = ask["conn"], ask["conn"].pc # "lock" \/ UNCHANGED reverse_lookup_cache
      PROVE  ask'["conn"].addr = ask["conn"].addr /\ AskInv(ask["conn"])'
  BY <1>1, <1>2, ZenonT(60) DEF AskInv, MayGoDirect, NameProxied, MayGoProxied, Cached
<1>3. CASE add_to_reverse_lookup_cache("dns")
  <2>1. PICK cache :
           /\ reverse_lookup_cache' = cache
           /\ ask'["conn"] = IF ask["conn"].pc = "lock"
                             THEN [ask["conn"] EXCEPT !.seen = @ \cup {Lookup(cache, ask["conn"].addr.ip)}]
                             ELSE ask["conn"]
    BY <1>1, <1>3, ZenonT(60) DEF add_to_reverse_lookup_cache
  <2>2. CASE ask["conn"].pc = "lock"
    <3>1. ask["conn"].addr.type # "name"
      BY <2>2, ZenonT(60) DEF AskInv
    <3>2. /\ ask'["conn"].pc = "lock" /\ ask'["conn"].addr = ask["conn"].addr
          /\ Lookup(cache, ask["conn"].addr.ip) \in ask'["conn"].seen
      BY <1>1, <2>1, <2>2, SMTT(60) DEF Asking
    <3>3. Cached(ask["conn"].addr.ip)' = Lookup(cache, ask["conn"].addr.ip)
      BY <2>1, <3>2, ZenonT(60) DEF Cached, Lookup
    <3> QED BY <3>1, <3>2, <3>3, ZenonT(60) DEF AskInv
  <2>3. CASE ask["conn"].pc # "lock"
    BY <1>2, <2>1, <2>3, ZenonT(60)
  <2> QED BY <2>2, <2>3
<1>4. CASE AskCache("dns") \/ AskReverse("dns") \/ AskRules("dns")
  <2>1. UNCHANGED reverse_lookup_cache
    BY <1>4, ZenonT(60) DEF AskCache, AskReverse, AskRules
  <2>2. \/ ask' = GoOn("dns") \/ \E b : ask' = Answer("dns", b)
        \/ \E n : ask' = [ask EXCEPT !["dns"].pc = "reverse", !["dns"].name = n]
    BY <1>4, ZenonT(60) DEF AskCache, AskReverse, AskRules
  <2>3. ask'["conn"] = ask["conn"]
    BY <1>1, <2>2, SMTT(60) DEF GoOn, Answer
  <2> QED BY <1>2, <2>1, <2>3
<1> QED BY <1>3, <1>4, ZenonT(60) DEF Ask, AskStep

\* Every step keeps the route what the ACL says.
LEMMA NextRoute == CacheInv /\ RouteInv /\ [Next]_vars => RouteInv'
<1> SUFFICES ASSUME CacheInv, RouteInv, [Next]_vars PROVE RouteInv'
  BY SMTT(60)
<1>0. UNCHANGED config /\ acl' = acl
  BY ConfigStays, SMTT(60) DEF vars, acl
<1>1. ASSUME DOMAIN local' = DOMAIN local, local'.route = local.route, local'.addr = local.addr, local'.seen = local.seen
      PROVE  RouteHonoured'
  BY <1>0, <1>1, ZenonT(60) DEF RouteInv, RouteHonoured, MayGoDirect, MayGoProxied, NameProxied
<1>2. ASSUME UNCHANGED local,
             AskInv(ask["conn"]) => ask'["conn"].addr = ask["conn"].addr /\ AskInv(ask["conn"])'
      PROVE  RouteInv'
  <2>1. RouteHonoured' /\ RouteType'
    BY <1>0, <1>1, <1>2, SMTT(60) DEF RouteInv, RouteType
  <2> QED BY <1>2, <2>1, ZenonT(60) DEF RouteInv
<1>3. ASSUME UNCHANGED <<local, reverse_lookup_cache>>, ask'["conn"] = ask["conn"]
      PROVE  RouteInv'
  <2>1. AskInv(ask["conn"]) => AskInv(ask["conn"])'
    BY <1>0, <1>3, ZenonT(60) DEF AskInv, MayGoDirect, MayGoProxied, NameProxied, Cached
  <2> QED BY <1>2, <1>3, <2>1, ZenonT(60)
<1>4. CASE UNCHANGED vars
  BY <1>3, <1>4, SMTT(60) DEF vars, tunnel, context
<1>5. CASE Next
  <2>1. CASE Idles
    BY <1>3, <2>1, SMTT(60) DEF Idles
  <2>2. CASE KeepsRoute
    <3>1. RouteType'
      BY <1>0, <2>2, SMTT(60) DEF RouteInv, RouteType, KeepsRoute
    <3>2. RouteHonoured'
      BY <1>1, <2>2, SMTT(60) DEF RouteInv, RouteType, KeepsRoute
    <3> QED BY <2>2, <3>1, <3>2, SMTT(60) DEF RouteInv, KeepsRoute
  <2>3. CASE Asks
    <3>1. PICK addr, pc : pc \in {"ask", "http_ask"} /\ LocalAsks(addr, pc)
      BY <2>3, SMTT(60) DEF Asks
    <3>2. DOMAIN local' = Connecting /\ local'.pc = pc /\ local'.addr = addr /\ local'.route = "none"
      BY <3>1, SMTT(60) DEF LocalAsks, RouteInv, RouteType, Connecting
    <3>3. ask'["conn"] = Question(addr)
      BY <3>1, SMTT(60) DEF LocalAsks, CacheInv, DnsType, Tasks
    <3>4. RouteType' /\ RouteHonoured'
      BY <1>0, <2>3, <3>2, SMTT(60) DEF RouteInv, RouteType, RouteHonoured, Asks
    <3>5. ask'["conn"].addr = addr /\ ask'["conn"].answer = FALSE
      BY <3>3, QuestionFacts, ZenonT(60)
    <3>6. AskInv(ask["conn"])'
      <4>1. CASE acl = {}
        <5>1. ask'["conn"].pc = "done"
          BY <3>3, <4>1, SMTT(60) DEF Question
        <5>2. MayGoProxied(ask["conn"].addr, ask["conn"].seen)'
          BY <1>0, <4>1, SMTT(60) DEF MayGoProxied, NameProxied
        <5> QED BY <3>5, <5>1, <5>2, ZenonT(60) DEF AskInv
      <4>2. CASE acl # {} /\ addr.type = "name"
        <5>1. ask'["conn"].pc = "rules"
          BY <3>3, <4>2, SMTT(60) DEF Question
        <5>2. NameProxied(ask["conn"].addr, ask["conn"].seen)'
          BY <3>5, <4>2, ZenonT(60) DEF NameProxied
        <5> QED BY <5>1, <5>2, ZenonT(60) DEF AskInv
      <4>3. CASE acl # {} /\ addr.type # "name"
        <5>1. ask'["conn"].pc = "lock" /\ ask'["conn"].seen = {Cached(addr.ip)}
          BY <3>3, <4>3, SMTT(60) DEF Question
        <5>2. Cached(ask["conn"].addr.ip)' = Cached(addr.ip)
          BY <2>3, <3>5, ZenonT(60) DEF Asks, Cached, Lookup
        <5> QED BY <3>5, <4>3, <5>1, <5>2, ZenonT(60) DEF AskInv
      <4> QED BY <4>1, <4>2, <4>3
    <3> QED BY <3>2, <3>4, <3>5, <3>6, SMTT(60) DEF RouteInv
  <2>4. CASE TakesRoute
    <3>1. PICK pc : /\ pc \in {"connect", "http_send"} /\ local' = Routed(pc)
      BY <2>4, ZenonT(60) DEF TakesRoute
    <3>2. /\ DOMAIN local' = Connecting /\ local'.pc = pc /\ local'.addr = local.addr /\ local'.seen = ask["conn"].seen
          /\ local'.route = IF ask["conn"].answer THEN "direct" ELSE "proxied"
      BY <3>1, SMTT(60) DEF Routed, RouteInv, RouteType, Connecting
    <3>3. /\ AskInv(ask["conn"]) /\ ask["conn"].addr = local.addr
          /\ config.config_type # "TunnelLocal" /\ ask["conn"].pc = "done"
      BY <2>4, SMTT(60) DEF TakesRoute, RouteInv, RouteType
    <3>4. \/ local'.route = "direct" /\ MayGoDirect(local.addr, ask["conn"].seen)
          \/ local'.route = "proxied" /\ MayGoProxied(local.addr, ask["conn"].seen)
      BY <3>2, <3>3, SMTT(60) DEF AskInv
    <3>5. \/ local'.route = "direct" /\ MayGoDirect(local.addr, local.seen)'
          \/ local'.route = "proxied" /\ MayGoProxied(local.addr, local.seen)'
      BY <1>0, <3>2, <3>4, ZenonT(60) DEF MayGoDirect, MayGoProxied, NameProxied
    <3>6. RouteType' /\ RouteHonoured'
      BY <1>0, <3>2, <3>3, <3>5, SMTT(60) DEF RouteInv, RouteType, RouteHonoured
    <3> QED BY <3>1, <3>2, <3>6, SMTT(60) DEF RouteInv
  <2>5. CASE TunnelAccept
    <3>1. /\ config.config_type = "TunnelLocal" /\ DOMAIN local' = Connecting
          /\ local'.pc = "connect" /\ local'.route = "proxied"
      BY <2>5, SMTT(60) DEF TunnelAccept, LocalAccepts, RouteInv, RouteType, Connecting
    <3> QED BY <1>0, <3>1, SMTT(60) DEF RouteInv, RouteType, RouteHonoured
  <2>6. CASE (Dns \/ DnsPanics \/ \E t \in Tasks : Ask(t)) /\ UNCHANGED local
    <3>1. CASE Ask("conn")
      BY <1>0, <1>2, <2>6, <3>1, AskRoute, SMTT(60) DEF RouteInv
    <3>2. CASE Ask("dns")
      BY <1>0, <1>2, <2>6, <3>2, OtherAsks, SMTT(60)
    <3>3. CASE Dns
      <4>1. ask'["conn"] = ask["conn"] /\ UNCHANGED reverse_lookup_cache
        BY <3>3, ZenonT(60) DEF Dns, DnsStep, DnsRecv, udp_lookup, socks5_lookup, acl_lookup, DnsRecord, context,
             CacheInv, DnsType, Tasks
      <4> QED BY <1>3, <2>6, <4>1, SMTT(60)
    <3>4. CASE DnsPanics
      BY <1>3, <2>6, <3>4, SMTT(60) DEF DnsPanics, socks5_lookup_panics, context
    <3> QED BY <2>6, <3>1, <3>2, <3>3, <3>4, SMTT(60) DEF Tasks
  <2>7. RouteType
    BY DEF RouteInv
  <2> QED BY <1>5, <2>1, <2>2, <2>3, <2>4, <2>5, <2>6, <2>7, RouteSteps, SMTT(60)
<1> QED BY <1>4, <1>5, SMTT(60)

\* The ACL decides on every route: a connection is made directly only if the rules
\* and the mode let the target, or a name the reverse lookup cache had for it while
\* the connection asked, be bypassed, and proxied only if they let the target, and
\* such a name, be proxied.  So it is for every ACL, everything the names resolve
\* to, a cache of any capacity, and every interleaving with the DNS relay.
THEOREM RoutesAsAclSays == Spec => []AclHonoured
<1>1. Init => RouteInv
  BY SMTT(60) DEF Init, TunnelInit, RouteInv, RouteType, RouteHonoured, Connecting
<1>2. RouteInv => AclHonoured
  BY ZenonT(60) DEF RouteInv, RouteType, RouteHonoured, MayGoDirect, MayGoProxied, NameProxied, AclHonoured
<1> QED BY <1>1, <1>2, NextRoute, CacheInvariant, PTL DEF Spec
=============================================================================

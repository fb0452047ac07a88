---------------------------- MODULE LocalServer ----------------------------
(***************************************************************************)
(* The local server at work: a client's connection (TcpTunnel) and the DNS *)
(* relay (DnsRelay) share the ACL and the reverse lookup cache (Context)   *)
(* while the two programs and their plugins start and stop (LocalRun).     *)
(***************************************************************************)
EXTENDS HttpLocal, DnsRelay

CONSTANT Configs    \* the configurations, with what a client and a target do

ASSUME ConfigAssumption ==
    \A c \in Configs : \A a, b \in c.acl : a = b /\ a.mode \in {"BlackList", "WhiteList"}

vars == <<config, context, launch, tunnel, http, relay>>

Init ==
    /\ config \in Configs
    /\ ContextInit /\ LaunchInit /\ TunnelInit /\ HttpInit /\ DnsInit

Launch ==
    /\ \/ run_local \/ run_with \/ check_plugins_started
       \/ \E s \in Sides : PluginListens(s) \/ PluginWatched(s)
    /\ UNCHANGED <<context, tunnel, http, relay>>

Fails ==
    /\ \E s \in Sides : PluginExits(s) \/ (config.accept_fails /\ RelayEnds(s))
    /\ UNCHANGED <<context, tunnel, http, relay>>

Ask(t) == phase["local"] = "running" /\ AskStep(t) /\ UNCHANGED <<launch, tunnel, http, relay>>

Dns == DnsStep /\ UNCHANGED <<tunnel, http>>

DnsPanics == socks5_lookup_panics /\ UNCHANGED <<tunnel, http>>

\* The local server's tasks go on where a worker thread is free, or are dropped
\* with the program.
Scheduled == FreeWorker \/ phase["local"] = "stopped"

\* What the connection's own tasks do.
LocalStep ==
    LocalAccept \/ LocalHello \/ LocalRequest \/ LocalHolds \/ LocalRoute \/ LocalConnectDirect
    \/ LocalConnectProxied \/ LocalHandshake \/ Socks5Relay \/ TunnelRelay \/ RedirRelay \/ ConnectRelay \/ LocalTimeout \/ LocalGone

HttpStep == HttpAccept \/ HttpDispatch \/ HttpRoute \/ HttpSend \/ HttpRespond \/ HttpEof

ServerStep ==
    ServerAccept \/ ServerAddress \/ ServerConnect \/ ServerPoll \/ ServerTimeout \/ ServerGone

\* What a client and a target do in time, and what they do if they like.
PeerStep == ClientRequest \/ ClientConnected \/ ClientReads \/ ClientHangsUp \/ Arrive \/ TargetReads \/ TargetHangsUp

PeerChoice ==
    ClientConnects \/ ClientHello \/ ClientWrites \/ ClientFinishes \/ ClientLeaves \/ TargetWrites \/ TargetFinishes
    \/ TargetLeaves

Next ==
    \/ Launch \/ Fails \/ Dns \/ DnsPanics
    \/ \E t \in Tasks : Ask(t)
    \/ ((Scheduled /\ LocalStep) \/ ServerStep \/ PeerStep \/ PeerChoice) /\ UNCHANGED <<http, relay>>
    \/ ((Scheduled /\ HttpStep) \/ HttpForgets \/ HttpClientSends \/ HttpClientGets) /\ UNCHANGED relay

Spec == Init /\ [][Next]_vars

\* The runtime polls every task that can go on where a worker
\* thread is free, timers fire, lookups end (they
\* have a timeout), the network delivers, and both peers read what arrives and
\* leave when the other side has.
Fairness ==
    /\ WF_vars(Launch)
    /\ WF_vars(Dns)
    /\ \A t \in Tasks : WF_vars(Ask(t))
    /\ WF_vars(Scheduled /\ (HttpStep \/ (LocalStep /\ UNCHANGED http)) /\ UNCHANGED relay)
    /\ WF_vars(ServerStep /\ UNCHANGED <<http, relay>>)
    /\ WF_vars((HttpClientGets \/ ((ClientRequest \/ ClientConnected \/ ClientReads \/ ClientHangsUp) /\ UNCHANGED http))
                  /\ UNCHANGED relay)
    /\ WF_vars(Arrive /\ UNCHANGED <<http, relay>>)
    /\ WF_vars((TargetReads \/ TargetHangsUp) /\ UNCHANGED <<http, relay>>)

FairSpec == Spec /\ Fairness
-----------------------------------------------------------------------------
\* The server connects where the client asked to be connected to, whatever form
\* the address has: what proxy_server_handshake writes is what
\* Address::read_from reads at the server.  An HTTP request is sent to the host
\* it names, in its URI or in its Host header, also over a connection that was
\* kept from an earlier request.
RightTarget ==
    LET wanted == IF connect_proxy /\ http.n > 0 THEN Request.addr ELSE config.addr
    IN  /\ local.pc \notin {"http", "closed"} /\ local.addr # NoAddress => local.addr = wanted
        /\ server.addr # NoAddress => server.addr = wanted
        /\ \A e \in Range(http.exchanges) : e.conn.addr = config.requests[e.n].addr

\* The target gets what the client sent after its request, and the client what
\* the target sent after the replies to it, both from the first byte on, in
\* order and without a gap, wherever a connection is cut.
StreamsExact ==
    /\ IsPrefix(target.got \o net["remote"].up, config.up)
    /\ IsPrefix(client.got, config.down)

\* The server never has a connection to an address its outbound_block_list
\* contains, asked for as such or reached through a name.
BlockedNeverReached ==
    server.pc = "relay" => \A a \in config.server_acl :
        /\ server.ip \notin outbound_block(a).ip
        /\ ~check_address_matched(outbound_block(a), server.addr)

\* What a host may have been resolved to when the ACL judged it.
ResolvedTo(host) == IF host.type = "name" THEN Resolutions \cup {<<>>} ELSE {<<>>}

\* The first address that one of the lists has is in this one.
FirstIn(a, ips, list) ==
    \E i \in DOMAIN ips :
        /\ ips[i] \in list
        /\ \A j \in 1..(i - 1) : ips[j] \notin black_list(a).ip \cup white_list(a).ip

InNone(a, ips) == \A i \in DOMAIN ips : ips[i] \notin black_list(a).ip \cup white_list(a).ip

\* The verdicts the ACL's rules allow: the host's own list, the bypass list
\* first, else that of the first of its addresses that has one, else the mode.
MayBypass(a, host) ==
    \/ check_address_matched(black_list(a), host)
    \/ /\ ~check_address_matched(white_list(a), host)
       /\ \E ips \in ResolvedTo(host) : FirstIn(a, ips, black_list(a).ip) \/ (InNone(a, ips) /\ a.mode = "WhiteList")

MayProxy(a, host) ==
    /\ ~check_address_matched(black_list(a), host)
    /\ \/ check_address_matched(white_list(a), host)
       \/ \E ips \in ResolvedTo(host) :
              FirstIn(a, ips, white_list(a).ip \ black_list(a).ip) \/ (InNone(a, ips) /\ a.mode = "BlackList")

\* A connection is made directly only if the ACL's rules and its mode say so, of
\* the target or of a name the reverse lookup cache had for it while the
\* connection was asking; and through the server only if they say so of the
\* target and, if the cache had a name all the while, of a name it had.  A tunnel
\* is always proxied.
AclHonoured ==
    /\ local.route = "direct" =>
           /\ config.config_type # "TunnelLocal"
           /\ \E a \in acl :
                  \/ MayBypass(a, local.addr)
                  \/ \E n \in local.seen \ {NoName} : MayBypass(a, DomainName(n))
    /\ local.route = "proxied" /\ config.config_type # "TunnelLocal" => \A a \in acl :
           /\ MayProxy(a, local.addr)
           /\ local.addr.type = "name" \/ \E n \in local.seen : n = NoName \/ MayProxy(a, DomainName(n))

\* What is said about a connection (Connection, Proxy-Connection, and all that
\* they list) stays on that connection, in both directions, and every other
\* header goes through.
EndToEndHeaders ==
    LET EndToEnd(headers) == SelectSeq(headers, LAMBDA h : h.end_to_end)
        Own(headers) == SelectSeq(headers, LAMBDA h : h.name # "connection")
    IN  \A e \in Range(http.exchanges) :
            /\ Own(e.sent.headers) = EndToEnd(config.requests[e.n].headers)
            /\ \A r \in e.got : Own(r.headers) = EndToEnd(r.of.headers)

\* What a message says about its connection: the last Connection header that is
\* close, and nothing else, or lists keep-alive; if there is none the last such
\* Proxy-Connection header, in a request; if there is none the HTTP version.
SaysKeep(m, names) ==
    LET Telling(name) == {i \in DOMAIN m.headers :
                            /\ m.headers[i].name = name
                            /\ m.headers[i].value = <<"close">> \/ "keep-alive" \in Range(m.headers[i].value)}
        telling == {name \in Range(names) : Telling(name) # {}}
        first == names[Min({k \in DOMAIN names : names[k] \in telling})]
    IN  IF telling = {} THEN m.version = "1.1" ELSE m.headers[Max(Telling(first))].value # <<"close">>

\* The proxy asks the origin to keep the connection exactly if its client asked
\* for that, and tells its client that the connection is kept exactly if the
\* client asked for it and the origin agreed, each in the HTTP version spoken
\* and as check_keep_alive hears them: close within a list is not heard.
ConnectionAgreed ==
    \A e \in Range(http.exchanges) :
        LET asked_for == SaysKeep(config.requests[e.n], <<"connection", "proxy-connection">>)
        IN  /\ SaysKeep(e.sent, <<"connection">>) = asked_for
            /\ \A r \in e.got : SaysKeep(r, <<"connection">>) = (asked_for /\ SaysKeep(r.of, <<"connection">>))

\* Every address among the answers of a reply of the DNS relay was entered into
\* the reverse lookup cache, under the name asked for, before the reply was sent,
\* so that a client that uses it can be judged by that name.  (What is among the
\* additionals of a reply is not entered.)
RecordedBeforeReply == replied.answered \subseteq recorded

\* The one way to get stuck: every worker thread spins on the lock of the
\* reverse lookup cache, and the task that has the lock needs one to go on.
Starved == ~FreeWorker /\ \E t \in Tasks : holder = t /\ ask[t].pc = "reverse"

\* A task that asks the ACL gets its answer, and every query the DNS relay accepts
\* is replied to, unless the program stops or all its worker threads wait for
\* a task that none of them is left to run.
AskAnswered ==
    /\ \A t \in Tasks : []<>(ask[t].pc \in {"none", "done"} \/ phase["local"] = "stopped" \/ Starved)
    /\ []<>(dns.pc = "recv" \/ phase["local"] = "stopped" \/ Starved)

\* Once the client has left, every connection on its behalf is closed, whatever
\* stage it was in (unless the local server's worker threads wait for a task that
\* none of them is left to run); and once the target, the server, the local server or
\* a plugin is gone, the client sees the end of its connection.
EverybodyLeaves ==
    /\ client.pc = "closed" ~>
           Starved \/ (net["client"].b = FALSE /\ net["proxy"].b = FALSE /\ net["remote"].b = FALSE)
    /\ net["remote"].downfin ~> client.pc = "closed"
    /\ (\E s \in Sides : phase[s] = "stopped" \/ plugin[s] = "exited") /\ net["proxy"].a ~> client.pc = "closed"

\* A relay on which nothing happens any more ends after the timeout, on both
\* sides, although a poll of the server may leave it without a timer.
IdleCloses ==
    /\ local.pc = "relay" ~> local.pc = "closed"
    /\ server.pc = "relay" ~> server.pc = "closed"
=============================================================================

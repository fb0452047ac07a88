----------------------------- MODULE TcpTunnel -----------------------------
(***************************************************************************)
(* One TCP connection from end to end: a client, the local server          *)
(* (tcprelay/socks5_local.rs, tunnel_local.rs, redir_local.rs,             *)
(* proxy_stream.rs), the server (tcprelay/server.rs) and the target.       *)
(*                                                                         *)
(*   client == "client" ==> local == "proxy" ==> server == "remote" ==> target *)
(*                                                                         *)
(* or, for a target the ACL bypasses, "remote" from the local server       *)
(* straight to the target.  Each of the three is a TCP connection between  *)
(* an end a, which opened it, and an end b.  What is written to "proxy" is *)
(* encrypted on the way; module AeadStream shows that the same bytes come  *)
(* out at the other end.                                                   *)
(*                                                                         *)
(* A relay is future::select of two copies, polled in their order: one     *)
(* poll moves all that has arrived, client's bytes first, and the relay    *)
(* ends with the first copy that ends, whatever the other still had to do. *)
(***************************************************************************)
EXTENDS LocalRun, Socks5

CONSTANTS
    Segment,        \* what a client writes arrives in pieces of this many bytes
    LocalIp,        \* the address the server sees the local server at
    Loopback        \* 127.0.0.1, where it sees its plugin

RETRY_TIMES == 3

VARIABLES
    client,     \* the client's program: where it is, bytes written and got
    wire,       \* bytes the client has written that have not arrived
    net,        \* the three TCP connections
    local,      \* the connection's task of the local server
    server,     \* the connection's task of the server
    target      \* the target: bytes written and got

tunnel == <<client, wire, net, local, server, target>>

NoAddress == [type |-> "none"]
NoSock == [up |-> <<>>, down |-> <<>>, upfin |-> FALSE, downfin |-> FALSE, a |-> FALSE, b |-> FALSE]

TunnelInit ==
    /\ client = [pc |-> "idle", said |-> 0, got |-> <<>>]
    /\ wire = <<>>
    /\ net = [c \in {"client", "proxy", "remote"} |-> NoSock]
    /\ local = [pc |-> "none", addr |-> NoAddress, route |-> "none", tries |-> 0, timer |-> "none", seen |-> {}]
    /\ server = [pc |-> "none", addr |-> NoAddress, ip |-> <<>>, timer |-> "none"]
    /\ target = [said |-> 0, got |-> <<>>]
-----------------------------------------------------------------------------
(* TCP connections *)

OpenedTo(listening) == [NoSock EXCEPT !.a = TRUE, !.b = listening, !.downfin = ~listening]

\* What is written to an end that is gone is lost.
PutUp(s, bytes) == IF s.b THEN [s EXCEPT !.up = @ \o bytes] ELSE s
PutDown(s, bytes) == IF s.a THEN [s EXCEPT !.down = @ \o bytes] ELSE s

\* An end is dropped.  If it had bytes to read, the other end gets a reset,
\* which may overtake what was written to it.
EndsA(s) == LET closed == [s EXCEPT !.a = FALSE, !.upfin = TRUE, !.down = <<>>]
            IN  {closed} \cup IF s.down = <<>> THEN {} ELSE {[closed EXCEPT !.up = <<>>]}
EndsB(s) == LET closed == [s EXCEPT !.b = FALSE, !.downfin = TRUE, !.up = <<>>]
            IN  {closed} \cup IF s.up = <<>> THEN {} ELSE {[closed EXCEPT !.down = <<>>]}

EofUp(s) == s.up = <<>> /\ s.upfin
EofDown(s) == s.down = <<>> /\ s.downfin
-----------------------------------------------------------------------------
(* The client: Socks5Client, or a program that only connects *)

socks5 == config.config_type = "Socks5Local"
connect_proxy == config.config_type = "HttpLocal"

ClientConnects ==
    /\ client.pc = "idle" /\ phase["local"] = "running" /\ enable_tcp
    /\ client' = [client EXCEPT !.pc = CASE socks5 -> "hello" [] connect_proxy -> "http" [] OTHER -> "relay"]
    /\ net' = [net EXCEPT !["client"] = OpenedTo(TRUE)]
    /\ UNCHANGED <<context, launch, config, wire, local, server, target>>

ClientHello ==
    /\ client.pc = "hello"
    /\ client' = [client EXCEPT !.pc = "hello_sent"]
    /\ wire' = write_handshake_request(config.methods)
    /\ UNCHANGED <<context, launch, config, net, local, server, target>>

ClientEnds(pc) ==
    \E s \in EndsA(net["client"]) :
        client' = [client EXCEPT !.pc = pc] /\ net' = [net EXCEPT !["client"] = s]

ClientRequest ==
    /\ client.pc = "hello_sent"
    /\ LET r == read_handshake_response(net["client"].down)
       IN  /\ r.status # "wait" \/ net["client"].downfin
           /\ IF r.status = "ok" /\ r.value = SOCKS5_AUTH_METHOD_NONE
              THEN /\ client' = [client EXCEPT !.pc = "request_sent"]
                   /\ net' = [net EXCEPT !["client"].down = r.rest]
                   /\ wire' = wire \o write_request(config.command, config.addr)
              ELSE ClientEnds("closed") /\ wire' = <<>>
    /\ UNCHANGED <<context, launch, config, local, server, target>>

ClientConnected ==
    /\ client.pc = "request_sent"
    /\ LET r == read_response(net["client"].down)
       IN  /\ r.status # "wait" \/ net["client"].downfin
           /\ IF r.status = "ok" /\ r.value.reply = ReplyCode.Succeeded
              THEN /\ client' = [client EXCEPT !.pc = "relay"]
                   /\ net' = [net EXCEPT !["client"].down = r.rest]
                   /\ UNCHANGED wire
              ELSE ClientEnds("closed") /\ wire' = <<>>
    /\ UNCHANGED <<context, launch, config, local, server, target>>

\* A client in a hurry does not wait for the reply to its request.
ClientWrites ==
    /\ client.pc \in {"relay"} \cup IF config.eager THEN {"request_sent", "http_sent"} ELSE {}
    /\ client.said < Len(config.up) /\ ~net["client"].upfin
    /\ client' = [client EXCEPT !.said = @ + 1]
    /\ wire' = Append(wire, config.up[client.said + 1])
    /\ UNCHANGED <<context, launch, config, net, local, server, target>>

ClientReads ==
    /\ client.pc = "relay" /\ net["client"].down # <<>>
    /\ client' = [client EXCEPT !.got = @ \o net["client"].down]
    /\ net' = [net EXCEPT !["client"].down = <<>>]
    /\ UNCHANGED <<context, launch, config, wire, local, server, target>>

\* The client has nothing more to write, but still reads.
ClientFinishes ==
    /\ client.pc = "relay" /\ wire = <<>> /\ ~net["client"].upfin
    /\ net' = [net EXCEPT !["client"].upfin = TRUE]
    /\ UNCHANGED <<context, launch, config, client, wire, local, server, target>>

ClientLeaves ==
    /\ client.pc \notin {"idle", "closed"} /\ wire = <<>>
    /\ ClientEnds("closed")
    /\ UNCHANGED <<context, launch, config, wire, local, server, target>>

\* A client leaves when the other side has.
ClientHangsUp == client.pc = "relay" /\ EofDown(net["client"]) /\ ClientLeaves

Arrive ==
    /\ wire # <<>>
    /\ LET n == IF Len(wire) < Segment THEN Len(wire) ELSE Segment
       IN  /\ net' = [net EXCEPT !["client"] = PutUp(@, SubSeq(wire, 1, n))]
           /\ wire' = SubSeq(wire, n + 1, Len(wire))
    /\ UNCHANGED <<context, launch, config, client, local, server, target>>
-----------------------------------------------------------------------------
(* The local server *)

SocketAddress(ip) == [type |-> IF Len(ip) = 4 THEN "v4" ELSE "v6", ip |-> ip, port |-> 1080]

Far(route) == IF route = "direct" THEN "remote" ELSE "proxy"

\* Mutant of LocalEnds: only the client's socket is dropped.
LocalEndsHalf(n) ==
    /\ local' = [local EXCEPT !.pc = "closed", !.timer = "none"]
    /\ \E near \in EndsB(n["client"]) : net' = [n EXCEPT !["client"] = near]

\* The task returns: both its sockets are dropped, n being the connections as
\* it leaves them.
LocalEnds(n) ==
    /\ local' = [local EXCEPT !.pc = "closed", !.timer = "none"]
    /\ \E near \in EndsB(n["client"]), far \in EndsA(n[Far(local.route)]) :
           net' = [n EXCEPT !["client"] = near,
                            ![Far(local.route)] = IF n[Far(local.route)].a THEN far ELSE @]

\* ProxyStream::connect asks the ACL.
LocalAsks(addr, pc) ==
    /\ local' = [local EXCEPT !.pc = pc, !.addr = addr, !.route = "none", !.seen = {}]
    /\ ask' = [ask EXCEPT !["conn"] = Question(addr)]

\* The listener accepts; what the target is depends on the kind of local server.
LocalAccepts(kind) ==
    /\ config.config_type = kind
    /\ local.pc = "none" /\ client.pc # "idle" /\ phase["local"] = "running"
    /\ UNCHANGED <<reverse_lookup_cache, holder, recorded, launch, config, client, wire, net, server, target>>

Socks5Accept ==
    /\ LocalAccepts("Socks5Local")
    /\ local' = [local EXCEPT !.pc = "hello"] /\ UNCHANGED ask

\* A tunnel does not ask the ACL.
TunnelAccept ==
    /\ LocalAccepts("TunnelLocal")
    /\ local' = [local EXCEPT !.pc = "connect", !.addr = config.addr, !.route = "proxied"] /\ UNCHANGED ask

\* The target is the address the client's packets were sent to.
RedirAccept ==
    /\ LocalAccepts("RedirLocal")
    /\ LocalAsks(config.addr, "ask")

LocalAccept == Socks5Accept \/ TunnelAccept \/ RedirAccept

LocalHello ==
    /\ local.pc = "hello"
    /\ LET r == read_handshake_request(net["client"].up)
           Reply(method) == [net EXCEPT !["client"] = PutDown(@, write_handshake_response(method))]
       IN  /\ r.status # "wait" \/ net["client"].upfin
           /\ IF r.status # "ok" THEN LocalEnds(net)
              ELSE IF SOCKS5_AUTH_METHOD_NONE \in r.value
              THEN /\ net' = [Reply(SOCKS5_AUTH_METHOD_NONE) EXCEPT !["client"].up = r.rest]
                   /\ local' = [local EXCEPT !.pc = "request"]
              ELSE LocalEnds([Reply(SOCKS5_AUTH_METHOD_NOT_ACCEPTABLE) EXCEPT !["client"].up = r.rest])
    /\ UNCHANGED <<context, launch, config, client, wire, server, target>>

\* CONNECT goes on to the ACL, UDP ASSOCIATE is answered with the address of the
\* UDP relay; all else, and both of them where they are not enabled, is refused.
LocalRequest ==
    /\ local.pc = "request"
    /\ LET r == read_request(net["client"].up)
           enable_udp == config.mode \in {"UdpOnly", "TcpAndUdp"}
           Reply(reply, addr) == [net EXCEPT !["client"] = PutDown(@, write_response(reply, addr))]
       IN  /\ r.status # "wait" \/ net["client"].upfin
           /\ CASE r.status = "ok" /\ r.value.command = "TcpConnect" /\ config.mode # "UdpOnly" ->
                     /\ net' = [net EXCEPT !["client"].up = r.rest]
                     /\ LocalAsks(r.value.address, "ask")
                [] r.status = "ok" /\ r.value.command = "UdpAssociate" /\ enable_udp ->
                     /\ net' = [Reply("Succeeded", SocketAddress(LocalIp)) EXCEPT !["client"].up = r.rest]
                     /\ local' = [local EXCEPT !.pc = "hold"]
                     /\ UNCHANGED ask
                [] OTHER ->
                     /\ LocalEnds(IF r.status = "ok" THEN [Reply("CommandNotSupported", r.value.address) EXCEPT !["client"].up = r.rest]
                                  ELSE Reply(IF r.status = "wait" THEN "GeneralFailure" ELSE r.reply, SocketAddress(Loopback)))
                     /\ UNCHANGED ask
    /\ UNCHANGED <<reverse_lookup_cache, holder, recorded, launch, config, client, wire, server, target>>

\* ignore_until_end: the connection of an association is only held open.
LocalHolds ==
    /\ local.pc = "hold" /\ (net["client"].up # <<>> \/ net["client"].upfin)
    /\ IF net["client"].upfin THEN LocalEnds([net EXCEPT !["client"].up = <<>>])
       ELSE net' = [net EXCEPT !["client"].up = <<>>] /\ UNCHANGED local
    /\ UNCHANGED <<context, launch, config, client, wire, server, target>>

\* The route the ACL's answer gives; seen goes with it, a history.
Routed(pc) ==
    [local EXCEPT !.pc = pc, !.route = IF ask["conn"].answer THEN "direct" ELSE "proxied", !.seen = ask["conn"].seen]

\* ProxyStream::connect, once the ACL has answered.
LocalRoute ==
    /\ local.pc = "ask" /\ Answered("conn")
    /\ local' = Routed("connect")
    /\ ask' = [ask EXCEPT !["conn"] = NoQuestion]
    /\ UNCHANGED <<reverse_lookup_cache, holder, recorded, launch, config, client, wire, net, server, target>>

dummy_address == [type |-> "v4", ip |-> <<0, 0, 0, 0>>, port |-> 0]

\* The client of a SOCKS5 server is told how connecting went; that of an HTTP
\* proxy only if it went well.  STATUS_OK stands for the head of the response.
STATUS_OK == 256 + 200

Told(n, reply) ==
    LET addr == IF reply = "Succeeded" THEN SocketAddress(LocalIp) ELSE dummy_address
        message == CASE socks5 -> write_response(reply, addr)
                     [] connect_proxy /\ reply = "Succeeded" -> <<STATUS_OK>>
                     [] OTHER -> <<>>
    IN  [n EXCEPT !["client"] = PutDown(@, message)]

\* What is told of an error, by its kind.
ErrorReplies == {"ConnectionRefused", "HostUnreachable", "NetworkUnreachable"}

\* What an address stands for: itself, or what its name resolves to.
AddressesOf(addr) == IF addr.type = "name" THEN Resolutions ELSE {<<addr.ip>>}

\* connect_direct: the first of the addresses that can be connected to.
LocalConnectDirect ==
    /\ local.pc = "connect" /\ local.route = "direct"
    /\ \/ \E ips \in AddressesOf(local.addr) : \E i \in DOMAIN ips :
              /\ net' = Told([net EXCEPT !["remote"] = OpenedTo(TRUE)], "Succeeded")
              /\ local' = [local EXCEPT !.pc = "relay", !.timer = "new"]
       \/ \E reply \in ErrorReplies : LocalEnds(Told(net, reply))
    /\ UNCHANGED <<context, launch, config, client, wire, server, target>>

\* The plugin accepts whether or not it gets through to the server.
ProxyAccepts == IF "local" \in config.plugins THEN plugin["local"] = "listening" ELSE Reachable("server")

\* connect_proxy_server
LocalConnectProxied ==
    /\ local.pc = "connect" /\ local.route = "proxied"
    /\ \/ /\ ProxyAccepts
          /\ net' = [net EXCEPT !["proxy"] = OpenedTo(Reachable("server"))]
          /\ local' = [local EXCEPT !.pc = "handshake"]
       \/ IF local.tries + 1 < RETRY_TIMES
          THEN local' = [local EXCEPT !.tries = @ + 1] /\ UNCHANGED net
          ELSE \E reply \in ErrorReplies : LocalEnds(Told(net, reply))
    /\ UNCHANGED <<context, launch, config, client, wire, server, target>>

\* proxy_server_handshake: the first bytes to the server are the target's address.
LocalHandshake ==
    /\ local.pc = "handshake"
    /\ \/ /\ net' = Told([net EXCEPT !["proxy"] = PutUp(@, write_address(local.addr))], "Succeeded")
          /\ local' = [local EXCEPT !.pc = "relay", !.timer = "new"]
       \/ ~net["proxy"].b /\ LocalEnds(Told(net, "NetworkUnreachable"))
    /\ UNCHANGED <<context, launch, config, client, wire, server, target>>

\* One poll of the relay.  The stream to the far end has the timer: reading and
\* writing it cancel the timer, and the read that has to wait, the last thing a
\* poll does, sets it again.
RelayPoll(kind) ==
    /\ config.config_type = kind /\ local.pc = "relay"
    /\ LET far == Far(local.route)
           near == net["client"]
           sent == [net EXCEPT ![far] = PutUp(@, near.up), !["client"].up = <<>>]
           both == [sent EXCEPT !["client"] = PutDown(@, net[far].down), ![far].down = <<>>]
       IN  /\ local.timer = "new" \/ near.up # <<>> \/ near.upfin \/ net[far].down # <<>> \/ net[far].downfin
           /\ \/ near.upfin /\ LocalEnds(sent)
              \/ ~near.upfin /\ net[far].downfin /\ LocalEnds(both)
              \/ near.up # <<>> /\ ~net[far].b /\ LocalEnds([net EXCEPT !["client"].up = <<>>])
              \/ /\ ~near.upfin /\ ~net[far].downfin
                 /\ net' = both
                 /\ local' = [local EXCEPT !.timer = "armed"]
    /\ UNCHANGED <<context, launch, config, client, wire, server, target>>

Socks5Relay == RelayPoll("Socks5Local")
TunnelRelay == RelayPoll("TunnelLocal")
RedirRelay == RelayPoll("RedirLocal")
ConnectRelay == RelayPoll("HttpLocal")

\* Mutant of LocalTimeout: a direct connection has no timeout.
LocalTimeoutProxied ==
    /\ local.pc = "relay" /\ local.timer = "armed" /\ local.route = "proxied"
    /\ net["client"].up = <<>> /\ ~net["client"].upfin
    /\ net["proxy"].down = <<>> /\ ~net["proxy"].downfin
    /\ LocalEnds(net)
    /\ UNCHANGED <<context, launch, config, client, wire, server, target>>

LocalTimeout ==
    /\ local.pc = "relay" /\ local.timer = "armed"
    /\ net["client"].up = <<>> /\ ~net["client"].upfin
    /\ net[Far(local.route)].down = <<>> /\ ~net[Far(local.route)].downfin
    /\ LocalEnds(net)
    /\ UNCHANGED <<context, launch, config, client, wire, server, target>>

\* When the program ends, so do its tasks.
LocalGone ==
    /\ phase["local"] = "stopped" /\ client.pc # "idle" /\ local.pc # "closed"
    /\ LocalEnds(net)
    /\ UNCHANGED <<context, launch, config, client, wire, server, target>>
-----------------------------------------------------------------------------
(* The server *)

ServerEnds(n) ==
    /\ server' = [server EXCEPT !.pc = "closed", !.timer = "none"]
    /\ \E near \in EndsB(n["proxy"]), far \in EndsA(n["remote"]) :
           net' = [n EXCEPT !["proxy"] = near, !["remote"] = IF n["remote"].a THEN far ELSE @]

\* A client the ACL blocks is dropped as soon as it is accepted.  Behind a
\* plugin every client has the plugin's address.
ServerAccept ==
    /\ server.pc = "none" /\ net["proxy"].b /\ phase["server"] = "running"
    /\ LET peer == SocketAddress(IF "server" \in config.plugins THEN Loopback ELSE LocalIp)
       IN  IF \E a \in config.server_acl : check_client_blocked(a, peer)
           THEN ServerEnds(net)
           ELSE server' = [server EXCEPT !.pc = "address", !.timer = "armed"] /\ UNCHANGED net
    /\ UNCHANGED <<context, launch, config, client, wire, local, target>>

ServerAddress ==
    /\ server.pc = "address"
    /\ LET r == read_address(net["proxy"].up)
       IN  /\ r.status # "wait" \/ net["proxy"].upfin
           /\ IF r.status # "ok" THEN ServerEnds(net)
              ELSE IF \E a \in config.server_acl : check_outbound_blocked(a, r.value)
              THEN ServerEnds([net EXCEPT !["proxy"].up = r.rest])
              ELSE /\ server' = [server EXCEPT !.pc = "connect", !.addr = r.value, !.timer = "none"]
                   /\ net' = [net EXCEPT !["proxy"].up = r.rest]
    /\ UNCHANGED <<context, launch, config, client, wire, local, target>>

\* Mutant of lookup_outbound_then: only the first address is looked at.
lookup_outbound_then_first(addr, ips) ==
    IF addr.type = "name" /\ \E a \in config.server_acl : check_resolved_outbound_blocked(a, ips[1])
    THEN {} ELSE {ips[i] : i \in DOMAIN ips}

\* The addresses of a name that are tried; an address that was asked for has
\* been checked already.
lookup_outbound_then(addr, ips) ==
    {ips[i] : i \in {j \in DOMAIN ips :
        addr.type = "name" => \A a \in config.server_acl : ~check_resolved_outbound_blocked(a, ips[j])}}

ServerConnect ==
    /\ server.pc = "connect"
    /\ \/ \E ips \in AddressesOf(server.addr) : \E ip \in lookup_outbound_then(server.addr, ips) :
              /\ server' = [server EXCEPT !.pc = "relay", !.ip = ip, !.timer = "new"]
              /\ net' = [net EXCEPT !["remote"] = OpenedTo(TRUE)]
       \/ ServerEnds(net)
    /\ UNCHANGED <<context, launch, config, client, wire, local, target>>

\* One poll of the relay.  Here the timer belongs to the stream to the local
\* server, which is read first: a poll that then writes to it leaves no timer.
ServerPoll ==
    /\ server.pc = "relay"
    /\ LET near == net["proxy"]
           far == net["remote"]
           sent == [net EXCEPT !["remote"] = PutUp(@, near.up), !["proxy"].up = <<>>]
           both == [sent EXCEPT !["proxy"] = PutDown(@, far.down), !["remote"].down = <<>>]
       IN  /\ server.timer = "new" \/ near.up # <<>> \/ near.upfin \/ far.down # <<>> \/ far.downfin
           /\ \/ near.upfin /\ ServerEnds(sent)
              \/ ~near.upfin /\ far.downfin /\ ServerEnds(both)
              \/ near.up # <<>> /\ ~far.b /\ ServerEnds([net EXCEPT !["proxy"].up = <<>>])
              \/ /\ ~near.upfin /\ ~far.downfin
                 /\ net' = both
                 /\ server' = [server EXCEPT !.timer = IF far.down = <<>> THEN "armed" ELSE "none"]
    /\ UNCHANGED <<context, launch, config, client, wire, local, target>>

ServerTimeout ==
    /\ server.pc \in {"address", "relay"} /\ server.timer = "armed"
    /\ IF server.pc = "address" THEN read_address(net["proxy"].up).status = "wait" ELSE net["proxy"].up = <<>>
    /\ ~net["proxy"].upfin
    /\ server.pc = "relay" => net["remote"].down = <<>> /\ ~net["remote"].downfin
    /\ ServerEnds(net)
    /\ UNCHANGED <<context, launch, config, client, wire, local, target>>

\* When the program ends, so do its tasks and the connections it has not
\* accepted yet.
ServerGone ==
    /\ phase["server"] = "stopped" /\ net["proxy"].b
    /\ ServerEnds(net)
    /\ UNCHANGED <<context, launch, config, client, wire, local, target>>
-----------------------------------------------------------------------------
(* The target *)

TargetWrites ==
    /\ net["remote"].b /\ ~net["remote"].downfin /\ target.said < Len(config.down)
    /\ target' = [target EXCEPT !.said = @ + 1]
    /\ net' = [net EXCEPT !["remote"] = PutDown(@, <<config.down[target.said + 1]>>)]
    /\ UNCHANGED <<context, launch, config, client, wire, local, server>>

TargetReads ==
    /\ net["remote"].b /\ net["remote"].up # <<>>
    /\ target' = [target EXCEPT !.got = @ \o net["remote"].up]
    /\ net' = [net EXCEPT !["remote"].up = <<>>]
    /\ UNCHANGED <<context, launch, config, client, wire, local, server>>

TargetFinishes ==
    /\ net["remote"].b /\ ~net["remote"].downfin
    /\ net' = [net EXCEPT !["remote"].downfin = TRUE]
    /\ UNCHANGED <<context, launch, config, client, wire, local, server, target>>

TargetLeaves ==
    /\ net["remote"].b
    /\ \E s \in EndsB(net["remote"]) : net' = [net EXCEPT !["remote"] = s]
    /\ UNCHANGED <<context, launch, config, client, wire, local, server, target>>

TargetHangsUp == EofUp(net["remote"]) /\ TargetLeaves
=============================================================================

----------------------------- MODULE HttpLocal -----------------------------
(***************************************************************************)
(* The local server as an HTTP proxy (tcprelay/http_local.rs).             *)
(*                                                                         *)
(* CONNECT makes the client's connection a tunnel, like a SOCKS5 CONNECT   *)
(* (TcpTunnel).  Any other request is sent on, with its headers rewritten, *)
(* over a connection of one of two hyper clients, one that connects        *)
(* directly and one that connects through the server; both keep idle       *)
(* connections for later requests.                                         *)
(*                                                                         *)
(* hyper parses and writes the messages: on the client's connection a      *)
(* request is the symbol REQUEST, a response is 256 + its status.  An      *)
(* Option is a set of at most one element, a header is a record with its   *)
(* name and the parts of its value (and what it is for, end_to_end).       *)
(***************************************************************************)
EXTENDS TcpTunnel

VARIABLE http   \* requests sent by the client, connections kept, exchanges made

REQUEST == 256
Status(n) == 256 + n

HttpInit == http = [n |-> 0, pool |-> {}, exchanges |-> <<>>]

Request == config.requests[http.n]
-----------------------------------------------------------------------------
(* Addresses and headers *)

\* Mutant of authority_addr: the scheme is not looked at.
authority_addr_80(scheme, authority) ==
    LET h == authority.host
        port == IF authority.port # {} THEN authority.port ELSE {80}
    IN  {IF h.type = "name" THEN [type |-> "name", name |-> h.name, port |-> p]
         ELSE [type |-> h.type, ip |-> h.ip, port |-> p] : p \in IF h.type = "invalid" THEN {} ELSE port}

\* The port, or the scheme's; what is in brackets and no IPv6 address is refused.
authority_addr(scheme, authority) ==
    LET h == authority.host
        port == CASE authority.port # {}         -> authority.port
                  [] authority.port = {} /\ scheme \in {"none", "http"} -> {80}
                  [] authority.port = {} /\ scheme = "https"            -> {443}
                  [] OTHER                       -> {}
    IN  {IF h.type = "name" THEN [type |-> "name", name |-> h.name, port |-> p]
         ELSE [type |-> h.type, ip |-> h.ip, port |-> p] : p \in IF h.type = "invalid" THEN {} ELSE port}

host_addr(uri) == UNION {authority_addr(uri.scheme, a) : a \in uri.authority}

\* The request with its URI reassembled from the Host header, if that names a host.
get_addr_from_header(req) ==
    {[req EXCEPT !.uri = [scheme |-> IF @.scheme = "none" THEN "http" ELSE @.scheme, authority |-> {a}]] :
        a \in {b \in req.host : authority_addr(req.uri.scheme, b) # {}}}

\* The request as it goes on: a URI with an authority has to name a host, one
\* without takes it from the header.
Addressed(req) ==
    IF req.uri.authority = {} THEN get_addr_from_header(req)
    ELSE IF host_addr(req.uri) = {} THEN {} ELSE {req}

\* The last value of the header that says close, or keep-alive among others.
KeepsBy(headers, name, keep) ==
    LET Says(k, h) == IF h.value = <<"close">> THEN FALSE ELSE k \/ "keep-alive" \in Range(h.value)
        Named(h) == h.name = name
    IN  FoldLeft(Says, keep, SelectSeq(headers, Named))

\* Mutant of check_keep_alive: Proxy-Connection is not looked at.
check_keep_alive_plain(version, headers, check_proxy) ==
    KeepsBy(headers, "connection", version = "1.1")

\* Connection replaces Proxy-Connection.
check_keep_alive(version, headers, check_proxy) ==
    KeepsBy(headers, "connection",
            IF check_proxy THEN KeepsBy(headers, "proxy-connection", version = "1.1") ELSE version = "1.1")

HOP_BY_HOP_HEADERS ==
    {"keep-alive", "transfer-encoding", "te", "connection", "trailer", "upgrade", "proxy-authorization",
     "proxy-authenticate", "proxy-connection"}

Without(headers, names) == SelectSeq(headers, LAMBDA h : h.name \notin names)

\* The headers that the named ones list.
Listed(headers, names) ==
    UNION {Range(h.value) \ {"keep-alive"} : h \in {g \in Range(headers) : g.name \in names /\ g.value # <<"close">>}}

\* Mutant of clear_hop_headers: the fixed ones are removed first.
clear_hop_headers_late(headers) ==
    LET rest == Without(headers, HOP_BY_HOP_HEADERS)
    IN  Without(rest, Listed(rest, {"connection", "proxy-connection"}))

clear_hop_headers(headers) ==
    Without(Without(headers, Listed(headers, {"connection", "proxy-connection"})), HOP_BY_HOP_HEADERS)

set_conn_keep_alive(version, headers, keep_alive) ==
    headers \o IF version = "1.0" /\ keep_alive
               THEN <<[name |-> "connection", value |-> <<"keep-alive">>, end_to_end |-> FALSE]>>
               ELSE IF version = "1.1" /\ ~keep_alive
               THEN <<[name |-> "connection", value |-> <<"close">>, end_to_end |-> FALSE]>>
               ELSE <<>>
-----------------------------------------------------------------------------
(* The client *)

HttpClientSends ==
    /\ client.pc = "http" /\ http.n < Len(config.requests) /\ wire = <<>> /\ ~EofDown(net["client"])
    /\ client' = [client EXCEPT !.pc = "http_sent"]
    /\ wire' = <<REQUEST>>
    /\ http' = [http EXCEPT !.n = @ + 1]
    /\ UNCHANGED <<context, launch, config, net, local, server, target>>

HttpClientGets ==
    /\ client.pc \in {"http", "http_sent"}
    /\ \/ /\ net["client"].down # <<>>
          /\ client' = [client EXCEPT !.pc =
                 IF Request.method = "CONNECT" /\ Head(net["client"].down) = STATUS_OK THEN "relay" ELSE "http"]
          /\ net' = [net EXCEPT !["client"].down = Tail(@)]
          /\ UNCHANGED wire
       \/ EofDown(net["client"]) /\ ClientEnds("closed") /\ wire' = <<>>
    /\ UNCHANGED <<context, launch, config, local, server, target, http>>
-----------------------------------------------------------------------------
(* The service *)

HttpAccept ==
    /\ LocalAccepts("HttpLocal")
    /\ local' = [local EXCEPT !.pc = "http"] /\ UNCHANGED <<ask, http>>

Responded(n, status) == [n EXCEPT !["client"] = PutDown(@, <<Status(status)>>)]

\* The connection goes on with the next request, unless hyper closes it.
Responds(n, status, keep) ==
    \/ keep /\ net' = Responded(n, status) /\ local' = [local EXCEPT !.pc = "http"]
    \/ LocalEnds(Responded(n, status))

\* server_dispatch: what is asked for, and of whom.
HttpDispatch ==
    /\ local.pc = "http" /\ net["client"].up # <<>>
    /\ LET taken == [net EXCEPT !["client"].up = Tail(@)]
       IN  \/ Addressed(Request) = {} /\ Responds(taken, 400, TRUE) /\ UNCHANGED ask
           \/ \E req \in Addressed(Request) : \E host \in host_addr(req.uri) :
                  /\ LocalAsks(host, IF req.method = "CONNECT" THEN "ask" ELSE "http_ask")
                  /\ net' = taken
    /\ UNCHANGED <<reverse_lookup_cache, holder, recorded, launch, config, client, wire, server, target, http>>

HttpRoute ==
    /\ local.pc = "http_ask" /\ Answered("conn")
    /\ local' = Routed("http_send")
    /\ ask' = [ask EXCEPT !["conn"] = NoQuestion]
    /\ UNCHANGED <<reverse_lookup_cache, holder, recorded, launch, config, client, wire, net, server, target, http>>

conn_keep_alive == check_keep_alive(Request.version, Request.headers, TRUE)

\* A connection of the client the route has: one that was kept, or a new one to
\* the host the URI names (ShadowSocksConnector, DirectConnector).
Connector(req) == [route |-> local.route, addr |-> CHOOSE a \in host_addr(req.uri) : TRUE]

HttpSend ==
    /\ local.pc = "http_send"
    /\ \E req \in Addressed(Request) :
           LET conn == Connector(req)
               headers == set_conn_keep_alive(req.version, clear_hop_headers(req.headers), conn_keep_alive)
           IN  \/ /\ conn \in http.pool \/ local.route = "direct" \/ ProxyAccepts
                  /\ http' = [http EXCEPT !.pool = @ \ {conn},
                                          !.exchanges = Append(@, [n |-> http.n, conn |-> conn,
                                              sent |-> [version |-> req.version, headers |-> headers], got |-> {}])]
                  /\ local' = [local EXCEPT !.pc = "http_wait"]
                  /\ UNCHANGED net
               \/ conn \notin http.pool /\ Responds(net, 500, TRUE) /\ UNCHANGED http
    /\ UNCHANGED <<context, launch, config, client, wire, server, target>>

\* The response, or the end of the connection it should have come from.
HttpRespond ==
    /\ local.pc = "http_wait"
    /\ LET last == Len(http.exchanges)
       IN  \/ \E res \in config.responses :
                  LET keep == conn_keep_alive /\ check_keep_alive(res.version, res.headers, FALSE)
                      headers == set_conn_keep_alive(res.version, clear_hop_headers(res.headers), keep)
                  IN  /\ http' = [http EXCEPT !.exchanges[last].got = {[of |-> res, version |-> res.version, headers |-> headers]},
                                              !.pool = IF keep THEN @ \cup {http.exchanges[last].conn} ELSE @]
                      /\ Responds(net, 200, keep)
           \/ Responds(net, 500, TRUE) /\ UNCHANGED http
    /\ UNCHANGED <<context, launch, config, client, wire, server, target>>

\* The client has no more requests.
HttpEof ==
    /\ local.pc = "http" /\ EofUp(net["client"])
    /\ LocalEnds(net)
    /\ UNCHANGED <<context, launch, config, client, wire, server, target, http>>

\* A kept connection is closed by its peer, or by hyper for being idle.
HttpForgets ==
    /\ http.pool # {}
    /\ http' = [http EXCEPT !.pool = {}]
    /\ UNCHANGED <<context, launch, config, tunnel>>
=============================================================================

--------------------------- MODULE MCLocalServer ---------------------------
(* A small instance of LocalServer: twenty-one configurations, each with what  *)
(* its client and its target do.                                           *)
EXTENDS LocalServer

I1 == <<1, 1, 1, 1>>
I2 == <<2, 2, 2, 2>>
V6 == <<32, 1, 0, 0, 0, 0, 0, 0, 0, 0, 0, 0, 0, 0, 0, 1>>
MCIps == {I1, I2, V6}
MCResolutions == {<<I1, I2>>, <<I2>>}
\* Both have an address among the additionals, the second a record without one.
MCResponses == [answers : {<<I2, I1>>, <<NoIp>>}, additionals : {{V6}}]
MCLocalIp == <<10, 0, 0, 1>>
MCLoopback == <<127, 0, 0, 1>>

\* Names: "a", and as the DNS relay writes them "b." and "c."
A == <<97>>
B == <<98>>
C == <<99>>
Dotted(n) == Append(n, 46)

Net(ips) == [is |-> "net", ips |-> ips]
Pattern(hosts) == [is |-> "pattern", hosts |-> hosts]
Section(name) == [is |-> "section", name |-> name]
ModeLine(name) == [is |-> "mode", name |-> name]
Query(n) == [is |-> "query", name |-> n]

\* "b." is in both lists and bypassed, "c." has to be resolved to be judged, I2 is proxied.
ProxyAll == load_from_file(<<[is |-> "comment"], ModeLine("proxy_all"), Section("bypass_list"), Pattern({Dotted(B)}),
                             Section("proxy_list"), Net({I2}), Pattern({Dotted(B)})>>)
\* Before the first section a network is bypassed and a name proxied.
BypassAll == load_from_file(<<Net({V6}), Pattern({A}), ModeLine("bypass_all"), Section("proxy_list"), Net({I1})>>)
BlockI2 == load_from_file(<<ModeLine("accept_all"), Section("outbound_block_list"), Net({I2}), Pattern({B})>>)
RejectAll == load_from_file(<<ModeLine("reject_all"), Section("white_list"), Net({MCLoopback})>>)

ToName(n) == [type |-> "name", name |-> n, port |-> 443]
ToIp(ip) == [type |-> IF Len(ip) = 4 THEN "v4" ELSE "v6", ip |-> ip, port |-> 443]

\* A SOCKS5 client that connects to I1, without anything special.
Base == [workers |-> 2, config_type |-> "Socks5Local", mode |-> "TcpAndUdp", acl |-> {}, server_acl |-> {}, plugins |-> {},
         methods |-> <<0>>, command |-> 1, addr |-> ToIp(I1), up |-> <<>>, down |-> <<>>, eager |-> FALSE,
         requests |-> <<>>, responses |-> {}, queries |-> <<>>, long_responses |-> FALSE, accept_fails |-> FALSE]

\* HTTP requests and responses.
Header(name, value) == [name |-> name, value |-> value, end_to_end |-> FALSE]
EndToEnd(name) == [name |-> name, value |-> <<"x">>, end_to_end |-> TRUE]
Authority(addr, port) == [host |-> addr, port |-> port]
NoUri == [scheme |-> "none", authority |-> {}]
Absolute(scheme, addr, port) == [scheme |-> scheme, authority |-> {Authority(addr, port)}]
Invalid == [type |-> "invalid"]

Get == [method |-> "GET", uri |-> NoUri, host |-> {}, version |-> "1.1", headers |-> <<EndToEnd("accept")>>,
        addr |-> ToIp(I1)]
Connect(uri, addr) == [Get EXCEPT !.method = "CONNECT", !.uri = uri, !.addr = addr]

\* A name without a port, under https; the client lists a header of its own as the connection's.
GetHttps == [Get EXCEPT !.uri = Absolute("https", ToName(A), {}), !.addr = ToName(A),
                        !.headers = <<EndToEnd("accept"), Header("x-own", <<"x">>), Header("te", <<"x">>),
                                      Header("connection", <<"keep-alive", "x-own">>)>>]
\* One that has more than close to say.
GetList == [Get EXCEPT !.uri = Absolute("http", ToIp(I1), {443}), !.headers = <<Header("te", <<"x">>), Header("connection", <<"close", "te">>)>>]
\* A transparent client, which names the host in the header only, in HTTP/1.0.
GetByHost == [Get EXCEPT !.host = {Authority(ToIp(V6), {443})}, !.addr = ToIp(V6), !.version = "1.0",
                         !.headers = <<Header("proxy-connection", <<"keep-alive">>), EndToEnd("host")>>]
\* A client that asks for an end, in the words of a proxy's client and in both.
GetClosing == [Get EXCEPT !.uri = Absolute("http", ToIp(I1), {443}),
                          !.headers = <<Header("proxy-connection", <<"close">>), EndToEnd("accept")>>]
GetBoth == [GetClosing EXCEPT !.headers = <<Header("connection", <<"keep-alive">>)>> \o @]
\* Requests that name no host: a scheme without a known port, a header that is none.
GetFtp == [Get EXCEPT !.uri = Absolute("ftp", ToName(A), {}), !.addr = ToName(A)]
GetNothing == [Get EXCEPT !.host = {Authority(Invalid, {})}]

Response == [version |-> "1.1", headers |-> <<EndToEnd("etag"), Header("x-own", <<"x">>), Header("connection", <<"x-own">>)>>]
LastResponse == [Response EXCEPT !.headers = <<Header("connection", <<"close">>), EndToEnd("etag")>>]
OldResponse == [Response EXCEPT !.version = "1.0", !.headers = <<Header("connection", <<"keep-alive">>)>>]

MCConfigs ==
    {\* a client in a hurry, by name, to a server that blocks one of the name's addresses
     [Base EXCEPT !.addr = ToName(A), !.up = <<21, 22>>, !.down = <<31>>, !.eager = TRUE, !.server_acl = {BlockI2}],
     \* a name that is blocked
     [Base EXCEPT !.addr = ToName(B), !.server_acl = {BlockI2}],
     \* the DNS relay records names for the addresses the client connects to
     [Base EXCEPT !.config_type = "RedirLocal", !.acl = {ProxyAll},
                  !.queries = <<Query(B), Query(C)>>, !.server_acl = {RejectAll}],
     [Base EXCEPT !.config_type = "RedirLocal", !.acl = {BypassAll}, !.addr = ToIp(I2),
                  !.queries = <<[is |-> "empty"], Query(C), [is |-> "garbage"]>>, !.long_responses = TRUE],
     \* the same in the single-threaded build
     [Base EXCEPT !.workers = 1, !.config_type = "RedirLocal", !.acl = {ProxyAll}, !.queries = <<Query(C), Query(B)>>,
                  !.server_acl = {RejectAll}],
     \* names judged by their addresses, and without resolving them
     [Base EXCEPT !.addr = ToName(C), !.acl = {ProxyAll}],
     [Base EXCEPT !.addr = ToName(A), !.acl = {BypassAll}],
     \* both programs have plugins, and may end
     [Base EXCEPT !.config_type = "TunnelLocal", !.addr = ToIp(V6), !.plugins = Sides,
                  !.server_acl = {RejectAll}, !.accept_fails = TRUE],
     \* transparent connections that carry something
     [Base EXCEPT !.config_type = "TunnelLocal", !.up = <<21>>],
     [Base EXCEPT !.config_type = "RedirLocal", !.up = <<21>>],
     \* an HTTP proxy: a tunnel for a client in a hurry, requests on one connection
     [Base EXCEPT !.config_type = "HttpLocal", !.up = <<21>>, !.down = <<31>>, !.eager = TRUE,
                  !.requests = <<Connect(Absolute("none", ToIp(I1), {443}), ToIp(I1))>>],
     [Base EXCEPT !.config_type = "HttpLocal", !.acl = {BypassAll}, !.requests = <<GetHttps, GetByHost, GetBoth>>,
                  !.responses = {Response}],
     [Base EXCEPT !.config_type = "HttpLocal", !.requests = <<GetNothing, GetList, GetClosing>>, !.responses = {Response}],
     [Base EXCEPT !.config_type = "HttpLocal", !.requests = <<GetHttps, GetHttps, GetFtp>>,
                  !.responses = {Response, LastResponse, OldResponse}],
     \* requests that are refused, and an association
     [Base EXCEPT !.server_acl = {RejectAll}],
     [Base EXCEPT !.methods = <<2>>],
     [Base EXCEPT !.command = 2],
     [Base EXCEPT !.command = 9],
     [Base EXCEPT !.addr = ToName(<<255>>)],
     [Base EXCEPT !.mode = "UdpOnly"],
     [Base EXCEPT !.mode = "UdpOnly", !.command = 3, !.up = <<21>>]}
=============================================================================

------------------------------ MODULE UdpLocal ------------------------------
(***************************************************************************)
(* The UDP relay of the local server: the three frontends (SOCKS5, tunnel, *)
(* transparent redirection) and the associations they share                *)
(* (relay/udprelay/association.rs).                                        *)
(*                                                                         *)
(* An association sends through the proxy server or directly, as the ACL   *)
(* says: a SOCKS5 or tunnel association asks for every packet and has a    *)
(* socket for each way, a redir association is created for one way.  The   *)
(* map's lock is held while an association is created and while the packet *)
(* waits for room in its queue.                                            *)
(*                                                                         *)
(* A packet is its serial number.  What comes back to a client is "reply", *)
(* what the remote sent; "altered", other bytes made of a remote's reply;  *)
(* or "stray", made of a packet nobody asked for.                          *)
(***************************************************************************)
EXTENDS Naturals, Sequences, FiniteSets

CONSTANTS
    Clients,        \* addresses packets come from
    Targets,        \* addresses packets are for
    NoKey,          \* no packet in hand
    Capacity,       \* size of the mpsc channels (1024 in the code)
    MaxAssoc,       \* bound: associations created in a behaviour
    MaxPackets,     \* bound: packets received from clients
    MaxReplies      \* bound: packets received from remotes

ASSUME LocalAssumption ==
    /\ Capacity \in Nat \ {0}
    /\ {MaxAssoc, MaxPackets, MaxReplies} \subseteq Nat

VARIABLES
    front,          \* the frontend: "client" (SOCKS5 or tunnel) or "redir"
    lpc,            \* listening loop: where it waits
    lkey,           \* listening loop: key of the packet in hand
    lbypass,        \* listening loop: the ACL's answer for it (redir)
    timer,          \* listening loop: the timeout of recv_from has "passed" or is
                    \* "running", "restarted" after a packet that was ignored
    assoc_map,      \* key -> association, 0 = no entry
    expired,        \* keys whose entry was not used for the timeout
    created,        \* how many associations were created
    key,            \* an association's key
    kind,           \* "acl", "proxied" or "bypassed"
    l2r,            \* state of an association's local -> remote task
    l2r_rx,         \* its queue of packets
    l2r_pkt,        \* the packet it is relaying
    routes,         \* history: the ways it sent packets
    r2l,            \* state of the task of each socket of an association
    r2l_data,       \* what that task received
    rpc,            \* response task (not for redir): where it waits
    resp_rx,        \* its queue of replies
    rpkt,           \* the reply it holds
    rx,             \* packets received from clients
    replies,        \* packets received from remotes
    delivered       \* history: what was sent to clients

listener == <<lpc, lkey, lbypass, timer>>
cache == <<assoc_map, expired>>
ident == <<created, key, kind>>
tasks == <<l2r, l2r_rx, l2r_pkt, routes>>
back == <<r2l, r2l_data>>
response == <<rpc, resp_rx, rpkt>>
stats == <<rx, replies, delivered>>
vars == <<front, listener, cache, ident, tasks, back, response, stats>>

Ids == 1..MaxAssoc
Sockets == {"proxied", "bypass"}
Keys == {<<c>> : c \in Clients} \cup (Clients \X Targets)
NoReply == [id |-> 0, data |-> "none"]

Init ==
    /\ front \in {"client", "redir"}
    /\ lpc = "recv" /\ lkey = NoKey /\ lbypass = FALSE /\ timer = "running"
    /\ assoc_map = [k \in Keys |-> 0] /\ expired = {}
    /\ created = 0
    /\ key = [i \in Ids |-> <<>>] /\ kind = [i \in Ids |-> "none"]
    /\ l2r = [i \in Ids |-> "none"]
    /\ l2r_rx = [i \in Ids |-> <<>>]
    /\ l2r_pkt = [i \in Ids |-> 0]
    /\ routes = [i \in Ids |-> {}]
    /\ r2l = [i \in Ids |-> [s \in Sockets |-> "none"]]
    /\ r2l_data = [i \in Ids |-> [s \in Sockets |-> "none"]]
    /\ rpc = IF front = "redir" THEN "gone" ELSE "recv"
    /\ resp_rx = <<>> /\ rpkt = NoReply
    /\ rx = 0 /\ replies = 0 /\ delivered = {}

\* check_target_bypassed (module Acl): its answer for a target may differ from
\* one question to the next, since names resolve to other addresses and the DNS
\* relay caches names for addresses.
AclAnswers == BOOLEAN
-----------------------------------------------------------------------------
(* The association map *)

\* LruCache: entry, get, insert and iter first drop the entries that expired.
Fresh == [k \in Keys |-> IF k \in expired THEN 0 ELSE assoc_map[k]]

Expire(k) ==
    /\ assoc_map[k] # 0 /\ k \notin expired
    /\ expired' = expired \cup {k}
    /\ UNCHANGED <<front, listener, assoc_map, ident, tasks, back, response, stats>>

\* The map owns the associations; an association owns the sender of its queue
\* and the watchers of its sockets' tasks.
Held(i) == \E k \in Keys : assoc_map[k] = i

\* Mutant of LockFree: the lock is not kept for the mutable reference.
LockFreeInSend == lpc # "associate"

\* "Lock is still kept for a mutable reference": from the lookup of an
\* association to the moment its queue took the packet.
LockFree == lpc \notin {"associate", "send"}

Alive(i) == \E s \in Sockets : r2l[i][s] \notin {"none", "done"}

\* The map is shared with the response task or, for redir, with the sockets'
\* tasks, and freed with the last of them.
MapShared == rpc # "gone" \/ (front = "redir" /\ \E i \in Ids : Alive(i))
-----------------------------------------------------------------------------
(* The listening loop *)

\* Looking up the association of the packet in hand under the lock.
Lookup(k) ==
    /\ assoc_map' = Fresh /\ expired' = {}
    /\ lpc' = IF Fresh[k] = 0 THEN "associate" ELSE "send"

\* SOCKS5 and tunnel: the target is in the packet's header or the configured one;
\* associations are kept under the client's address in either case.
ClientRecv(c) ==
    /\ front = "client" /\ lpc = "recv" /\ rx < MaxPackets
    /\ Fresh[<<c>>] # 0 \/ created < MaxAssoc
    /\ rx' = rx + 1
    /\ lkey' = <<c>> /\ timer' = "running"
    /\ Lookup(<<c>>)
    /\ UNCHANGED <<front, lbypass, ident, tasks, back, response, replies, delivered>>

\* redir: the target comes with the packet and is part of the key.  The ACL is
\* asked before the map is locked.
RedirRecv(c, t) ==
    /\ front = "redir" /\ lpc = "recv" /\ rx < MaxPackets
    /\ rx' = rx + 1
    /\ lkey' = <<c, t>> /\ timer' = "running"
    /\ lbypass' \in AclAnswers
    /\ lpc' = "acl"
    /\ UNCHANGED <<front, cache, ident, tasks, back, response, replies, delivered>>

\* The ACL's answer has come (it may need a DNS query).
RedirLookup ==
    /\ lpc = "acl"
    /\ Lookup(lkey)
    /\ UNCHANGED <<front, lkey, lbypass, timer, ident, tasks, back, response, stats>>

\* A packet that is empty or, for SOCKS5, does not parse or is fragmented: the
\* map is not touched, and recv_from is called with a new timeout.
ListenerIgnore ==
    /\ lpc = "recv"
    /\ timer' = "restarted"
    /\ UNCHANGED <<front, lpc, lkey, lbypass, cache, ident, tasks, back, response, stats>>

\* Nothing is received for the timeout ...
ListenerWaits ==
    /\ lpc = "recv" /\ timer # "passed"
    /\ timer' = "passed"
    /\ UNCHANGED <<front, lpc, lkey, lbypass, cache, ident, tasks, back, response, stats>>

\* Mutant of ListenerTimeout: the map is not touched when nothing is received.
ListenerTimeoutIdle ==
    /\ lpc = "recv" /\ timer = "passed"
    /\ timer' = "running"
    /\ UNCHANGED <<front, lpc, lkey, lbypass, cache, ident, tasks, back, response, stats>>

\* ... and the entries that expired are dropped.
ListenerTimeout ==
    /\ lpc = "recv" /\ timer = "passed"
    /\ timer' = "running"
    /\ assoc_map' = Fresh /\ expired' = {}
    /\ UNCHANGED <<front, lpc, lkey, lbypass, ident, tasks, back, response, stats>>

\* The sockets of a new association; each gets a task local <- remote that ends
\* with its watcher.
associate_with_acl == [kind |-> "acl", sockets |-> {"proxied", "bypass"}]
associate_proxied == [kind |-> "proxied", sockets |-> {"proxied"}]
associate_bypassed == [kind |-> "bypassed", sockets |-> {"bypass"}]

\* Mutant of NewAssociation: redir lets the association ask the ACL, too.
NewAssociationAcl == associate_with_acl

NewAssociation ==
    IF front # "redir" THEN associate_with_acl
    ELSE IF lbypass THEN associate_bypassed ELSE associate_proxied

Spawned(a) == [s \in Sockets |-> IF s \in a.sockets THEN "recv" ELSE "none"]

\* The sockets are bound, the tasks spawned, the entry inserted.
ListenerAssociate ==
    LET i == created + 1
    IN  /\ lpc = "associate" /\ created < MaxAssoc
        /\ created' = i
        /\ key' = [key EXCEPT ![i] = lkey]
        /\ kind' = [kind EXCEPT ![i] = NewAssociation.kind]
        /\ l2r' = [l2r EXCEPT ![i] = "recv"]
        /\ r2l' = [r2l EXCEPT ![i] = Spawned(NewAssociation)]
        /\ assoc_map' = [Fresh EXCEPT ![lkey] = i] /\ expired' = {}
        /\ lpc' = "send"
        /\ UNCHANGED <<front, lkey, lbypass, timer, l2r_rx, l2r_pkt, routes, r2l_data, response, stats>>

\* redir cannot bind the target's address for the replies: the packet is lost.
ListenerBindFails ==
    /\ lpc = "associate" /\ front = "redir"
    /\ lpc' = "recv" /\ lkey' = NoKey /\ lbypass' = FALSE
    /\ UNCHANGED <<front, timer, cache, ident, tasks, back, response, stats>>

\* The packet goes into the queue once there is room; the lock is released.
ListenerSend ==
    LET i == assoc_map[lkey]
    IN  /\ lpc = "send"
        /\ Len(l2r_rx[i]) < Capacity
        /\ l2r_rx' = [l2r_rx EXCEPT ![i] = Append(@, rx)]
        /\ lpc' = "recv" /\ lkey' = NoKey /\ lbypass' = FALSE
        /\ UNCHANGED <<front, timer, cache, ident, l2r, l2r_pkt, routes, back, response, stats>>

\* The loop ends: receiving failed, an association could not be created and
\* `expect` panics, or the future is dropped with the local server.
ListenerGone ==
    /\ lpc # "gone"
    /\ lpc' = "gone" /\ lkey' = NoKey /\ lbypass' = FALSE /\ timer' = "running"
    /\ assoc_map' = IF MapShared THEN assoc_map ELSE [k \in Keys |-> 0]
    /\ expired' = IF MapShared THEN expired ELSE {}
    /\ UNCHANGED <<front, ident, tasks, back, response, stats>>
-----------------------------------------------------------------------------
(* The task local -> remote of an association *)

\* Mutant of L2rRecv: the entry is refreshed under the lock before the queue is read.
L2rRecvLocked(i) ==
    /\ LockFree
    /\ l2r[i] = "recv" /\ l2r_rx[i] # <<>>
    /\ l2r' = [l2r EXCEPT ![i] = "relay"]
    /\ l2r_pkt' = [l2r_pkt EXCEPT ![i] = Head(l2r_rx[i])]
    /\ l2r_rx' = [l2r_rx EXCEPT ![i] = Tail(@)]
    /\ UNCHANGED <<front, listener, cache, ident, routes, back, response, stats>>

L2rRecv(i) ==
    /\ l2r[i] = "recv" /\ l2r_rx[i] # <<>>
    /\ l2r' = [l2r EXCEPT ![i] = "relay"]
    /\ l2r_pkt' = [l2r_pkt EXCEPT ![i] = Head(l2r_rx[i])]
    /\ l2r_rx' = [l2r_rx EXCEPT ![i] = Tail(@)]
    /\ UNCHANGED <<front, listener, cache, ident, routes, back, response, stats>>

\* send_packet_proxied or send_packet_bypassed: the packet was sent, or failed
\* to be encrypted, resolved or sent, which is logged; the task goes on.
SendPacket(i, s) ==
    /\ l2r[i] = "relay"
    /\ l2r' = [l2r EXCEPT ![i] = "recv"]
    /\ l2r_pkt' = [l2r_pkt EXCEPT ![i] = 0]
    /\ \/ routes' = [routes EXCEPT ![i] = @ \cup {s}]
       \/ UNCHANGED routes
    /\ UNCHANGED <<front, listener, cache, ident, l2r_rx, back, response, stats>>

\* l2r_packet_acl asks the ACL for every packet, the other two know the way.
L2rAcl(i) ==
    /\ kind[i] = "acl"
    /\ \E is_bypassed \in AclAnswers : SendPacket(i, IF is_bypassed THEN "bypass" ELSE "proxied")

L2rProxied(i) == kind[i] = "proxied" /\ SendPacket(i, "proxied")

L2rBypassed(i) == kind[i] = "bypassed" /\ SendPacket(i, "bypass")

\* The queue is empty and the association, which owns its sender, was dropped.
L2rFinish(i) ==
    /\ l2r[i] = "recv" /\ l2r_rx[i] = <<>> /\ ~Held(i)
    /\ l2r' = [l2r EXCEPT ![i] = "done"]
    /\ UNCHANGED <<front, listener, cache, ident, l2r_rx, l2r_pkt, routes, back, response, stats>>
-----------------------------------------------------------------------------
(* The tasks local <- remote, one for each socket *)

\* What decrypt_payload and Address::read_from make of a packet ("none": it is
\* refused).  A reply of the proxy server is opened, unless its nonce is taken
\* for a used one; the plain reply of a direct target fails the check of an AEAD
\* cipher, and a stream cipher turns it into other bytes, which may or may not
\* begin with an address.  So it does with a packet of anybody else.
Decrypted(s) == {"none", IF s = "proxied" THEN "reply" ELSE "altered"}
DecryptedStray == {"none", "stray"}

\* A socket receives from anyone: from a remote it was written to, or else a
\* stray packet.  recv_packet_proxied treats the packets of both sockets alike;
\* an error is logged and the task goes on.
R2lRecv(i, s) ==
    /\ r2l[i][s] = "recv" /\ replies < MaxReplies
    /\ replies' = replies + 1
    /\ \E d \in DecryptedStray \cup (IF s \in routes[i] THEN Decrypted(s) ELSE {}) :
        /\ r2l_data' = [r2l_data EXCEPT ![i][s] = d]
        /\ r2l' = [r2l EXCEPT ![i][s] = IF d = "none" THEN "recv" ELSE "send"]
    /\ UNCHANGED <<front, listener, cache, ident, tasks, response, rx, delivered>>

\* ProxyHandler::send_packet of SOCKS5 and tunnel: the reply is queued for the
\* response task, or lost if that task is gone.
R2lSend(i, s) ==
    /\ r2l[i][s] = "send" /\ front # "redir"
    /\ \/ /\ rpc # "gone" /\ Len(resp_rx) < Capacity
          /\ resp_rx' = Append(resp_rx, [id |-> i, data |-> r2l_data[i][s]])
       \/ rpc = "gone" /\ UNCHANGED resp_rx
    /\ r2l' = [r2l EXCEPT ![i][s] = "recv"]
    /\ r2l_data' = [r2l_data EXCEPT ![i][s] = "none"]
    /\ UNCHANGED <<front, listener, cache, ident, tasks, rpc, rpkt, stats>>

\* send_packet of redir: the reply is sent from the target's address, then the
\* entry is refreshed under the lock; if sending fails, it is not.
R2lSendRedir(i, s) ==
    /\ r2l[i][s] = "send" /\ front = "redir"
    /\ \/ /\ delivered' = delivered \cup {r2l_data[i][s]}
          /\ r2l' = [r2l EXCEPT ![i][s] = "lock"]
       \/ UNCHANGED delivered /\ r2l' = [r2l EXCEPT ![i][s] = "recv"]
    /\ r2l_data' = [r2l_data EXCEPT ![i][s] = "none"]
    /\ UNCHANGED <<front, listener, cache, ident, tasks, response, rx, replies>>

R2lRefresh(i, s) ==
    /\ r2l[i][s] = "lock" /\ LockFree
    /\ assoc_map' = Fresh /\ expired' = {}
    /\ r2l' = [r2l EXCEPT ![i][s] = "recv"]
    /\ UNCHANGED <<front, listener, ident, tasks, r2l_data, response, stats>>

\* The watcher was dropped with the association: the task ends at its await.
R2lCancel(i, s) ==
    /\ r2l[i][s] \in {"recv", "send", "lock"} /\ ~Held(i)
    /\ r2l' = [r2l EXCEPT ![i][s] = "done"]
    /\ r2l_data' = [r2l_data EXCEPT ![i][s] = "none"]
    /\ UNCHANGED <<front, listener, cache, ident, tasks, response, stats>>
-----------------------------------------------------------------------------
(* The response task of SOCKS5 and tunnel *)

RespRecv ==
    /\ rpc = "recv" /\ resp_rx # <<>>
    /\ rpc' = "lock" /\ rpkt' = Head(resp_rx) /\ resp_rx' = Tail(resp_rx)
    /\ UNCHANGED <<front, listener, cache, ident, tasks, back, stats>>

\* The reply is thrown away unless its client has an association.
RespGet ==
    /\ rpc = "lock" /\ LockFree
    /\ assoc_map' = Fresh /\ expired' = {}
    /\ IF Fresh[key[rpkt.id]] = 0
       THEN rpc' = "recv" /\ rpkt' = NoReply
       ELSE rpc' = "send" /\ UNCHANGED rpkt
    /\ UNCHANGED <<front, listener, ident, tasks, back, resp_rx, stats>>

\* SOCKS5 puts a header with the client's own address before the payload.
RespSend ==
    /\ rpc = "send"
    /\ rpc' = "recv" /\ rpkt' = NoReply
    /\ delivered' = delivered \cup {rpkt.data}
    /\ UNCHANGED <<front, listener, cache, ident, tasks, back, resp_rx, rx, replies>>

\* send_to failed: the task breaks out of its loop.
RespBreak ==
    /\ rpc = "send"
    /\ rpc' = "gone" /\ rpkt' = NoReply /\ resp_rx' = <<>>
    /\ assoc_map' = IF lpc = "gone" THEN [k \in Keys |-> 0] ELSE assoc_map
    /\ expired' = IF lpc = "gone" THEN {} ELSE expired
    /\ UNCHANGED <<front, listener, ident, tasks, back, stats>>

\* Mutant of RespFinish: the sockets' tasks do not keep the queue open.
RespFinishEarly ==
    /\ rpc = "recv" /\ resp_rx = <<>>
    /\ lpc = "gone"
    /\ rpc' = "gone"
    /\ assoc_map' = [k \in Keys |-> 0] /\ expired' = {}
    /\ UNCHANGED <<front, listener, ident, tasks, back, resp_rx, rpkt, stats>>

\* Every sender of the reply queue was dropped: the listening loop's and those
\* of the sockets' tasks.
RespFinish ==
    /\ rpc = "recv" /\ resp_rx = <<>>
    /\ lpc = "gone" /\ \A i \in Ids : ~Alive(i)
    /\ rpc' = "gone"
    /\ assoc_map' = [k \in Keys |-> 0] /\ expired' = {}
    /\ UNCHANGED <<front, listener, ident, tasks, back, resp_rx, rpkt, stats>>
-----------------------------------------------------------------------------
ListenerStep == RedirLookup \/ ListenerAssociate \/ ListenerBindFails \/ ListenerSend
L2rStep(i) == L2rRecv(i) \/ L2rAcl(i) \/ L2rProxied(i) \/ L2rBypassed(i) \/ L2rFinish(i)
R2lStep(i, s) == R2lSend(i, s) \/ R2lSendRedir(i, s) \/ R2lRefresh(i, s)
RespStep == RespRecv \/ RespGet \/ RespSend \/ RespFinish

Next ==
    \/ \E k \in Keys : Expire(k)
    \/ \E c \in Clients : ClientRecv(c) \/ \E t \in Targets : RedirRecv(c, t)
    \/ ListenerIgnore \/ ListenerWaits \/ ListenerTimeout \/ ListenerGone \/ ListenerStep
    \/ \E i \in Ids : L2rStep(i)
    \/ \E i \in Ids, s \in Sockets : R2lRecv(i, s) \/ R2lStep(i, s) \/ R2lCancel(i, s)
    \/ RespStep \/ RespBreak

Spec == Init /\ [][Next]_vars

\* tokio polls every task that is ready; DNS queries and UDP sends return.  Of
\* the two sockets' tasks of an association it is enough that one of those that
\* are ready goes on.  A timeout passes unless a packet restarts it.  Nothing is
\* assumed of clients and remotes, of failures, of the ACL, or of the moment
\* entries expire.
Fairness ==
    /\ WF_vars(ListenerStep) /\ WF_vars(ListenerWaits) /\ WF_vars(ListenerTimeout)
    /\ WF_vars(RespStep)
    /\ \A i \in Ids :
        /\ WF_vars(L2rStep(i))
        /\ WF_vars(\E s \in Sockets : R2lStep(i, s))
        /\ WF_vars(\E s \in Sockets : R2lCancel(i, s))

FairSpec == Spec /\ Fairness
-----------------------------------------------------------------------------
(* Properties *)

\* ProxyAssociation::send never meets a closed queue ("SHOULDn't HAPPEN"): the
\* association in hand cannot be evicted before its queue took the packet,
\* although other tasks want to refresh or look up entries meanwhile, because
\* the lock is kept.
SendNeverClosed ==
    lpc = "send" => /\ assoc_map[lkey] # 0
                    /\ l2r[assoc_map[lkey]] \notin {"none", "done"}

\* A redirected flow keeps its way: all the packets of a redir association go
\* through the proxy or all of them go directly, although the ACL's answer for
\* its target may change at any time, even between the question and the lock
\* (associate_proxied and associate_bypassed in redir_local.rs).
FlowKeepsRoute == front = "redir" => \A i \in Ids : Cardinality(routes[i]) <= 1

\* Nobody waits for ever, although the loop keeps the lock while it waits for a
\* queue, and the response task or the sockets' tasks wait for that lock.
NobodyStuck ==
    /\ []<>(lpc \in {"recv", "gone"})
    /\ \A i \in Ids, s \in Sockets : []<>(r2l[i][s] \notin {"send", "lock"})

\* While the frontend listens, entries that expired are evicted, with or without
\* traffic (the cleanup after the timeout of recv_from), unless packets keep
\* coming that are ignored: they restart the timeout, and they alone never
\* reach the map.
ExpiredEvicted ==
    <>[](timer # "restarted") => []<>(expired = {} \/ lpc = "gone")

\* The frontend's socket, its associations and its response task behave as
\* UdpPort says: after the loop is gone no association appears, a reply is sent
\* only for a client with an association that works, and unless it fails to send
\* one the response task ends only after the loop and the last association.
Sock == IF lpc # "gone"
        THEN IF rpc # "gone" THEN "open" ELSE "loop"
        ELSE IF rpc # "gone" THEN "half" ELSE "closed"
AnyAssoc == \E i \in Ids : Alive(i)
Port == INSTANCE UdpPort WITH sock <- Sock, assoc <- AnyAssoc, replying <- rpc = "send"
PortSpec == Port!Spec

\* What a target that is reached directly answers never comes to the client as
\* other bytes: a direct connection carries what its ends sent ("BYPASSED, so
\* just send it directly without any modifications").
DirectReplyUnmodified == "altered" \notin delivered
=============================================================================

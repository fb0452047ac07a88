----------------------------- MODULE UdpServer -----------------------------
(***************************************************************************)
(* One UDP listener of the relay server (relay/udprelay/server.rs): the    *)
(* listening loop, the response task that sends replies to clients, and    *)
(* the two tasks (local -> remote, local <- remote) of every association.  *)
(*                                                                         *)
(* An association is kept in an LRU map under its client's address and is  *)
(* evicted only when it was not used for the timeout; its tasks end when   *)
(* the last handle to it is dropped.  Packets and replies are their serial *)
(* numbers; decryption, addresses, ACL and DNS are reduced to whether a    *)
(* packet gets relayed.                                                    *)
(***************************************************************************)
EXTENDS Naturals, Sequences

CONSTANTS
    Clients,        \* addresses packets come from
    NoClient,       \* before the first packet
    Capacity,       \* size of the mpsc channels (1024 in the code)
    MaxAssoc,       \* bound: associations created in a behaviour
    MaxPackets,     \* bound: packets received from clients
    MaxReplies      \* bound: packets received from remotes

ASSUME ServerAssumption ==
    /\ NoClient \notin Clients
    /\ Capacity \in Nat \ {0}
    /\ MaxAssoc \in Nat
    /\ MaxPackets \in Nat
    /\ MaxReplies \in Nat

VARIABLES
    lpc,            \* listening loop: where it waits
    lsrc,           \* listening loop: client of the packet in hand
    hand,           \* listening loop: the cloned association handle, 0 = none
    assoc_map,      \* client -> association, 0 = no entry
    expired,        \* clients whose entry was not used for the timeout
    created,        \* how many associations were created
    owner,          \* client of an association
    l2r,            \* state of an association's local -> remote task
    l2r_rx,         \* its queue of packets
    l2r_pkt,        \* the packet it is relaying
    r2l,            \* state of an association's local <- remote task
    rpc,            \* response task: where it waits
    resp_rx,        \* its queue of replies: the associations they came from
    rpkt,           \* the reply it holds, 0 = none
    rx,             \* packets received (flow statistics)
    tx,             \* replies sent (flow statistics)
    replies         \* packets received from remotes

listener == <<lpc, lsrc, hand>>
cache == <<assoc_map, expired>>
tasks == <<l2r, l2r_rx, l2r_pkt>>
response == <<rpc, resp_rx, rpkt>>
vars == <<listener, cache, created, owner, tasks, r2l, response, rx, tx, replies>>

Ids == 1..MaxAssoc

Init ==
    /\ lpc = "recv" /\ lsrc = NoClient /\ hand = 0
    /\ assoc_map = [c \in Clients |-> 0]
    /\ expired = {}
    /\ created = 0
    /\ owner = [i \in Ids |-> NoClient]
    /\ l2r = [i \in Ids |-> "none"]
    /\ l2r_rx = [i \in Ids |-> <<>>]
    /\ l2r_pkt = [i \in Ids |-> 0]
    /\ r2l = [i \in Ids |-> "none"]
    /\ rpc = "recv" /\ resp_rx = <<>> /\ rpkt = 0
    /\ rx = 0 /\ tx = 0 /\ replies = 0
-----------------------------------------------------------------------------
(* The association map *)

\* LruCache: entry, get, insert and iter first drop the entries that expired.
Fresh == [c \in Clients |-> IF c \in expired THEN 0 ELSE assoc_map[c]]

\* Time passes without an access to c's entry.
Expire(c) ==
    /\ assoc_map[c] # 0
    /\ c \notin expired
    /\ expired' = expired \cup {c}
    /\ UNCHANGED <<listener, assoc_map, created, owner, tasks, r2l, response, rx, tx, replies>>

\* A handle exists: an entry of the map or the clone the listening loop holds.
\* It owns the sender of the queue and the watcher of the local <- remote task.
Held(i) == hand = i \/ \E c \in Clients : assoc_map[c] = i

\* The listening loop holds the map's lock while it creates an association.
LockFree == lpc # "associate"

\* The map is shared by the listening loop and the response task, and freed
\* with the associations in it when the second of them is gone.
FreeMapIf(b) ==
    /\ assoc_map' = IF b THEN [c \in Clients |-> 0] ELSE assoc_map
    /\ expired' = IF b THEN {} ELSE expired
-----------------------------------------------------------------------------
(* The listening loop *)

\* Mutant of ListenerRecv: every packet gets a new association.
ListenerRecvReplaces(c) ==
    /\ lpc = "recv" /\ rx < MaxPackets /\ created < MaxAssoc
    /\ rx' = rx + 1
    /\ lsrc' = c
    /\ assoc_map' = [Fresh EXCEPT ![c] = 0]
    /\ expired' = {}
    /\ hand' = 0
    /\ lpc' = "associate"
    /\ UNCHANGED <<created, owner, tasks, r2l, response, tx, replies>>

\* A packet of a client: its association is looked up under the lock; without
\* one the loop keeps the lock and goes on to create it.
ListenerRecv(c) ==
    /\ lpc = "recv" /\ rx < MaxPackets
    /\ Fresh[c] # 0 \/ created < MaxAssoc
    /\ rx' = rx + 1
    /\ lsrc' = c
    /\ assoc_map' = Fresh
    /\ expired' = {}
    /\ hand' = Fresh[c]
    /\ lpc' = IF Fresh[c] = 0 THEN "associate" ELSE "send"
    /\ UNCHANGED <<created, owner, tasks, r2l, response, tx, replies>>

\* An empty packet, or one of a client the ACL blocks.
ListenerIgnore ==
    /\ lpc = "recv" /\ rx < MaxPackets
    /\ rx' = rx + 1
    /\ UNCHANGED <<listener, cache, created, owner, tasks, r2l, response, tx, replies>>

\* Nothing was received for the timeout.
ListenerTimeout ==
    /\ lpc = "recv"
    /\ assoc_map' = Fresh
    /\ expired' = {}
    /\ UNCHANGED <<listener, created, owner, tasks, r2l, response, rx, tx, replies>>

\* The outbound socket is bound, both tasks are spawned, the entry is inserted
\* (which drops what expired meanwhile), the handle cloned, the lock released.
ListenerAssociate ==
    LET i == created + 1
    IN  /\ lpc = "associate"
        /\ created' = i
        /\ owner' = [owner EXCEPT ![i] = lsrc]
        /\ l2r' = [l2r EXCEPT ![i] = "recv"]
        /\ r2l' = [r2l EXCEPT ![i] = "recv"]
        /\ assoc_map' = [Fresh EXCEPT ![lsrc] = i]
        /\ expired' = {}
        /\ hand' = i
        /\ lpc' = "send"
        /\ UNCHANGED <<lsrc, l2r_rx, l2r_pkt, response, rx, tx, replies>>

\* The packet goes into the association's queue once there is room; the clone
\* of the handle is dropped.
ListenerSend ==
    /\ lpc = "send"
    /\ Len(l2r_rx[hand]) < Capacity
    /\ l2r_rx' = [l2r_rx EXCEPT ![hand] = Append(@, rx)]
    /\ lpc' = "recv"
    /\ hand' = 0
    /\ UNCHANGED <<lsrc, cache, created, owner, l2r, l2r_pkt, r2l, response, rx, tx, replies>>

\* The loop ends: receiving failed (lpc = "recv"), the association could not be
\* created and `expect` panics (lpc = "associate"), or the future is dropped at
\* the await it is in, because its server was stopped.
ListenerGone ==
    /\ lpc # "gone"
    /\ lpc' = "gone"
    /\ hand' = 0
    /\ FreeMapIf(rpc = "gone")
    /\ UNCHANGED <<lsrc, created, owner, tasks, r2l, response, rx, tx, replies>>
-----------------------------------------------------------------------------
(* The tasks of an association *)

L2rRecv(i) ==
    /\ l2r[i] = "recv" /\ l2r_rx[i] # <<>>
    /\ l2r' = [l2r EXCEPT ![i] = "relay"]
    /\ l2r_pkt' = [l2r_pkt EXCEPT ![i] = Head(l2r_rx[i])]
    /\ l2r_rx' = [l2r_rx EXCEPT ![i] = Tail(@)]
    /\ UNCHANGED <<listener, cache, created, owner, r2l, response, rx, tx, replies>>

\* Mutant of L2rRelay: the task breaks out of its loop on an error.
L2rRelayBreaks(i) ==
    /\ l2r[i] = "relay"
    /\ \E pc \in {"recv", "done"} : l2r' = [l2r EXCEPT ![i] = pc]
    /\ UNCHANGED <<listener, cache, created, owner, l2r_rx, l2r_pkt, r2l, response, rx, tx, replies>>

\* relay_l2r returns: the packet was sent, the ACL blocked its target, or it
\* failed to decrypt, to resolve or to be sent in time.  The task goes on in
\* every case.
L2rRelay(i) ==
    /\ l2r[i] = "relay"
    /\ l2r' = [l2r EXCEPT ![i] = "recv"]
    /\ UNCHANGED <<listener, cache, created, owner, l2r_rx, l2r_pkt, r2l, response, rx, tx, replies>>

\* Mutant of L2rFinish: the task ends with the last handle, as its twin does.
L2rFinishUndrained(i) ==
    /\ l2r[i] = "recv" /\ ~Held(i)
    /\ l2r' = [l2r EXCEPT ![i] = "done"]
    /\ UNCHANGED <<listener, cache, created, owner, l2r_rx, l2r_pkt, r2l, response, rx, tx, replies>>

\* The queue is empty and every sender of it was dropped.
L2rFinish(i) ==
    /\ l2r[i] = "recv" /\ l2r_rx[i] = <<>> /\ ~Held(i)
    /\ l2r' = [l2r EXCEPT ![i] = "done"]
    /\ UNCHANGED <<listener, cache, created, owner, l2r_rx, l2r_pkt, r2l, response, rx, tx, replies>>

\* A packet from a remote was received and encrypted; an error leaves the task
\* where it is.
R2lRecv(i) ==
    /\ r2l[i] = "recv" /\ replies < MaxReplies
    /\ r2l' = [r2l EXCEPT ![i] = "send"]
    /\ replies' = replies + 1
    /\ UNCHANGED <<listener, cache, created, owner, tasks, response, rx, tx>>

\* Mutant of R2lSend: a closed queue is retried.
R2lSendRetries(i) ==
    /\ r2l[i] = "send"
    /\ rpc # "gone" /\ Len(resp_rx) < Capacity /\ resp_rx' = Append(resp_rx, i)
    /\ r2l' = [r2l EXCEPT ![i] = "recv"]
    /\ UNCHANGED <<listener, cache, created, owner, tasks, rpc, rpkt, rx, tx, replies>>

\* The reply is queued for the response task, or lost if that task is gone.
R2lSend(i) ==
    /\ r2l[i] = "send"
    /\ \/ rpc # "gone" /\ Len(resp_rx) < Capacity /\ resp_rx' = Append(resp_rx, i)
       \/ rpc = "gone" /\ UNCHANGED resp_rx
    /\ r2l' = [r2l EXCEPT ![i] = "recv"]
    /\ UNCHANGED <<listener, cache, created, owner, tasks, rpc, rpkt, rx, tx, replies>>

\* The watcher was dropped with the last handle: the transfer is abandoned.
R2lCancel(i) ==
    /\ r2l[i] \in {"recv", "send"} /\ ~Held(i)
    /\ r2l' = [r2l EXCEPT ![i] = "done"]
    /\ UNCHANGED <<listener, cache, created, owner, tasks, response, rx, tx, replies>>
-----------------------------------------------------------------------------
(* The response task *)

RespRecv ==
    /\ rpc = "recv" /\ resp_rx # <<>>
    /\ rpc' = "lock"
    /\ rpkt' = Head(resp_rx)
    /\ resp_rx' = Tail(resp_rx)
    /\ UNCHANGED <<listener, cache, created, owner, tasks, r2l, rx, tx, replies>>

\* The reply is thrown away unless its client has an association.
RespGet ==
    /\ rpc = "lock" /\ LockFree
    /\ assoc_map' = Fresh
    /\ expired' = {}
    /\ IF Fresh[owner[rpkt]] = 0
       THEN rpc' = "recv" /\ rpkt' = 0
       ELSE rpc' = "send" /\ UNCHANGED rpkt
    /\ UNCHANGED <<listener, created, owner, tasks, r2l, resp_rx, rx, tx, replies>>

RespSend ==
    /\ rpc = "send"
    /\ rpc' = "recv"
    /\ rpkt' = 0
    /\ tx' = tx + 1
    /\ UNCHANGED <<listener, cache, created, owner, tasks, r2l, resp_rx, rx, replies>>

\* send_to failed: the task breaks out of its loop.
RespBreak ==
    /\ rpc = "send"
    /\ rpc' = "gone" /\ rpkt' = 0 /\ resp_rx' = <<>>
    /\ FreeMapIf(lpc = "gone")
    /\ UNCHANGED <<listener, created, owner, tasks, r2l, rx, tx, replies>>

\* Mutant of RespFinish: the task keeps a sender of its own queue.
RespFinishOwnSender ==
    /\ rpc = "recv" /\ resp_rx = <<>> /\ rpc = "gone"
    /\ UNCHANGED vars

\* Mutant of RespFinish: the local <- remote tasks do not keep the queue open.
RespFinishEarly ==
    /\ rpc = "recv" /\ resp_rx = <<>>
    /\ lpc = "gone"
    /\ rpc' = "gone"
    /\ FreeMapIf(TRUE)
    /\ UNCHANGED <<listener, created, owner, tasks, r2l, resp_rx, rpkt, rx, tx, replies>>

\* Every sender of the reply queue was dropped: the listening loop's and those
\* of the local <- remote tasks.
RespFinish ==
    /\ rpc = "recv" /\ resp_rx = <<>>
    /\ lpc = "gone" /\ \A i \in Ids : r2l[i] \in {"none", "done"}
    /\ rpc' = "gone"
    /\ FreeMapIf(TRUE)
    /\ UNCHANGED <<listener, created, owner, tasks, r2l, resp_rx, rpkt, rx, tx, replies>>
-----------------------------------------------------------------------------
ListenerStep == ListenerAssociate \/ ListenerSend
L2rStep(i) == L2rRecv(i) \/ L2rRelay(i) \/ L2rFinish(i)
RespStep == RespRecv \/ RespGet \/ RespSend \/ RespFinish

Next ==
    \/ \E c \in Clients : ListenerRecv(c) \/ Expire(c)
    \/ ListenerIgnore \/ ListenerTimeout \/ ListenerGone \/ ListenerStep
    \/ \E i \in Ids : L2rStep(i) \/ R2lRecv(i) \/ R2lSend(i) \/ R2lCancel(i)
    \/ RespStep \/ RespBreak

Spec == Init /\ [][Next]_vars

\* tokio polls every task that is ready, and every await the code guards by a
\* timeout or that only waits for another task returns.  Nothing is assumed of
\* clients and remotes, whose packets restart the loop's timer, of failures, or
\* of the moment entries expire.
Fairness ==
    /\ WF_vars(ListenerStep)
    /\ \A i \in Ids : WF_vars(L2rStep(i)) /\ WF_vars(R2lSend(i)) /\ WF_vars(R2lCancel(i))
    /\ WF_vars(RespStep)

FairSpec == Spec /\ Fairness
-----------------------------------------------------------------------------
(* Properties *)

\* Type invariant.
TypeOK ==
    /\ lpc \in {"recv", "associate", "send", "gone"}
    /\ lsrc \in Clients \cup {NoClient}
    /\ hand \in 0..created
    /\ assoc_map \in [Clients -> 0..created]
    /\ expired \subseteq Clients
    /\ created \in 0..MaxAssoc
    /\ owner \in [Ids -> Clients \cup {NoClient}]
    /\ l2r \in [Ids -> {"none", "recv", "relay", "done"}]
    /\ l2r_rx \in [Ids -> Seq(Nat)]
    /\ l2r_pkt \in [Ids -> Nat]
    /\ r2l \in [Ids -> {"none", "recv", "send", "done"}]
    /\ rpc \in {"recv", "lock", "send", "gone"}
    /\ resp_rx \in Seq(1..created)
    /\ rpkt \in 0..created
    /\ rx \in Nat /\ tx \in Nat /\ replies \in Nat

\* An association somebody can still get hold of works in both directions: while
\* the map or the listening loop holds a handle to it, neither of its tasks has
\* ended, whatever errors they met, whenever it expired and whichever of the
\* other tasks ended first.  The loop of the local <- remote task says "FIXME:
\* Don't break" because of this.
HeldAssociationServes ==
    \A i \in Ids : Held(i) => l2r[i] \in {"recv", "relay"} /\ r2l[i] \in {"recv", "send"}

\* UdpAssociation::send never meets a closed queue, so its `unreachable!` is
\* unreachable, although the association may be evicted, and even replaced,
\* between the moment the loop cloned the handle and released the lock and the
\* moment there is room in the queue.
SendNeverClosed == lpc = "send" => l2r[hand] \in {"recv", "relay"}

\* An association relays its client's packets in the order they arrived, each
\* at most once, and an evicted association ends only after it relayed all that
\* was queued (the loop over rx.recv ends with an empty queue).
RelayedInOrder ==
    \A i \in Ids :
        /\ \A j \in DOMAIN l2r_rx[i] :
            /\ l2r_pkt[i] < l2r_rx[i][j]
            /\ hand = i => l2r_rx[i][j] < rx
            /\ \A k \in 1..j - 1 : l2r_rx[i][k] < l2r_rx[i][j]
        /\ hand = i => l2r_pkt[i] < rx
        /\ l2r[i] = "done" => l2r_rx[i] = <<>> /\ hand # i

\* A client keeps its association, and with it the outbound port its remotes
\* answer to, unless it expired or the map was freed (Entry::Occupied).
MappingStable ==
    [][\A c \in Clients : assoc_map[c] # 0 /\ assoc_map'[c] # assoc_map[c]
            => c \in expired \/ (lpc' = "gone" /\ rpc' = "gone")]_vars

\* Nobody waits for ever on a full queue or on the lock: the listening loop gets
\* rid of the packet in hand, and every task of an association of its reply,
\* although the loop waits for a queue, the response task for the lock the loop
\* holds, and the associations for the response task.
NobodyStuck ==
    /\ (lpc \in {"associate", "send"}) ~> (lpc \in {"recv", "gone"})
    /\ \A i \in Ids : (r2l[i] = "send") ~> (r2l[i] # "send")

\* The listening socket, the associations and the response task behave as UdpPort
\* says: after the loop is gone no association appears, a reply is sent only for
\* a client with an association that works, and unless it fails to send one the
\* response task ends only after the loop and the last association.
Sock == IF lpc # "gone"
        THEN IF rpc # "gone" THEN "open" ELSE "loop"
        ELSE IF rpc # "gone" THEN "half" ELSE "closed"
AnyAssoc == \E i \in Ids : r2l[i] \in {"recv", "send"}
Port == INSTANCE UdpPort WITH sock <- Sock, assoc <- AnyAssoc, replying <- rpc = "send"
PortSpec == Port!Spec

\* A stopped server whose associations have ended closes its UDP port: the
\* response task drains its queue and ends.
IdlePortReleased == (Sock = "half" /\ ~AnyAssoc) ~> (Sock = "closed")

\* Stopping a server closes its UDP port: once the listening loop is gone, the
\* response task, which owns the sending half of the listening socket, ends
\* ("dropping watcher_tx will inform server task to quit").
PortReleased == (lpc = "gone") ~> (rpc = "gone")

\* The inductive invariant behind the safety properties: where the listening
\* loop is determines what it holds, associations are numbered from 1, and the
\* packet in the loop's hand is newer than anything it queued before.
ServerInv ==
    /\ lpc = "send" <=> hand # 0
    /\ lpc = "associate" =>
        lsrc \in Clients /\ assoc_map[lsrc] = 0 /\ created < MaxAssoc /\ rx > 0
    /\ \A i \in Ids : created < i =>
        l2r[i] = "none" /\ r2l[i] = "none" /\ l2r_rx[i] = <<>> /\ l2r_pkt[i] = 0
    /\ \A i \in Ids :
        /\ l2r_pkt[i] <= rx
        /\ \A j \in DOMAIN l2r_rx[i] : l2r_rx[i][j] <= rx
    /\ HeldAssociationServes
    /\ RelayedInOrder
=============================================================================

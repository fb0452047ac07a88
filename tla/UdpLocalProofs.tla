--------------------------- MODULE UdpLocalProofs ---------------------------
(***************************************************************************)
(* For every frontend and any number of clients, targets,                  *)
(* associations and packets: a packet in hand always finds its             *)
(* association's queue open, a redirected flow keeps its way, and the      *)
(* frontend's socket behaves as UdpPort says.                              *)
(***************************************************************************)
EXTENDS UdpLocal, FiniteSetTheorems, TLAPS

\* The sockets an association of a kind has.
SocketsOf == [none |-> {}, acl |-> Sockets, proxied |-> {"proxied"}, bypassed |-> {"bypass"}]

\* What the variables range over.
TypeOK ==
    /\ front \in {"client", "redir"}
    /\ lpc \in {"recv", "acl", "associate", "send", "gone"}
    /\ lbypass \in BOOLEAN
    /\ assoc_map \in [Keys -> 0..created] /\ expired \subseteq Keys
    /\ created \in 0..MaxAssoc
    /\ key \in [Ids -> Keys \cup {<<>>}]
    /\ kind \in [Ids -> {"none", "acl", "proxied", "bypassed"}]
    /\ l2r \in [Ids -> {"none", "recv", "relay", "done"}]
    /\ l2r_rx \in [Ids -> Seq(Nat)] /\ rx \in Nat
    /\ routes \in [Ids -> SUBSET Sockets]
    /\ r2l \in [Ids -> [Sockets -> {"none", "recv", "send", "lock", "done"}]]
    /\ rpc \in {"recv", "lock", "send", "gone"}

\* An association in the map works both ways on each of its sockets: none of its
\* tasks has ended, whatever errors they met and however the frontend uses it
\* (the loops of l2r_packet_* and r2l_packet end only with the association).
HeldAssociationServes ==
    \A i \in Ids : Held(i) =>
        /\ l2r[i] \in {"recv", "relay"}
        /\ \A s \in SocketsOf[kind[i]] : r2l[i][s] \in {"recv", "send", "lock"}

\* An entry of the map is the association that was created for its key: a reply,
\* which is sent where the association's key says, reaches the client whose
\* packets created it, and no two keys share one.
OwnAssociation ==
    \A k \in Keys : assoc_map[k] # 0 => key[assoc_map[k]] = k

\* An association sends only on the sockets it was created with, and a redir
\* association is created for one way.
WayIsFixed ==
    \A i \in Ids : /\ routes[i] \subseteq SocketsOf[kind[i]]
                   /\ front = "redir" => kind[i] # "acl"

\* The queues never hold more than their channel's capacity.
QueuesBounded == \A i \in Ids : Len(l2r_rx[i]) <= Capacity

\* The packet in hand has a key; its entry is not in the map while it is being
\* created, and from then or the lookup to the send it is; an association that was not created yet has no tasks.
HandInv ==
    /\ lpc \in {"acl", "associate", "send"} => lkey \in Keys
    /\ lpc = "associate" => assoc_map[lkey] = 0
    /\ lpc = "send" => assoc_map[lkey] # 0
    /\ \A i \in Ids : i > created => l2r[i] = "none" /\ l2r_rx[i] = <<>> /\ routes[i] = {}

LocalInv == HeldAssociationServes /\ OwnAssociation /\ WayIsFixed /\ QueuesBounded /\ HandInv

Inv == TypeOK /\ LocalInv
-----------------------------------------------------------------------------
\* What the map holds after the expired entries are dropped (Fresh) was in it
\* before.
LEMMA FreshFacts ==
    ASSUME TypeOK
    PROVE  /\ Fresh \in [Keys -> 0..created]
           /\ \A k \in Keys : Fresh[k] \in {0, assoc_map[k]}
           /\ \A k \in Keys : Fresh[k] # assoc_map[k] => k \in expired
  BY DEF Fresh, TypeOK

\* Init establishes the invariant.
LEMMA InitInv == Init => Inv
<1> SUFFICES ASSUME Init PROVE Inv
  OBVIOUS
<1>1. TypeOK
  <2>1. MaxAssoc \in Nat /\ 0 \in 0..MaxAssoc /\ <<>> \in Seq(Nat)
    BY LocalAssumption
  <2>2. rpc \in {"recv", "gone"}
    BY DEF Init
  <2>3. assoc_map \in [Keys -> 0..created] /\ expired \subseteq Keys /\ created \in 0..MaxAssoc
    BY <2>1 DEF Init
  <2>4. /\ key \in [Ids -> Keys \cup {<<>>}]
        /\ l2r_rx \in [Ids -> Seq(Nat)] /\ rx \in Nat
    BY <2>1 DEF Init
  <2> QED BY <2>2, <2>3, <2>4, Zenon DEF Init, TypeOK
<1>2. \A i \in Ids : ~Held(i)
  BY LocalAssumption DEF Init, Held, Ids
<1>3. LocalInv
  BY <1>2, LocalAssumption
  DEF Init, LocalInv, HeldAssociationServes, OwnAssociation, WayIsFixed, QueuesBounded, HandInv, Ids
<1> QED BY <1>1, <1>3 DEF Inv

\* A step that creates no association and neither fills nor drains a queue
\* preserves the invariant if entries of the map only disappear, not the one of
\* the packet in hand, and tasks end only after their association was dropped.
LEMMA DropHandles ==
    ASSUME Inv,
           UNCHANGED <<front, created, key, kind, l2r_rx>>,
           assoc_map' \in [Keys -> 0..created],
           \A k \in Keys : assoc_map'[k] \in {0, assoc_map[k]},
           lpc' \in {"acl", "associate", "send"} => lkey' \in Keys,
           lpc' = "associate" => assoc_map'[lkey'] = 0,
           lpc' = "send" => assoc_map'[lkey'] # 0,
           \A i \in Ids : \/ l2r'[i] = l2r[i]
                          \/ l2r[i] # "none" /\ (l2r'[i] \in {"recv", "relay"} \/ ~Held(i)),
           \A i \in Ids, s \in Sockets : \/ r2l'[i][s] = r2l[i][s]
                                         \/ r2l'[i][s] \in {"recv", "send", "lock"}
                                         \/ ~Held(i),
           \A i \in Ids : \/ routes'[i] = routes[i]
                          \/ l2r[i] # "none" /\ routes'[i] \subseteq SocketsOf[kind[i]]
    PROVE  LocalInv'
<1>1. \A i \in Ids : Held(i)' => Held(i)
  BY LocalAssumption DEF Held, Inv, TypeOK, Ids
<1>2. \A i \in Ids : SocketsOf[kind[i]] \subseteq Sockets
  BY DEF Inv, TypeOK, SocketsOf, Sockets
<1>3. HeldAssociationServes'
  BY <1>1, <1>2 DEF Inv, LocalInv, HeldAssociationServes
<1>4. OwnAssociation'
  BY DEF Inv, LocalInv, OwnAssociation
<1>5. WayIsFixed'
  BY DEF Inv, LocalInv, WayIsFixed
<1>6. QueuesBounded'
  BY DEF Inv, LocalInv, QueuesBounded
<1>7. HandInv'
  BY LocalAssumption DEF Inv, TypeOK, LocalInv, HandInv, Ids
<1> QED BY <1>3, <1>4, <1>5, <1>6, <1>7 DEF LocalInv

\* Receiving a packet, looking its association up, giving it up and noticing that
\* nothing comes: the steps of the listening loop that create nothing.
LEMMA ListenerInv ==
    ASSUME Inv,
           \/ \E k \in Keys : Expire(k)
           \/ \E c \in Clients : ClientRecv(c) \/ \E t \in Targets : RedirRecv(c, t)
           \/ ListenerIgnore \/ ListenerWaits \/ ListenerTimeout
           \/ RedirLookup \/ ListenerBindFails \/ ListenerGone
    PROVE  Inv'
<1> DEFINE HandOK ==
      /\ lpc' \in {"recv", "acl", "associate", "send", "gone"} /\ lbypass' \in BOOLEAN
      /\ lpc' \in {"acl", "associate", "send"} => lkey' \in Keys
      /\ lpc' = "associate" => assoc_map'[lkey'] = 0
      /\ lpc' = "send" => assoc_map'[lkey'] # 0
<1> USE DEF listener, cache, ident, tasks, back, response, stats
<1>1. /\ UNCHANGED <<front, created, key, kind, l2r, l2r_rx, routes, r2l, rpc>>
      /\ rx' \in {rx, rx + 1}
  BY DEF Expire, ClientRecv, RedirRecv, RedirLookup, ListenerIgnore, ListenerWaits, ListenerTimeout,
         ListenerBindFails, ListenerGone
<1>2. /\ \/ assoc_map' = Fresh
         \/ assoc_map' = assoc_map
         \/ assoc_map' = [k \in Keys |-> 0]
      /\ expired' \subseteq Keys
  BY DEF Inv, TypeOK, Lookup, Expire, ClientRecv, RedirRecv, RedirLookup, ListenerIgnore,
         ListenerWaits, ListenerTimeout, ListenerBindFails, ListenerGone
<1>3. /\ assoc_map' \in [Keys -> 0..created]
      /\ \A k \in Keys : assoc_map'[k] \in {0, assoc_map[k]}
  BY <1>2, FreshFacts, LocalAssumption, SMTT(60) DEF Inv, TypeOK
<1>4. HandOK
  <2>1. ASSUME NEW k \in Keys, Expire(k)
        PROVE  HandOK
    BY <2>1 DEF Inv, TypeOK, LocalInv, HandInv, Expire
  <2>5. ASSUME NEW c \in Clients, ClientRecv(c)
        PROVE  HandOK
    BY <2>5 DEF Inv, TypeOK, ClientRecv, Lookup, Keys
  <2>2. ASSUME NEW c \in Clients, NEW t \in Targets, RedirRecv(c, t)
        PROVE  HandOK
    BY <2>2 DEF RedirRecv, Keys, AclAnswers
  <2>3. CASE RedirLookup
    BY <2>3 DEF Inv, TypeOK, LocalInv, HandInv, RedirLookup, Lookup
  <2>4. CASE ListenerIgnore \/ ListenerWaits \/ ListenerTimeout \/ ListenerBindFails \/ ListenerGone
    BY <2>4, ZenonT(60)
    DEF Inv, TypeOK, ListenerIgnore, ListenerWaits, ListenerTimeout, ListenerBindFails, ListenerGone
  <2> QED BY <2>1, <2>2, <2>3, <2>4, <2>5
<1>5. LocalInv'
  BY <1>1, <1>3, <1>4, DropHandles
<1>6. TypeOK'
  BY <1>1, <1>2, <1>3, <1>4 DEF Inv, TypeOK
<1> QED BY <1>5, <1>6 DEF Inv
\* A new association has a fresh number, an empty queue, a task for each of its
\* sockets, and for redir one socket.
LEMMA ListenerAssociateInv ==
    ASSUME Inv, ListenerAssociate
    PROVE  Inv'
<1> USE LocalAssumption DEF ident, response, stats
<1> DEFINE i == created + 1
           a == NewAssociation
<1>1. /\ Fresh \in [Keys -> 0..created]
      /\ \A k \in Keys : Fresh[k] \in {0, assoc_map[k]}
  BY FreshFacts DEF Inv
<1>2. /\ i \in Ids /\ lkey \in Keys /\ created \in Nat /\ created' = i
      /\ Ids \subseteq Nat
  BY DEF Inv, TypeOK, LocalInv, HandInv, ListenerAssociate, Ids
<1>3. /\ a.kind \in {"acl", "proxied", "bypassed"}
      /\ front = "redir" => a.kind # "acl"
      /\ SocketsOf[a.kind] = a.sockets /\ a.sockets \subseteq Sockets
  BY DEF NewAssociation, associate_with_acl, associate_proxied, associate_bypassed, SocketsOf, Sockets
<1>4. Spawned(a) \in [Sockets -> {"none", "recv"}] /\ \A s \in a.sockets : Spawned(a)[s] = "recv"
  BY <1>3 DEF Spawned
<1> HIDE DEF a
<1>5. /\ UNCHANGED <<front, lkey, lbypass, l2r_rx, routes, rpc, rx>>
      /\ key' = [key EXCEPT ![i] = lkey]
      /\ kind' = [kind EXCEPT ![i] = a.kind]
      /\ l2r' = [l2r EXCEPT ![i] = "recv"]
      /\ r2l' = [r2l EXCEPT ![i] = Spawned(a)]
      /\ assoc_map' = [Fresh EXCEPT ![lkey] = i] /\ expired' = {}
      /\ lpc' = "send"
  BY DEF ListenerAssociate, a
<1>6. TypeOK'
  BY <1>1, <1>2, <1>3, <1>4, <1>5 DEF Inv, TypeOK, Ids
<1>7. \A j \in Ids : j # i => /\ Held(j)' => Held(j)
                              /\ key'[j] = key[j] /\ kind'[j] = kind[j] /\ l2r'[j] = l2r[j] /\ r2l'[j] = r2l[j]
  <2>1. \A j \in Ids : j # i => /\ key'[j] = key[j] /\ kind'[j] = kind[j]
                                /\ l2r'[j] = l2r[j] /\ r2l'[j] = r2l[j]
    BY <1>5 DEF Inv, TypeOK
  <2>2. \A k \in Keys : assoc_map'[k] \in {0, i, assoc_map[k]}
    BY <1>1, <1>2, <1>5
  <2>3. \A j \in Ids : j # i /\ j # 0 /\ Held(j)' => Held(j)
    BY <2>2 DEF Held
  <2> QED BY <2>1, <2>3 DEF Ids
<1>8. kind'[i] = a.kind /\ l2r'[i] = "recv" /\ r2l'[i] = Spawned(a) /\ key'[i] = lkey
  BY <1>2, <1>5 DEF Inv, TypeOK
<1>9. HeldAssociationServes'
  BY <1>3, <1>4, <1>7, <1>8 DEF Inv, LocalInv, HeldAssociationServes
<1>10. OwnAssociation'
  <2> SUFFICES ASSUME NEW k \in Keys, assoc_map'[k] # 0 PROVE key'[assoc_map'[k]] = k
    BY DEF OwnAssociation
  <2>1. CASE k = lkey
    BY <1>1, <1>2, <1>5, <1>8, <2>1
  <2>2. CASE k # lkey
    <3>1. assoc_map'[k] = assoc_map[k] /\ assoc_map[k] # 0 /\ assoc_map[k] \in 1..created
      BY <1>1, <1>2, <1>5, <2>2 DEF Inv, TypeOK
    <3>2. assoc_map[k] \in Ids /\ assoc_map[k] # i
      BY <1>2, <3>1 DEF Inv, TypeOK, Ids
    <3> QED BY <1>7, <3>1, <3>2 DEF Inv, LocalInv, OwnAssociation
  <2> QED BY <2>1, <2>2
<1>11. WayIsFixed'
  <2>1. routes[i] = {}
    BY <1>2 DEF Inv, LocalInv, HandInv
  <2> QED BY <1>3, <1>5, <1>7, <1>8, <2>1 DEF Inv, LocalInv, WayIsFixed
<1>12. QueuesBounded'
  BY <1>5 DEF Inv, LocalInv, QueuesBounded
<1>13. HandInv'
  BY <1>1, <1>2, <1>5 DEF Inv, LocalInv, HandInv
<1> QED BY <1>6, <1>9, <1>10, <1>11, <1>12, <1>13 DEF Inv, LocalInv

\* A queue of packets stays one when a packet is put into it.
LEMMA AppendType ==
    ASSUME NEW S, NEW q \in Seq(S), NEW e \in S
    PROVE  Append(q, e) \in Seq(S) /\ Len(Append(q, e)) = Len(q) + 1 /\ Len(q) \in Nat
  OBVIOUS

\* Filling a queue that has room, and taking a packet out of one, change only
\* what is in the queue.
LEMMA QueueInv ==
    ASSUME Inv, ListenerSend \/ \E i \in Ids : L2rRecv(i)
    PROVE  Inv'
<1> USE LocalAssumption
<1>1. CASE ListenerSend
  <2> DEFINE i == assoc_map[lkey]
             q == Append(l2r_rx[i], rx)
  <2>1. lkey \in Keys /\ i \in Ids /\ i <= created /\ created \in Nat /\ i \in Nat
    BY <1>1 DEF Inv, TypeOK, LocalInv, HandInv, ListenerSend, Ids
  <2>2. /\ UNCHANGED <<front, assoc_map, expired, created, key, kind, l2r, routes, r2l, rpc, rx>>
        /\ lpc' = "recv" /\ lbypass' = FALSE
        /\ l2r_rx' = [l2r_rx EXCEPT ![i] = q]
    BY <1>1 DEF ListenerSend, cache, ident, back, response, stats
  <2>3. q \in Seq(Nat) /\ Len(q) <= Capacity
    <3>1. l2r_rx[i] \in Seq(Nat) /\ rx \in Nat /\ Len(l2r_rx[i]) < Capacity
      BY <1>1, <2>1 DEF Inv, TypeOK, ListenerSend
    <3> QED BY <3>1, AppendType
  <2> HIDE DEF i, q
  <2>4. TypeOK'
    BY <2>1, <2>2, <2>3, Zenon DEF Inv, TypeOK
  <2>5. QueuesBounded'
    BY <2>1, <2>2, <2>3 DEF Inv, TypeOK, LocalInv, QueuesBounded
  <2>6. HandInv'
    BY <2>1, <2>2 DEF Inv, TypeOK, LocalInv, HandInv, Ids
  <2>7. HeldAssociationServes' /\ OwnAssociation' /\ WayIsFixed'
    BY <2>2 DEF Inv, LocalInv, HeldAssociationServes, OwnAssociation, WayIsFixed, Held
  <2> QED BY <2>4, <2>5, <2>6, <2>7 DEF Inv, LocalInv
<1>2. ASSUME NEW i \in Ids, L2rRecv(i)
      PROVE  Inv'
  <2> DEFINE q == Tail(l2r_rx[i])
  <2>1. /\ UNCHANGED <<front, lpc, lkey, lbypass, assoc_map, expired, created, key, kind, routes, r2l, rpc, rx>>
        /\ l2r' = [l2r EXCEPT ![i] = "relay"] /\ l2r[i] = "recv"
        /\ l2r_rx' = [l2r_rx EXCEPT ![i] = q]
    BY <1>2 DEF L2rRecv, listener, cache, ident, back, response, stats
  <2>2. q \in Seq(Nat) /\ Len(q) <= Capacity
    <3>1. l2r_rx[i] \in Seq(Nat) /\ l2r_rx[i] # <<>> /\ Len(l2r_rx[i]) <= Capacity
      BY <1>2 DEF Inv, TypeOK, LocalInv, QueuesBounded, L2rRecv
    <3> QED BY <3>1
  <2>3. l2r_rx[i] # <<>>
    BY <1>2 DEF L2rRecv
  <2> HIDE DEF q
  <2>4. TypeOK'
    BY <2>1, <2>2 DEF Inv, TypeOK
  <2>5. QueuesBounded'
    BY <2>1, <2>2 DEF Inv, TypeOK, LocalInv, QueuesBounded
  <2>6. HandInv'
    BY <2>1, <2>3 DEF Inv, TypeOK, LocalInv, HandInv, Ids
  <2>7. HeldAssociationServes'
    BY <2>1 DEF Inv, TypeOK, LocalInv, HeldAssociationServes, Held
  <2>8. OwnAssociation' /\ WayIsFixed'
    BY <2>1 DEF Inv, LocalInv, OwnAssociation, WayIsFixed
  <2> QED BY <2>4, <2>5, <2>6, <2>7, <2>8, SMTT(60) DEF Inv, LocalInv
<1> QED BY <1>1, <1>2
\* The other steps of the tasks local -> remote: they send on a socket of their
\* association, or end after it was dropped.
LEMMA L2rInv ==
    ASSUME Inv, NEW i \in Ids, L2rAcl(i) \/ L2rProxied(i) \/ L2rBypassed(i) \/ L2rFinish(i)
    PROVE  Inv'
<1>1. /\ UNCHANGED <<front, lpc, lkey, lbypass, assoc_map, expired, created, key, kind, l2r_rx, r2l, rpc, rx>>
      /\ \/ l2r[i] = "relay" /\ l2r' = [l2r EXCEPT ![i] = "recv"]
         \/ l2r[i] = "recv" /\ l2r' = [l2r EXCEPT ![i] = "done"] /\ ~Held(i)
  BY SMTT(60) DEF L2rAcl, L2rProxied, L2rBypassed, L2rFinish, SendPacket,
         listener, cache, ident, back, response, stats
<1>2. \/ UNCHANGED routes
      \/ \E s \in SocketsOf[kind[i]] : routes' = [routes EXCEPT ![i] = @ \cup {s}]
  BY SMTT(60) DEF L2rAcl, L2rProxied, L2rBypassed, L2rFinish, SendPacket, SocketsOf, Sockets
<1>3. SocketsOf[kind[i]] \subseteq Sockets /\ routes[i] \subseteq SocketsOf[kind[i]]
  BY DEF Inv, TypeOK, LocalInv, WayIsFixed, SocketsOf, Sockets
<1>4. TypeOK'
  <2>1. routes' \in [Ids -> SUBSET Sockets]
    <3>1. routes \in [Ids -> SUBSET Sockets]
      BY DEF Inv, TypeOK
    <3>2. ASSUME NEW s \in Sockets, routes' = [routes EXCEPT ![i] = @ \cup {s}]
          PROVE  routes' \in [Ids -> SUBSET Sockets]
      BY <3>1, <3>2
    <3> QED BY <1>2, <1>3, <3>1, <3>2
  <2>2. l2r' \in [Ids -> {"none", "recv", "relay", "done"}]
    BY <1>1, SMTT(60) DEF Inv, TypeOK
  <2> QED BY <1>1, <2>1, <2>2 DEF Inv, TypeOK
<1>5. \A j \in Ids : \/ routes'[j] = routes[j]
                     \/ l2r[j] # "none" /\ routes'[j] \subseteq SocketsOf[kind[j]]
  BY <1>1, <1>2, <1>3, SMTT(60) DEF Inv, TypeOK
<1>6. LocalInv'
  BY <1>1, <1>5, DropHandles DEF Inv, TypeOK, LocalInv, HandInv
<1> QED BY <1>4, <1>6, SMTT(60) DEF Inv

\* The tasks local <- remote: they go on, refresh the map when nobody has its
\* lock, or end after their association was dropped.
LEMMA R2lInv ==
    ASSUME Inv, NEW i \in Ids, NEW s \in Sockets, R2lRecv(i, s) \/ R2lStep(i, s) \/ R2lCancel(i, s)
    PROVE  Inv'
<1>1. /\ UNCHANGED <<front, lpc, lkey, lbypass, created, key, kind, l2r, l2r_rx, routes, rpc, rx>>
      /\ \/ UNCHANGED <<assoc_map, expired>>
         \/ assoc_map' = Fresh /\ expired' = {} /\ lpc # "send"
  BY DEF R2lRecv, R2lStep, R2lSend, R2lSendRedir, R2lRefresh, R2lCancel, LockFree,
         listener, cache, ident, tasks, response, stats
<1>2. \E x \in {"recv", "send", "lock", "done"} :
          /\ r2l' = [r2l EXCEPT ![i][s] = x]
          /\ x = "done" => ~Held(i)
  <2>1. CASE R2lRecv(i, s)
    BY <2>1, ZenonT(60) DEF R2lRecv
  <2>2. CASE R2lStep(i, s)
    BY <2>2 DEF R2lStep, R2lSend, R2lSendRedir, R2lRefresh
  <2>3. CASE R2lCancel(i, s)
    BY <2>3 DEF R2lCancel
  <2> QED BY <2>1, <2>2, <2>3
<1>3. /\ assoc_map' \in [Keys -> 0..created]
      /\ \A k \in Keys : assoc_map'[k] \in {0, assoc_map[k]}
  BY <1>1, FreshFacts DEF Inv, TypeOK
<1>4. /\ r2l' \in [Ids -> [Sockets -> {"none", "recv", "send", "lock", "done"}]]
      /\ \A j \in Ids, z \in Sockets : \/ r2l'[j][z] = r2l[j][z]
                                       \/ r2l'[j][z] \in {"recv", "send", "lock"}
                                       \/ ~Held(j)
  BY <1>2, SMTT(60) DEF Inv, TypeOK
<1>5. LocalInv'
  BY <1>1, <1>3, <1>4, DropHandles DEF Inv, TypeOK, LocalInv, HandInv
<1>6. TypeOK'
  BY <1>1, <1>3, <1>4 DEF Inv, TypeOK
<1> QED BY <1>5, <1>6, SMTT(60) DEF Inv

\* The response task looks at the map when nobody has its lock, and frees it only
\* after the listening loop is gone.
LEMMA RespInv ==
    ASSUME Inv, RespStep \/ RespBreak
    PROVE  Inv'
<1>1. /\ UNCHANGED <<front, lpc, lkey, lbypass, created, key, kind, l2r, l2r_rx, routes, r2l, rx>>
      /\ rpc' \in {"recv", "lock", "send", "gone"}
  BY SMTT(60) DEF RespStep, RespRecv, RespGet, RespSend, RespFinish, RespBreak, listener, cache, ident, tasks, back, stats
<1>2. \/ UNCHANGED <<assoc_map, expired>>
      \/ assoc_map' = Fresh /\ expired' = {} /\ lpc # "send"
      \/ assoc_map' = [k \in Keys |-> 0] /\ expired' = {} /\ lpc = "gone"
  BY DEF RespStep, RespRecv, RespGet, RespSend, RespFinish, RespBreak, LockFree, cache
<1>3. /\ assoc_map' \in [Keys -> 0..created]
      /\ \A k \in Keys : assoc_map'[k] \in {0, assoc_map[k]}
  BY <1>2, FreshFacts, SMTT(60) DEF Inv, TypeOK
<1>4. LocalInv'
  BY <1>1, <1>2, <1>3, DropHandles DEF Inv, TypeOK, LocalInv, HandInv
<1>5. TypeOK'
  BY <1>1, <1>2, <1>3 DEF Inv, TypeOK
<1> QED BY <1>4, <1>5, SMTT(60) DEF Inv

\* Every step preserves the invariant.
LEMMA NextInv == Inv /\ [Next]_vars => Inv'
<1> SUFFICES ASSUME Inv, [Next]_vars PROVE Inv'
  OBVIOUS
<1>1. CASE UNCHANGED vars
  <2> USE <1>1 DEF vars, listener, cache, ident, tasks, back, response, stats
  <2>1. LocalInv'
    BY DropHandles DEF Inv, TypeOK, LocalInv, HandInv
  <2> QED BY <2>1, SMTT(60) DEF Inv, TypeOK
<1>2. ASSUME NEW c \in Clients, ClientRecv(c)
      PROVE  Inv'
  BY <1>2, ListenerInv
<1>3. CASE ListenerStep
  BY <1>3, ListenerInv, ListenerAssociateInv, QueueInv DEF ListenerStep
<1>4. ASSUME NEW i \in Ids, L2rStep(i) PROVE Inv'
  BY <1>4, QueueInv, L2rInv DEF L2rStep
<1> QED BY <1>1, <1>2, <1>3, <1>4, ListenerInv, R2lInv, RespInv DEF Next
-----------------------------------------------------------------------------
\* The UDP relay of the local server keeps the invariant LocalInv, whichever
\* frontend it has.
THEOREM LocalInvariant == Spec => [](TypeOK /\ LocalInv)
<1>1. Inv /\ [Next]_vars => Inv'
  BY NextInv
<1>2. Spec => []Inv
  BY InitInv, <1>1, PTL DEF Spec
<1> QED BY <1>2, PTL DEF Inv

\* The queue of the association in hand is open when ProxyAssociation::send puts
\* the packet into it.
THEOREM SendMeetsOpenQueue == Spec => []SendNeverClosed
<1>1. TypeOK /\ LocalInv => SendNeverClosed
  <2> SUFFICES ASSUME TypeOK, LocalInv, lpc = "send"
               PROVE  assoc_map[lkey] # 0 /\ l2r[assoc_map[lkey]] \notin {"none", "done"}
    BY DEF SendNeverClosed
  <2>1. lkey \in Keys /\ assoc_map[lkey] # 0
    BY DEF LocalInv, HandInv
  <2>2. assoc_map[lkey] \in Ids /\ Held(assoc_map[lkey])
    BY <2>1, LocalAssumption DEF TypeOK, Held, Ids
  <2> QED BY <2>1, <2>2 DEF LocalInv, HeldAssociationServes
<1> QED BY <1>1, LocalInvariant, PTL

\* All packets of a redirected flow go one way, whatever the ACL answers later.
THEOREM RedirKeepsRoute == Spec => []FlowKeepsRoute
<1>1. TypeOK /\ LocalInv => FlowKeepsRoute
  <2> SUFFICES ASSUME TypeOK, LocalInv, front = "redir", NEW i \in Ids
               PROVE  Cardinality(routes[i]) <= 1
    BY DEF FlowKeepsRoute
  <2>1. \E s \in Sockets : routes[i] \subseteq {s}
    <3>1. kind[i] \in {"none", "proxied", "bypassed"} /\ routes[i] \subseteq SocketsOf[kind[i]]
      BY DEF TypeOK, LocalInv, WayIsFixed
    <3>2. SocketsOf[kind[i]] \in {{}, {"proxied"}, {"bypass"}}
      BY <3>1 DEF SocketsOf
    <3> QED BY <3>1, <3>2, Zenon DEF Sockets
  <2>2. PICK s \in Sockets : routes[i] \subseteq {s}
    BY <2>1
  <2>3. IsFiniteSet({s}) /\ Cardinality({s}) = 1
    BY FS_Singleton, Zenon
  <2> QED BY <2>2, <2>3, FS_Subset
<1> QED BY <1>1, LocalInvariant, PTL
\* An association in the map serves, in both directions and on all its sockets.
THEOREM HeldServes == Spec => []HeldAssociationServes
<1>1. LocalInv => HeldAssociationServes
  BY DEF LocalInv
<1> QED BY <1>1, LocalInvariant, PTL

\* An association belongs to one client, or to one flow.
THEOREM AssociationsAreOwn == Spec => []OwnAssociation
<1>1. LocalInv => OwnAssociation
  BY DEF LocalInv
<1> QED BY <1>1, LocalInvariant, PTL

\* A key keeps its association unless the entry expired or the map was freed.
THEOREM KeysKeepAssociation ==
    Spec => [][\A k \in Keys : assoc_map[k] # 0 /\ assoc_map'[k] # assoc_map[k]
                   => k \in expired \/ (lpc' = "gone" /\ rpc' = "gone")]_vars
<1> DEFINE Kept == \A k \in Keys : assoc_map[k] # 0 /\ assoc_map'[k] # assoc_map[k]
                      => k \in expired \/ (lpc' = "gone" /\ rpc' = "gone")
<1>1. TypeOK /\ LocalInv /\ [Next]_vars => [Kept]_vars
  <2> SUFFICES ASSUME TypeOK, LocalInv, Next, NEW k \in Keys,
                      assoc_map[k] # 0, assoc_map'[k] # assoc_map[k]
               PROVE  k \in expired \/ (lpc' = "gone" /\ rpc' = "gone")
    OBVIOUS
  <2>1. CASE assoc_map' = Fresh
    BY <2>1, FreshFacts
  <2>2. CASE ListenerAssociate
    BY <2>2, FreshFacts DEF LocalInv, HandInv, ListenerAssociate
  <2>3. CASE ListenerGone
    BY <2>3 DEF ListenerGone, MapShared, response
  <2>4. CASE RespBreak \/ RespFinish
    BY <2>4, SMTT(60) DEF RespBreak, RespFinish, listener
  <2>5. ASSUME NEW i \in Ids, L2rStep(i)
        PROVE  UNCHANGED assoc_map
    BY <2>5, SMTT(60) DEF L2rStep, L2rRecv, L2rAcl, L2rProxied, L2rBypassed, SendPacket, L2rFinish, cache
  <2>6. ASSUME NEW i \in Ids, NEW s \in Sockets, R2lRecv(i, s) \/ R2lStep(i, s) \/ R2lCancel(i, s)
        PROVE  assoc_map' = Fresh \/ UNCHANGED assoc_map
    BY <2>6, SMTT(60) DEF R2lRecv, R2lStep, R2lSend, R2lSendRedir, R2lRefresh, R2lCancel, cache
  <2>7. CASE RespRecv \/ RespGet \/ RespSend
    BY <2>1, <2>7 DEF RespRecv, RespGet, RespSend, cache
  <2>8. ASSUME \/ \E x \in Keys : Expire(x)
               \/ \E c \in Clients : ClientRecv(c) \/ \E t \in Targets : RedirRecv(c, t)
               \/ ListenerIgnore \/ ListenerWaits \/ ListenerTimeout
               \/ RedirLookup \/ ListenerBindFails \/ ListenerSend
        PROVE  assoc_map' = Fresh \/ UNCHANGED assoc_map
    BY <2>8, Zenon
    DEF Expire, ClientRecv, RedirRecv, RedirLookup, Lookup, ListenerIgnore, ListenerWaits,
        ListenerTimeout, ListenerBindFails, ListenerSend, cache
  <2> QED
    BY <2>1, <2>2, <2>3, <2>4, <2>5, <2>6, <2>7, <2>8, SMTT(60) DEF Next, ListenerStep, RespStep
<1> QED BY <1>1, LocalInvariant, PTL DEF Spec
-----------------------------------------------------------------------------
\* A socket's task that goes on keeps its association alive.
LEMMA AliveFacts ==
    ASSUME TypeOK, NEW i \in Ids, NEW s \in Sockets,
           r2l[i][s] \in {"recv", "send", "lock"},
           r2l' = [r2l EXCEPT ![i][s] = r2l'[i][s]]
    PROVE  /\ AnyAssoc
           /\ r2l'[i][s] \in {"recv", "send", "lock"} => AnyAssoc'
  BY ZenonT(60) DEF TypeOK, AnyAssoc, Alive

\* A reply in the response task's hands came from an association, and every
\* association has the key and the sockets it was created for.
Data == {"none", "reply", "altered", "stray"}
Reply(n) == [id : 1..n, data : Data]

ReplyInv ==
    /\ \A i \in Ids : i <= created => key[i] \in Keys /\ kind[i] # "none"
    /\ \A i \in Ids, s \in Sockets : r2l[i][s] # "none" => i <= created
    /\ r2l_data \in [Ids -> [Sockets -> Data]]
    /\ resp_rx \in Seq(Reply(created))
    /\ rpc \in {"lock", "send"} => rpkt \in Reply(created)

\* A new association has the key of the packet in hand.
LEMMA AssociateReply ==
    ASSUME Inv, ReplyInv, ListenerAssociate
    PROVE  ReplyInv'
<1>1. /\ created \in Nat /\ created + 1 \in Ids /\ created' = created + 1 /\ lkey \in Keys
      /\ key' = [key EXCEPT ![created + 1] = lkey]
      /\ kind' = [kind EXCEPT ![created + 1] = NewAssociation.kind]
      /\ r2l' = [r2l EXCEPT ![created + 1] = Spawned(NewAssociation)]
      /\ UNCHANGED <<r2l_data, resp_rx, rpc, rpkt>>
  BY LocalAssumption DEF Inv, TypeOK, LocalInv, HandInv, ListenerAssociate, response, Ids
<1>2. \A i \in Ids : i <= created + 1 => i <= created \/ i = created + 1
  BY <1>1 DEF Ids
<1>3. Reply(created) \subseteq Reply(created')
  BY <1>1 DEF Reply
<1>4. resp_rx' \in Seq(Reply(created'))
  BY <1>1, <1>3 DEF ReplyInv
<1>5. \A i \in Ids : i <= created' => key'[i] \in Keys /\ kind'[i] # "none"
  <2>1. NewAssociation.kind # "none"
    BY DEF NewAssociation, associate_with_acl, associate_proxied, associate_bypassed
  <2> QED BY <1>1, <1>2, <2>1 DEF ReplyInv, Inv, TypeOK
<1>6. \A i \in Ids, s \in Sockets : r2l'[i][s] # "none" => i <= created'
  BY <1>1 DEF ReplyInv, Inv, TypeOK, Ids
<1> QED BY <1>1, <1>3, <1>4, <1>5, <1>6 DEF ReplyInv

\* A socket's task that passes a reply on belongs to an association.
LEMMA R2lReply ==
    ASSUME Inv, ReplyInv, NEW i \in Ids, NEW s \in Sockets,
           R2lRecv(i, s) \/ R2lStep(i, s) \/ R2lCancel(i, s)
    PROVE  ReplyInv'
<1>1. /\ UNCHANGED <<created, key, kind, rpc, rpkt>> /\ r2l[i][s] # "none"
      /\ resp_rx' = resp_rx \/ resp_rx' = Append(resp_rx, [id |-> i, data |-> r2l_data[i][s]])
  BY DEF R2lRecv, R2lStep, R2lSend, R2lSendRedir, R2lRefresh, R2lCancel, ident, response
<1>2. /\ \E x \in {"recv", "send", "lock", "done"} : r2l' = [r2l EXCEPT ![i][s] = x]
      /\ r2l_data' = r2l_data \/ \E d \in Data : r2l_data' = [r2l_data EXCEPT ![i][s] = d]
  <2>1. CASE R2lRecv(i, s)
    BY <2>1, ZenonT(60) DEF R2lRecv, Decrypted, DecryptedStray, Data
  <2>2. CASE R2lStep(i, s) \/ R2lCancel(i, s)
    BY <2>2 DEF R2lStep, R2lSend, R2lSendRedir, R2lRefresh, R2lCancel, Data
  <2> QED BY <2>1, <2>2
<1>3. i \in 1..created
  <2>1. i <= created
    BY <1>1, Zenon DEF ReplyInv
  <2>2. created \in Nat
    BY DEF Inv, TypeOK
  <2> QED BY <2>1, <2>2 DEF Ids
<1>4. [id |-> i, data |-> r2l_data[i][s]] \in Reply(created)
  BY <1>3 DEF ReplyInv, Reply
<1>5. resp_rx' \in Seq(Reply(created))
  BY <1>1, <1>4 DEF ReplyInv
<1>6. r2l_data' \in [Ids -> [Sockets -> Data]]
  <2>1. r2l_data \in [Ids -> [Sockets -> Data]]
    BY DEF ReplyInv
  <2>2. ASSUME NEW d \in Data, r2l_data' = [r2l_data EXCEPT ![i][s] = d]
        PROVE  r2l_data' \in [Ids -> [Sockets -> Data]]
    BY <2>1, <2>2
  <2> QED BY <1>2, <2>1, <2>2
<1>7. \A j \in Ids, z \in Sockets : r2l'[j][z] # "none" => j <= created
  <2>1. r2l \in [Ids -> [Sockets -> {"none", "recv", "send", "lock", "done"}]]
    BY DEF Inv, TypeOK
  <2>2. \A j \in Ids, z \in Sockets : r2l'[j][z] = r2l[j][z] \/ j = i
    BY <1>2, <2>1, ZenonT(60)
  <2> QED BY <1>3, <2>2 DEF ReplyInv, Ids
<1> QED BY <1>1, <1>5, <1>6, <1>7 DEF ReplyInv

\* Every other step leaves replies alone, or takes up or drops one.
LEMMA NextReply == Inv /\ ReplyInv /\ [Next]_vars => ReplyInv'
<1> SUFFICES ASSUME Inv, ReplyInv, [Next]_vars PROVE ReplyInv'
  OBVIOUS
<1>1. CASE RespRecv
  <2>1. Head(resp_rx) \in Reply(created) /\ Tail(resp_rx) \in Seq(Reply(created))
    BY <1>1 DEF ReplyInv, RespRecv
  <2> QED BY <1>1, <2>1 DEF ReplyInv, RespRecv, ident, back
<1>2. CASE RespGet \/ RespSend \/ RespFinish \/ RespBreak
  <2>1. <<>> \in Seq(Reply(created))
    OBVIOUS
  <2>2. /\ UNCHANGED <<created, key, kind, r2l, r2l_data>> /\ resp_rx' \in {resp_rx, <<>>}
        /\ rpc' \in {"lock", "send"} => rpc \in {"lock", "send"} /\ rpkt' = rpkt
    BY <1>2 DEF RespGet, RespSend, RespFinish, RespBreak, ident, back
  <2> QED BY <2>1, <2>2 DEF ReplyInv
<1>3. CASE UNCHANGED <<created, key, kind, r2l, r2l_data, resp_rx, rpc, rpkt>>
  BY <1>3 DEF ReplyInv
<1>4. ASSUME \/ \E k \in Keys : Expire(k)
             \/ \E c \in Clients : ClientRecv(c) \/ \E t \in Targets : RedirRecv(c, t)
             \/ ListenerIgnore \/ ListenerWaits \/ ListenerTimeout \/ ListenerGone
             \/ RedirLookup \/ ListenerBindFails \/ ListenerSend
      PROVE  UNCHANGED <<created, key, kind, r2l, r2l_data, resp_rx, rpc, rpkt>>
  BY <1>4, Zenon
  DEF Expire, ClientRecv, RedirRecv, RedirLookup, Lookup, ListenerIgnore, ListenerWaits,
      ListenerTimeout, ListenerGone, ListenerBindFails, ListenerSend, ident, back, response
<1>5. ASSUME NEW i \in Ids, L2rStep(i)
      PROVE  UNCHANGED <<created, key, kind, r2l, r2l_data, resp_rx, rpc, rpkt>>
  BY <1>5, Zenon
  DEF L2rStep, L2rRecv, L2rAcl, L2rProxied, L2rBypassed, SendPacket, L2rFinish, ident, back, response
<1>6. CASE UNCHANGED vars
  BY <1>3, <1>6 DEF vars, ident, back, response
<1> QED
  BY <1>1, <1>2, <1>3, <1>4, <1>5, <1>6, AssociateReply, R2lReply DEF Next, ListenerStep, RespStep

\* What the response task finds in the map under a key is an association with a
\* socket that works.
LEMMA FoundIsAlive ==
    ASSUME Inv, ReplyInv, NEW k \in Keys, Fresh[k] # 0
    PROVE  AnyAssoc
<1> DEFINE i == Fresh[k]
<1>1. i \in Ids /\ i <= created /\ assoc_map[k] = i
  BY FreshFacts, LocalAssumption DEF Inv, TypeOK, Ids
<1>2. Held(i)
  BY <1>1 DEF Held
<1> HIDE DEF i
<1>3. kind[i] \in {"acl", "proxied", "bypassed"}
  BY <1>1 DEF ReplyInv, Inv, TypeOK
<1>4. \E s \in Sockets : s \in SocketsOf[kind[i]]
  BY <1>3 DEF SocketsOf, Sockets
<1>5. \E s \in Sockets : r2l[i][s] \in {"recv", "send", "lock"}
  BY <1>1, <1>2, <1>4 DEF Inv, LocalInv, HeldAssociationServes
<1> QED BY <1>1, <1>5 DEF AnyAssoc, Alive

\* Replying, as UdpPort sees it, and the steps that leave the port alone.
Replying == rpc = "send"

LEMMA SameView ==
    ASSUME UNCHANGED <<rpc, r2l>>, lpc = "gone" <=> lpc' = "gone"
    PROVE  UNCHANGED <<Sock, AnyAssoc, Replying>>
  BY DEF Sock, AnyAssoc, Alive, Replying

\* The frontend implements UdpPort: after the listening loop is gone no
\* association appears, replies are sent for associations that work, and the
\* response task ends only after the last of them unless it cannot send.
THEOREM ImplementsPort == Spec => PortSpec
<1>1. Init => Port!Init
  BY SMTT(60) DEF Init, Port!Init, Sock, AnyAssoc, Alive
<1>2. Inv /\ ReplyInv /\ [Next]_vars => [Port!Next]_(Port!vars)
  <2> SUFFICES ASSUME Inv, ReplyInv, [Next]_vars
               PROVE  Port!Next \/ UNCHANGED <<Sock, AnyAssoc, Replying>>
    BY DEF Port!vars, Replying
  <2>0. UNCHANGED r2l => UNCHANGED AnyAssoc
    BY DEF AnyAssoc, Alive
  <2>1. CASE ListenerAssociate
    <3>1. created + 1 \in Ids /\ Sock \in {"open", "loop"} /\ UNCHANGED <<Sock, Replying>>
      BY <2>1, LocalAssumption DEF Inv, TypeOK, ListenerAssociate, response, Ids, Sock, Replying
    <3>2. \E s \in Sockets : Spawned(NewAssociation)[s] = "recv"
      BY DEF Spawned, NewAssociation, associate_with_acl, associate_proxied, associate_bypassed, Sockets
    <3>3. r2l'[created + 1] = Spawned(NewAssociation)
      BY <2>1, <3>1 DEF Inv, TypeOK, ListenerAssociate
    <3>4. AnyAssoc' = TRUE
      BY <3>1, <3>2, <3>3 DEF AnyAssoc, Alive
    <3> QED BY <3>1, <3>4, ZenonT(60) DEF Port!Next, Port!Associate, Replying
  <2>2. CASE ListenerGone
    <3>1. UNCHANGED <<rpc, r2l>> /\ lpc # "gone" /\ lpc' = "gone"
      BY <2>2 DEF ListenerGone, response, back
    <3> QED BY <2>0, <3>1 DEF Port!Next, Port!Stop, Sock, Replying
  <2>3. ASSUME NEW i \in Ids, NEW s \in Sockets, R2lRecv(i, s) \/ R2lStep(i, s)
        PROVE  UNCHANGED <<Sock, AnyAssoc, Replying>>
    <3>1. UNCHANGED <<lpc, rpc>> /\ r2l[i][s] \in {"recv", "send", "lock"}
      BY <2>3 DEF R2lRecv, R2lStep, R2lSend, R2lSendRedir, R2lRefresh, listener, response
    <3>2. \E x \in {"recv", "send", "lock"} : r2l' = [r2l EXCEPT ![i][s] = x]
      <4>1. CASE R2lRecv(i, s)
        BY <4>1, Zenon DEF R2lRecv
      <4>2. CASE R2lStep(i, s)
        BY <4>2 DEF R2lStep, R2lSend, R2lSendRedir, R2lRefresh
      <4> QED BY <2>3, <4>1, <4>2
    <3>3. r2l'[i][s] \in {"recv", "send", "lock"} /\ r2l' = [r2l EXCEPT ![i][s] = r2l'[i][s]]
      BY <3>2, ZenonT(60) DEF Inv, TypeOK
    <3>4. AnyAssoc = TRUE /\ AnyAssoc' = TRUE
      BY <3>1, <3>3, AliveFacts DEF AnyAssoc, Inv
    <3> QED BY <3>1, <3>4, SMTT(60) DEF Sock, Replying
  <2>4. ASSUME NEW i \in Ids, NEW s \in Sockets, R2lCancel(i, s)
        PROVE  Port!Next \/ UNCHANGED <<Sock, AnyAssoc, Replying>>
    <3>1. UNCHANGED <<lpc, rpc>> /\ r2l[i][s] \in {"recv", "send", "lock"}
      BY <2>4 DEF R2lCancel, listener, response
    <3>2. AnyAssoc = TRUE /\ AnyAssoc' \in BOOLEAN /\ UNCHANGED <<Sock, Replying>>
      BY <3>1 DEF AnyAssoc, Alive, Sock, Replying
    <3> QED BY <3>2, ZenonT(60) DEF Port!Next, Port!Idle, Replying
  <2>5. CASE RespGet
    <3>1. /\ UNCHANGED <<lpc, r2l>> /\ rpc = "lock" /\ rpc' \in {"recv", "send"}
          /\ rpc' = "send" => Fresh[key[rpkt.id]] # 0
      BY <2>5 DEF RespGet, listener, back
    <3>2. UNCHANGED <<Sock, AnyAssoc>>
      BY <2>0, <3>1 DEF Sock
    <3>3. CASE rpc' = "recv"
      BY <3>1, <3>2, <3>3 DEF Replying
    <3>4. CASE rpc' = "send"
      <4>1. rpkt.id \in Ids /\ rpkt.id <= created
        BY <3>1, LocalAssumption DEF Inv, TypeOK, ReplyInv, Reply, Ids
      <4>2. key[rpkt.id] \in Keys
        BY <4>1 DEF ReplyInv
      <4>3. AnyAssoc = TRUE
        BY <3>1, <3>4, <4>2, FoundIsAlive DEF AnyAssoc
      <4>4. Sock \in {"open", "half"}
        BY <3>1 DEF Sock
      <4> QED BY <3>1, <3>2, <3>4, <4>3, <4>4 DEF Port!Next, Port!Reply
    <3> QED BY <3>1, <3>3, <3>4
  <2>6. CASE RespSend
    <3>1. UNCHANGED <<lpc, r2l>> /\ rpc = "send" /\ rpc' = "recv"
      BY <2>6 DEF RespSend, listener, back
    <3>2. UNCHANGED <<Sock, AnyAssoc>>
      BY <2>0, <3>1 DEF Sock
    <3> QED BY <3>1, <3>2 DEF Port!Next, Port!Sent
  <2>7. CASE RespBreak
    <3>1. UNCHANGED <<lpc, r2l>> /\ rpc = "send" /\ rpc' = "gone"
      BY <2>7 DEF RespBreak, listener, back
    <3> QED BY <2>0, <3>1 DEF Port!Next, Port!Break, Sock
  <2>8. CASE RespFinish
    <3>1. UNCHANGED <<lpc, r2l>> /\ rpc = "recv" /\ rpc' = "gone" /\ lpc = "gone"
      BY <2>8 DEF RespFinish, listener, back
    <3>2. AnyAssoc = FALSE
      BY <2>8 DEF AnyAssoc, RespFinish
    <3> QED BY <2>0, <3>1, <3>2 DEF Port!Next, Port!Release, Sock
  <2>9. CASE RespRecv
    <3>1. UNCHANGED <<lpc, r2l>> /\ rpc = "recv" /\ rpc' = "lock"
      BY <2>9 DEF RespRecv, listener, back
    <3> QED BY <2>0, <3>1 DEF Sock, Replying
  <2>10. ASSUME \/ \E k \in Keys : Expire(k)
                \/ \E c \in Clients : ClientRecv(c) \/ \E t \in Targets : RedirRecv(c, t)
                \/ ListenerIgnore \/ ListenerWaits \/ ListenerTimeout
                \/ RedirLookup \/ ListenerBindFails \/ ListenerSend
         PROVE  UNCHANGED <<Sock, AnyAssoc, Replying>>
    <3>1. UNCHANGED <<rpc, r2l>> /\ (lpc = "gone" <=> lpc' = "gone")
      BY <2>10, ZenonT(60)
      DEF Expire, ClientRecv, RedirRecv, RedirLookup, Lookup, ListenerIgnore, ListenerWaits,
          ListenerTimeout, ListenerBindFails, ListenerSend, listener, response, back
    <3> QED BY <3>1, SameView
  <2>11. ASSUME NEW i \in Ids, L2rStep(i)
         PROVE  UNCHANGED <<Sock, AnyAssoc, Replying>>
    <3>1. UNCHANGED <<lpc, rpc, r2l>>
      BY <2>11, Zenon
      DEF L2rStep, L2rRecv, L2rAcl, L2rProxied, L2rBypassed, SendPacket, L2rFinish, listener, response, back
    <3> QED BY <3>1, SameView
  <2>12. CASE UNCHANGED vars
    BY <2>12, SameView DEF vars, listener, response, back
  <2> QED
    BY <2>1, <2>2, <2>3, <2>4, <2>5, <2>6, <2>7, <2>8, <2>9, <2>10, <2>11, <2>12
    DEF Next, ListenerStep, RespStep
<1>3. Init => ReplyInv
  <2> SUFFICES ASSUME Init PROVE ReplyInv
    OBVIOUS
  <2>1. rpc \in {"recv", "gone"} /\ created = 0 /\ resp_rx = <<>>
    BY DEF Init
  <2>2. r2l_data \in [Ids -> [Sockets -> Data]]
    BY DEF Init, Data
  <2>3. \A i \in Ids, s \in Sockets : r2l[i][s] = "none"
    BY DEF Init
  <2>4. \A i \in Ids : ~(i <= created)
    BY <2>1, LocalAssumption DEF Ids
  <2>5. resp_rx \in Seq(Reply(created))
    BY <2>1
  <2> QED BY <2>1, <2>2, <2>3, <2>4, <2>5 DEF ReplyInv
<1>4. Spec => []Inv
  BY LocalInvariant, PTL DEF Inv
<1>5. Spec => []ReplyInv
  BY <1>3, <1>4, NextReply, PTL DEF Spec
<1> QED BY <1>1, <1>2, <1>4, <1>5, PTL DEF Spec, PortSpec, Port!Spec
=============================================================================

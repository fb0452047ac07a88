-------------------------- MODULE UdpServerProofs --------------------------
(***************************************************************************)
(* For any number of clients, associations and packets and any size of the *)
(* queues: an association that can still be reached works in both          *)
(* directions, relays in order, and stays its client's until it expires.   *)
(***************************************************************************)
EXTENDS UdpServer, TLAPS

Inv == TypeOK /\ ServerInv

\* What the map holds after the expired entries are dropped (Fresh) was in it
\* before.
LEMMA FreshFacts ==
    ASSUME TypeOK
    PROVE  /\ Fresh \in [Clients -> 0..created]
           /\ \A c \in Clients : Fresh[c] # 0 => Fresh[c] = assoc_map[c]
           /\ \A c \in Clients : Fresh[c] # assoc_map[c] => c \in expired
  BY DEF Fresh, TypeOK

\* The packets of q come in order, after p and no later than n.
Ordered(p, q, n) ==
    \A j \in DOMAIN q : p < q[j] /\ q[j] <= n /\ \A k \in 1..j - 1 : q[k] < q[j]

\* A queue stays in order when a newer packet is put into it (send) ...
LEMMA AppendOrdered ==
    ASSUME NEW p \in Nat, NEW n \in Nat, NEW q \in Seq(Nat),
           Ordered(p, q, n), p < n, \A j \in DOMAIN q : q[j] < n
    PROVE  Ordered(p, Append(q, n), n)
<1>1. /\ Len(q) \in Nat /\ DOMAIN q = 1..Len(q) /\ \A j \in 1..Len(q) : q[j] \in Nat
      /\ DOMAIN Append(q, n) = 1..Len(q) + 1
      /\ Append(q, n)[Len(q) + 1] = n
      /\ \A j \in 1..Len(q) : Append(q, n)[j] = q[j]
  OBVIOUS
<1> SUFFICES ASSUME NEW j \in 1..Len(q) + 1
             PROVE  /\ p < Append(q, n)[j] /\ Append(q, n)[j] <= n
                    /\ \A k \in 1..j - 1 : Append(q, n)[k] < Append(q, n)[j]
  BY <1>1 DEF Ordered
<1>2. CASE j = Len(q) + 1
  BY <1>1, <1>2
<1>3. CASE j \in 1..Len(q)
  BY <1>1, <1>3, SMTT(60) DEF Ordered
<1> QED BY <1>1, <1>2, <1>3

\* ... and when the oldest one is taken out of it (recv).
LEMMA TailOrdered ==
    ASSUME NEW p \in Nat, NEW n \in Nat, NEW q \in Seq(Nat), q # <<>>, Ordered(p, q, n)
    PROVE  /\ Ordered(Head(q), Tail(q), n)
           /\ Head(q) \in Nat /\ Tail(q) \in Seq(Nat)
           /\ 1 \in DOMAIN q /\ Head(q) = q[1]
           /\ \A j \in DOMAIN Tail(q) : j + 1 \in DOMAIN q /\ Tail(q)[j] = q[j + 1]
<1>1. /\ Len(q) \in Nat /\ Len(q) > 0 /\ DOMAIN q = 1..Len(q)
      /\ Head(q) = q[1] /\ Tail(q) \in Seq(Nat) /\ DOMAIN Tail(q) = 1..Len(q) - 1
      /\ \A j \in 1..Len(q) - 1 : Tail(q)[j] = q[j + 1]
      /\ \A j \in 1..Len(q) : q[j] \in Nat
  OBVIOUS
<1>2. \A j \in 1..Len(q) - 1 : j + 1 \in DOMAIN q
  BY <1>1
<1>3. \A j \in 1..Len(q) : q[j] <= n /\ \A k \in 1..j - 1 : q[k] < q[j]
  BY <1>1 DEF Ordered
<1>4. Ordered(Head(q), Tail(q), n)
  <2> SUFFICES ASSUME NEW j \in 1..Len(q) - 1
               PROVE  /\ Head(q) < Tail(q)[j] /\ Tail(q)[j] <= n
                      /\ \A k \in 1..j - 1 : Tail(q)[k] < Tail(q)[j]
    <3>1. DOMAIN Tail(q) = 1..Len(q) - 1
      BY <1>1
    <3> QED BY <3>1, ZenonT(60) DEF Ordered
  <2>1. j + 1 \in 1..Len(q) /\ 1 \in 1..(j + 1) - 1
    BY <1>1
  <2>2. q[1] < q[j + 1] /\ q[j + 1] <= n
    BY <1>3, <2>1
  <2>3. ASSUME NEW k \in 1..j - 1 PROVE Tail(q)[k] < Tail(q)[j]
    <3>1. k \in 1..Len(q) - 1 /\ k + 1 \in 1..(j + 1) - 1
      BY <1>1
    <3> QED BY <1>1, <1>3, <2>1, <3>1
  <2> QED BY <1>1, <2>2, <2>3
<1> QED BY <1>1, <1>2, <1>4

\* A queue of packets stays one when a packet is put into it.
LEMMA AppendType ==
    ASSUME NEW S, NEW q \in Seq(S), NEW e \in S
    PROVE  Append(q, e) \in Seq(S)
  OBVIOUS

\* Init establishes the invariant.
LEMMA InitInv == Init => Inv
<1> SUFFICES ASSUME Init PROVE Inv
  OBVIOUS
<1>1. TypeOK
  BY ServerAssumption DEF Init, TypeOK, Ids
<1>2. ServerInv
  BY ServerAssumption
  DEF Init, ServerInv, HeldAssociationServes, RelayedInOrder, Held, Ids
<1> QED BY <1>1, <1>2 DEF Inv

\* A step that creates no association, touches no queue and starts or ends no
\* task preserves the invariant if handles only disappear.  It covers expiry,
\* every step of the response task and the end of the listening loop.
LEMMA DropHandles ==
    ASSUME Inv,
           UNCHANGED <<lsrc, created, l2r, l2r_rx, l2r_pkt, rx>>,
           UNCHANGED <<hand, lpc>> \/ (hand' = 0 /\ lpc' \in {"recv", "gone"}),
           assoc_map' \in [Clients -> 0..created],
           \A c \in Clients : assoc_map'[c] \in {0, assoc_map[c]},
           \A i \in Ids : \/ r2l'[i] = r2l[i]
                          \/ r2l[i] # "none" /\ (r2l'[i] \in {"recv", "send"} \/ ~Held(i))
    PROVE  ServerInv'
<1>1. \A i \in Ids : Held(i)' => Held(i)
  BY ServerAssumption DEF Held, Inv, TypeOK, ServerInv, Ids
<1>2. HeldAssociationServes'
  BY <1>1 DEF Inv, ServerInv, HeldAssociationServes
<1>3. RelayedInOrder'
  BY ServerAssumption DEF Inv, ServerInv, RelayedInOrder, Ids
<1> QED BY <1>2, <1>3 DEF Inv, TypeOK, ServerInv

\* The steps of the listening loop that look at or extend the map.
LEMMA ListenerRecvInv ==
    ASSUME Inv, NEW c \in Clients, ListenerRecv(c)
    PROVE  Inv'
<1> USE ServerAssumption
<1>1. /\ Fresh \in [Clients -> 0..created]
      /\ \A d \in Clients : Fresh[d] # 0 => Fresh[d] = assoc_map[d]
  BY FreshFacts DEF Inv
<1>2. hand = 0 /\ rx \in Nat /\ created \in Nat
  BY DEF Inv, TypeOK, ServerInv, ListenerRecv
<1>3. TypeOK'
  BY <1>1, <1>2 DEF Inv, TypeOK, ListenerRecv, tasks, response
<1>4. \A i \in Ids : Held(i)' => Held(i)
  BY <1>1, <1>2 DEF Held, ListenerRecv, Ids
<1>5. HeldAssociationServes'
  BY <1>4 DEF Inv, ServerInv, HeldAssociationServes, ListenerRecv, tasks
<1>6. \A i \in Ids : /\ l2r_pkt[i] \in Nat /\ l2r_pkt[i] < rx'
                     /\ \A j \in DOMAIN l2r_rx[i] : l2r_rx[i][j] \in Nat /\ l2r_rx[i][j] < rx'
  BY <1>2 DEF Inv, TypeOK, ServerInv, ListenerRecv
<1>7. \A i \in Ids : l2r[i] = "done" => hand' # i
  BY <1>1, <1>5 DEF HeldAssociationServes, Held, ListenerRecv, tasks
<1>8. RelayedInOrder'
  BY <1>6, <1>7 DEF Inv, ServerInv, RelayedInOrder, ListenerRecv, tasks
<1> QED
  BY <1>1, <1>2, <1>3, <1>5, <1>6, <1>8 DEF Inv, TypeOK, ServerInv, ListenerRecv, tasks

\* A new association has a fresh number, an empty queue and both of its tasks.
LEMMA ListenerAssociateInv ==
    ASSUME Inv, ListenerAssociate
    PROVE  Inv'
<1> USE ServerAssumption
<1> DEFINE i == created + 1
<1>1. /\ Fresh \in [Clients -> 0..created]
      /\ \A d \in Clients : Fresh[d] # 0 => Fresh[d] = assoc_map[d]
  BY FreshFacts DEF Inv
<1>2. /\ hand = 0 /\ rx \in Nat /\ rx > 0 /\ created \in Nat /\ i \in Ids
      /\ lsrc \in Clients /\ l2r_rx[i] = <<>> /\ l2r_pkt[i] = 0
  BY DEF Inv, TypeOK, ServerInv, ListenerAssociate, Ids
<1>3. TypeOK'
  <2>1. assoc_map' \in [Clients -> 0..created'] /\ hand' \in 0..created' /\ created' \in 0..MaxAssoc
    BY <1>1, <1>2 DEF ListenerAssociate, Ids
  <2>2. rpkt' \in 0..created' /\ resp_rx' \in Seq(1..created')
    BY <1>2 DEF Inv, TypeOK, ListenerAssociate, response
  <2> QED BY <1>2, <2>1, <2>2 DEF Inv, TypeOK, ListenerAssociate, response
<1>4. \A k \in Ids : Held(k)' => k = i \/ Held(k)
  BY <1>1, <1>2 DEF Held, ListenerAssociate, Ids
<1>5. HeldAssociationServes'
  BY <1>2, <1>4 DEF Inv, TypeOK, ServerInv, HeldAssociationServes, ListenerAssociate
<1>6. /\ UNCHANGED <<l2r_rx, l2r_pkt, rx>> /\ hand' = i /\ created' = i /\ lpc' = "send"
      /\ l2r'[i] = "recv" /\ \A k \in Ids \ {i} : l2r'[k] = l2r[k] /\ r2l'[k] = r2l[k]
  BY <1>2 DEF Inv, TypeOK, ListenerAssociate
<1>7. RelayedInOrder'
  <2> SUFFICES ASSUME NEW k \in Ids
               PROVE  /\ \A j \in DOMAIN l2r_rx[k] :
                          /\ l2r_pkt[k] < l2r_rx[k][j]
                          /\ hand' = k => l2r_rx[k][j] < rx
                          /\ \A m \in 1..j - 1 : l2r_rx[k][m] < l2r_rx[k][j]
                      /\ hand' = k => l2r_pkt[k] < rx
                      /\ l2r'[k] = "done" => l2r_rx[k] = <<>> /\ hand' # k
    BY <1>6 DEF RelayedInOrder
  <2>1. CASE k = i
    BY <1>2, <1>6, <2>1
  <2>2. CASE k # i
    BY <1>6, <2>2 DEF Inv, ServerInv, RelayedInOrder
  <2> QED BY <2>1, <2>2
<1>8. \A k \in Ids : created' < k => k # i /\ created < k
  BY <1>2, <1>6 DEF Ids
<1>9. ServerInv'
  <2>1. /\ (lpc = "send" <=> hand # 0)'
        /\ (lpc # "associate")'
    BY <1>2, <1>6
  <2>2. \A k \in Ids : created' < k =>
            l2r'[k] = "none" /\ r2l'[k] = "none" /\ l2r_rx'[k] = <<>> /\ l2r_pkt'[k] = 0
    BY <1>6, <1>8 DEF Inv, ServerInv
  <2>3. \A k \in Ids : l2r_pkt'[k] <= rx' /\ \A j \in DOMAIN l2r_rx'[k] : l2r_rx'[k][j] <= rx'
    BY <1>6 DEF Inv, ServerInv
  <2> QED BY <1>5, <1>7, <2>1, <2>2, <2>3 DEF ServerInv
<1> QED BY <1>3, <1>9 DEF Inv

\* The packet in hand is the newest, so the queue stays ordered.
LEMMA ListenerSendInv ==
    ASSUME Inv, ListenerSend
    PROVE  Inv'
<1> USE ServerAssumption
<1> DEFINE q == l2r_rx[hand]
           r == Append(q, rx)
<1>1. /\ hand \in Ids /\ rx \in Nat /\ q \in Seq(Nat) /\ l2r_rx \in [Ids -> Seq(Nat)]
      /\ l2r_pkt \in [Ids -> Nat] /\ hand <= created /\ created \in Nat
  BY SMTT(60) DEF Inv, TypeOK, ServerInv, ListenerSend, Ids
<1>2. /\ lpc' = "recv" /\ hand' = 0 /\ UNCHANGED <<l2r, l2r_pkt, r2l, rx, created, assoc_map>>
      /\ l2r_rx' = [l2r_rx EXCEPT ![hand] = r]
  BY DEF ListenerSend, cache
<1>3. /\ l2r_pkt[hand] < rx /\ l2r[hand] # "done" /\ \A j \in DOMAIN q : q[j] < rx
      /\ Ordered(l2r_pkt[hand], q, rx)
  BY <1>1 DEF Inv, ServerInv, RelayedInOrder, HeldAssociationServes, Held, Ordered
<1>4. Ordered(l2r_pkt[hand], r, rx) /\ r \in Seq(Nat)
  BY <1>1, <1>3, AppendOrdered
<1> HIDE DEF r, q
<1>5. l2r_rx'[hand] = r /\ \A k \in Ids \ {hand} : l2r_rx'[k] = l2r_rx[k]
  BY <1>1, <1>2
<1>6. TypeOK'
  BY <1>1, <1>2, <1>4, SMTT(60) DEF Inv, TypeOK, ListenerSend, cache, response
<1>7. HeldAssociationServes'
  BY <1>1, <1>2 DEF Inv, ServerInv, HeldAssociationServes, Held, Ids
<1>8. ASSUME NEW k \in Ids
      PROVE  /\ Ordered(l2r_pkt[k], l2r_rx'[k], rx)
             /\ l2r[k] = "done" => l2r_rx'[k] = <<>>
             /\ created < k => l2r_rx'[k] = <<>>
  <2>1. CASE k = hand
    <3>1. ~(created < k)
      BY <1>1, <2>1 DEF Ids
    <3> QED BY <1>3, <1>4, <1>5, <2>1, <3>1
  <2>2. CASE k # hand
    BY <1>5, <2>2 DEF Inv, ServerInv, RelayedInOrder, Ordered
  <2> QED BY <2>1, <2>2
<1>9. RelayedInOrder'
  BY <1>1, <1>2, <1>8 DEF RelayedInOrder, Ordered, Ids
<1>10. \A k \in Ids : \A j \in DOMAIN l2r_rx'[k] : l2r_rx'[k][j] <= rx
  BY <1>8 DEF Ordered
<1> QED
  BY <1>1, <1>2, <1>6, <1>7, <1>8, <1>9, <1>10 DEF Inv, ServerInv

\* The task local -> remote takes the oldest packet of its queue.
LEMMA L2rRecvInv ==
    ASSUME Inv, NEW i \in Ids, L2rRecv(i)
    PROVE  Inv'
<1> USE ServerAssumption
<1> DEFINE q == l2r_rx[i]
           h == Head(q)
           t == Tail(q)
<1>1. /\ q \in Seq(Nat) /\ q # <<>> /\ l2r[i] = "recv"
      /\ l2r_rx \in [Ids -> Seq(Nat)] /\ l2r_pkt \in [Ids -> Nat]
      /\ l2r \in [Ids -> {"none", "recv", "relay", "done"}] /\ rx \in Nat
  BY DEF Inv, TypeOK, L2rRecv
<1>2. /\ UNCHANGED <<lpc, lsrc, hand, assoc_map, created, r2l, rx>>
      /\ l2r' = [l2r EXCEPT ![i] = "relay"]
      /\ l2r_pkt' = [l2r_pkt EXCEPT ![i] = h]
      /\ l2r_rx' = [l2r_rx EXCEPT ![i] = t]
  BY DEF L2rRecv, listener, cache
<1>3. Ordered(l2r_pkt[i], q, rx) /\ \A j \in DOMAIN q : q[j] <= rx /\ (hand = i => q[j] < rx)
  BY DEF Inv, ServerInv, RelayedInOrder, Ordered
<1>4. /\ Ordered(h, t, rx) /\ h \in Nat /\ t \in Seq(Nat)
      /\ 1 \in DOMAIN q /\ h = q[1]
      /\ \A j \in DOMAIN t : j + 1 \in DOMAIN q /\ t[j] = q[j + 1]
  BY <1>1, <1>3, TailOrdered
<1>5. h <= rx /\ (hand = i => h < rx /\ \A j \in DOMAIN t : t[j] < rx)
  BY <1>3, <1>4
<1> HIDE DEF q, h, t
<1>6. TypeOK'
  BY <1>1, <1>2, <1>4, SMTT(60) DEF Inv, TypeOK, L2rRecv, listener, cache, response
<1>7. HeldAssociationServes'
  BY <1>1, <1>2 DEF Inv, ServerInv, HeldAssociationServes, Held
<1>8. ASSUME NEW k \in Ids
      PROVE  /\ Ordered(l2r_pkt'[k], l2r_rx'[k], rx)
             /\ hand = k => l2r_pkt'[k] < rx /\ \A j \in DOMAIN l2r_rx'[k] : l2r_rx'[k][j] < rx
             /\ l2r'[k] = "done" => l2r_rx'[k] = <<>> /\ hand # k
             /\ l2r_pkt'[k] <= rx
             /\ created < k => l2r'[k] = "none" /\ l2r_rx'[k] = <<>> /\ l2r_pkt'[k] = 0
  <2>1. CASE k = i
    <3>1. ~(created < i)
      BY <1>1 DEF Inv, ServerInv
    <3>2. l2r'[k] = "relay" /\ l2r_pkt'[k] = h /\ l2r_rx'[k] = t
      BY <1>1, <1>2, <2>1
    <3> QED BY <1>4, <1>5, <2>1, <3>1, <3>2
  <2>2. CASE k # i
    <3>1. l2r'[k] = l2r[k] /\ l2r_pkt'[k] = l2r_pkt[k] /\ l2r_rx'[k] = l2r_rx[k]
      BY <1>1, <1>2, <2>2
    <3> QED BY <3>1 DEF Inv, ServerInv, RelayedInOrder, Ordered
  <2> QED BY <2>1, <2>2
<1>9. RelayedInOrder'
  BY <1>2, <1>8 DEF RelayedInOrder, Ordered
<1>10. \A k \in Ids : \A j \in DOMAIN l2r_rx'[k] : l2r_rx'[k][j] <= rx
  BY <1>8 DEF Ordered
<1> QED BY <1>2, <1>6, <1>7, <1>8, <1>9, <1>10 DEF Inv, ServerInv

\* The other steps of a local -> remote task only move its program counter.
LEMMA L2rMoveInv ==
    ASSUME Inv, NEW i \in Ids, L2rRelay(i) \/ L2rFinish(i)
    PROVE  Inv'
<1>1. /\ l2r[i] \in {"recv", "relay"}
      /\ \/ l2r' = [l2r EXCEPT ![i] = "recv"]
         \/ l2r' = [l2r EXCEPT ![i] = "done"] /\ ~Held(i) /\ l2r_rx[i] = <<>>
      /\ UNCHANGED <<lpc, lsrc, hand, assoc_map, created, r2l, l2r_rx, l2r_pkt, rx>>
  BY DEF L2rRelay, L2rFinish, listener, cache
<1>2. TypeOK'
  BY ZenonT(60) DEF Inv, TypeOK, L2rRelay, L2rFinish, listener, cache, response
<1>3. HeldAssociationServes'
  BY <1>1, ZenonT(60) DEF Inv, TypeOK, ServerInv, HeldAssociationServes, Held
<1>4. RelayedInOrder'
  BY <1>1 DEF Inv, TypeOK, ServerInv, RelayedInOrder, Held
<1>5. \A k \in Ids : created < k => k # i /\ l2r'[k] = "none"
  BY <1>1 DEF Inv, TypeOK, ServerInv
<1> QED BY <1>1, <1>2, <1>3, <1>4, <1>5, SMTT(60) DEF Inv, ServerInv

\* The rest: time, the tasks local <- remote, the response task and the end of
\* the loop never create a handle.
LEMMA OtherInv ==
    ASSUME Inv,
           \/ \E c \in Clients : Expire(c)
           \/ ListenerIgnore \/ ListenerTimeout \/ ListenerGone
           \/ \E i \in Ids : R2lRecv(i) \/ R2lSend(i) \/ R2lCancel(i)
           \/ RespStep \/ RespBreak
    PROVE  Inv'
<1> USE ServerAssumption
<1>1. /\ Fresh \in [Clients -> 0..created]
      /\ \A c \in Clients : Fresh[c] \in {0, assoc_map[c]}
  BY FreshFacts DEF Inv
<1>2. CASE \E c \in Clients : Expire(c)
  <2>1. PICK c \in Clients : Expire(c)
    BY <1>2
  <2>2. ServerInv'
    BY <2>1, DropHandles DEF Inv, TypeOK, Expire, listener, tasks
  <2> QED BY <2>1, <2>2 DEF Inv, TypeOK, Expire, listener, tasks, response
<1>3. CASE ListenerIgnore
  <2>1. TypeOK'
    BY <1>3 DEF Inv, TypeOK, ListenerIgnore, listener, cache, tasks, response
  <2>2. /\ UNCHANGED <<lpc, lsrc, hand, assoc_map, created, r2l, l2r, l2r_rx, l2r_pkt>>
        /\ rx' = rx + 1 /\ rx \in Nat /\ lpc = "recv"
    BY <1>3 DEF Inv, TypeOK, ListenerIgnore, listener, cache, tasks
  <2>3. HeldAssociationServes' /\ hand = 0
    BY <2>2 DEF Inv, ServerInv, HeldAssociationServes, Held
  <2>4. RelayedInOrder'
    BY <2>2, <2>3 DEF Inv, ServerInv, RelayedInOrder, Ids
  <2>5. \A i \in Ids : /\ l2r_pkt[i] <= rx'
                       /\ \A j \in DOMAIN l2r_rx[i] : l2r_rx[i][j] <= rx'
    BY <2>2 DEF Inv, TypeOK, ServerInv
  <2> QED BY <2>1, <2>2, <2>3, <2>4, <2>5 DEF Inv, ServerInv
<1>4. CASE ListenerTimeout
  <2>1. ServerInv'
    BY <1>1, <1>4, DropHandles DEF ListenerTimeout, listener, tasks
  <2> QED BY <1>1, <1>4, <2>1 DEF Inv, TypeOK, ListenerTimeout, listener, tasks, response
<1>5. CASE ListenerGone
  <2>1. ServerInv'
    BY <1>5, DropHandles DEF Inv, TypeOK, ListenerGone, FreeMapIf, tasks
  <2> QED BY <1>5, <2>1 DEF Inv, TypeOK, ListenerGone, FreeMapIf, tasks, response
<1>6. ASSUME NEW i \in Ids, R2lRecv(i) \/ R2lSend(i) \/ R2lCancel(i)
      PROVE  Inv'
  <2>1. r2l[i] # "none"
    BY <1>6 DEF R2lRecv, R2lSend, R2lCancel
  <2>2. i \in 1..created
    BY <2>1 DEF Inv, TypeOK, ServerInv, Ids
  <2>3. UNCHANGED <<lpc, lsrc, hand, assoc_map, expired, created, owner, l2r, l2r_rx, l2r_pkt, rx, tx>>
    BY <1>6 DEF R2lRecv, R2lSend, R2lCancel, listener, cache, tasks
  <2>4. \/ r2l' = [r2l EXCEPT ![i] = "recv"]
        \/ r2l' = [r2l EXCEPT ![i] = "send"]
        \/ r2l' = [r2l EXCEPT ![i] = "done"] /\ ~Held(i)
    BY <1>6 DEF R2lRecv, R2lSend, R2lCancel
  <2>6. /\ r2l' \in [Ids -> {"none", "recv", "send", "done"}]
        /\ \A k \in Ids : \/ r2l'[k] = r2l[k]
                          \/ r2l[k] # "none" /\ (r2l'[k] \in {"recv", "send"} \/ ~Held(k))
    BY <2>1, <2>4, ZenonT(60) DEF Inv, TypeOK
  <2>7. assoc_map' \in [Clients -> 0..created]
    BY <2>3 DEF Inv, TypeOK
  <2>8. ServerInv'
    BY <2>3, <2>6, <2>7, DropHandles
  <2>9. resp_rx' \in Seq(1..created)
    <3>1. resp_rx' = resp_rx \/ resp_rx' = Append(resp_rx, i)
      BY <1>6 DEF R2lRecv, R2lSend, R2lCancel, response
    <3>2. resp_rx \in Seq(1..created)
      BY DEF Inv, TypeOK
    <3> QED BY <2>2, <3>1, <3>2, AppendType, ZenonT(60)
  <2>10. UNCHANGED <<rpc, rpkt>> /\ replies' \in Nat
    BY <1>6 DEF Inv, TypeOK, R2lRecv, R2lSend, R2lCancel, response
  <2> QED BY <2>3, <2>6, <2>8, <2>9, <2>10 DEF Inv, TypeOK
<1>7. CASE RespStep \/ RespBreak
  <2>1. UNCHANGED <<lpc, lsrc, hand, created, owner, l2r, l2r_rx, l2r_pkt, r2l, rx, replies>>
    BY <1>7, ZenonT(60)
    DEF RespStep, RespRecv, RespGet, RespSend, RespFinish, RespBreak, listener, tasks
  <2>2. rpc' \in {"recv", "lock", "send", "gone"}
    BY <1>7, ZenonT(60) DEF Inv, TypeOK, RespStep, RespRecv, RespGet, RespSend, RespFinish, RespBreak
  <2>7. tx' \in Nat
    <3>1. tx \in Nat
      BY DEF Inv, TypeOK
    <3>2. tx' = tx \/ tx' = tx + 1
      BY <1>7, ZenonT(60) DEF RespStep, RespRecv, RespGet, RespSend, RespFinish, RespBreak
    <3> QED BY <3>1, <3>2
  <2>3. /\ expired' \subseteq Clients
        /\ \/ assoc_map' = Fresh
           \/ assoc_map' = assoc_map
           \/ assoc_map' = [c \in Clients |-> 0]
    BY <1>7 DEF Inv, TypeOK, RespStep, RespRecv, RespGet, RespSend, RespFinish, RespBreak,
                FreeMapIf, cache
  <2>4. /\ assoc_map' \in [Clients -> 0..created]
        /\ \A c \in Clients : assoc_map'[c] \in {0, assoc_map[c]}
    BY <1>1, <2>3 DEF Inv, TypeOK
  <2>5. rpkt' \in 0..created /\ resp_rx' \in Seq(1..created)
    <3> USE DEF Inv, TypeOK
    <3>1. CASE RespRecv
      <4>1. Head(resp_rx) \in 1..created /\ Tail(resp_rx) \in Seq(1..created)
        BY <3>1 DEF RespRecv
      <4> QED BY <3>1, <4>1 DEF RespRecv
    <3>2. CASE RespGet
      BY <3>2 DEF RespGet
    <3>3. CASE RespSend
      BY <3>3 DEF RespSend
    <3>4. CASE RespFinish
      BY <3>4 DEF RespFinish
    <3>5. CASE RespBreak
      BY <3>5 DEF RespBreak
    <3> QED BY <1>7, <3>1, <3>2, <3>3, <3>4, <3>5 DEF RespStep
  <2>6. ServerInv'
    BY <2>1, <2>4, DropHandles
  <2> QED BY <2>1, <2>2, <2>3, <2>4, <2>5, <2>6, <2>7 DEF Inv, TypeOK
<1> QED BY <1>2, <1>3, <1>4, <1>5, <1>6, <1>7

\* Every step preserves the invariant.
LEMMA NextInv == Inv /\ [Next]_vars => Inv'
<1> SUFFICES ASSUME Inv, [Next]_vars PROVE Inv'
  OBVIOUS
<1>1. CASE UNCHANGED vars
  <2>1. ServerInv'
    BY <1>1, DropHandles DEF Inv, TypeOK, vars, listener, cache, tasks
  <2> QED BY <1>1, <2>1 DEF Inv, TypeOK, vars, listener, cache, tasks, response
<1>2. ASSUME NEW c \in Clients, ListenerRecv(c) PROVE Inv'
  BY <1>2, ListenerRecvInv
<1>3. CASE ListenerStep
  BY <1>3, ListenerAssociateInv, ListenerSendInv DEF ListenerStep
<1>4. ASSUME NEW i \in Ids, L2rStep(i) PROVE Inv'
  BY <1>4, L2rRecvInv, L2rMoveInv DEF L2rStep
<1> QED BY <1>1, <1>2, <1>3, <1>4, OtherInv DEF Next

\* The UDP server keeps the invariant ServerInv.
THEOREM ServerInvariant == Spec => [](TypeOK /\ ServerInv)
<1>1. Inv /\ [Next]_vars => Inv'
  BY NextInv
<1>2. Spec => []Inv
  BY InitInv, <1>1, PTL DEF Spec
<1> QED BY <1>2, PTL DEF Inv

\* Whatever errors the tasks of an association met, both of them are there as
\* long as the map or the listening loop can hand packets to it.
THEOREM HeldServes == Spec => []HeldAssociationServes
<1>1. ServerInv => HeldAssociationServes
  BY DEF ServerInv
<1> QED BY <1>1, ServerInvariant, PTL

\* The `unreachable!` of UdpAssociation::send is unreachable.
THEOREM SendReachesQueue == Spec => []SendNeverClosed
<1>1. TypeOK /\ ServerInv => SendNeverClosed
  BY ServerAssumption
  DEF TypeOK, ServerInv, HeldAssociationServes, Held, SendNeverClosed, Ids
<1> QED BY <1>1, ServerInvariant, PTL

\* An association relays in order, at most once, and drains its queue.
THEOREM OrderIsKept == Spec => []RelayedInOrder
<1>1. ServerInv => RelayedInOrder
  BY DEF ServerInv
<1> QED BY <1>1, ServerInvariant, PTL

\* A client keeps its association until it expires or the map is freed.
THEOREM MappingIsStable == Spec => MappingStable
<1> DEFINE Kept == \A c \in Clients : assoc_map[c] # 0 /\ assoc_map'[c] # assoc_map[c]
                      => c \in expired \/ (lpc' = "gone" /\ rpc' = "gone")
<1>1. TypeOK /\ ServerInv /\ [Next]_vars => [Kept]_vars
  <2> SUFFICES ASSUME TypeOK, ServerInv, Next, NEW c \in Clients,
                      assoc_map[c] # 0, assoc_map'[c] # assoc_map[c]
               PROVE  c \in expired \/ (lpc' = "gone" /\ rpc' = "gone")
    OBVIOUS
  <2>1. CASE assoc_map' = Fresh
    BY <2>1, FreshFacts, ZenonT(60)
  <2>2. CASE ListenerAssociate
    <3>1. c # lsrc /\ assoc_map'[c] = Fresh[c]
      BY <2>2, FreshFacts DEF ServerInv, ListenerAssociate
    <3> QED BY <3>1, FreshFacts, SMTT(60)
  <2>3. CASE ListenerGone
    BY <2>3 DEF ListenerGone, FreeMapIf, response
  <2>4. CASE RespBreak \/ RespFinish
    BY <2>4 DEF RespBreak, RespFinish, FreeMapIf, listener
  <2> QED
    BY <2>1, <2>2, <2>3, <2>4
    DEF Next, ListenerStep, L2rStep, RespStep, ListenerRecv, Expire, ListenerIgnore,
        ListenerTimeout, ListenerSend, L2rRecv, L2rRelay, L2rFinish, R2lRecv, R2lSend,
        R2lCancel, RespRecv, RespGet, RespSend, cache
<1> QED BY <1>1, ServerInvariant, PTL DEF Spec, MappingStable

\* A reply in the response task's hands came from an association, and every
\* association has the client it was created for.
ReplyInv ==
    /\ \A i \in Ids : i <= created => owner[i] \in Clients
    /\ rpc \in {"lock", "send"} => rpkt # 0

\* Only ListenerAssociate makes associations, only RespRecv takes up replies.
LEMMA NextReply == Inv /\ ReplyInv /\ [Next]_vars => ReplyInv'
<1> SUFFICES ASSUME Inv, ReplyInv, [Next]_vars PROVE ReplyInv'
  OBVIOUS
<1> USE DEF ReplyInv
<1>1. CASE ListenerAssociate
  <2>1. /\ lsrc \in Clients /\ created \in Nat /\ created' = created + 1
        /\ owner' = [owner EXCEPT ![created + 1] = lsrc]
        /\ UNCHANGED <<rpc, rpkt>>
    BY <1>1 DEF Inv, TypeOK, ServerInv, ListenerAssociate, response
  <2>2. \A i \in Ids : i <= created + 1 => i <= created \/ i = created + 1
    BY <2>1 DEF Ids
  <2> QED BY <2>1, <2>2 DEF Inv, TypeOK
<1>2. CASE RespRecv
  <2>1. Head(resp_rx) \in 1..created
    BY <1>2 DEF Inv, TypeOK, RespRecv
  <2> QED BY <1>2, <2>1 DEF Inv, TypeOK, RespRecv
<1>3. CASE RespGet \/ RespSend \/ RespBreak \/ RespFinish
  BY <1>3 DEF RespGet, RespSend, RespBreak, RespFinish
<1>4. CASE UNCHANGED <<created, owner, rpc, rpkt>>
  BY <1>4
<1> QED
  BY <1>1, <1>2, <1>3, <1>4
  DEF Next, vars, ListenerStep, L2rStep, RespStep, ListenerRecv, Expire, ListenerIgnore,
      ListenerTimeout, ListenerSend, ListenerGone, L2rRecv, L2rRelay, L2rFinish, R2lRecv,
      R2lSend, R2lCancel, response

\* What the response task finds in the map under a client is an association that
\* works.
LEMMA FoundIsAlive ==
    ASSUME Inv, NEW c \in Clients, Fresh[c] # 0
    PROVE  AnyAssoc
<1>1. Fresh[c] \in Ids /\ assoc_map[c] = Fresh[c]
  <2>1. /\ assoc_map \in [Clients -> 0..created] /\ expired \subseteq Clients
        /\ created \in 0..MaxAssoc /\ MaxAssoc \in Nat
    BY ServerAssumption DEF Inv, TypeOK
  <2>2. Fresh[c] = assoc_map[c]
    BY Zenon DEF Fresh
  <2>3. assoc_map[c] \in 0..created
    BY <2>1
  <2> QED BY <2>1, <2>2, <2>3 DEF Ids
<1>2. Held(Fresh[c])
  BY <1>1 DEF Held
<1> QED BY <1>1, <1>2 DEF Inv, ServerInv, HeldAssociationServes, AnyAssoc

\* Replying, as UdpPort sees it, and the steps that leave the port alone.
Replying == rpc = "send"

LEMMA SameView ==
    ASSUME UNCHANGED <<rpc, r2l>>, lpc = "gone" <=> lpc' = "gone"
    PROVE  UNCHANGED <<Sock, AnyAssoc, Replying>>
  BY DEF Sock, AnyAssoc, Replying

\* The UDP server implements UdpPort.
THEOREM ImplementsPort == Spec => PortSpec
<1>1. Init => Port!Init
  BY DEF Init, Port!Init, Sock, AnyAssoc
<1>2. Inv /\ ReplyInv /\ [Next]_vars => [Port!Next]_(Port!vars)
  <2> SUFFICES ASSUME Inv, ReplyInv, [Next]_vars
               PROVE  Port!Next \/ UNCHANGED <<Sock, AnyAssoc, Replying>>
    BY DEF Port!vars, Replying
  <2>1. CASE ListenerAssociate
    <3>1. created + 1 \in Ids
      BY <2>1, ServerAssumption DEF Inv, TypeOK, ServerInv, ListenerAssociate, Ids
    <3>2. /\ r2l'[created + 1] = "recv" /\ Sock \in {"open", "loop"} /\ UNCHANGED <<Sock, Replying>>
      BY <2>1, <3>1 DEF Inv, TypeOK, ListenerAssociate, response, Sock, Replying
    <3>3. AnyAssoc' = TRUE
      BY <3>1, <3>2 DEF AnyAssoc
    <3> QED BY <3>2, <3>3, ZenonT(60) DEF Port!Next, Port!Associate, Replying
  <2>2. CASE ListenerGone
    <3>1. UNCHANGED <<rpc, r2l>> /\ lpc # "gone" /\ lpc' = "gone"
      BY <2>2 DEF ListenerGone, response
    <3>2. UNCHANGED <<AnyAssoc, Replying>>
      BY <3>1 DEF AnyAssoc, Replying
    <3> QED BY <3>1, <3>2 DEF Port!Next, Port!Stop, Sock, Replying
  <2>3. ASSUME NEW i \in Ids, R2lRecv(i) \/ R2lSend(i)
        PROVE  UNCHANGED <<Sock, AnyAssoc, Replying>>
    <3>1. r2l[i] \in {"recv", "send"} /\ r2l'[i] \in {"recv", "send"} /\ UNCHANGED <<lpc, rpc>>
      BY <2>3 DEF Inv, TypeOK, R2lRecv, R2lSend, listener, response
    <3>2. AnyAssoc = TRUE /\ AnyAssoc' = TRUE
      BY <3>1 DEF AnyAssoc
    <3> QED BY <3>1, <3>2 DEF Sock, Replying
  <2>4. ASSUME NEW i \in Ids, R2lCancel(i)
        PROVE  Port!Next \/ UNCHANGED <<Sock, AnyAssoc, Replying>>
    <3>1. r2l[i] \in {"recv", "send"} /\ UNCHANGED <<lpc, rpc>>
      BY <2>4 DEF R2lCancel, listener, response
    <3>2. AnyAssoc = TRUE /\ AnyAssoc' \in BOOLEAN /\ UNCHANGED <<Sock, Replying>>
      BY <3>1 DEF AnyAssoc, Sock, Replying
    <3> QED BY <3>2, ZenonT(60) DEF Port!Next, Port!Idle, Replying
  <2>5. CASE RespGet
    <3>1. /\ UNCHANGED <<lpc, r2l>> /\ rpc = "lock" /\ rpc' \in {"recv", "send"}
          /\ rpc' = "send" => Fresh[owner[rpkt]] # 0
      BY <2>5 DEF RespGet, listener
    <3>2. UNCHANGED <<Sock, AnyAssoc>>
      BY <3>1 DEF Sock, AnyAssoc
    <3>3. CASE rpc' = "recv"
      BY <3>1, <3>2, <3>3 DEF Replying
    <3>4. CASE rpc' = "send"
      <4>1. owner[rpkt] \in Clients
        BY <3>1, ServerAssumption DEF Inv, TypeOK, ReplyInv, Ids
      <4>2. AnyAssoc = TRUE
        BY <3>1, <3>4, <4>1, FoundIsAlive DEF AnyAssoc
      <4>3. Sock \in {"open", "half"}
        BY <3>1 DEF Sock
      <4> QED BY <3>1, <3>2, <3>4, <4>2, <4>3 DEF Port!Next, Port!Reply
    <3> QED BY <3>1, <3>3, <3>4
  <2>6. CASE RespSend
    <3>1. UNCHANGED <<lpc, r2l>> /\ rpc = "send" /\ rpc' = "recv"
      BY <2>6 DEF RespSend, listener
    <3>2. UNCHANGED <<Sock, AnyAssoc>>
      BY <3>1 DEF Sock, AnyAssoc
    <3> QED BY <3>1, <3>2 DEF Port!Next, Port!Sent
  <2>7. CASE RespBreak
    <3>1. UNCHANGED <<lpc, r2l>> /\ rpc = "send" /\ rpc' = "gone"
      BY <2>7 DEF RespBreak, listener
    <3>2. UNCHANGED AnyAssoc
      BY <3>1 DEF AnyAssoc
    <3> QED BY <3>1, <3>2 DEF Port!Next, Port!Break, Sock
  <2>8. CASE RespFinish
    <3>1. UNCHANGED <<lpc, r2l>> /\ rpc = "recv" /\ rpc' = "gone" /\ lpc = "gone"
      BY <2>8 DEF RespFinish, listener
    <3>2. AnyAssoc = FALSE /\ AnyAssoc' = FALSE
      BY <2>8, <3>1 DEF AnyAssoc, RespFinish
    <3> QED BY <3>1, <3>2 DEF Port!Next, Port!Release, Sock
  <2>9. CASE RespRecv
    <3>1. UNCHANGED <<lpc, r2l>> /\ rpc = "recv" /\ rpc' = "lock"
      BY <2>9 DEF RespRecv, listener
    <3> QED BY <3>1 DEF Sock, AnyAssoc, Replying
  <2>10. ASSUME NEW c \in Clients, ListenerRecv(c) \/ Expire(c)
         PROVE  UNCHANGED <<Sock, AnyAssoc, Replying>>
    <3>1. UNCHANGED <<rpc, r2l>> /\ (lpc = "gone" <=> lpc' = "gone")
      BY <2>10 DEF ListenerRecv, Expire, listener, response
    <3> QED BY <3>1, SameView
  <2>11. CASE ListenerSend \/ ListenerIgnore \/ ListenerTimeout
    <3>1. UNCHANGED <<rpc, r2l>> /\ lpc # "gone" /\ lpc' # "gone"
      BY <2>11 DEF ListenerSend, ListenerIgnore, ListenerTimeout, listener, response
    <3> QED BY <3>1, SameView
  <2>12. ASSUME NEW i \in Ids, L2rStep(i)
         PROVE  UNCHANGED <<Sock, AnyAssoc, Replying>>
    <3>1. UNCHANGED <<lpc, rpc, r2l>>
      BY <2>12 DEF L2rStep, L2rRecv, L2rRelay, L2rFinish, listener, response
    <3> QED BY <3>1, SameView
  <2>13. CASE UNCHANGED vars
    BY <2>13, SameView DEF vars, listener, response
  <2> QED
    BY <2>1, <2>2, <2>3, <2>4, <2>5, <2>6, <2>7, <2>8, <2>9, <2>10, <2>11, <2>12, <2>13
    DEF Next, ListenerStep, RespStep
<1>3. Init => ReplyInv
  BY ServerAssumption DEF Init, ReplyInv, Ids
<1>4. Spec => []Inv
  BY ServerInvariant, PTL DEF Inv
<1>5. Spec => []ReplyInv
  BY <1>3, <1>4, NextReply, PTL DEF Spec
<1> QED BY <1>1, <1>2, <1>4, <1>5, PTL DEF Spec, PortSpec, Port!Spec
=============================================================================

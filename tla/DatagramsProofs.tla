-------------------------- MODULE DatagramsProofs --------------------------
(***************************************************************************)
(* The replay filter and the datagrams of the UDP relay that pass through  *)
(* it, for every set of nonces, every hash function and every size of the  *)
(* filter: the pair of bloom filters remembers at least item_count         *)
(* accepted nonces, holds exactly the nonces it should, and implements     *)
(* ReplayWindow; the datagrams drive it as NonceFilter says.               *)
(***************************************************************************)
EXTENDS Datagrams, TLAPS

-----------------------------------------------------------------------------
(* The filter *)

\* Halving the configured entries leaves each filter room for at least one.
LEMMA ItemCount == item_count \in Nat /\ item_count >= 1 /\ 2 * item_count <= NumEntries
  BY FilterAssumption DEF item_count

\* The two indices of the ring: the step forward is the other filter.
LEMMA OtherIndex ==
  ASSUME current \in 0..1
  PROVE  /\ (current + 1) % 2 = Other
         /\ Other \in 0..1
         /\ Other # current
         /\ 1 - Other = current
         /\ 0..1 = {current, Other}
  <1>1. CASE current = 0
    BY <1>1 DEF Other
  <1>2. CASE current = 1
    BY <1>2 DEF Other
  <1> QED
    BY <1>1, <1>2

\* Membership in BitsOf, element by element.
LEMMA InBitsOf ==
  ASSUME NEW S, NEW b
  PROVE  b \in BitsOf(S) <=> \E n \in S : b \in Hash[n]
  BY DEF BitsOf

LEMMA InitInv == Init => TypeOK /\ RingInv
  <1> SUFFICES ASSUME Init PROVE TypeOK /\ RingInv
    OBVIOUS
  <1>1. TypeOK
    BY ItemCount DEF Init, TypeOK
  <1>2. Other = 1 /\ Remembered = 0 /\ InUse = {} /\ Before = {}
    BY DEF Init, Other, Remembered, InUse, Before, AmongLast
  <1>3. BitsOf({}) = {}
    BY InBitsOf
  <1> QED
    BY <1>1, <1>2, <1>3 DEF Init, RingInv

\* A nonce that passes both filters is none of the remembered ones.
LEMMA FreshIsForgotten ==
  ASSUME TypeOK, RingInv, NEW n \in Nonces, ~Duplicate(n)
  PROVE  n \notin InUse /\ n \notin Before /\ ~AmongLast(n, Remembered)
  <1>1. ~(Hash[n] \subseteq blooms[current]) /\ ~(Hash[n] \subseteq blooms[Other])
    BY OtherIndex DEF Duplicate, Check, TypeOK
  <1>2. n \notin InUse /\ n \notin Before
    BY <1>1, InBitsOf DEF RingInv
  <1> QED
    BY <1>2 DEF Before

\* Accepting a nonce while the filter in use has room.
LEMMA SetInUse ==
  ASSUME TypeOK, RingInv, NEW n \in Nonces, CheckAndSet(n),
         bloom_count[current] < item_count
  PROVE  TypeOK' /\ RingInv'
  <1> DEFINE c == current  o == Other
  <1>1. c \in 0..1 /\ o \in 0..1 /\ o # c
    BY OtherIndex DEF TypeOK
  <1>2. Target = c
    BY ItemCount, <1>1 DEF Target, TypeOK
  <1>3. /\ current' = c
        /\ blooms' = [blooms EXCEPT ![c] = @ \cup Hash[n]]
        /\ bloom_count' = [bloom_count EXCEPT ![c] = @ + 1]
        /\ accepted' = accepted + 1
        /\ at' = [at EXCEPT ![n] = accepted + 1]
    BY <1>2 DEF CheckAndSet, Set
  <1>4. /\ bloom_count[c] \in Nat /\ bloom_count[o] \in Nat
        /\ bloom_count'[c] = bloom_count[c] + 1
        /\ bloom_count'[o] = bloom_count[o]
        /\ blooms'[c] = blooms[c] \cup Hash[n]
        /\ blooms'[o] = blooms[o]
    BY <1>1, <1>3, ItemCount DEF TypeOK
  <1>5. TypeOK'
    <2>1. blooms' \in [0..1 -> SUBSET Bits]
      BY <1>1, <1>3, FilterAssumption, ZenonT(60) DEF TypeOK
    <2>2. bloom_count' \in [0..1 -> 0..item_count]
      BY <1>1, <1>3, ItemCount DEF TypeOK
    <2>3. at' \in [Nonces -> 0..accepted']
      BY <1>3 DEF TypeOK
    <2> QED
      BY <1>3, <2>1, <2>2, <2>3 DEF TypeOK
  <1>6. Remembered = bloom_count[c] + bloom_count[o] /\ Remembered' = Remembered + 1
    BY <1>1, <1>4 DEF Remembered, TypeOK
  <1>7. n \notin InUse /\ n \notin Before /\ ~AmongLast(n, Remembered)
    BY FreshIsForgotten DEF CheckAndSet
  <1>8. InUse' = InUse \cup {n}
    BY <1>3, <1>4, <1>7 DEF InUse, AmongLast, TypeOK
  <1>9. Before' = Before
    BY <1>3, <1>4, <1>6, <1>7, <1>8 DEF InUse, Before, AmongLast, TypeOK
  <1>10. blooms'[c] = BitsOf(InUse')
    <2>1. ASSUME NEW b PROVE b \in blooms'[c] <=> b \in BitsOf(InUse')
      BY <1>4, <1>8, InBitsOf DEF RingInv
    <2> QED
      BY <2>1, SMTT(60)
  <1>11. Other' = o
    BY <1>3 DEF Other
  <1> QED
    BY <1>3, <1>4, <1>5, <1>6, <1>9, <1>10, <1>11, ItemCount DEF RingInv, TypeOK

\* Accepting a nonce when the filter in use is full: the other filter is
\* cleared and becomes the one in use.
LEMMA SwitchFilter ==
  ASSUME TypeOK, RingInv, NEW n \in Nonces, CheckAndSet(n),
         bloom_count[current] = item_count
  PROVE  TypeOK' /\ RingInv'
  <1> DEFINE c == current  o == Other
  <1>1. c \in 0..1 /\ o \in 0..1 /\ o # c /\ 1 - o = c
    BY OtherIndex DEF TypeOK
  <1>2. Target = o
    BY OtherIndex, ItemCount DEF Target, TypeOK
  <1>3. /\ current' = o
        /\ blooms' = [blooms EXCEPT ![o] = Hash[n]]
        /\ bloom_count' = [bloom_count EXCEPT ![o] = 1]
        /\ accepted' = accepted + 1
        /\ at' = [at EXCEPT ![n] = accepted + 1]
    BY <1>1, <1>2 DEF CheckAndSet, Set, TypeOK
  <1>4. /\ bloom_count[c] \in Nat /\ bloom_count[o] \in Nat
        /\ bloom_count'[o] = 1
        /\ bloom_count'[c] = item_count
        /\ blooms'[o] = Hash[n]
        /\ blooms'[c] = blooms[c]
    BY <1>1, <1>3, ItemCount DEF TypeOK
  <1>5. TypeOK'
    <2>1. blooms' \in [0..1 -> SUBSET Bits]
      BY <1>1, <1>3, FilterAssumption, ZenonT(60) DEF TypeOK
    <2>2. bloom_count' \in [0..1 -> 0..item_count]
      BY <1>1, <1>3, ItemCount DEF TypeOK
    <2>3. at' \in [Nonces -> 0..accepted']
      BY <1>3 DEF TypeOK
    <2> QED
      BY <1>1, <1>3, <2>1, <2>2, <2>3 DEF TypeOK
  <1>6. Remembered = bloom_count[c] + bloom_count[o] /\ Remembered' = item_count + 1
    BY <1>1, <1>4, ItemCount DEF Remembered, TypeOK
  <1>7. n \notin InUse
    BY FreshIsForgotten DEF CheckAndSet
  <1>8. InUse' = {n}
    BY <1>3, <1>4 DEF InUse, AmongLast, TypeOK
  <1>9. Before' = InUse
    BY <1>3, <1>4, <1>6, <1>7, <1>8, ItemCount DEF InUse, Before, AmongLast, TypeOK
  <1>10. blooms'[o] = BitsOf(InUse')
    <2>1. ASSUME NEW b PROVE b \in blooms'[o] <=> b \in BitsOf(InUse')
      BY <1>4, <1>8, InBitsOf
    <2> QED
      BY <2>1, ZenonT(60)
  <1>11. Other' = c
    BY <1>1, <1>3 DEF Other
  <1>12. accepted >= item_count
    BY <1>4, <1>6, ItemCount DEF RingInv, TypeOK
  <1> QED
    BY <1>3, <1>4, <1>5, <1>6, <1>9, <1>10, <1>11, <1>12, ItemCount DEF RingInv, TypeOK

LEMMA NextInv == TypeOK /\ RingInv /\ [Next]_vars => TypeOK' /\ RingInv'
  <1> SUFFICES ASSUME TypeOK, RingInv, [Next]_vars PROVE TypeOK' /\ RingInv'
    OBVIOUS
  <1>1. CASE UNCHANGED vars
    BY <1>1 DEF vars, TypeOK, RingInv, Other, Remembered, InUse, Before, AmongLast
  <1>2. ASSUME NEW n \in Nonces, CheckAndSet(n) PROVE TypeOK' /\ RingInv'
    <2>1. bloom_count[current] < item_count \/ bloom_count[current] = item_count
      BY ItemCount DEF TypeOK
    <2> QED
      BY <1>2, <2>1, SetInUse, SwitchFilter
  <1> QED
    BY <1>1, <1>2 DEF Next, Accept, Refuse

\* The ring invariant holds in every state of every filter.
THEOREM RingInvariant == Spec => [](TypeOK /\ RingInv)
  BY InitInv, NextInv, PTL DEF Spec

\* check_and_set answers "duplicate" for each of the item_count nonces accepted
\* last, whatever the hash function and the size of the filter.
THEOREM RecentlyAcceptedRefused == Spec => []RecentRefused
  <1>1. TypeOK /\ RingInv => RecentRefused
    <2> SUFFICES ASSUME TypeOK, RingInv, NEW n \in Nonces, AmongLast(n, item_count)
                 PROVE  Duplicate(n)
      BY DEF RecentRefused
    <2>1. current \in 0..1 /\ Other \in 0..1 /\ Other # current
      BY OtherIndex DEF TypeOK
    <2>2. Remembered >= item_count \/ accepted = Remembered
      BY <2>1, ItemCount DEF RingInv, Remembered, TypeOK
    <2>3. AmongLast(n, Remembered)
      BY <2>1, <2>2, ItemCount DEF AmongLast, TypeOK, Remembered
    <2>4. n \in InUse \/ n \in Before
      BY <2>3 DEF Before
    <2>5. Hash[n] \subseteq blooms[current] \/ Hash[n] \subseteq blooms[Other]
      BY <2>4, InBitsOf DEF RingInv
    <2> QED
      BY <2>1, <2>5 DEF Duplicate, Check
  <1> QED
    BY <1>1, RingInvariant, PTL

\* The bits set are exactly those of the nonces the counters say are remembered:
\* `clear` leaves nothing behind when a filter is put back into use.
THEOREM ContentsAreExact == Spec => []ExactContents
  <1>1. TypeOK /\ RingInv => ExactContents
    <2> SUFFICES ASSUME TypeOK, RingInv PROVE ExactContents
      OBVIOUS
    <2>1. current \in 0..1 /\ Other \in 0..1 /\ 0..1 = {current, Other}
      BY OtherIndex DEF TypeOK
    <2>2. blooms[0] \cup blooms[1] = blooms[current] \cup blooms[Other]
      BY <2>1 DEF Other
    <2>3. {n \in Nonces : AmongLast(n, Remembered)} = InUse \cup Before
      <3>1. InUse \subseteq {n \in Nonces : AmongLast(n, Remembered)}
        BY <2>1, ItemCount DEF InUse, AmongLast, Remembered, TypeOK
      <3> QED
        BY <3>1 DEF Before
    <2>4. ASSUME NEW b
          PROVE  b \in BitsOf(InUse \cup Before) <=> b \in BitsOf(InUse) \cup BitsOf(Before)
      BY InBitsOf
    <2> QED
      BY <2>2, <2>3, <2>4 DEF ExactContents, RingInv
  <1> QED
    BY <1>1, RingInvariant, PTL

\* The pair never remembers more nonces than it was dimensioned for, and never
\* fewer than item_count once that many were accepted.
THEOREM MemoryIsBounded == Spec => []MemoryBounds
  <1>1. TypeOK /\ RingInv => MemoryBounds
    <2> SUFFICES ASSUME TypeOK, RingInv PROVE MemoryBounds
      OBVIOUS
    <2>1. current \in 0..1 /\ Other \in 0..1 /\ Other # current
      BY OtherIndex DEF TypeOK
    <2>2. Remembered = bloom_count[current] + bloom_count[Other]
      BY <2>1 DEF Remembered, TypeOK
    <2> QED
      BY <2>1, <2>2, ItemCount, FilterAssumption DEF MemoryBounds, RingInv, TypeOK
  <1> QED
    BY <1>1, RingInvariant, PTL

\* The pair of bloom filters implements the sliding window of ReplayWindow: it
\* accepts no nonce that is among the item_count accepted last.
THEOREM ImplementsWindow == Spec => WindowSpec
  <1>1. Init => Window!Init
    BY DEF Init, Window!Init
  <1>2. RecentRefused /\ [Next]_vars => [Window!Next]_(Window!vars)
    <2> SUFFICES ASSUME RecentRefused, [Next]_vars PROVE [Window!Next]_(Window!vars)
      OBVIOUS
    <2>1. CASE UNCHANGED vars
      BY <2>1 DEF vars, Window!vars
    <2>2. ASSUME NEW n \in Nonces, CheckAndSet(n) PROVE Window!Next
      <3>1. ~AmongLast(n, item_count)
        BY <2>2 DEF RecentRefused, CheckAndSet
      <3> QED
        BY <2>2, <3>1, ZenonT(60) DEF CheckAndSet, AmongLast, Window!Next, Window!Accept, Window!Recent
    <2> QED
      BY <2>1, <2>2 DEF Next, Accept, Refuse
  <1> QED
    BY <1>1, <1>2, RecentlyAcceptedRefused, PTL DEF Spec, WindowSpec, Window!Spec

-----------------------------------------------------------------------------
(* The datagrams *)

\* Whatever is sent or arrives, the filter takes one of its own steps or none.
LEMMA FilterStep == [DNext]_dvars => [Next]_vars
  <1> SUFFICES ASSUME [DNext]_dvars PROVE [Next]_vars
    OBVIOUS
  <1>1. Drawn \subseteq Nonces \cup {NoNonce}
    BY DEF Drawn
  <1>2. CASE SendTo
    <2>1. PICK n \in Drawn : Accept(n)
      BY <1>2 DEF SendTo, encrypt_payload
    <2> QED
      BY <1>1, <2>1 DEF Next
  <1>3. CASE RecvFrom
    <2>1. PICK n \in Drawn : Accept(n) \/ Refuse(n) \/ UNCHANGED vars
      BY <1>3 DEF RecvFrom, decrypt_payload
    <2> QED
      BY <1>1, <2>1 DEF Next
  <1>4. CASE UNCHANGED dvars
    BY <1>4 DEF dvars
  <1> QED
    BY <1>2, <1>3, <1>4 DEF DNext

\* The datagrams drive the filter only as NonceFilter says, so everything proved
\* of the filter holds while the relay runs (check_nonce_and_set).
THEOREM DatagramsUseFilter == DSpec => Spec
  <1>1. DInit => Init
    BY DEF DInit
  <1> QED
    BY <1>1, FilterStep, PTL DEF DSpec, Spec

\* A nonce that a step sends or delivers was accepted in that step.
LEMMA UsedIsAccepted ==
  ASSUME DNext, NEW n \in Nonces, n \in {sent', delivered'}
  PROVE  ~Duplicate(n)
  <1>1. n # NoNonce
    BY FilterAssumption
  <1>2. CASE SendTo
    BY <1>1, <1>2 DEF SendTo, encrypt_payload, Accept, CheckAndSet
  <1>3. CASE RecvFrom
    <2>1. PICK m \in Drawn, form \in {"intact", "damaged", "short"}, opens \in BOOLEAN :
            /\ decrypt_payload(m, form, opens)
            /\ delivered' \in (IF opens THEN {m, NoNonce} ELSE {NoNonce})
      BY <1>3 DEF RecvFrom
    <2>2. sent' = NoNonce
      BY <1>3 DEF RecvFrom
    <2>3. m = n /\ Accept(n)
      BY <1>1, <2>1, <2>2 DEF decrypt_payload
    <2> QED
      BY <1>1, <2>3 DEF Accept, CheckAndSet
  <1> QED
    BY <1>2, <1>3 DEF DNext

\* No datagram is sent or delivered under one of the item_count nonces accepted
\* last, in either direction (encrypt_payload_* and decrypt_payload_*).
THEOREM NoncesAreFresh == DSpec => FreshNonceUsed
  <1> DEFINE Fresh == \A n \in Nonces : n \in {sent', delivered'} => ~AmongLast(n, item_count)
  <1>1. RecentRefused /\ [DNext]_dvars => [Fresh]_dvars
    BY UsedIsAccepted DEF RecentRefused
  <1> QED
    BY <1>1, DatagramsUseFilter, RecentlyAcceptedRefused, PTL DEF DSpec, FreshNonceUsed

\* A datagram that passes keeps the count of what passed since each nonce up
\* with the count of the nonces accepted since.
LEMMA PassedInv ==
  ASSUME TypeOK, LaterInv, NEW n \in Nonces \cup {NoNonce}, Accept(n), later' = Passed(n)
  PROVE  LaterInv'
  <1>1. later' \in [Nonces -> 0..item_count]
    BY ItemCount DEF LaterInv, Passed
  <1>2. CASE n = NoNonce
    <2>1. UNCHANGED vars /\ n \notin Nonces
      BY <1>2, FilterAssumption DEF Accept
    <2>2. \A m \in Nonces : later'[m] = later[m]
      BY <1>2, <2>1 DEF Passed
    <2> QED
      BY <1>1, <2>1, <2>2 DEF LaterInv, vars
  <1>3. CASE n \in Nonces
    <2>1. /\ accepted' = accepted + 1 /\ at' = [at EXCEPT ![n] = accepted + 1]
          /\ n # NoNonce
      BY <1>3, FilterAssumption DEF Accept, CheckAndSet
    <2> SUFFICES ASSUME NEW m \in Nonces, later'[m] < item_count
                 PROVE  at'[m] # 0 /\ accepted' <= at'[m] + later'[m]
      BY <1>1 DEF LaterInv
    <2>2. CASE m = n
      BY <1>3, <2>1, <2>2, ItemCount DEF TypeOK, Passed
    <2>3. CASE m # n
      <3>1. at'[m] = at[m] /\ later[m] < item_count /\ later'[m] = later[m] + 1
        BY <2>1, <2>3, ItemCount DEF TypeOK, LaterInv, Passed
      <3> QED
        BY <2>1, <3>1, ItemCount DEF TypeOK, LaterInv
    <2> QED
      BY <2>2, <2>3
  <1> QED
    BY <1>2, <1>3

\* Every step keeps them so: a short datagram and a repeated one change neither.
LEMMA NextLater == TypeOK /\ LaterInv /\ [DNext]_dvars => LaterInv'
  <1> SUFFICES ASSUME TypeOK, LaterInv, [DNext]_dvars PROVE LaterInv'
    OBVIOUS
  <1>1. Drawn \subseteq Nonces \cup {NoNonce}
    BY DEF Drawn
  <1>2. CASE SendTo
    BY <1>1, <1>2, PassedInv DEF SendTo, encrypt_payload
  <1>3. CASE RecvFrom
    <2>1. PICK n \in Drawn, form \in {"intact", "damaged", "short"}, opens \in BOOLEAN :
            /\ decrypt_payload(n, form, opens)
            /\ later' = IF form # "short" /\ n \in Nonces /\ ~Duplicate(n) THEN Passed(n) ELSE later
      BY <1>3 DEF RecvFrom
    <2>2. CASE form # "short" /\ n \in Nonces /\ ~Duplicate(n)
      BY <1>1, <2>1, <2>2, PassedInv DEF decrypt_payload, Refuse
    <2>3. CASE ~(form # "short" /\ n \in Nonces /\ ~Duplicate(n))
      <3>1. UNCHANGED <<vars, later>>
        BY <2>1, <2>3 DEF decrypt_payload, Accept, Refuse, CheckAndSet
      <3> QED
        BY <3>1 DEF LaterInv, vars
    <2> QED
      BY <2>2, <2>3
  <1>4. CASE UNCHANGED dvars
    BY <1>4 DEF dvars, io, vars, LaterInv
  <1> QED
    BY <1>2, <1>3, <1>4 DEF DNext

\* A nonce is answered as a duplicate until item_count further datagrams passed
\* the filter, sent from here or received whole: short and repeated ones push
\* nothing out (decrypt_payload_stream and _aead test the length first).
THEOREM FilterCountsDatagrams == DSpec => []OnlyDatagramsCounted
  <1>1. DInit => LaterInv
    BY ItemCount DEF DInit, LaterInv
  <1>2. TypeOK /\ LaterInv /\ RecentRefused => OnlyDatagramsCounted
    <2> SUFFICES ASSUME TypeOK, LaterInv, RecentRefused, NEW n \in Nonces, later[n] < item_count
                 PROVE  Duplicate(n)
      BY DEF OnlyDatagramsCounted
    <2>1. AmongLast(n, item_count)
      BY ItemCount DEF TypeOK, LaterInv, AmongLast
    <2> QED
      BY <2>1 DEF RecentRefused
  <1> QED
    BY <1>1, <1>2, NextLater, DatagramsUseFilter, RingInvariant, RecentlyAcceptedRefused, PTL DEF DSpec
=============================================================================

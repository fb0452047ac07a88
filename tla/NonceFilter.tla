---------------------------- MODULE NonceFilter ----------------------------
(***************************************************************************)
(* The replay filter of a Context: two bloom filters used as a ring        *)
(* (PingPongBloom) behind one lock, consulted with every nonce the process *)
(* generates for a stream or datagram it sends and with every nonce it     *)
(* receives.                                                               *)
(*                                                                         *)
(* A bloom filter is the set of its bits; Hash[n] are the bits a nonce     *)
(* maps to, so false positives happen exactly when the bits of other       *)
(* nonces cover those of n.                                                *)
(***************************************************************************)
EXTENDS Naturals

CONSTANTS
    Nonces,         \* the non-empty nonces that occur
    NoNonce,        \* the empty nonce of the plain cipher
    Bits,           \* positions of a bloom filter's bit array
    Hash,           \* Hash[n]: the bits a nonce sets
    NumEntries,     \* BF_NUM_ENTRIES_FOR_SERVER / BF_NUM_ENTRIES_FOR_CLIENT
    MaxAccepted     \* bound: how many nonces are accepted in a behaviour

ASSUME FilterAssumption ==
    /\ NoNonce \notin Nonces
    /\ Hash \in [Nonces -> SUBSET Bits]
    /\ NumEntries \in Nat /\ NumEntries >= 2
    /\ MaxAccepted \in Nat

VARIABLES
    blooms,         \* blooms[i]: the bits set in filter i
    bloom_count,    \* bloom_count[i]: how many nonces were set into filter i
    current,        \* the filter new nonces go to
    accepted,       \* history: how many nonces were accepted
    at              \* history: when a nonce was last accepted, 0 = never

filter == <<blooms, bloom_count, current>>
vars == <<blooms, bloom_count, current, accepted, at>>

\* Each of the two filters holds half of the configured entries.
item_count == NumEntries \div 2

Init ==
    /\ blooms = [i \in 0..1 |-> {}]
    /\ bloom_count = [i \in 0..1 |-> 0]
    /\ current = 0
    /\ accepted = 0
    /\ at = [n \in Nonces |-> 0]

\* Bloom::check, which the bloomfilter crate provides.
Check(bloom, n) == Hash[n] \subseteq bloom

\* Mutant: only the filter in use is asked.
DuplicateInCurrent(n) == Check(blooms[current], n)

\* The two filters are asked before anything is set.
Duplicate(n) == \E i \in 0..1 : Check(blooms[i], n)

\* The filter a new nonce goes to: the other one once the current one is full.
Target == IF bloom_count[current] >= item_count THEN (current + 1) % 2 ELSE current

\* Mutant: the filter put back into use is not cleared.
SetUncleared(t, n) ==
    /\ blooms' = [blooms EXCEPT ![t] = @ \cup Hash[n]]
    /\ bloom_count' = [bloom_count EXCEPT ![t] = (IF t # current THEN 0 ELSE @) + 1]
    /\ current' = t

\* Setting n into filter t; t was cleared first if it was not the current one.
Set(t, n) ==
    LET fresh == t # current
    IN  /\ blooms' = [blooms EXCEPT ![t] = (IF fresh THEN {} ELSE @) \cup Hash[n]]
        /\ bloom_count' = [bloom_count EXCEPT ![t] = (IF fresh THEN 0 ELSE @) + 1]
        /\ current' = t

CheckAndSet(n) ==
    /\ ~Duplicate(n)
    /\ Set(Target, n)
    /\ accepted' = accepted + 1
    /\ at' = [at EXCEPT ![n] = accepted + 1]

\* check_nonce_and_set returns FALSE: the caller goes on with this nonce.
\* The empty nonce of the plain cipher is never recorded.
Accept(n) ==
    \/ n = NoNonce /\ UNCHANGED vars
    \/ n \in Nonces /\ accepted < MaxAccepted /\ CheckAndSet(n)

\* check_nonce_and_set returns TRUE: a generated nonce is thrown away and
\* another one drawn, a received one ends its connection or its packet.
Refuse(n) ==
    /\ n \in Nonces
    /\ Duplicate(n)
    /\ UNCHANGED vars

Next == \E n \in Nonces \cup {NoNonce} : Accept(n) \/ Refuse(n)

Spec == Init /\ [][Next]_vars
-----------------------------------------------------------------------------
(* Properties *)

\* Type invariant.
TypeOK ==
    /\ blooms \in [0..1 -> SUBSET Bits]
    /\ bloom_count \in [0..1 -> 0..item_count]
    /\ current \in 0..1
    /\ accepted \in Nat
    /\ at \in [Nonces -> 0..accepted]

\* The entries of both filters together.
Remembered == bloom_count[0] + bloom_count[1]

\* n was accepted among the last k nonces.
AmongLast(n, k) == at[n] # 0 /\ accepted < at[n] + k

\* The bits a set of nonces has in a filter.
BitsOf(S) == UNION {Hash[n] : n \in S}

\* A replay is refused for as long as the filter is sized for: a nonce that was
\* accepted is answered as a duplicate at least until item_count further nonces
\* were accepted, through every switch from one bloom filter to the other
\* (PingPongBloom::check_and_set).
RecentRefused ==
    \A n \in Nonces : AmongLast(n, item_count) => Duplicate(n)

\* The filter forgets: the bits that are set are exactly those of the nonces
\* accepted last, as many as bloom_count says, so that a filter put back into
\* use carries nothing over from its previous turn and the false positive rate
\* it was dimensioned for is kept (`clear` in check_and_set).
ExactContents ==
    blooms[0] \cup blooms[1] = BitsOf({n \in Nonces : AmongLast(n, Remembered)})

\* After the first item_count nonces the filter never remembers fewer than
\* item_count of them, and never more than it was dimensioned for: the switch
\* of filters never empties the memory (PingPongBloom::check_and_set).
MemoryBounds ==
    /\ Remembered <= NumEntries
    /\ Remembered >= item_count \/ Remembered = accepted

\* The filter that is not in use.
Other == 1 - current

\* What each filter should hold: the filter in use the bloom_count[current]
\* nonces accepted last, the other one those before them.
InUse == {n \in Nonces : AmongLast(n, bloom_count[current])}
Before == {n \in Nonces : AmongLast(n, Remembered)} \ InUse

\* The ring of two filters, as an inductive invariant: the filter in use holds
\* exactly the nonces of its turn, and the other one is full and holds exactly
\* the nonces of the turn before, or was never used
\* (PingPongBloom::check_and_set).
RingInv ==
    /\ \/ bloom_count[Other] = item_count /\ accepted >= Remembered
       \/ bloom_count[Other] = 0 /\ accepted = Remembered
    /\ blooms[current] = BitsOf(InUse)
    /\ blooms[Other] = BitsOf(Before)

\* The bloom filter pair implements a sliding window of item_count nonces.
Window == INSTANCE ReplayWindow WITH Window <- item_count
WindowSpec == Window!Spec
=============================================================================

------------------------------ MODULE Context ------------------------------
(***************************************************************************)
(* Asking the ACL about a target (Context::check_target_bypassed), as the  *)
(* connections and the DNS relay of a local server do concurrently.        *)
(*                                                                         *)
(* For an IP address the name it was last resolved from is looked up in    *)
(* the reverse lookup cache first.  The cache's lock is a spin lock, and   *)
(* its guard lives across the question about that name, which may wait for *)
(* a DNS answer: meanwhile a task that wants the lock keeps a worker       *)
(* thread of the runtime busy.                                             *)
(***************************************************************************)
EXTENDS Acl, FiniteSets

CONSTANTS
    Ips,            \* the IP addresses that occur in DNS answers
    Resolutions,    \* what a name may resolve to: sequences of IP addresses
    CacheCapacity   \* entries of the reverse lookup cache (8192)

NoName == <<>>

ASSUME ContextAssumption ==
    /\ NoName \notin Ips
    /\ \A ips \in Resolutions : ips \in Seq(Ips)
    /\ CacheCapacity \in Nat \ {0}

VARIABLES
    config,                 \* the configuration; acl, {} or {rules}, is part of it
    reverse_lookup_cache,   \* the name an IP address was resolved from, or NoName
    holder,                 \* the task that holds the cache's lock, or "nobody"
    ask,                    \* each task's question: where it is, and the answer
    recorded                \* history: the addresses entered into the cache, with their names

acl == config.acl

context == <<reverse_lookup_cache, holder, ask, recorded>>

Tasks == {"conn", "dns"}
NoQuestion == [pc |-> "none", addr |-> NoName, name |-> NoName, answer |-> FALSE, seen |-> {}]

ContextInit ==
    /\ reverse_lookup_cache = [ip \in Ips |-> NoName]
    /\ holder = "nobody"
    /\ ask = [t \in Tasks |-> NoQuestion]
    /\ recorded = {}

\* A task that finds the lock taken spins, and a task that was woken goes on
\* only on a worker thread that does not.  The single-threaded build has one.
Spinning(t) == ask[t].pc \in {"lock", "insert"} /\ holder # "nobody"
FreeWorker == Cardinality({t \in Tasks : Spinning(t)}) < config.workers

\* What a cache has for an address.
Lookup(cache, ip) == IF ip \in Ips THEN cache[ip] ELSE NoName
Cached(ip) == Lookup(reverse_lookup_cache, ip)

\* The question a task asks: without an ACL everything is proxied.  seen: the
\* names that the cache had for the address until the task looked, a history.
Question(addr) ==
    [pc |-> IF acl = {} THEN "done" ELSE IF addr.type = "name" THEN "rules" ELSE "lock",
     addr |-> addr, name |-> NoName, answer |-> FALSE,
     seen |-> IF addr.type = "name" THEN {} ELSE {Cached(addr.ip)}]

\* Recording that an IP address was resolved from a name.
Insertion(ip, name) == [NoQuestion EXCEPT !.pc = "insert", !.addr = ip, !.name = name]

Answered(t) == ask[t].pc = "done"

Answer(t, b) == [ask EXCEPT ![t].pc = "done", ![t].answer = b]
GoOn(t) == [ask EXCEPT ![t].pc = "rules"]

\* Mutant of AskCache: the guard is kept while the address itself is judged.
AskCacheKeeps(t) ==
    \E a \in acl :
        LET q == [type |-> "name", name |-> Cached(ask[t].addr.ip)]
        IN  /\ ask[t].pc = "lock" /\ holder = "nobody"
            /\ IF q.name = NoName
               THEN ask' = GoOn(t) /\ UNCHANGED holder
               ELSE IF ~Decided(a, q)
               THEN ask' = [ask EXCEPT ![t].pc = "reverse", ![t].name = q.name] /\ holder' = t
               ELSE /\ ask' = IF target_bypassed(a, q, <<>>) THEN Answer(t, TRUE) ELSE GoOn(t)
                    /\ holder' = t
            /\ UNCHANGED <<config, reverse_lookup_cache, recorded>>

\* With the lock: is the name the address was resolved from bypassed?  If that
\* takes a DNS query, the task is parked with the lock in hand.
AskCache(t) ==
    \E a \in acl :
        LET q == [type |-> "name", name |-> Cached(ask[t].addr.ip)]
        IN  /\ ask[t].pc = "lock" /\ holder = "nobody"
            /\ IF q.name = NoName
               THEN ask' = GoOn(t) /\ UNCHANGED holder
               ELSE IF ~Decided(a, q)
               THEN ask' = [ask EXCEPT ![t].pc = "reverse", ![t].name = q.name] /\ holder' = t
               ELSE /\ ask' = IF target_bypassed(a, q, <<>>) THEN Answer(t, TRUE) ELSE GoOn(t)
                    /\ UNCHANGED holder
            /\ UNCHANGED <<config, reverse_lookup_cache, recorded>>

\* The DNS answer about that name, or a failure.
AskReverse(t) ==
    \E a \in acl, ips \in Resolutions \cup {<<>>} :
        /\ ask[t].pc = "reverse" /\ FreeWorker
        /\ ask' = IF target_bypassed(a, [type |-> "name", name |-> ask[t].name], ips)
                  THEN Answer(t, TRUE) ELSE GoOn(t)
        /\ holder' = "nobody"
        /\ UNCHANGED <<config, reverse_lookup_cache, recorded>>

\* AccessControl::check_target_bypassed of the target itself.
AskRules(t) ==
    \E a \in acl, ips \in Resolutions \cup {<<>>} :
        /\ ask[t].pc = "rules" /\ FreeWorker
        /\ Decided(a, ask[t].addr) => ips = <<>>
        /\ ask' = Answer(t, target_bypassed(a, ask[t].addr, ips))
        /\ UNCHANGED <<config, reverse_lookup_cache, holder, recorded>>

\* A full cache gives up an entry for a new one, the one used least recently;
\* here any of them.
Evicted(ip) ==
    LET entries == {i \in Ips : reverse_lookup_cache[i] # NoName}
    IN  IF ip \in entries \/ Cardinality(entries) < CacheCapacity THEN {ip} ELSE entries

add_to_reverse_lookup_cache(t) ==
    /\ ask[t].pc = "insert" /\ holder = "nobody"
    /\ \E victim \in Evicted(ask[t].addr) :
        LET cache == [reverse_lookup_cache EXCEPT ![victim] = NoName, ![ask[t].addr] = ask[t].name]
        IN  /\ reverse_lookup_cache' = cache
            /\ ask' = [u \in Tasks |->
                   IF u = t THEN [ask[u] EXCEPT !.pc = "done", !.answer = TRUE]
                   ELSE IF ask[u].pc = "lock" THEN [ask[u] EXCEPT !.seen = @ \cup {Lookup(cache, ask[u].addr.ip)}]
                   ELSE ask[u]]
    /\ recorded' = recorded \cup {<<ask[t].addr, ask[t].name>>}
    /\ UNCHANGED <<config, holder>>

AskStep(t) == add_to_reverse_lookup_cache(t) \/ AskCache(t) \/ AskReverse(t) \/ AskRules(t)
=============================================================================

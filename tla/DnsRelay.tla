------------------------------ MODULE DnsRelay ------------------------------
(***************************************************************************)
(* The DNS relay of the local server (relay/dnsrelay/mod.rs): one task     *)
(* that answers one query after the other.  It asks the local and the      *)
(* remote name server, has the ACL choose between their answers, records   *)
(* the addresses of the chosen one in the reverse lookup cache and only    *)
(* then replies, so that a connection to one of them is judged by its name.*)
(*                                                                         *)
(* A response has answers, a sequence of records, and additionals.  An     *)
(* A or AAAA record is its IP address, any other record is NoIp.           *)
(***************************************************************************)
EXTENDS LocalRun

CONSTANT Responses      \* what a name server may respond

NoIp == <<>>

ASSUME ResponsesAssumption == \A m \in Responses : m.answers \in Seq(Ips \cup {NoIp})

\* Message::new(), which stands for a failed or timed out lookup.
NoMessage == [answers |-> <<>>, additionals |-> {}]

VARIABLES
    dns,        \* the task: where it is, and its local variables
    asked,      \* queries received
    replied     \* the replies sent: how many, the addresses answered, each with the
                \* name asked for, and those that were added

relay == <<dns, asked, replied>>

Idle == [pc |-> "recv", name |-> NoName, local_response |-> NoMessage, remote_response |-> NoMessage,
         qname_bypassed |-> FALSE, ip_bypassed |-> FALSE, i |-> 0, result |-> NoMessage]

DnsInit ==
    /\ dns = Idle
    /\ asked = 0 /\ replied = [count |-> 0, answered |-> {}, added |-> {}]

Running == phase["local"] = "running" /\ FreeWorker

\* Name::to_string writes the root label of a name read from a message: the
\* name ends with a dot (byte 46).
to_string(name) == Append(name, 46)

DomainName(name) == [type |-> "name", name |-> name]
SocketAddr(ip) == [type |-> IF Len(ip) = 4 THEN "v4" ELSE "v6", ip |-> ip]

\* The addresses of a message, with the name they were asked for under.
AnswersFor(m, name) == {<<ip, name>> : ip \in Range(m.answers) \ {NoIp}}

\* A reply has the answers and the additionals of the message chosen.
Replied(m, name) ==
    replied' = [count |-> replied.count + 1,
                answered |-> replied.answered \cup AnswersFor(m, name),
                added |-> replied.added \cup m.additionals]

\* A datagram that is no DNS message is dropped; a message without a query is
\* answered with FormErr.
DnsRecv ==
    /\ Running /\ dns.pc = "recv" /\ asked < Len(config.queries)
    /\ asked' = asked + 1
    /\ LET q == config.queries[asked + 1]
       IN  /\ dns' = IF q.is = "query"
                     THEN [Idle EXCEPT !.pc = "local", !.name = to_string(q.name)] ELSE Idle
           /\ IF q.is = "empty" THEN Replied(NoMessage, NoName) ELSE UNCHANGED replied
    /\ UNCHANGED <<context, launch, config>>

\* udp_lookup with its timeout
udp_lookup ==
    \E m \in Responses \cup {NoMessage} :
        /\ Running /\ dns.pc = "local"
        /\ dns' = [dns EXCEPT !.pc = "remote", !.local_response = m]
        /\ UNCHANGED <<context, launch, config, asked, replied>>

\* socks5_lookup with its timeout, then the question about the name.
socks5_lookup ==
    \E m \in Responses \cup {NoMessage} :
        /\ Running /\ dns.pc = "remote"
        /\ dns' = [dns EXCEPT !.pc = "name", !.remote_response = m]
        /\ ask' = [ask EXCEPT !["dns"] = Question(DomainName(dns.name))]
        /\ UNCHANGED <<reverse_lookup_cache, holder, recorded, launch, config, asked, replied>>

\* A response longer than the buffer is sliced out of range: the panic ends
\* the program.
socks5_lookup_panics ==
    /\ Running /\ dns.pc = "remote" /\ config.long_responses
    /\ RelayEnds("local")
    /\ dns' = Idle
    /\ UNCHANGED <<context, asked, replied>>

\* Which of the two responses is the answer.  Records of any type count.
Pick(d) ==
    IF Len(d.local_response.answers) = 0 THEN d.remote_response
    ELSE IF Len(d.remote_response.answers) = 0 THEN d.local_response
    ELSE IF d.qname_bypassed \/ d.ip_bypassed THEN d.local_response
    ELSE d.remote_response

\* Whether a record of the local response is bypassed; one without an address is not.
RecordQuestion(rec) ==
    IF rec = NoIp THEN [NoQuestion EXCEPT !.pc = "done"] ELSE Question(SocketAddr(rec))

\* The answer to the last question, then the question about the next record of
\* the local response, or the choice.
acl_lookup ==
    /\ Running /\ dns.pc \in {"name", "ip"} /\ Answered("dns")
    /\ LET d == IF dns.pc = "name" THEN [dns EXCEPT !.qname_bypassed = ask["dns"].answer, !.pc = "ip", !.i = 1]
                ELSE [dns EXCEPT !.ip_bypassed = @ \/ ask["dns"].answer, !.i = @ + 1]
       IN  IF d.i <= Len(d.local_response.answers)
           THEN /\ dns' = d
                /\ ask' = [ask EXCEPT !["dns"] = RecordQuestion(d.local_response.answers[d.i])]
           ELSE /\ dns' = [Idle EXCEPT !.pc = "record", !.name = d.name, !.result = Pick(d)]
                /\ ask' = [ask EXCEPT !["dns"] = NoQuestion]
    /\ UNCHANGED <<reverse_lookup_cache, holder, recorded, launch, config, asked, replied>>

\* What is done about a record of the answer: its address, if it has one, is
\* entered into the cache.
RecordEntry(rec, name) == IF rec = NoIp THEN NoQuestion ELSE Insertion(rec, name)

\* Mutant of DnsRecord: the reply is sent first.
DnsRecordLate ==
    /\ Running /\ dns.pc = "record" /\ ask["dns"].pc \in {"none", "done"}
    /\ IF dns.i < Len(dns.result.answers)
       THEN /\ dns' = [dns EXCEPT !.i = @ + 1]
            /\ ask' = [ask EXCEPT !["dns"] = RecordEntry(dns.result.answers[dns.i + 1], dns.name)]
            /\ IF dns.i = 0 THEN Replied(dns.result, dns.name) ELSE UNCHANGED replied
       ELSE /\ dns' = Idle
            /\ ask' = [ask EXCEPT !["dns"] = NoQuestion]
            /\ IF dns.i = 0 THEN Replied(dns.result, dns.name) ELSE UNCHANGED replied
    /\ UNCHANGED <<reverse_lookup_cache, holder, recorded, launch, config, asked>>

\* The answers are gone through one by one, then the reply is sent, with the
\* additionals as they are; that sending fails is not noticed.
DnsRecord ==
    /\ Running /\ dns.pc = "record" /\ ask["dns"].pc \in {"none", "done"}
    /\ IF dns.i < Len(dns.result.answers)
       THEN /\ dns' = [dns EXCEPT !.i = @ + 1]
            /\ ask' = [ask EXCEPT !["dns"] = RecordEntry(dns.result.answers[dns.i + 1], dns.name)]
            /\ UNCHANGED replied
       ELSE /\ dns' = Idle
            /\ ask' = [ask EXCEPT !["dns"] = NoQuestion]
            /\ Replied(dns.result, dns.name)
    /\ UNCHANGED <<reverse_lookup_cache, holder, recorded, launch, config, asked>>

DnsStep == DnsRecv \/ udp_lookup \/ socks5_lookup \/ acl_lookup \/ DnsRecord
=============================================================================

-------------------------------- MODULE Acl --------------------------------
(***************************************************************************)
(* Access control lists (acl/mod.rs).  An address is a record whose type   *)
(* is "v4", "v6" or "name" (module Socks5).  A rule is the set of the IP   *)
(* addresses a network contains, or of the hosts a pattern matches.        *)
(***************************************************************************)
EXTENDS Seqs

\* What a line that is no rule does: it sets the mode, or the lists of the rules
\* that follow it.
ModeOf == [reject_all |-> "WhiteList", bypass_all |-> "WhiteList",
           accept_all |-> "BlackList", proxy_all |-> "BlackList"]

ListOf == [outbound_block_list |-> "outbound_block",
           black_list |-> "black_list", bypass_list |-> "black_list",
           white_list |-> "white_list", proxy_list |-> "white_list"]

NoRules == [ip |-> {}, host |-> {}]

\* Before the first section networks go to the bypass list and patterns to the
\* proxy list.
EmptyFile ==
    [mode |-> "BlackList", curr_ip |-> "black_list", curr_rules |-> "white_list",
     list |-> [outbound_block |-> NoRules, black_list |-> NoRules, white_list |-> NoRules]]

LoadLine(f, line) ==
    CASE line.is = "mode"    -> [f EXCEPT !.mode = ModeOf[line.name]]
      [] line.is = "section" -> [f EXCEPT !.curr_ip = ListOf[line.name], !.curr_rules = ListOf[line.name]]
      [] line.is = "net"     -> [f EXCEPT !.list[f.curr_ip].ip = @ \cup line.ips]
      [] line.is = "pattern" -> [f EXCEPT !.list[f.curr_rules].host = @ \cup line.hosts]
      [] line.is = "comment" -> f

\* A file with a pattern that does not compile is refused as a whole.
load_from_file(lines) == FoldLeft(LoadLine, EmptyFile, lines)
-----------------------------------------------------------------------------
check_address_matched(rules, addr) ==
    IF addr.type = "name" THEN addr.name \in rules.host ELSE addr.ip \in rules.ip

black_list(acl) == acl.list.black_list
white_list(acl) == acl.list.white_list
outbound_block(acl) == acl.list.outbound_block

\* The rules decide without resolving the name.
Decided(acl, addr) ==
    \/ addr.type # "name"
    \/ check_address_matched(black_list(acl), addr)
    \/ check_address_matched(white_list(acl), addr)

\* The first of the resolved addresses that is in one of the lists, 0 if none.
FirstMatch(acl, ips) ==
    LET hits == {i \in DOMAIN ips : ips[i] \in black_list(acl).ip \cup white_list(acl).ip}
    IN  IF hits = {} THEN 0 ELSE CHOOSE i \in hits : \A j \in hits : i <= j

\* Mutant of target_bypassed: the default rule is taken from the other mode.
target_bypassed_default(acl, addr, ips) ==
    LET hit == FirstMatch(acl, ips)
    IN  \/ check_address_matched(black_list(acl), addr)
        \/ /\ ~check_address_matched(white_list(acl), addr)
           /\ IF hit # 0 THEN ips[hit] \in black_list(acl).ip ELSE acl.mode = "BlackList"

\* ips: what the name of addr resolves to, <<>> if it is none or not resolved.
target_bypassed(acl, addr, ips) ==
    LET hit == FirstMatch(acl, ips)
    IN  \/ check_address_matched(black_list(acl), addr)
        \/ /\ ~check_address_matched(white_list(acl), addr)
           /\ IF hit # 0 THEN ips[hit] \in black_list(acl).ip ELSE acl.mode = "WhiteList"

check_client_blocked(acl, addr) ==
    IF acl.mode = "BlackList"
    THEN addr.ip \in black_list(acl).ip
    ELSE addr.ip \notin white_list(acl).ip

check_outbound_blocked(acl, addr) == check_address_matched(outbound_block(acl), addr)

check_resolved_outbound_blocked(acl, ip) == ip \in outbound_block(acl).ip
=============================================================================

--------------------------- MODULE MCDnsListener ---------------------------
(* A small instance of DnsListener: one name and one of its subdomains.      *)
EXTENDS DnsListener, TLC

CONSTANTS api, example, ann, bob, l1, l2, l3, q1, q2

MCSymmetry == Permutations({l1, l2, l3}) \cup Permutations({q1, q2})

MCSuffixes    == [n \in {api, example} |-> IF n = api THEN {api, example} ELSE {example}]
MCRegistrable == [n \in {api, example} |-> example]

\* Ann's policy lists a name, grants it, and asks for approval; Bob's lists the
\* subdomain only.
MCPolicies ==
    {[blocked |-> {example}, allowed |-> {}, mode |-> "blocklist_only", user |-> ann],
     [blocked |-> {api, example}, allowed |-> {api}, mode |-> "approval_on_block", user |-> ann],
     [blocked |-> {api}, allowed |-> {}, mode |-> "approval_on_block", user |-> bob]}
=============================================================================

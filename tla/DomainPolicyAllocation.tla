----------------------- MODULE DomainPolicyAllocation -----------------------
(***************************************************************************)
(* resolve_next_policies written as the loop it is, against the condition   *)
(* DomainPolicy states for its result.                                      *)
(***************************************************************************)
EXTENDS DomainPolicy, FiniteSets

CONSTANT LastUid    \* u32::MAX: where uids numbered in the order of their texts
                    \* end, since there are no more that parse

ASSUME UidAssumption  == LastUid \in Nat /\ \A u \in Uids : u <= LastUid
ASSUME PortAssumption == IsFiniteSet(Ports)

Least(S) == CHOOSE x \in S : \A y \in S : x <= y

\* What a turn of the loop leaves behind: used_ports, the listen ports of
\* next_policies, and whether allocate_policy_port has returned its Err.
LoopStart(st) == [failed |-> FALSE, used |-> UsedPorts(st), ports |-> <<>>]

Insert(loop, u, port) ==
    [failed |-> FALSE,
     used   |-> loop.used \cup {port},
     ports  |-> [v \in (DOMAIN loop.ports) \cup {u} |->
                    IF v = u THEN port ELSE loop.ports[v]]]

\* allocate_policy_port: the first port of the range that is not used.
Turn(st, loop, u) ==
    IF u \in Managed(st) THEN Insert(loop, u, PortOf(st, u))
    ELSE IF Ports \subseteq loop.used THEN [loop EXCEPT !.failed = TRUE]
    ELSE Insert(loop, u, Least(Ports \ loop.used))

\* The loop when it has gone through the uids below n, in the order of their texts.
LoopBelow(st, manifest) ==
    LET below[n \in Nat] ==
            IF n = 0 THEN LoopStart(st)
            ELSE LET loop == below[n - 1]
                 IN  IF loop.failed \/ n - 1 \notin Wanted(manifest) THEN loop
                     ELSE Turn(st, loop, n - 1)
    IN  below

LoopEnd(st, manifest) == LoopBelow(st, manifest)[LastUid + 1]

\* For every manifest that may arrive in a reachable state, the condition on
\* the allocated ports has the loop's result as its only solution, and none when
\* the loop fails, which it does exactly when more uids are new than ports are
\* free (the ports of leaving uids are not).
AllocationIsTheLoop ==
    \A manifest \in Manifest :
        LET end == LoopEnd(current, manifest)
        IN  /\ Allocations(current, manifest) = IF end.failed THEN {} ELSE {end.ports}
            /\ end.failed <=> Cardinality(NewUids(current, manifest))
                                > Cardinality(Ports \ UsedPorts(current))
=============================================================================

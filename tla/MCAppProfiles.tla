--------------------------- MODULE MCAppProfiles ---------------------------
(* Small instances of AppProfiles for TLC: three rules on executables, of which *)
(* two have applications that make one profile name.                            *)
EXTENDS AppProfiles, TLC

CONSTANTS ann, bob, blocked, offline, other, quiz, game, approval, s1, s2

MCSymmetry == Permutations({ann, bob}) \cup Permutations({s1, s2})

MCProfiles == Users \X {quiz, game}
MCNameOf   == [of \in Users \X Rules |-> <<of[1], IF of[2] = other THEN game ELSE quiz>>]
MCPrefixed == [u \in Users |-> {u} \X {quiz, game}]

\* One update blocks an application and asks for approvals, the other blocks another,
\* takes a third off the network and blocks a pattern.  Without one a user has no rule.
MCUpdates ==
    {[policy |-> [rules |-> <<other>>, paths |-> {}], overlay |-> approval],
     [policy |-> [rules |-> <<blocked, offline>>, paths |-> Patterns], overlay |-> None]}

\* After a restart only the read of the saved policies still fails.
MCFaults == restarts > 0 => faults' = faults \/ faults'["read"] > 0

=============================================================================

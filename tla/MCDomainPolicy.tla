--------------------------- MODULE MCDomainPolicy ---------------------------
(* Small instances of DomainPolicy for TLC. *)
EXTENDS DomainPolicyRefinement, DomainPolicyAllocation, TLC

CONSTANTS d1, r1, r2

\* The second revision of the list has dropped the only domain of the first.
MCContent == (r1 :> {d1}) @@ (r2 :> {})
NoContent == <<>>

MCSymmetry == Permutations(SyncIds)
=============================================================================

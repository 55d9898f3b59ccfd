--------------------------- MODULE MCCreditGrants ---------------------------
(* Instances of CreditGrants for TLC: one user's org.created, which names the *)
(* org, and user.org_assigned, which does not.                                *)
EXTENDS CreditGrants, TLC

CONSTANTS created, assigned, u1, o1, o2, free

MCUserOf  == [e \in Events |-> u1]
MCOrgOf   == [e \in Events |-> IF e = created THEN o1 ELSE NoOrg]
MCTiersOf == [u \in Users |-> Tiers]

MCSymmetry == Permutations(Workers)
=============================================================================

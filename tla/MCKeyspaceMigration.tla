------------------------ MODULE MCKeyspaceMigration ------------------------
(* Instances of KeyspaceMigration for TLC. *)
EXTENDS KeyspaceMigration, TLC

MCSymmetry == Permutations(Pods)

\* Otherwise nothing is claimed: the search need not go on from there.
MCOnScript == left \in {{}, {"late"}, {"stale"}}
=============================================================================

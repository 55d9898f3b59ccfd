----------------------------- MODULE MCTierCache -----------------------------
(* Instance of TierCache for TLC: one replica and two calls, a cache that is *)
(* on or off, a last-known-good tier that expires or does not.               *)
EXTENDS TierCache

MCTTLs == {0, 1}
MCLkgMaxAges == {0, 1}
=============================================================================

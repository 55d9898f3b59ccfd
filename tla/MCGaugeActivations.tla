------------------------- MODULE MCGaugeActivations -------------------------
(* Instances of GaugeActivations for TLC.  r1 is the first gauge of every     *)
(* bundle, so that a caller's idempotency key is one composed key.            *)
EXTENDS GaugeActivations, TLC

CONSTANTS r1, r2

MCResources == {r1, r2}
MCBundles   == {{r1}, {r1, r2}}
MCPairBundle == {{r1, r2}}

\* r1 is capped for the org and tighter for a user; r2 is unlimited.
MCOrgLimit  == (r1 :> 2) @@ (r2 :> NoLimit)
MCUserLimit == (r1 :> 1) @@ (r2 :> NoLimit)

\* Ids are minted at random, Costs are opaque and Settle calls are alike.
MCSymmetry == Permutations(Ids) \cup Permutations(Costs) \cup Permutations(Settlers)
=============================================================================

---------------------------- MODULE MCSelfHealing ----------------------------
(* Instances of SelfHealing for TLC. *)
EXTENDS SelfHealing, TLC

CONSTANTS r1, loop1, api1

\* One gauge the org may hold one unit of, and none through a user: a tier without the feature.
MCResources == {r1}
MCBundles   == {{r1}}
MCOrgLimit  == [r \in Resources |-> 1]
MCUserLimit == [r \in Resources |-> 0]

\* The reconciler's goroutine, and one that serves requests.
MCKindsOf == [h \in Healers |-> IF h = loop1 THEN {"loop"} ELSE {"recalc", "recount"}]

\* A provider that reports the gauge, one that is silent about it, and none.
MCProviders == {{r1}, {}, NoProvider}
MCNoProvider == {NoProvider}

MCSymmetry == Permutations(Ids)
=============================================================================

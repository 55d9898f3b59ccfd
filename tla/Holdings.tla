------------------------------ MODULE Holdings ------------------------------
(***************************************************************************)
(* What the activation API promises of an organisation's quota, without    *)
(* gauges, latches, ledger rows and retries.  An activation is admitted    *)
(* once, with its whole bundle, on what is truly held at that moment; it   *)
(* ends once; only then are its units given back, each of them once.       *)
(***************************************************************************)
EXTENDS Naturals, FiniteSets

CONSTANTS Ids, Users, NoUser, Bundles, OrgLimit, UserLimit, NoLimit

VARIABLES
    enforced,   \* limits are declared, and are being applied
    stage,      \* of each activation: "free", "held" or "ended"
    owner,      \* the user it was admitted for
    held        \* the units it holds: <<resource, "org">> and <<resource, "user">>

holdVars == <<enforced, stage, owner, held>>

Init ==
    /\ enforced \in BOOLEAN
    /\ stage = [i \in Ids |-> "free"]
    /\ owner = [i \in Ids |-> NoUser]
    /\ held = [i \in Ids |-> {}]

HeldOn(r)    == {i \in Ids : <<r, "org">> \in held[i]}
HeldOf(u, r) == {i \in Ids : owner[i] = u /\ <<r, "user">> \in held[i]}

Room(holders, limit) == limit # NoLimit => Cardinality(holders) < limit

Admit(i, b, u) ==
    /\ stage[i] = "free"
    /\ enforced => \A r \in b : /\ Room(HeldOn(r), OrgLimit[r])
                                /\ u # NoUser => Room(HeldOf(u, r), UserLimit[r])
    /\ stage' = [stage EXCEPT ![i] = "held"]
    /\ owner' = [owner EXCEPT ![i] = u]
    /\ held' = [held EXCEPT ![i] = b \X (IF u = NoUser THEN {"org"} ELSE {"org", "user"})]
    /\ UNCHANGED enforced

End(i) ==
    /\ stage[i] = "held"
    /\ stage' = [stage EXCEPT ![i] = "ended"]
    /\ UNCHANGED <<enforced, owner, held>>

GiveBack(i, unit) ==
    /\ stage[i] = "ended"
    /\ unit \in held[i]
    /\ held' = [held EXCEPT ![i] = @ \ {unit}]
    /\ UNCHANGED <<enforced, stage, owner>>

Next ==
    \E i \in Ids :
        \/ End(i)
        \/ \E unit \in held[i] : GiveBack(i, unit)
        \/ \E b \in Bundles, u \in Users \cup {NoUser} : Admit(i, b, u)

Spec == Init /\ [][Next]_holdVars
=============================================================================

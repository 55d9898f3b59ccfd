------------------------------ MODULE MCOutbox ------------------------------
(* Instances of Outbox for TLC: the start and the stop of one reservation, an *)
(* event billing refuses and one without a reservation id.                    *)
EXTENDS Outbox, TLC

CONSTANTS started, stopped, refused, keyless, res1, res2

MCRes == (started :> res1) @@ (stopped :> res1) @@ (refused :> res2) @@ (keyless :> Blank)
MCResOf == [e \in Events |-> MCRes[e]]
MCTerminal == Events \ {started}
MCVerdict == [e \in Events |-> IF e = refused THEN "refuse" ELSE "accept"]
=============================================================================

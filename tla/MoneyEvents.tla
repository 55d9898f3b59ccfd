---------------------------- MODULE MoneyEvents ----------------------------
(***************************************************************************)
(* What the outbox promises about money-bearing lifecycle events, without  *)
(* its rows, indexes, passes and retries: an event is first owed, and only *)
(* an owed event is handed to the transport, charged under its reservation *)
(* or given up with an alert.  A reservation is charged once, by an event  *)
(* that ends it, and an event is never both charged and given up.          *)
(***************************************************************************)
CONSTANTS Events, NoEvent, Keys, KeyOf, Terminal

VARIABLES
    owed,       \* the events the emitter's caller may rely on
    sent,       \* the events handed to the transport, at least once
    charged,    \* the event that charged each reservation
    voided      \* the events given up, loudly

moneyVars == <<owed, sent, charged, voided>>

Init == owed = {} /\ sent = {} /\ charged = [k \in Keys |-> NoEvent] /\ voided = {}

Accept(e) == owed' = owed \cup {e} /\ UNCHANGED <<sent, charged, voided>>

Send(e) ==
    /\ e \in owed
    /\ sent' = sent \cup {e}
    /\ UNCHANGED <<owed, charged, voided>>

Charge(e) ==
    /\ e \in (owed \cap Terminal) \ voided
    /\ charged[KeyOf[e]] = NoEvent
    /\ charged' = [charged EXCEPT ![KeyOf[e]] = e]
    /\ UNCHANGED <<owed, sent, voided>>

GiveUp(e) ==
    /\ e \in owed
    /\ \A k \in Keys : charged[k] # e
    /\ voided' = voided \cup {e}
    /\ UNCHANGED <<owed, sent, charged>>

Next == \E e \in Events : Accept(e) \/ Send(e) \/ Charge(e) \/ GiveUp(e)

Spec == Init /\ [][Next]_moneyVars
=============================================================================

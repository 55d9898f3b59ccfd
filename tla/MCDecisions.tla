----------------------------- MODULE MCDecisions -----------------------------
(* Instance of Decisions for TLC. *)
EXTENDS Decisions, TLC

Base == [kind |-> "gauge", mode |-> "on", enforce |-> FALSE, tiers |-> {"resolved"},
         answers |-> {}, failOpen |-> FALSE, alerts |-> FALSE, costs |-> Costs, faults |-> {},
         userOf |-> [c \in Callers |-> CHOOSE u \in Users : TRUE]]

NoUser == [c \in Callers |-> None]

MCConfigs ==
    { [Base EXCEPT !.alerts = TRUE], [Base EXCEPT !.enforce = TRUE],
      [Base EXCEPT !.faults = {"read", "write"}, !.enforce = TRUE, !.tiers = {"resolved", "unknown"}],
      [Base EXCEPT !.faults = {"read", "write"}, !.userOf = NoUser],
      [Base EXCEPT !.faults = {"write"}, !.answers = {"value"}, !.userOf = NoUser],
      [Base EXCEPT !.faults = {"read", "write"}, !.failOpen = TRUE, !.answers = {"absent", "error"}],
      [Base EXCEPT !.kind = "accumulator", !.faults = {"read", "write"}, !.answers = {"absent", "error"}],
      [Base EXCEPT !.kind = "accumulator", !.answers = {"value"}, !.costs = {1}],
      [Base EXCEPT !.kind = "rate", !.faults = {"read", "write"}, !.answers = {"value"}],
      [Base EXCEPT !.mode = "shadow", !.tiers = {"resolved", "unresolved", "unlimited"}],
      [Base EXCEPT !.mode = "disabled"], [Base EXCEPT !.mode = "kill"] }

MCSubjects == {Gauge}

=============================================================================

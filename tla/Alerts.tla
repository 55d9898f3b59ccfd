------------------------------- MODULE Alerts -------------------------------
(***************************************************************************)
(* The alert manager (alerts/manager.go): cooldowns, and what the operator *)
(* has heard last of each subject.  Dispatch to the log and the webhook is *)
(* best effort and nothing depends on its outcome.                         *)
(***************************************************************************)
EXTENDS Naturals

CONSTANT Subjects     \* what alerts are about: an organization's gauge, a capability

VARIABLES
    cooling,          \* keys of lastSent younger than the cooldown: <<kind, subject>>
    heard             \* history: the kind of the last alert this process dispatched for each subject

alertVars == <<cooling, heard>>

Quiet == "quiet"

Kinds == {"admitted", "resolved", "violated", "restored"}

AlertsTypeOK ==
    /\ cooling \subseteq Kinds \X Subjects
    /\ heard \in [Subjects -> Kinds \cup {Quiet}]

AlertsInit == cooling = {} /\ heard = [s \in Subjects |-> Quiet]

Hear(kind, s) == heard' = [heard EXCEPT ![s] = kind]

\* NotifyQuotaEvent: one alert per key and cooldown.
Notify(kind, s) ==
    IF <<kind, s>> \in cooling THEN UNCHANGED alertVars
    ELSE cooling' = cooling \cup {<<kind, s>>} /\ Hear(kind, s)

\* Mutant of NotifyInvariants: the cooldown of a violation outlives its restoration.
NotifyInvariantsMuted(violated, restored) ==
    LET told == {<<"violated", s>> : s \in violated} \ cooling IN
    /\ cooling' = cooling \cup told
    /\ heard' = [s \in Subjects |-> IF <<"violated", s>> \in told THEN "violated"
                                    ELSE IF s \in restored THEN "restored" ELSE heard[s]]

\* One re-verification: NotifyInvariantViolated for each unsafe invariant, and
\* NotifyInvariantRestored, never muted, for each that is safe again; a restoration also ends
\* the cooldown of its violation.  The two sets are disjoint, so the order does not matter.
NotifyInvariants(violated, restored) ==
    LET told == {<<"violated", s>> : s \in violated} \ cooling IN
    /\ cooling' = (cooling \cup told) \ {<<"violated", s>> : s \in restored}
    /\ heard' = [s \in Subjects |-> IF <<"violated", s>> \in told THEN "violated"
                                    ELSE IF s \in restored THEN "restored" ELSE heard[s]]

\* CooldownSeconds have passed since an alert was sent.
CooldownEnds ==
    /\ \E k \in cooling : cooling' = cooling \ {k}
    /\ UNCHANGED heard

=============================================================================

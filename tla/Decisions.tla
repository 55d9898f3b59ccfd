------------------------------ MODULE Decisions ------------------------------
(***************************************************************************)
(* The Check, Spend and Release path of the engine (engine/engine.go,      *)
(* engine/events.go), recount-before-deny and Recalculate on it            *)
(* (engine/recount_20260810.go), the counters behind it (accumulator.go,   *)
(* rate.go and the stores), and the HTTP guard (middleware/guard.go).      *)
(*                                                                         *)
(* Callers work on one resource of one organization.  A caller checks,     *)
(* spends when the guard lets it through, and gives a gauge back; every    *)
(* store or provider call is one action.  Costs are magnitudes.            *)
(***************************************************************************)
EXTENDS Integers, FiniteSets, Functions, Alerts

CONSTANTS
    Callers,
    Users, None,
    Configs,      \* the configurations a run starts with, see Config
    Costs,
    Limit, Burst, \* the tier's limit of the resource
    UserLimit,    \* the derived per-user limit, or None
    Window,       \* of a rate resource, in ticks
    MaxPeriod     \* bound on the reset periods

ASSUME DecisionNumbers ==
    /\ {Limit, Burst, MaxPeriod} \subseteq Nat /\ Window \in Nat \ {0}
    /\ Costs # {} /\ Costs \subseteq Nat \ {0}
    /\ UserLimit \in Nat \cup {None} /\ None \notin Nat
ASSUME CallersAreFinite == IsFiniteSet(Callers) /\ Callers # {}
ASSUME UsersAreFinite == IsFiniteSet(Users)

Gauge == "org"         \* the subject of the organization's over-limit alerts
ASSUME GaugeIsASubject == Gauge \in Subjects

VARIABLES
    cfg,        \* the configuration
    counter,    \* the organization's counter, by reset period (gauges: period 0)
    user,       \* the per-user partitions of a gauge
    entries,    \* the members of the rate window, by age
    truth,      \* what exists, or was spent, by period
    period,
    call,
    recalc,     \* the Recalculate in progress
    emitted     \* history: over_limit_admitted was emitted since the gauge rose over its limit

state == <<cfg, counter, user, entries, truth, period, recalc, emitted, alertVars>>
vars == <<state, call>>

-----------------------------------------------------------------------------
(* State *)

\* kind: counter_type.  mode: kill, disabled, shadow or on.  enforce:
\* legacy_increment = "enforce".  tiers: how lookups of the tier end.  answers: how
\* calls of the truth source end, empty when none is wired.  failOpen: the guard's
\* FailOpen.  faults: which store calls may fail.  alerts: AlertsConfig.Enabled.
\* costs: the costs of requests.
Config ==
    [kind : {"gauge", "accumulator", "rate"}, mode : {"kill", "disabled", "shadow", "on"},
     enforce : BOOLEAN, tiers : SUBSET {"resolved", "unresolved", "unknown", "unlimited"},
     answers : SUBSET {"value", "absent", "error"}, failOpen : BOOLEAN, faults : SUBSET {"read", "write"},
     userOf : [Callers -> Users \cup {None}], alerts : BOOLEAN,
     costs : SUBSET Costs]

ASSUME ConfigsAreConfigs == Configs \subseteq Config
ASSUME CostsHaveAMax == \A k \in Configs : \E n \in k.costs : \A m \in k.costs : m <= n

UserOf(c) == cfg.userOf[c]    \* CheckInput.UserID

Hard == Limit + Burst

MaxCost == CHOOSE n \in cfg.costs : \A m \in cfg.costs : m <= n

\* Bound on the counters: above what OvershootBounded allows.
MaxUsage == Hard + MaxCost * Cardinality(Callers)

Idle == [pc |-> "idle", cost |-> 0, used |-> 0, seen |-> 0, period |-> 0, crossed |-> FALSE]

DecTypeOK ==
    /\ cfg \in Configs
    /\ counter \in [0..MaxPeriod -> 0..MaxUsage] /\ truth \in [0..MaxPeriod -> 0..MaxUsage]
    /\ user \in [Users -> 0..(MaxUsage * Cardinality(Callers))]
    /\ entries \in [0..Window -> 0..MaxUsage]
    /\ period \in 0..MaxPeriod
    /\ call \in [Callers ->
          [pc : {"idle", "read", "user", "recount", "repair", "spend", "record", "count", "holding",
                 "return", "refused"},
           cost : 0..MaxCost, used : 0..MaxUsage, seen : 0..MaxUsage, period : 0..MaxPeriod,
           crossed : BOOLEAN]]
    /\ recalc \in [pc : {"idle", "read", "set"}, seen : 0..MaxUsage]
    /\ emitted \in BOOLEAN
    /\ AlertsTypeOK

Init ==
    /\ cfg \in Configs
    /\ counter = [p \in 0..MaxPeriod |-> 0] /\ truth = [p \in 0..MaxPeriod |-> 0]
    /\ user = [u \in Users |-> 0]
    /\ entries = [a \in 0..Window |-> 0]
    /\ period = 0
    /\ call = [c \in Callers |-> Idle]
    /\ recalc = [pc |-> "idle", seen |-> 0]
    /\ emitted = TRUE
    /\ AlertsInit

-----------------------------------------------------------------------------
(* Counters *)

IsGauge == cfg.kind = "gauge"

\* currentUsage, of the period the call saw.
CurrentUsage(p) ==
    IF cfg.kind = "rate" THEN FoldFunction(+, 0, entries) ELSE counter[p]

\* Mutant of CrossedUp: a gauge that stood exactly at its limit does not cross it.
CrossedUpStrict(new, delta, limit) == new > limit /\ new - delta < limit

CrossedUp(new, delta, limit) == new > limit /\ new - delta <= limit

CrossedDown(new, delta, limit) == new <= limit /\ new + delta > limit

\* Mutant of DecrByFloorZero: the floor is always reached.
DecrToFloor(v, amount) == 0

DecrByFloorZero(v, amount) == IF v >= amount THEN v - amount ELSE 0

Goto(c, pc) == call' = [call EXCEPT ![c].pc = pc]

\* The decision is taken, what it rested on is forgotten.
Conclude(c, pc) == call' = [call EXCEPT ![c] = [Idle EXCEPT !.pc = pc, !.cost = call[c].cost]]

Return(c) == call' = [call EXCEPT ![c] = Idle]

-----------------------------------------------------------------------------
(* Check and the guard *)

\* decideOrg; the warning levels below the limit all proceed.
Decide(used, cost) == IF used + cost > Hard THEN "deny" ELSE "allow"

\* Deny stops the request, unless the mode is shadow; Allow lets it through to Spend.
Refused == IF cfg.mode = "shadow" THEN "spend" ELSE "refused"

\* RecountBeforeDeny applies: not to a rate, and only with a truth source.
Recountable == cfg.kind # "rate" /\ cfg.answers # {}

AfterDecision(used, cost) ==
    IF Decide(used, cost) = "allow" THEN "spend" ELSE IF Recountable THEN "recount" ELSE Refused

\* Check: kill switch, disabled enforcement, and the tier.
Check(c, cost, t) ==
    /\ call[c].pc = "idle" /\ t \in cfg.tiers
    /\ call' = [call EXCEPT ![c] = [Idle EXCEPT !.cost = cost, !.period = period, !.pc =
          IF cfg.mode = "kill" THEN "refused" ELSE IF cfg.mode = "disabled" THEN "spend"
          ELSE CASE t = "unknown" -> "refused"
                 [] t \in {"unresolved", "unlimited"} -> "spend"
                 [] t = "resolved" -> "read"]]
    /\ UNCHANGED state

\* A per-user limit applies to gauges, and is checked before the organization's.
ReadUsage(c) ==
    /\ call[c].pc = "read"
    /\ LET used == CurrentUsage(call[c].period)
           next == IF IsGauge /\ UserOf(c) # None /\ UserLimit # None THEN "user"
                   ELSE AfterDecision(used, call[c].cost)
       IN  IF next \in {"user", "recount"}
           THEN call' = [call EXCEPT ![c].used = used, ![c].pc = next]
           ELSE Conclude(c, next)
    /\ UNCHANGED state

ReadUser(c) ==
    /\ call[c].pc = "user"
    /\ LET next == IF user[UserOf(c)] + call[c].cost > UserLimit THEN Refused
                   ELSE AfterDecision(call[c].used, call[c].cost)
       IN  IF next = "recount" THEN Goto(c, next) ELSE Conclude(c, next)
    /\ UNCHANGED state

\* The store fails and Check returns an error: the guard's FailOpen decides.
ReadFails(c) ==
    /\ "read" \in cfg.faults /\ call[c].pc \in {"read", "user"}
    /\ Conclude(c, IF cfg.failOpen THEN "spend" ELSE "refused")
    /\ UNCHANGED state

\* The decision on the recounted usage.
Redecided(usage, cost) == IF Decide(usage, cost) = "allow" THEN "spend" ELSE Refused

\* Mutant of FailDirection: an outage of the truth source allows, whatever is counted.
FailDirectionOpen == "spend"

\* The truth source is unreachable: a gauge drifts high and is let through, a money
\* counter keeps its denial.
FailDirection == IF IsGauge THEN "spend" ELSE Refused

\* Mutant of Recount: the cached value is taken for the truth.
RecountCached(c) ==
    /\ call[c].pc = "recount"
    /\ Conclude(c, Redecided(call[c].used, call[c].cost))
    /\ UNCHANGED state

\* recomputeTrueUsage: a failure, no observation, or the truth of the current period.
Recount(c) ==
    /\ call[c].pc = "recount"
    /\ \/ "error" \in cfg.answers /\ Conclude(c, FailDirection)
       \/ "absent" \in cfg.answers /\ Conclude(c, Refused)
       \/ /\ "value" \in cfg.answers
          /\ LET t == truth[period]
             IN  IF t # call[c].used
                 THEN call' = [call EXCEPT ![c].seen = t, ![c].pc = "repair"]
                 ELSE Conclude(c, Redecided(t, call[c].cost))
    /\ UNCHANGED state

\* repairCounterToTruth, on the key of the period it runs in; a failure is logged.
Repair(c) ==
    /\ call[c].pc = "repair"
    /\ \/ counter' = [counter EXCEPT ![period] = call[c].seen]
       \/ "write" \in cfg.faults /\ UNCHANGED counter
    /\ Conclude(c, Redecided(call[c].seen, call[c].cost))
    /\ UNCHANGED <<cfg, user, entries, truth, period, recalc, emitted, alertVars>>

GiveUp(c) == call[c].pc = "refused" /\ Return(c) /\ UNCHANGED state

-----------------------------------------------------------------------------
(* Spend *)

Fits(n) == n <= MaxUsage

\* gaugeLimit: a limit only when the tier resolves.
HasLimit(t) == t = "resolved"

Rises(c) == counter' = [counter EXCEPT ![0] = @ + call[c].cost]

Exists(c) == truth' = [truth EXCEPT ![period] = @ + call[c].cost]

\* Mutant of UserRises: the partition is not maintained.
UserStays(c) == user' = user

UserRises(c) ==
    user' = [u \in Users |-> IF u = UserOf(c) THEN user[u] + call[c].cost ELSE user[u]]

CanRise(c) == /\ Fits(counter[0] + call[c].cost) /\ Fits(truth[0] + call[c].cost)
              /\ \A u \in Users : u = UserOf(c) => Fits(user[u] + call[c].cost)

\* legacy_increment = "enforce": one script checks the limit and spends.
SpendEnforced(c, t) ==
    /\ call[c].pc = "spend" /\ IsGauge /\ cfg.enforce /\ HasLimit(t) /\ t \in cfg.tiers
    /\ IF counter[0] + call[c].cost <= Limit
       THEN /\ CanRise(c) /\ Rises(c) /\ Exists(c) /\ UserRises(c)
            /\ Goto(c, "holding")
       ELSE Return(c) /\ UNCHANGED <<counter, truth, user>>
    /\ UNCHANGED <<cfg, entries, period, recalc, emitted, alertVars>>

\* The default counts at the fact and never refuses.  The crossing is computed from
\* the value INCRBYFLOAT returned, the event follows in SpendUser.
SpendOrg(c, t) ==
    /\ call[c].pc = "spend" /\ IsGauge /\ ~(cfg.enforce /\ HasLimit(t)) /\ t \in cfg.tiers
    /\ CanRise(c) /\ Rises(c) /\ Exists(c)
    /\ LET crossed == HasLimit(t) /\ CrossedUp(counter'[0], call[c].cost, Limit)
       IN  call' = [call EXCEPT ![c].pc = "count", ![c].crossed = crossed]
    /\ emitted' = (emitted /\ ~(counter[0] <= Limit /\ counter'[0] > Limit))
    /\ UNCHANGED <<cfg, user, entries, period, recalc, alertVars>>

\* The user's partition, and the event.
SpendUser(c) ==
    /\ call[c].pc = "count"
    /\ UserRises(c)
    /\ call' = [call EXCEPT ![c].pc = "holding", ![c].crossed = FALSE]
    /\ emitted' = (emitted \/ call[c].crossed)
    /\ IF call[c].crossed /\ cfg.alerts THEN Notify("admitted", Gauge) ELSE UNCHANGED alertVars
    /\ UNCHANGED <<cfg, counter, entries, truth, period, recalc>>

\* The partition fails: Spend returns the error and no event, the charge stays.
SpendUserFails(c) ==
    /\ "write" \in cfg.faults /\ call[c].pc = "count" /\ UserOf(c) # None
    /\ call' = [call EXCEPT ![c].pc = "holding", ![c].crossed = FALSE]
    /\ UNCHANGED state

\* A store call of Spend fails and nothing is created.  Before the first one nothing was
\* counted; the members a rate has recorded already stay.
SpendFails(c) ==
    /\ "write" \in cfg.faults /\ call[c].pc \in {"spend", "record"}
    /\ Return(c) /\ UNCHANGED state

\* Accumulator.AddOrg, on the key of its own period.
SpendAccumulator(c) ==
    /\ call[c].pc = "spend" /\ cfg.kind = "accumulator"
    /\ Fits(counter[period] + call[c].cost) /\ Fits(truth[period] + call[c].cost)
    /\ counter' = [counter EXCEPT ![period] = @ + call[c].cost]
    /\ Exists(c)
    /\ Return(c)
    /\ UNCHANGED <<cfg, user, entries, period, recalc, emitted, alertVars>>

\* Rate.RecordOrg, one member per unit of the cost, each in a call of its own.
SpendRate(c) ==
    /\ call[c].pc \in {"spend", "record"} /\ cfg.kind = "rate"
    /\ Fits(entries[0] + 1)
    /\ entries' = [entries EXCEPT ![0] = @ + 1]
    /\ call' = [call EXCEPT ![c] = IF call[c].cost = 1 THEN Idle
                                   ELSE [call[c] EXCEPT !.cost = call[c].cost - 1, !.pc = "record"]]
    /\ UNCHANGED <<cfg, counter, user, truth, period, recalc, emitted, alertVars>>

-----------------------------------------------------------------------------
(* Release *)

Gone(c) == truth' = [truth EXCEPT ![0] = @ - call[c].cost]

\* The resource is gone and its gauge goes down, floored at zero.
ReleaseOrg(c, t) ==
    /\ call[c].pc = "holding" /\ t \in cfg.tiers
    /\ Gone(c)
    /\ counter' = [counter EXCEPT ![0] = DecrByFloorZero(@, call[c].cost)]
    /\ LET crossed == HasLimit(t) /\ CrossedDown(counter'[0], call[c].cost, Limit)
       IN  call' = [call EXCEPT ![c].pc = "return", ![c].crossed = crossed]
    /\ UNCHANGED <<cfg, user, entries, period, recalc, emitted, alertVars>>

\* The event, and the user's partition, which may fail.
ReleaseUser(c) ==
    /\ call[c].pc = "return"
    /\ \/ user' = [u \in Users |-> IF u = UserOf(c) THEN DecrByFloorZero(user[u], call[c].cost)
                                                    ELSE user[u]]
       \/ "write" \in cfg.faults /\ UserOf(c) # None /\ UNCHANGED user
    /\ IF call[c].crossed /\ cfg.alerts THEN Notify("resolved", Gauge) ELSE UNCHANGED alertVars
    /\ Return(c)
    /\ UNCHANGED <<cfg, counter, entries, truth, period, recalc, emitted>>

\* A lost decrement: the resource is gone and is counted for ever.
ReleaseFails(c) ==
    /\ "write" \in cfg.faults /\ call[c].pc = "holding"
    /\ Gone(c) /\ Return(c)
    /\ UNCHANGED <<cfg, counter, user, entries, period, recalc, emitted, alertVars>>

-----------------------------------------------------------------------------
(* Recalculate, and time *)

\* Engine.ReconcileOrg and MaybeReadRepair: the truth, the counter, and a force-set
\* when they differ.
RecalcFetch ==
    /\ recalc.pc = "idle" /\ Recountable /\ "value" \in cfg.answers
    /\ recalc' = [pc |-> "read", seen |-> truth[period]]
    /\ UNCHANGED <<cfg, counter, user, entries, truth, period, call, emitted, alertVars>>

RecalcRead ==
    /\ recalc.pc = "read"
    /\ recalc' = IF counter[period] = recalc.seen THEN [pc |-> "idle", seen |-> 0]
                 ELSE [recalc EXCEPT !.pc = "set"]
    /\ UNCHANGED <<cfg, counter, user, entries, truth, period, call, emitted, alertVars>>

RecalcSet ==
    /\ recalc.pc = "set"
    /\ counter' = [counter EXCEPT ![period] = recalc.seen]
    /\ recalc' = [pc |-> "idle", seen |-> 0]
    /\ UNCHANGED <<cfg, user, entries, truth, period, call, emitted, alertVars>>

\* CurrentPeriod moves on: a new key, that starts at nothing.
NewPeriod ==
    /\ cfg.kind = "accumulator" /\ period < MaxPeriod
    /\ period' = period + 1
    /\ UNCHANGED <<cfg, counter, user, entries, truth, call, recalc, emitted, alertVars>>

\* A member older than the window is trimmed by the next Record or Count.
Tick ==
    /\ cfg.kind = "rate"
    /\ entries' = [a \in 0..Window |-> IF a = 0 THEN 0 ELSE entries[a - 1]]
    /\ UNCHANGED <<cfg, counter, user, truth, period, call, recalc, emitted, alertVars>>

-----------------------------------------------------------------------------
(* Specification *)

Step(c) ==
    \/ ReadUsage(c) \/ ReadUser(c) \/ Recount(c) \/ Repair(c) \/ GiveUp(c)
    \/ SpendUser(c) \/ SpendAccumulator(c) \/ SpendRate(c) \/ ReleaseUser(c)
    \/ \E t \in cfg.tiers : SpendEnforced(c, t) \/ SpendOrg(c, t)

Fault(c) == ReadFails(c) \/ SpendUserFails(c) \/ SpendFails(c) \/ ReleaseFails(c)

Next ==
    \/ \E c \in Callers :
          \/ Step(c) \/ Fault(c)
          \/ \E t \in cfg.tiers : ReleaseOrg(c, t) \/ \E cost \in cfg.costs : Check(c, cost, t)
    \/ RecalcFetch \/ RecalcRead \/ RecalcSet \/ NewPeriod \/ Tick
    \/ CooldownEnds /\ UNCHANGED <<cfg, counter, user, entries, truth, period, call, recalc, emitted>>

Spec == Init /\ [][Next]_vars

\* A request that was received is carried through; nobody has to call again.
FairSpec == Spec /\ \A c \in Callers : WF_vars(Step(c))

-----------------------------------------------------------------------------
(* Properties *)

\* Every admission was decided: limits are on, lookups resolve, errors refuse, and
\* denials are not set aside by a truth source.
Gated == /\ cfg.mode = "on" /\ cfg.tiers \subseteq {"resolved", "unknown"}
         /\ "read" \in cfg.faults => ~cfg.failOpen
         /\ "value" \notin cfg.answers /\ (IsGauge => "error" \notin cfg.answers)

\* Check and Spend are two calls, so concurrent callers overshoot the hard limit, but
\* by no more than one request of each of the others, through store failures, an
\* outage of the ledger of a money counter, and the end of a period or a window.  The
\* "enforce" mode does not overshoot at all, as long as Spend can resolve the tier.
OvershootBounded ==
    Gated => /\ \A p \in 0..MaxPeriod :
                   CurrentUsage(p) <= Hard + MaxCost * (Cardinality(Callers) - 1)
             /\ IsGauge /\ cfg.enforce /\ cfg.tiers = {"resolved"} => counter[0] <= Limit

\* Without a truth source nothing but a charge's own release takes it off: the counter
\* is never below what exists, or was spent in the period.
NeverUndercounts == cfg.answers = {} /\ cfg.kind # "rate" => \A p \in 0..MaxPeriod : truth[p] <= counter[p]

\* The two partitions of a gauge agree between calls: the users' charges add up to the
\* organization's when every caller has a user, and store calls do not fail.
PartitionsAgree ==
    /\ \A c \in Callers : call[c].pc \notin {"count", "return"} /\ UserOf(c) # None
    /\ cfg.faults = {} /\ cfg.answers = {} /\ IsGauge
    => counter[0] = FoldFunction(+, 0, user)

\* An over-admission is an observable fact: while the gauge is over its limit and no
\* event is on its way, over_limit_admitted was emitted after it rose, and the operator
\* has been alerted of the gauge.
OverLimitObserved ==
    /\ counter[0] > Limit /\ cfg.tiers = {"resolved"} /\ cfg.faults = {} /\ cfg.answers = {}
    /\ IsGauge /\ \A c \in Callers : ~call[c].crossed
    => emitted /\ (cfg.alerts => heard[Gauge] # Quiet)

\* A stale counter does not lock an organization out: whatever decrements were lost, a
\* caller that keeps asking is let through, or what really exists leaves no room for it.
\* Per-user limits are decided on the counter alone and are left out.
NeverLockedOut ==
    \A c \in Callers :
        (call[c].pc = "read" /\ cfg.answers = {"value"} /\ "read" \notin cfg.faults
            /\ (UserOf(c) = None \/ UserLimit = None))
            ~> (call[c].pc = "spend" \/ truth[period] + call[c].cost > Hard)

=============================================================================

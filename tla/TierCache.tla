------------------------------ MODULE TierCache ------------------------------
(***************************************************************************)
(* The tier cache (providers/cache.go) over the mesh provider (mesh.go)    *)
(* with its lookup wired, and the durable last-known-good record           *)
(* (lkg_store.go).  The static and the JWT provider do not fail: they      *)
(* answer the default without an error, and the cache keeps it like any    *)
(* other tier.                                                             *)
(*                                                                         *)
(* One organization is looked up under one cache key on every replica; the *)
(* replicas share the durable record.  Billing assigns the tier, requests  *)
(* take one step per round trip, and time is kept as ages, so that it has  *)
(* no bound: whatever is past every limit is equally old.                  *)
(***************************************************************************)
EXTENDS Integers, FiniteSets

CONSTANTS
    Replicas, Requests,
    Tiers,          \* tiers billing assigns
    DefaultTier,    \* the DefaultTier of the provider's configuration, or None
    None,           \* no tier, no entry
    TTLs,           \* cache TTLs the runs start with, in ticks; 0 disables the cache
    LkgMaxAges,     \* 0: a last-known-good tier never expires
    FetchTimeout,   \* bound on the time a lookup takes, in ticks
    SustainedFailureThreshold,
    MaxChanges,     \* bound on billing's changes of the tier
    MaxRestarts

ASSUME TimesAreNaturals ==
    /\ TTLs \subseteq Nat /\ LkgMaxAges \subseteq Nat
    /\ {FetchTimeout, MaxChanges, MaxRestarts} \subseteq Nat
    /\ SustainedFailureThreshold \in Nat \ {0, 1}
ASSUME TiersAreNamed == Tiers # {} /\ {None, DefaultTier} \cap Tiers = {}
ASSUME NoneIsNoEntry == None \notin [tier : Tiers \cup {DefaultTier}, age : Nat]

VARIABLES
    ttl, lkgMaxAge,        \* the configuration
    billing,               \* the tier billing assigns now
    up,                    \* whether lookups succeed, and the durable store answers
    items,                 \* the fast entry of each replica and the time it has left
    lastGood,              \* the in-process last-known-good tier and its age
    durable,               \* the record quota:tier:lkg:{org}, None or a tier and its age
    failureStreaks,        \* consecutive failures, back to 1 after an escalation
    req,
    staleFor,              \* history: how long ago each tier was last billing's
    landed,                \* history: a durable record was written
    downgraded,            \* history: a call was answered below what it was owed
    budget                 \* what is left of MaxChanges and MaxRestarts

config == <<ttl, lkgMaxAge>>
world == <<billing, up, staleFor, landed, downgraded, budget>>
vars == <<config, world, items, lastGood, durable, failureStreaks, req>>

-----------------------------------------------------------------------------
(* State *)

\* Ages at which an entry is past use, and at which staleness is past measure.
LkgCap == lkgMaxAge + 1
StaleCap == ttl + LkgCap + FetchTimeout

Entries(cap) == [tier : Tiers \cup ({DefaultTier} \ {None}), age : 0..cap] \cup {None}

\* One GetTier call: where it stands, on which replica, the tier it carries and how
\* old that is, and whether it is owed a known tier, see NeverDowngraded.
Calls == [pc : {"idle", "fetching", "fetched", "failed", "missing", "warming", "writing"},
          on : Replicas \cup {None}, tier : Tiers \cup {DefaultTier, None},
          age : 0..(FetchTimeout + LkgCap), owed : BOOLEAN]

Idle == [pc |-> "idle", on |-> None, tier |-> None, age |-> 0, owed |-> FALSE]

TierTypeOK ==
    /\ ttl \in TTLs /\ lkgMaxAge \in LkgMaxAges
    /\ billing \in Tiers
    /\ up \in [billing : BOOLEAN, store : BOOLEAN]
    /\ items \in [Replicas -> Entries(ttl)] /\ lastGood \in [Replicas -> Entries(LkgCap)]
    /\ durable \in Entries(LkgCap)
    /\ failureStreaks \in [Replicas -> 0..SustainedFailureThreshold]
    /\ req \in [Requests -> Calls]
    /\ staleFor \in [Tiers -> 0..StaleCap]
    /\ landed \in BOOLEAN /\ downgraded \in BOOLEAN
    /\ budget \in [changes : 0..MaxChanges, restarts : 0..MaxRestarts]

Init ==
    /\ ttl \in TTLs /\ lkgMaxAge \in LkgMaxAges
    /\ billing = CHOOSE t \in Tiers : TRUE   \* they are alike
    /\ up = [billing |-> TRUE, store |-> TRUE]
    /\ items = [r \in Replicas |-> None] /\ lastGood = [r \in Replicas |-> None]
    /\ durable = None
    /\ failureStreaks = [r \in Replicas |-> 0]
    /\ req = [q \in Requests |-> Idle]
    /\ staleFor = [t \in Tiers |-> IF t = billing THEN 0 ELSE StaleCap]
    /\ landed = FALSE /\ downgraded = FALSE
    /\ budget = [changes |-> MaxChanges, restarts |-> MaxRestarts]

Entry(tier, age) == [tier |-> tier, age |-> age]

Older(n, cap) == IF n < cap THEN n + 1 ELSE cap

-----------------------------------------------------------------------------
(* The lookup *)

Goto(q, pc) == req' = [req EXCEPT ![q].pc = pc]

\* A call returns, with a tier that billing assigned unless Fallback says otherwise.
Answer(q) == req' = [req EXCEPT ![q] = Idle]

\* Mutant of Fresh: an entry is served for ever.
FreshForEver(e) == e # None

\* now().Before(e.exp), e.exp being one ttl after the entry was stored.
Fresh(e) == e # None /\ e.age < ttl

\* The entry may be served under lkgMaxAge.
LookupLastGood(e) == e # None /\ (lkgMaxAge > 0 => e.age <= lkgMaxAge)

\* GetTier without a fast entry to answer; with one it changes nothing.
Start(q, r) ==
    /\ req[q].pc = "idle"
    /\ ~(ttl > 0 /\ Fresh(items[r]))
    /\ req' = [req EXCEPT ![q] = [Idle EXCEPT
                  !.pc = "fetching", !.on = r,
                  !.owed = landed /\ up.store /\ lkgMaxAge = 0 /\ ttl > 0]]
    /\ UNCHANGED <<config, world, items, lastGood, durable, failureStreaks>>

\* Mutant of MeshReturned: a failed lookup returns the default as if it were a tier.
MeshReturnedDefault == IF up.billing THEN {billing} ELSE {DefaultTier}

\* MeshProvider.GetTier: billing's tier, or the default together with an error.
MeshReturned == IF up.billing THEN {billing} ELSE {}
MeshFails == ~up.billing

Fetch(q) ==
    /\ req[q].pc = "fetching"
    /\ \E t \in MeshReturned : req' = [req EXCEPT ![q].pc = "fetched", ![q].tier = t, ![q].age = 0]
    /\ UNCHANGED <<config, world, items, lastGood, durable, failureStreaks>>

NextStreak(n) == IF n = SustainedFailureThreshold THEN 1 ELSE n + 1

\* Mutant of FetchFails: failures the last-known-good tier hides are not counted.
FetchFailsQuietly(q) ==
    /\ req[q].pc = "fetching" /\ MeshFails
    /\ IF lastGood[req[q].on] # None THEN UNCHANGED failureStreaks
       ELSE failureStreaks' = [failureStreaks EXCEPT ![req[q].on] = NextStreak(@)]
    /\ Goto(q, "failed")
    /\ UNCHANGED <<config, world, items, lastGood, durable>>

\* noteFetchFailure.
FetchFails(q) ==
    /\ req[q].pc = "fetching" /\ MeshFails
    /\ failureStreaks' = [failureStreaks EXCEPT ![req[q].on] = NextStreak(@)]
    /\ Goto(q, "failed")
    /\ UNCHANGED <<config, world, items, lastGood, durable>>

\* The default that came with ErrTierLookupFailed, for this call only, or the error.
\* Either way the caller does not get the tier of its organization.
Fallback(q) ==
    /\ Answer(q)
    /\ downgraded' = (downgraded \/ req[q].owed)

\* The lookup succeeded: the only path that writes the fast entry.
Store(q) ==
    /\ req[q].pc = "fetched"
    /\ LET r == req[q].on
       IN  /\ failureStreaks' = [failureStreaks EXCEPT ![r] = 0]
           /\ IF ttl > 0
              THEN /\ items' = [items EXCEPT ![r] = Entry(req[q].tier, 0)]
                   /\ lastGood' = [lastGood EXCEPT ![r] = Entry(req[q].tier, 0)]
                   /\ req' = [req EXCEPT ![q].pc = "writing", ![q].age = 0]
              ELSE Answer(q) /\ UNCHANGED <<items, lastGood>>
    /\ UNCHANGED <<config, world, durable>>

\* SetLKG: best effort, the answer is the same when the store is down.
SetLKG(q) ==
    /\ req[q].pc = "writing"
    /\ IF up.store THEN durable' = Entry(req[q].tier, req[q].age) /\ landed' = TRUE
                   ELSE UNCHANGED <<durable, landed>>
    /\ Answer(q)
    /\ UNCHANGED <<config, billing, up, staleFor, downgraded, budget, items, lastGood, failureStreaks>>

\* Mutant of FromMemory: the last-known-good tier is cached again.
FromMemoryCached(q) ==
    /\ req[q].pc = "failed" /\ ttl > 0
    /\ IF LookupLastGood(lastGood[req[q].on])
       THEN /\ items' = [items EXCEPT ![req[q].on] = Entry(lastGood[req[q].on].tier, 0)]
            /\ Answer(q)
       ELSE Goto(q, "missing") /\ UNCHANGED items
    /\ UNCHANGED <<config, world, lastGood, durable, failureStreaks>>

\* The lookup failed: the replica's own last-known-good tier.
FromMemory(q) ==
    /\ req[q].pc = "failed"
    /\ \/ ttl = 0 /\ Fallback(q)
       \/ /\ ttl > 0 /\ UNCHANGED downgraded
          /\ IF LookupLastGood(lastGood[req[q].on]) THEN Answer(q) ELSE Goto(q, "missing")
    /\ UNCHANGED <<config, billing, up, staleFor, landed, budget, items, lastGood, durable, failureStreaks>>

\* Mutant of LookupDurableLastGood: only the process remembers.
LookupNothingDurable == FALSE

LookupDurableLastGood == up.store /\ LookupLastGood(durable)

\* GetLKG, then the default.
FromDurable(q) ==
    /\ req[q].pc = "missing"
    /\ IF LookupDurableLastGood
       THEN /\ req' = [req EXCEPT ![q].pc = "warming", ![q].tier = durable.tier, ![q].age = durable.age]
            /\ UNCHANGED downgraded
       ELSE Fallback(q)
    /\ UNCHANGED <<config, billing, up, staleFor, landed, budget, items, lastGood, durable, failureStreaks>>

\* The durable record warms the replica's own.
Warm(q) ==
    /\ req[q].pc = "warming"
    /\ lastGood' = [lastGood EXCEPT ![req[q].on] = Entry(req[q].tier, req[q].age)]
    /\ Answer(q)
    /\ UNCHANGED <<config, world, items, durable, failureStreaks>>

\* Invalidate leaves the last-known-good tier alone.
Invalidate(r) ==
    /\ items[r] # None
    /\ items' = [items EXCEPT ![r] = None]
    /\ UNCHANGED <<config, world, lastGood, durable, failureStreaks, req>>

-----------------------------------------------------------------------------
(* The environment *)

\* A new process: WithCache starts with empty maps, its requests are gone.
Restart(r) ==
    /\ budget.restarts > 0
    /\ budget' = [budget EXCEPT !.restarts = @ - 1]
    /\ items' = [items EXCEPT ![r] = None] /\ lastGood' = [lastGood EXCEPT ![r] = None]
    /\ failureStreaks' = [failureStreaks EXCEPT ![r] = 0]
    /\ req' = [q \in Requests |-> IF req[q].on = r THEN Idle ELSE req[q]]
    /\ UNCHANGED <<config, billing, up, staleFor, landed, downgraded, durable>>

ChangeTier ==
    /\ budget.changes > 0
    /\ budget' = [budget EXCEPT !.changes = @ - 1]
    /\ \E t \in Tiers \ {billing} : billing' = t /\ staleFor' = [staleFor EXCEPT ![t] = 0]
    /\ UNCHANGED <<config, up, landed, downgraded, items, lastGood, durable, failureStreaks, req>>

BillingFlips ==
    /\ up' = [up EXCEPT !.billing = ~@]
    /\ UNCHANGED <<config, billing, staleFor, landed, downgraded, budget, items, lastGood, durable, failureStreaks, req>>

\* Calls that meet a store outage are owed nothing.
StoreFlips ==
    /\ up' = [up EXCEPT !.store = ~@]
    /\ req' = [q \in Requests |-> [req[q] EXCEPT !.owed = FALSE]]
    /\ UNCHANGED <<config, billing, staleFor, landed, downgraded, budget, items, lastGood, durable, failureStreaks>>

Aged(e, cap) == IF e = None THEN None ELSE Entry(e.tier, Older(e.age, cap))

\* Time passes for every entry, and for the tiers calls carry; an answer of billing
\* arrives within FetchTimeout.
Tick ==
    /\ \A q \in Requests : req[q].pc = "fetched" => req[q].age < FetchTimeout
    /\ items' = [r \in Replicas |-> Aged(items[r], ttl)]
    /\ lastGood' = [r \in Replicas |-> Aged(lastGood[r], LkgCap)]
    /\ durable' = Aged(durable, LkgCap)
    /\ req' = [q \in Requests |->
                  [req[q] EXCEPT !.age =
                      CASE req[q].pc = "fetched" -> @ + 1
                        [] req[q].pc \in {"warming", "writing"} -> Older(@, LkgCap)
                        [] OTHER -> 0]]
    /\ staleFor' = [t \in Tiers |-> IF t = billing THEN 0 ELSE Older(staleFor[t], StaleCap)]
    /\ UNCHANGED <<config, billing, up, landed, downgraded, budget, failureStreaks>>

-----------------------------------------------------------------------------
(* Specification *)

Advance(q) == \/ Fetch(q) \/ FetchFails(q) \/ Store(q) \/ SetLKG(q)
              \/ FromMemory(q) \/ FromDurable(q) \/ Warm(q)

Next ==
    \/ \E q \in Requests : Advance(q) \/ \E r \in Replicas : Start(q, r)
    \/ \E r \in Replicas : Invalidate(r) \/ Restart(r)
    \/ ChangeTier \/ BillingFlips \/ StoreFlips \/ Tick

Spec == Init /\ [][Next]_vars

\* Calls return (the HTTP client has a timeout), time passes, and the service is in use
\* on every replica; strongly, since replicas share the calls that Requests bounds.
Fairness ==
    /\ \A q \in Requests : WF_vars(Advance(q))
    /\ \A r \in Replicas : SF_vars(\E q \in Requests : Start(q, r))
    /\ WF_vars(Tick)

FairSpec == Spec /\ Fairness

-----------------------------------------------------------------------------
(* Properties *)

\* What a lookup failure invents is never stored: every tier in a cache or in the
\* durable record is one billing assigned ("a fetch failure NEVER caches the DefaultTier
\* default", providers/cache.go GetTier).
NeverPoisoned ==
    \A e \in {items[r] : r \in Replicas} \cup {lastGood[r] : r \in Replicas} \cup {durable} :
        e # None => e.tier \in Tiers

\* An entry is no staler than its age says, up to the flight time of one lookup,
\* through slow answers, invalidations, warm-ups from the durable record and writes of
\* several replicas out of order.  Hence GetTier answers a fast entry at most
\* ttl + FetchTimeout after it was replaced at billing, and a last-known-good one at
\* most lkgMaxAge + FetchTimeout.
StalenessBounded ==
    /\ \A r \in Replicas : Fresh(items[r]) /\ items[r].tier \in Tiers =>
          staleFor[items[r].tier] <= items[r].age + FetchTimeout
    /\ \A e \in {lastGood[r] : r \in Replicas} \cup {durable} :
          e # None /\ e.tier \in Tiers /\ e.age < LkgCap => staleFor[e.tier] <= e.age + FetchTimeout

\* Once a lookup has landed in the durable record, no call that finds the store up is
\* answered the default or an error, on any replica and after any restart.
NeverDowngraded == ~downgraded

\* When billing stays up and stops changing the tier, every replica comes to answer it
\* and to keep it as its last-known-good tier.
Converges ==
    <>[]up.billing /\ ttl > 0 =>
        <>[](\A r \in Replicas : /\ Fresh(items[r]) => items[r].tier = billing
                                 /\ lastGood[r] # None /\ lastGood[r].tier = billing)

\* A billing outage that lasts is escalated again and again on every replica that is
\* asked, although the last-known-good tier hides it from the callers.
SustainedIsLoud ==
    <>[](~up.billing) => \A r \in Replicas : []<>(failureStreaks[r] = SustainedFailureThreshold)

=============================================================================

-------------------------- MODULE TierCache_proofs --------------------------
(***************************************************************************)
(* Proofs about the tier cache, for every set of replicas, calls and       *)
(* tiers, every TTL, last-known-good age, lookup timeout, number of        *)
(* changes of the tier and of restarts.                                    *)
(*                                                                         *)
(* What a cache stores came out of some call, so what holds of an entry    *)
(* (EntryGood) needs its counterpart about the tier a call carries between *)
(* two round trips (CallGood); and that a call is owed a known tier needs  *)
(* the record it rests on.                                                 *)
(***************************************************************************)
EXTENDS TierCache, TLAPS

-----------------------------------------------------------------------------
(* The inductive invariant *)

\* An entry holds a tier of billing's, no staler than its age says while that
\* age is measured.
EntryGood(e, cap) ==
    e # None => /\ e.tier \in Tiers
                /\ e.age < cap => staleFor[e.tier] <= e.age + FetchTimeout

CachesGood ==
    /\ \A r \in Replicas : EntryGood(items[r], ttl) /\ EntryGood(lastGood[r], LkgCap)
    /\ EntryGood(durable, LkgCap)

\* A call under way runs on a replica.  A tier on its way from billing is no
\* staler than its flight, one on its way between the caches no staler than
\* its age says.  A call is owed a known tier only while the durable record
\* can give it one.
CallGood(c) ==
    /\ c.pc # "idle" => c.on \in Replicas
    /\ c.pc = "fetched" => /\ c.tier \in Tiers
                           /\ c.age <= FetchTimeout
                           /\ staleFor[c.tier] <= c.age
    /\ c.pc \in {"warming", "writing"} =>
           /\ c.tier \in Tiers
           /\ c.age <= LkgCap
           /\ c.age < LkgCap => staleFor[c.tier] <= c.age + FetchTimeout
    /\ c.owed => landed /\ up.store /\ lkgMaxAge = 0 /\ ttl > 0

CallsGood == \A q \in Requests : CallGood(req[q])

TInv ==
    /\ TierTypeOK /\ CachesGood /\ CallsGood
    /\ staleFor[billing] = 0
    /\ landed => durable # None
    /\ NeverDowngraded

-----------------------------------------------------------------------------
(* Helpers *)

LEMMA CapsAreNaturals ==
    ASSUME TierTypeOK
    PROVE  ttl \in Nat /\ lkgMaxAge \in Nat /\ LkgCap \in Nat /\ StaleCap \in Nat
           /\ FetchTimeout \in Nat /\ LkgCap > 0
BY TimesAreNaturals DEF TierTypeOK, LkgCap, StaleCap

LEMMA AgesOfCalls ==
    ASSUME TierTypeOK
    PROVE  /\ 0 \in 0..(FetchTimeout + LkgCap)
           /\ \A a \in 0..LkgCap : a \in 0..(FetchTimeout + LkgCap)
BY CapsAreNaturals

\* An entry is never taken for the absence of one.
LEMMA EntryIsNotNone ==
    ASSUME NEW t \in Tiers, NEW a \in Nat
    PROVE  Entry(t, a) # None
BY NoneIsNoEntry DEF Entry

LEMMA EntryType ==
    ASSUME NEW t \in Tiers, NEW cap \in Nat, NEW a \in 0..cap
    PROVE  Entry(t, a) \in Entries(cap) /\ Entry(t, a).tier = t /\ Entry(t, a).age = a
BY DEF Entry, Entries

LEMMA OlderType ==
    ASSUME NEW cap \in Nat, NEW n \in 0..cap
    PROVE  /\ Older(n, cap) \in 0..cap
           /\ Older(n, cap) <= n + 1
           /\ Older(n, cap) < cap => n < cap /\ Older(n, cap) = n + 1
BY DEF Older

LEMMA IdleGood ==
    ASSUME TierTypeOK
    PROVE  Idle \in Calls /\ CallGood(Idle)
BY CapsAreNaturals DEF Idle, Calls, CallGood

\* The next streak is a streak.
LEMMA StreakType ==
    ASSUME NEW n \in 0..SustainedFailureThreshold
    PROVE  NextStreak(n) \in 0..SustainedFailureThreshold
BY TimesAreNaturals DEF NextStreak

\* A call moves on: config, billing, outages and staleness stay.
LEMMA CallStep ==
    ASSUME TInv, NEW q \in Requests, NEW c \in Calls, CallGood(c),
           req' = [req EXCEPT ![q] = c], landed => landed',
           UNCHANGED <<ttl, lkgMaxAge, billing, up, staleFor>>
    PROVE  req' \in [Requests -> Calls]' /\ CallsGood'
<1>1. \A p \in Requests : req'[p] = IF p = q THEN c ELSE req[p]
  BY DEF TInv, TierTypeOK
<1>2. \A p \in Requests : CallGood(req'[p])
  BY <1>1 DEF TInv, CallsGood
<1>3. CallsGood'
  BY <1>2 DEF CallsGood, CallGood, LkgCap
<1>4. req' \in [Requests -> Calls]
  BY DEF TInv, TierTypeOK
<1> QED
  BY <1>3, <1>4 DEF Calls, LkgCap

\* An entry that is stored is good when its tier and its age are.
LEMMA StoreEntry ==
    ASSUME NEW t \in Tiers, NEW cap \in Nat, NEW a \in 0..cap,
           a < cap => staleFor[t] <= a + FetchTimeout
    PROVE  EntryGood(Entry(t, a), cap)
BY EntryType DEF EntryGood

-----------------------------------------------------------------------------
(* The steps of a call *)

LEMMA InitTInv == Init => TInv
<1> SUFFICES ASSUME Init PROVE TInv
  OBVIOUS
<1>1. billing \in Tiers
  BY TiersAreNamed DEF Init
<1>2. ttl \in Nat /\ lkgMaxAge \in Nat /\ LkgCap \in Nat /\ StaleCap \in Nat
  BY TimesAreNaturals DEF Init, LkgCap, StaleCap
<1>3. TierTypeOK
  <2>1. 0 \in 0..(FetchTimeout + LkgCap) /\ 0 \in 0..StaleCap /\ StaleCap \in 0..StaleCap
        /\ 0 \in 0..SustainedFailureThreshold
    BY <1>2, TimesAreNaturals
  <2>2. staleFor \in [Tiers -> 0..StaleCap]
    BY <2>1 DEF Init
  <2>3. budget \in [changes : 0..MaxChanges, restarts : 0..MaxRestarts]
    BY TimesAreNaturals DEF Init
  <2>4. Idle \in Calls
    BY <2>1 DEF Idle, Calls
  <2>5. req \in [Requests -> Calls]
    BY <2>4 DEF Init
  <2> QED
    BY <1>1, <2>1, <2>2, <2>3, <2>5 DEF Init, TierTypeOK, Entries
<1>4. CachesGood
  BY DEF Init, CachesGood, EntryGood
<1>5. CallsGood
  BY <1>3, IdleGood DEF Init, CallsGood
<1> QED
  BY <1>1, <1>3, <1>4, <1>5 DEF Init, TInv, NeverDowngraded

\* A step of a call that leaves the caches and the record alone.
LEMMA CallOnly ==
    ASSUME TInv, NEW q \in Requests, NEW c \in Calls, CallGood(c),
           req' = [req EXCEPT ![q] = c],
           failureStreaks' \in [Replicas -> 0..SustainedFailureThreshold],
           UNCHANGED <<ttl, lkgMaxAge, billing, up, staleFor, landed, downgraded, budget>>,
           UNCHANGED <<items, lastGood, durable>>
    PROVE  TInv'
<1>1. req' \in [Requests -> Calls]' /\ CallsGood'
  BY CallStep
<1>2. TierTypeOK'
  BY <1>1 DEF TInv, TierTypeOK, Entries, LkgCap, StaleCap
<1>3. CachesGood'
  BY DEF TInv, CachesGood, EntryGood, LkgCap
<1> QED
  BY <1>1, <1>2, <1>3 DEF TInv, NeverDowngraded

LEMMA StartKeeps ==
    ASSUME TInv, NEW q \in Requests, NEW r \in Replicas, Start(q, r)
    PROVE  TInv'
<1> DEFINE o == landed /\ up.store /\ lkgMaxAge = 0 /\ ttl > 0
           c == [Idle EXCEPT !.pc = "fetching", !.on = r, !.owed = o]
<1>0. TierTypeOK
  BY DEF TInv
<1>1. o \in BOOLEAN
  OBVIOUS
<1>2. req' = [req EXCEPT ![q] = c]
  BY DEF Start
<1>3. o => landed /\ up.store /\ lkgMaxAge = 0 /\ ttl > 0
  OBVIOUS
<1> HIDE DEF o
<1>4. c \in Calls /\ c.pc = "fetching" /\ c.on = r /\ c.owed = o
  BY <1>0, <1>1, IdleGood DEF Idle, Calls
<1> HIDE DEF c
<1>5. CallGood(c)
  BY <1>3, <1>4 DEF CallGood
<1> QED
  BY <1>2, <1>4, <1>5, CallOnly DEF Start, TInv, TierTypeOK, config, world

LEMMA FetchKeeps ==
    ASSUME TInv, NEW q \in Requests, Fetch(q) \/ FetchFails(q)
    PROVE  TInv'
<1>0. TierTypeOK /\ req[q] \in Calls /\ CallGood(req[q])
  BY DEF TInv, TierTypeOK, CallsGood
<1>1. CASE Fetch(q)
  <2> DEFINE c == [req[q] EXCEPT !.pc = "fetched", !.tier = billing, !.age = 0]
  <2>1. req' = [req EXCEPT ![q] = c] /\ req[q].pc = "fetching"
    BY <1>0, <1>1 DEF Fetch, MeshReturned, TierTypeOK
  <2>2. c \in Calls /\ c.pc = "fetched" /\ c.on = req[q].on /\ c.tier = billing /\ c.age = 0
        /\ c.owed = req[q].owed
    <3>1. billing \in Tiers
      BY <1>0 DEF TierTypeOK
    <3> QED
      BY <1>0, <3>1, AgesOfCalls DEF Calls
  <2> HIDE DEF c
  <2>3. CallGood(c)
    BY <1>0, <2>1, <2>2, CapsAreNaturals DEF CallGood, TInv, TierTypeOK
  <2> QED
    BY <1>0, <1>1, <2>1, <2>2, <2>3, CallOnly DEF Fetch, TierTypeOK, config, world
<1>2. CASE FetchFails(q)
  <2> DEFINE c == [req[q] EXCEPT !.pc = "failed"]
  <2>1. req' = [req EXCEPT ![q] = c] /\ req[q].pc = "fetching"
    BY <1>0, <1>2 DEF FetchFails, Goto, TierTypeOK
  <2>2. c \in Calls /\ c.pc = "failed" /\ c.on = req[q].on /\ c.owed = req[q].owed
    BY <1>0 DEF Calls
  <2> HIDE DEF c
  <2>3. CallGood(c)
    BY <1>0, <2>1, <2>2 DEF CallGood
  <2>4. failureStreaks' \in [Replicas -> 0..SustainedFailureThreshold]
    BY <1>0, <1>2, <2>1, StreakType DEF FetchFails, TierTypeOK, CallGood
  <2> QED
    BY <1>2, <2>1, <2>2, <2>3, <2>4, CallOnly DEF FetchFails, config, world
<1> QED
  BY <1>1, <1>2

LEMMA AnswerKeeps ==
    ASSUME TInv, NEW q \in Requests, Answer(q),
           failureStreaks' \in [Replicas -> 0..SustainedFailureThreshold],
           UNCHANGED <<ttl, lkgMaxAge, billing, up, staleFor, landed, downgraded, budget>>,
           UNCHANGED <<items, lastGood, durable>>
    PROVE  TInv'
BY IdleGood, CallOnly DEF TInv, Answer

\* The lookup that succeeded reaches the fast entry and the last-known-good one.
LEMMA StoreKeeps ==
    ASSUME TInv, NEW q \in Requests, Store(q)
    PROVE  TInv'
<1>0. TierTypeOK /\ req[q] \in Calls /\ CallGood(req[q]) /\ CachesGood
  BY DEF TInv, TierTypeOK, CallsGood
<1>1. PICK r \in Replicas : r = req[q].on
  BY <1>0 DEF Store, CallGood
<1>2. failureStreaks' \in [Replicas -> 0..SustainedFailureThreshold]
  <2>1. failureStreaks' = [failureStreaks EXCEPT ![r] = 0]
    BY <1>1 DEF Store
  <2> QED
    BY <1>0, <2>1, TimesAreNaturals DEF TierTypeOK
<1>3. CASE ttl = 0
  BY <1>0, <1>2, <1>3, AnswerKeeps DEF Store, config, world
<1>4. CASE ttl > 0
  <2> DEFINE c == [req[q] EXCEPT !.pc = "writing", !.age = 0]
             t == req[q].tier
  <2>1. /\ t \in Tiers /\ req[q].age <= FetchTimeout /\ staleFor[t] <= req[q].age
        /\ req[q].age \in Nat /\ staleFor[t] \in Nat
    BY <1>0, CapsAreNaturals DEF Store, CallGood, Calls, TierTypeOK
  <2>2. /\ req' = [req EXCEPT ![q] = c]
        /\ items' = [items EXCEPT ![r] = Entry(t, 0)]
        /\ lastGood' = [lastGood EXCEPT ![r] = Entry(t, 0)]
    BY <1>0, <1>1, <1>4 DEF Store, TierTypeOK
  <2>3. c \in Calls /\ c.pc = "writing" /\ c.on = r /\ c.tier = t /\ c.age = 0 /\ c.owed = req[q].owed
    BY <1>0, <1>1, AgesOfCalls DEF Calls
  <2>4. UNCHANGED <<ttl, lkgMaxAge, billing, up, staleFor, landed, downgraded, budget, durable>>
    BY DEF Store, config, world
  <2> HIDE DEF c, t
  <2>5. staleFor[t] <= 0 + FetchTimeout
    BY <2>1, CapsAreNaturals, <1>0
  <2>6. CallGood(c)
    BY <1>0, <2>1, <2>3, <2>5, CapsAreNaturals DEF CallGood
  <2>7. req' \in [Requests -> Calls]' /\ CallsGood'
    BY <2>2, <2>3, <2>4, <2>6, CallStep
  <2>8. /\ Entry(t, 0) \in Entries(ttl) /\ EntryGood(Entry(t, 0), ttl)
        /\ Entry(t, 0) \in Entries(LkgCap) /\ EntryGood(Entry(t, 0), LkgCap)
    BY <1>0, <2>1, <2>5, CapsAreNaturals, EntryType, StoreEntry
  <2>9. items' \in [Replicas -> Entries(ttl)] /\ lastGood' \in [Replicas -> Entries(LkgCap)]
    BY <1>0, <2>2, <2>8 DEF TierTypeOK
  <2>10. TierTypeOK'
    BY <1>0, <1>2, <2>4, <2>7, <2>9 DEF TierTypeOK, Entries, LkgCap, StaleCap
  <2>11. \A p \in Replicas : /\ items'[p] = IF p = r THEN Entry(t, 0) ELSE items[p]
                             /\ lastGood'[p] = IF p = r THEN Entry(t, 0) ELSE lastGood[p]
    BY <1>0, <2>2 DEF TierTypeOK
  <2>12. /\ \A p \in Replicas : EntryGood(items'[p], ttl) /\ EntryGood(lastGood'[p], LkgCap)
         /\ EntryGood(durable, LkgCap)
    BY <1>0, <2>8, <2>11 DEF CachesGood
  <2>13. CachesGood'
    BY <2>4, <2>12 DEF CachesGood, EntryGood, LkgCap
  <2> QED
    BY <2>4, <2>7, <2>10, <2>13 DEF TInv, NeverDowngraded
<1> QED
  BY <1>0, <1>3, <1>4, CapsAreNaturals

\* The durable record takes the age of the tier it is given.
LEMMA SetLKGKeeps ==
    ASSUME TInv, NEW q \in Requests, SetLKG(q)
    PROVE  TInv'
<1>0. TierTypeOK /\ req[q] \in Calls /\ CallGood(req[q]) /\ CachesGood
  BY DEF TInv, TierTypeOK, CallsGood
<1>1. CASE ~up.store
  BY <1>0, <1>1, AnswerKeeps DEF SetLKG, config, TierTypeOK
<1>2. CASE up.store
  <2> DEFINE e == Entry(req[q].tier, req[q].age)
  <2>1. /\ req[q].tier \in Tiers /\ req[q].age \in 0..LkgCap
        /\ req[q].age < LkgCap => staleFor[req[q].tier] <= req[q].age + FetchTimeout
    BY <1>0, CapsAreNaturals DEF SetLKG, CallGood, Calls
  <2>2. durable' = e /\ landed' = TRUE /\ Answer(q)
    BY <1>2 DEF SetLKG
  <2>3. UNCHANGED <<ttl, lkgMaxAge, billing, up, staleFor, downgraded, budget>>
        /\ UNCHANGED <<items, lastGood, failureStreaks>>
    BY DEF SetLKG, config
  <2>4. e \in Entries(LkgCap) /\ EntryGood(e, LkgCap) /\ e # None
    BY <1>0, <2>1, CapsAreNaturals, EntryType, EntryIsNotNone, StoreEntry
  <2> HIDE DEF e
  <2>5. req' \in [Requests -> Calls]' /\ CallsGood'
    BY <1>0, <2>2, <2>3, IdleGood, CallStep DEF Answer
  <2>6. TierTypeOK'
    BY <1>0, <2>2, <2>3, <2>4, <2>5 DEF TierTypeOK, Entries, LkgCap, StaleCap
  <2>7. CachesGood'
    BY <1>0, <2>2, <2>3, <2>4 DEF CachesGood, EntryGood, LkgCap
  <2> QED
    BY <2>2, <2>3, <2>4, <2>5, <2>6, <2>7 DEF TInv, NeverDowngraded
<1> QED
  BY <1>1, <1>2

\* A call that is owed a tier is never left with the default.
LEMMA FallbackKeeps ==
    ASSUME TInv, NEW q \in Requests, Fallback(q), ~req[q].owed,
           UNCHANGED <<ttl, lkgMaxAge, billing, up, staleFor, landed, budget>>,
           UNCHANGED <<items, lastGood, durable, failureStreaks>>
    PROVE  TInv'
<1>1. downgraded' = downgraded
  BY DEF Fallback, TInv, NeverDowngraded, TierTypeOK
<1> QED
  BY <1>1, AnswerKeeps DEF Fallback, TInv, TierTypeOK

LEMMA FromMemoryKeeps ==
    ASSUME TInv, NEW q \in Requests, FromMemory(q)
    PROVE  TInv'
<1>0. TierTypeOK /\ req[q] \in Calls /\ CallGood(req[q])
  BY DEF TInv, TierTypeOK, CallsGood
<1>1. UNCHANGED <<ttl, lkgMaxAge, billing, up, staleFor, landed, budget>>
      /\ UNCHANGED <<items, lastGood, durable, failureStreaks>>
  BY DEF FromMemory, config
<1>2. CASE ttl = 0 /\ Fallback(q)
  BY <1>0, <1>1, <1>2, FallbackKeeps DEF CallGood
<1>3. CASE Answer(q) /\ UNCHANGED downgraded
  BY <1>0, <1>1, <1>3, AnswerKeeps DEF TierTypeOK
<1>4. CASE Goto(q, "missing") /\ UNCHANGED downgraded
  <2> DEFINE c == [req[q] EXCEPT !.pc = "missing"]
  <2>1. req' = [req EXCEPT ![q] = c] /\ req[q].pc = "failed"
    BY <1>0, <1>4 DEF FromMemory, Goto, TierTypeOK
  <2>2. c \in Calls /\ c.pc = "missing" /\ c.on = req[q].on /\ c.owed = req[q].owed
    BY <1>0 DEF Calls
  <2> HIDE DEF c
  <2>3. CallGood(c)
    BY <1>0, <2>1, <2>2 DEF CallGood
  <2> QED
    BY <1>0, <1>1, <1>4, <2>1, <2>2, <2>3, CallOnly DEF TierTypeOK
<1> QED
  BY <1>2, <1>3, <1>4 DEF FromMemory

LEMMA FromDurableKeeps ==
    ASSUME TInv, NEW q \in Requests, FromDurable(q)
    PROVE  TInv'
<1>0. TierTypeOK /\ req[q] \in Calls /\ CallGood(req[q])
  BY DEF TInv, TierTypeOK, CallsGood
<1>1. UNCHANGED <<ttl, lkgMaxAge, billing, up, staleFor, landed, budget>>
      /\ UNCHANGED <<items, lastGood, durable, failureStreaks>>
  BY DEF FromDurable, config
<1>2. CASE LookupDurableLastGood
  <2> DEFINE c == [req[q] EXCEPT !.pc = "warming", !.tier = durable.tier, !.age = durable.age]
  <2>1. durable # None /\ EntryGood(durable, LkgCap) /\ durable \in Entries(LkgCap)
    BY <1>0, <1>2 DEF LookupDurableLastGood, LookupLastGood, TInv, CachesGood, TierTypeOK
  <2>2. durable.tier \in Tiers /\ durable.age \in 0..LkgCap
    BY <2>1 DEF EntryGood, Entries
  <2>3. req' = [req EXCEPT ![q] = c] /\ downgraded' = downgraded /\ req[q].pc = "missing"
    BY <1>0, <1>2 DEF FromDurable, TierTypeOK
  <2>4. c \in Calls /\ c.pc = "warming" /\ c.on = req[q].on /\ c.tier = durable.tier
        /\ c.age = durable.age /\ c.owed = req[q].owed
    BY <1>0, <2>2, AgesOfCalls DEF Calls
  <2> HIDE DEF c
  <2>5. CallGood(c)
    BY <1>0, <2>1, <2>2, <2>3, <2>4 DEF CallGood, EntryGood
  <2> QED
    BY <1>0, <1>1, <2>3, <2>4, <2>5, CallOnly DEF TierTypeOK
<1>3. CASE ~LookupDurableLastGood
  <2>1. ~req[q].owed
    BY <1>0, <1>3 DEF CallGood, TInv, LookupDurableLastGood, LookupLastGood
  <2> QED
    BY <1>1, <1>3, <2>1, FallbackKeeps DEF FromDurable
<1> QED
  BY <1>2, <1>3

LEMMA WarmKeeps ==
    ASSUME TInv, NEW q \in Requests, Warm(q)
    PROVE  TInv'
<1> DEFINE e == Entry(req[q].tier, req[q].age)
<1>0. TierTypeOK /\ req[q] \in Calls /\ CallGood(req[q]) /\ CachesGood
  BY DEF TInv, TierTypeOK, CallsGood
<1>1. PICK r \in Replicas : r = req[q].on
  BY <1>0 DEF Warm, CallGood
<1>2. /\ req[q].tier \in Tiers /\ req[q].age \in 0..LkgCap
      /\ req[q].age < LkgCap => staleFor[req[q].tier] <= req[q].age + FetchTimeout
  BY <1>0, CapsAreNaturals DEF Warm, CallGood, Calls
<1>3. lastGood' = [lastGood EXCEPT ![r] = e] /\ Answer(q)
  BY <1>1 DEF Warm
<1>4. UNCHANGED <<ttl, lkgMaxAge, billing, up, staleFor, landed, downgraded, budget>>
      /\ UNCHANGED <<items, durable, failureStreaks>>
  BY DEF Warm, config, world
<1>5. e \in Entries(LkgCap) /\ EntryGood(e, LkgCap)
  BY <1>0, <1>2, CapsAreNaturals, EntryType, StoreEntry
<1> HIDE DEF e
<1>6. req' \in [Requests -> Calls]' /\ CallsGood'
  BY <1>0, <1>3, <1>4, IdleGood, CallStep DEF Answer
<1>7. TierTypeOK'
  BY <1>0, <1>3, <1>4, <1>5, <1>6 DEF TierTypeOK, Entries, LkgCap, StaleCap
<1>8. \A p \in Replicas : lastGood'[p] = IF p = r THEN e ELSE lastGood[p]
  BY <1>0, <1>3 DEF TierTypeOK
<1>9. \A p \in Replicas : EntryGood(lastGood'[p], LkgCap)
  BY <1>0, <1>5, <1>8 DEF CachesGood
<1>10. CachesGood'
  BY <1>0, <1>4, <1>9 DEF CachesGood, EntryGood, LkgCap
<1> QED
  BY <1>4, <1>6, <1>7, <1>10 DEF TInv, NeverDowngraded

-----------------------------------------------------------------------------
(* The environment *)

LEMMA InvalidateKeeps ==
    ASSUME TInv, NEW r \in Replicas, Invalidate(r)
    PROVE  TInv'
<1>0. TierTypeOK /\ CachesGood /\ CallsGood
  BY DEF TInv
<1>1. items' = [items EXCEPT ![r] = None]
  BY DEF Invalidate
<1>2. UNCHANGED <<ttl, lkgMaxAge, billing, up, staleFor, landed, downgraded, budget>>
      /\ UNCHANGED <<lastGood, durable, failureStreaks, req>>
  BY DEF Invalidate, config, world
<1>3. items' \in [Replicas -> Entries(ttl)]
  BY <1>0, <1>1 DEF TierTypeOK, Entries
<1>4. TierTypeOK'
  BY <1>0, <1>2, <1>3 DEF TierTypeOK, Entries, LkgCap, StaleCap, Calls
<1>5. \A p \in Replicas : items'[p] \in {items[p], None}
  BY <1>0, <1>1 DEF TierTypeOK
<1>6. CachesGood'
  BY <1>0, <1>2, <1>5 DEF CachesGood, EntryGood, LkgCap
<1>7. CallsGood'
  BY <1>0, <1>2 DEF CallsGood, CallGood, LkgCap
<1> QED
  BY <1>2, <1>4, <1>6, <1>7 DEF TInv, NeverDowngraded

LEMMA RestartKeeps ==
    ASSUME TInv, NEW r \in Replicas, Restart(r)
    PROVE  TInv'
<1>0. TierTypeOK /\ CachesGood /\ CallsGood
  BY DEF TInv
<1>1. /\ items' = [items EXCEPT ![r] = None] /\ lastGood' = [lastGood EXCEPT ![r] = None]
      /\ failureStreaks' = [failureStreaks EXCEPT ![r] = 0]
      /\ req' = [q \in Requests |-> IF req[q].on = r THEN Idle ELSE req[q]]
  BY DEF Restart
<1>2. UNCHANGED <<ttl, lkgMaxAge, billing, up, staleFor, landed, downgraded, durable>>
  BY DEF Restart, config
<1>3. items' \in [Replicas -> Entries(ttl)] /\ lastGood' \in [Replicas -> Entries(LkgCap)]
  BY <1>0, <1>1 DEF TierTypeOK, Entries
<1>4. failureStreaks' \in [Replicas -> 0..SustainedFailureThreshold]
  BY <1>0, <1>1, TimesAreNaturals DEF TierTypeOK
<1>5. budget' \in [changes : 0..MaxChanges, restarts : 0..MaxRestarts]
  BY <1>0, TimesAreNaturals DEF Restart, TierTypeOK
<1>6. req' \in [Requests -> Calls]
  BY <1>0, <1>1, IdleGood DEF TierTypeOK
<1>7. TierTypeOK'
  BY <1>0, <1>2, <1>3, <1>4, <1>5, <1>6 DEF TierTypeOK, Entries, LkgCap, StaleCap, Calls
<1>8. \A p \in Replicas : items'[p] \in {items[p], None} /\ lastGood'[p] \in {lastGood[p], None}
  BY <1>0, <1>1 DEF TierTypeOK
<1>9. CachesGood'
  BY <1>0, <1>2, <1>8 DEF CachesGood, EntryGood, LkgCap
<1>10. \A q \in Requests : CallGood(req'[q])
  BY <1>0, <1>1, IdleGood DEF CallsGood
<1>11. CallsGood'
  BY <1>2, <1>10 DEF CallsGood, CallGood, LkgCap
<1> QED
  BY <1>2, <1>7, <1>9, <1>11 DEF TInv, NeverDowngraded

\* A change at billing makes no stored tier staler: staleness only starts to run.
LEMMA ChangeTierKeeps ==
    ASSUME TInv, ChangeTier
    PROVE  TInv'
<1>0. TierTypeOK /\ CachesGood /\ CallsGood
  BY DEF TInv
<1>1. PICK t \in Tiers : billing' = t /\ staleFor' = [staleFor EXCEPT ![t] = 0]
  BY DEF ChangeTier
<1>2. UNCHANGED <<ttl, lkgMaxAge, up, landed, downgraded, items, lastGood, durable, failureStreaks, req>>
  BY DEF ChangeTier, config
<1>3. budget' \in [changes : 0..MaxChanges, restarts : 0..MaxRestarts]
  BY <1>0, TimesAreNaturals DEF ChangeTier, TierTypeOK
<1>4. staleFor' \in [Tiers -> 0..StaleCap]
  <2>1. 0 \in 0..StaleCap
    BY <1>0, CapsAreNaturals
  <2> QED
    BY <1>0, <1>1, <2>1 DEF TierTypeOK
<1>5. TierTypeOK'
  BY <1>0, <1>1, <1>2, <1>3, <1>4 DEF TierTypeOK, Entries, LkgCap, StaleCap, Calls
<1>6. \A x \in Tiers : staleFor[x] \in Nat /\ staleFor'[x] \in Nat /\ staleFor'[x] <= staleFor[x]
  BY <1>0, <1>1, CapsAreNaturals DEF TierTypeOK
<1>7. staleFor'[billing'] = 0
  BY <1>0, <1>1 DEF TierTypeOK
<1>8. ASSUME NEW e, NEW cap \in Nat, e \in Entries(cap), EntryGood(e, cap)
      PROVE  e # None => e.tier \in Tiers
                         /\ (e.age < cap => staleFor'[e.tier] <= e.age + FetchTimeout)
  <2>1. e # None => e.age \in Nat
    BY <1>8 DEF Entries
  <2> QED
    BY <1>0, <1>6, <1>8, <2>1, CapsAreNaturals DEF EntryGood
<1>9. CachesGood'
  <2>1. /\ \A r \in Replicas : items[r] \in Entries(ttl) /\ lastGood[r] \in Entries(LkgCap)
        /\ durable \in Entries(LkgCap)
    BY <1>0 DEF TierTypeOK
  <2> QED
    BY <1>0, <1>2, <1>8, <2>1, CapsAreNaturals DEF CachesGood, EntryGood, LkgCap
<1>10. ASSUME NEW q \in Requests PROVE CallGood(req[q])'
  <2>1. req[q] \in Calls /\ CallGood(req[q]) /\ req'[q] = req[q]
    BY <1>0, <1>2 DEF TierTypeOK, CallsGood
  <2>2. req[q].age \in Nat
    BY <1>0, <2>1, CapsAreNaturals DEF Calls
  <2> QED
    BY <1>0, <1>2, <1>6, <2>1, <2>2, CapsAreNaturals DEF CallGood, LkgCap
<1> QED
  BY <1>2, <1>5, <1>7, <1>9, <1>10 DEF TInv, NeverDowngraded, CallsGood

LEMMA FlipKeeps ==
    ASSUME TInv, BillingFlips \/ StoreFlips
    PROVE  TInv'
<1>0. TierTypeOK /\ CachesGood /\ CallsGood
  BY DEF TInv
<1>1. UNCHANGED <<ttl, lkgMaxAge, billing, staleFor, landed, downgraded, budget>>
      /\ UNCHANGED <<items, lastGood, durable, failureStreaks>>
  BY DEF BillingFlips, StoreFlips, config
<1>2. up' \in [billing : BOOLEAN, store : BOOLEAN]
  BY <1>0 DEF BillingFlips, StoreFlips, TierTypeOK
<1>3. CachesGood'
  BY <1>0, <1>1 DEF CachesGood, EntryGood, LkgCap
<1>4. req' \in [Requests -> Calls] /\ CallsGood'
  <2>1. CASE BillingFlips
    <3>1. up'.store = up.store /\ req' = req
      BY <1>0, <2>1 DEF BillingFlips, TierTypeOK
    <3> QED
      BY <1>0, <1>1, <3>1 DEF CallsGood, CallGood, LkgCap, TierTypeOK
  <2>2. CASE StoreFlips
    <3>1. req' = [q \in Requests |-> [req[q] EXCEPT !.owed = FALSE]]
      BY <2>2 DEF StoreFlips
    <3>2. ASSUME NEW q \in Requests
          PROVE  /\ req'[q] \in Calls /\ ~req'[q].owed /\ req'[q].pc = req[q].pc
                 /\ req'[q].on = req[q].on /\ req'[q].tier = req[q].tier
                 /\ req'[q].age = req[q].age
      <4>1. req[q] \in Calls
        BY <1>0 DEF TierTypeOK
      <4> QED
        BY <3>1, <4>1 DEF Calls
    <3>3. req' \in [Requests -> Calls]
      BY <3>1, <3>2
    <3> QED
      BY <1>0, <1>1, <3>2, <3>3 DEF CallsGood, CallGood, LkgCap
  <2> QED
    BY <2>1, <2>2
<1>5. TierTypeOK'
  BY <1>0, <1>1, <1>2, <1>4 DEF TierTypeOK, Entries, LkgCap, StaleCap, Calls
<1> QED
  BY <1>1, <1>3, <1>4, <1>5 DEF TInv, NeverDowngraded

\* Time makes a tier staler by one tick at most, and the entry older by one.
LEMMA AgedGood ==
    ASSUME TInv, Tick, NEW cap \in Nat, NEW e \in Entries(cap), EntryGood(e, cap)
    PROVE  /\ Aged(e, cap) \in Entries(cap)
           /\ Aged(e, cap) # None =>
                 /\ Aged(e, cap).tier \in Tiers
                 /\ Aged(e, cap).age < cap =>
                       staleFor'[Aged(e, cap).tier] <= Aged(e, cap).age + FetchTimeout
           /\ e # None => Aged(e, cap) # None
<1>0. TierTypeOK
  BY DEF TInv
<1>1. CASE e = None
  BY <1>1 DEF Aged
<1>2. CASE e # None
  <2> DEFINE a == Older(e.age, cap)
  <2>1. e.tier \in Tiers /\ e.age \in 0..cap
    BY <1>2 DEF EntryGood, Entries
  <2>2. a \in 0..cap /\ (a < cap => e.age < cap /\ a = e.age + 1)
    BY <2>1, OlderType
  <2>3. Aged(e, cap) = Entry(e.tier, a)
    BY <1>2 DEF Aged
  <2> HIDE DEF a
  <2>4. Entry(e.tier, a) \in Entries(cap) /\ Entry(e.tier, a).tier = e.tier /\ Entry(e.tier, a).age = a
    BY <2>1, <2>2, EntryType
  <2>5. Entry(e.tier, a) # None
    BY <2>1, <2>2, EntryIsNotNone
  <2>6. /\ staleFor[e.tier] \in 0..StaleCap /\ StaleCap \in Nat
        /\ staleFor'[e.tier] = IF e.tier = billing THEN 0 ELSE Older(staleFor[e.tier], StaleCap)
    BY <1>0, <2>1, CapsAreNaturals DEF Tick, TierTypeOK
  <2>7. staleFor'[e.tier] <= staleFor[e.tier] + 1 /\ staleFor'[e.tier] \in Nat
    BY <2>6, OlderType
  <2>8. a < cap => staleFor[e.tier] <= e.age + FetchTimeout
    BY <1>2, <2>2 DEF EntryGood
  <2>9. a < cap => staleFor'[e.tier] <= a + FetchTimeout
    BY <1>0, <2>1, <2>2, <2>6, <2>7, <2>8, CapsAreNaturals
  <2> QED
    BY <2>1, <2>3, <2>4, <2>5, <2>9
<1> QED
  BY <1>1, <1>2

LEMMA AgedCall ==
    ASSUME TInv, Tick, NEW q \in Requests
    PROVE  req'[q] \in Calls /\ CallGood(req[q])'
<1>0. TierTypeOK /\ req[q] \in Calls /\ CallGood(req[q])
  BY DEF TInv, TierTypeOK, CallsGood
<1>1. PICK a : /\ req'[q] = [req[q] EXCEPT !.age = a]
               /\ a = CASE req[q].pc = "fetched" -> req[q].age + 1
                        [] req[q].pc \in {"warming", "writing"} -> Older(req[q].age, LkgCap)
                        [] OTHER -> 0
  BY DEF Tick
<1>2. req[q].age \in Nat /\ LkgCap \in Nat /\ FetchTimeout \in Nat /\ StaleCap \in Nat
  BY <1>0, CapsAreNaturals DEF Calls
<1>3. ASSUME NEW t \in Tiers
      PROVE  staleFor[t] \in Nat /\ staleFor'[t] \in Nat /\ staleFor'[t] <= staleFor[t] + 1
  <2>1. /\ staleFor[t] \in 0..StaleCap
        /\ staleFor'[t] = IF t = billing THEN 0 ELSE Older(staleFor[t], StaleCap)
    BY <1>0 DEF Tick, TierTypeOK
  <2>2. /\ Older(staleFor[t], StaleCap) \in 0..StaleCap
        /\ Older(staleFor[t], StaleCap) <= staleFor[t] + 1
    BY <1>2, <2>1, OlderType
  <2> QED
    BY <1>2, <2>1, <2>2
<1>4. req[q].pc = "fetched" => a = req[q].age + 1 /\ req[q].age < FetchTimeout
  BY <1>1 DEF Tick
<1>5. req[q].pc \in {"warming", "writing"} =>
          a \in 0..LkgCap /\ (a < LkgCap => req[q].age < LkgCap /\ a = req[q].age + 1)
  <2> SUFFICES ASSUME req[q].pc \in {"warming", "writing"}
               PROVE  a \in 0..LkgCap /\ (a < LkgCap => req[q].age < LkgCap /\ a = req[q].age + 1)
    OBVIOUS
  <2>1. a = Older(req[q].age, LkgCap)
    BY <1>1
  <2>2. req[q].age \in 0..LkgCap
    BY <1>0, <1>2 DEF CallGood
  <2> QED
    BY <1>2, <2>1, <2>2, OlderType
<1>6. req[q].pc \notin {"fetched", "warming", "writing"} => a = 0
  BY <1>1
<1>7. a \in 0..(FetchTimeout + LkgCap)
  BY <1>2, <1>4, <1>5, <1>6
<1>8. /\ req'[q] \in Calls /\ req'[q].pc = req[q].pc /\ req'[q].on = req[q].on
      /\ req'[q].tier = req[q].tier /\ req'[q].age = a /\ req'[q].owed = req[q].owed
  BY <1>0, <1>1, <1>7 DEF Calls
<1>9. ASSUME req[q].pc = "fetched"
      PROVE  req[q].tier \in Tiers /\ a <= FetchTimeout /\ staleFor'[req[q].tier] <= a
  BY <1>0, <1>2, <1>3, <1>4, <1>9 DEF CallGood
<1>10. ASSUME req[q].pc \in {"warming", "writing"}
       PROVE  /\ req[q].tier \in Tiers /\ a <= LkgCap
              /\ a < LkgCap => staleFor'[req[q].tier] <= a + FetchTimeout
  <2>1. req[q].tier \in Tiers
    BY <1>0, <1>10 DEF CallGood
  <2>2. req[q].age < LkgCap => staleFor[req[q].tier] <= req[q].age + FetchTimeout
    BY <1>0, <1>10 DEF CallGood
  <2> QED
    BY <1>2, <1>3, <1>5, <1>10, <2>1, <2>2
<1>11. UNCHANGED <<ttl, lkgMaxAge, up, landed>>
  BY DEF Tick, config
<1> QED
  BY <1>0, <1>8, <1>9, <1>10, <1>11 DEF CallGood, LkgCap

LEMMA TickKeeps ==
    ASSUME TInv, Tick
    PROVE  TInv'
<1>0. TierTypeOK /\ CachesGood /\ CallsGood
  BY DEF TInv
<1>1. UNCHANGED <<ttl, lkgMaxAge, billing, up, landed, downgraded, budget, failureStreaks>>
  BY DEF Tick, config
<1>2. /\ ttl \in Nat /\ LkgCap \in Nat /\ StaleCap \in Nat
      /\ \A r \in Replicas : items[r] \in Entries(ttl) /\ lastGood[r] \in Entries(LkgCap)
      /\ durable \in Entries(LkgCap)
  BY <1>0, CapsAreNaturals DEF TierTypeOK
<1>3. /\ items' = [r \in Replicas |-> Aged(items[r], ttl)]
      /\ lastGood' = [r \in Replicas |-> Aged(lastGood[r], LkgCap)]
      /\ durable' = Aged(durable, LkgCap)
  BY DEF Tick
<1>4. /\ items' \in [Replicas -> Entries(ttl)] /\ lastGood' \in [Replicas -> Entries(LkgCap)]
      /\ durable' \in Entries(LkgCap)
  BY <1>0, <1>2, <1>3, AgedGood DEF CachesGood
<1>5. staleFor' \in [Tiers -> 0..StaleCap]
  BY <1>0, <1>2, OlderType DEF Tick, TierTypeOK
<1>6. req' \in [Requests -> Calls]
  <2>1. req' = [q \in Requests |-> req'[q]]
    BY DEF Tick
  <2> QED
    BY <2>1, AgedCall
<1>7. TierTypeOK'
  BY <1>0, <1>1, <1>4, <1>5, <1>6 DEF TierTypeOK, Entries, LkgCap, StaleCap, Calls
<1>8. CachesGood'
  <2>1. LkgCap' = LkgCap
    BY <1>1 DEF LkgCap
  <2>2. ASSUME NEW r \in Replicas PROVE EntryGood(items[r], ttl)'
    <3>1. items'[r] = Aged(items[r], ttl) /\ EntryGood(items[r], ttl)
      BY <1>0, <1>3 DEF CachesGood
    <3> QED
      BY <1>1, <1>2, <3>1, AgedGood DEF EntryGood
  <2>3. ASSUME NEW r \in Replicas PROVE EntryGood(lastGood[r], LkgCap)'
    <3>1. lastGood'[r] = Aged(lastGood[r], LkgCap) /\ EntryGood(lastGood[r], LkgCap)
      BY <1>0, <1>3 DEF CachesGood
    <3> QED
      BY <1>2, <2>1, <3>1, AgedGood DEF EntryGood
  <2>4. EntryGood(durable, LkgCap)'
    <3>1. durable' = Aged(durable, LkgCap) /\ EntryGood(durable, LkgCap)
      BY <1>0, <1>3 DEF CachesGood
    <3> QED
      BY <1>2, <2>1, <3>1, AgedGood DEF EntryGood
  <2> QED
    BY <2>2, <2>3, <2>4 DEF CachesGood
<1>9. CallsGood'
  BY AgedCall DEF CallsGood
<1>10. staleFor'[billing'] = 0
  BY <1>0, <1>1 DEF Tick, TierTypeOK
<1>11. landed' => durable' # None
  BY <1>0, <1>1, <1>2, <1>3, AgedGood DEF TInv, CachesGood
<1> QED
  BY <1>1, <1>7, <1>8, <1>9, <1>10, <1>11 DEF TInv, NeverDowngraded

-----------------------------------------------------------------------------
(* Theorems *)

\* The inductive invariant of the tier cache holds in every reachable state.
THEOREM TierInductive == Spec => []TInv
<1>1. Init => TInv
  BY InitTInv
<1>2. TInv /\ [Next]_vars => TInv'
  <2> SUFFICES ASSUME TInv, [Next]_vars PROVE TInv'
    OBVIOUS
  <2>1. CASE Next
    BY <2>1, StartKeeps, FetchKeeps, StoreKeeps, SetLKGKeeps, FromMemoryKeeps, FromDurableKeeps,
       WarmKeeps, InvalidateKeeps, RestartKeeps, ChangeTierKeeps, FlipKeeps, TickKeeps
       DEF Next, Advance
  <2>2. CASE UNCHANGED vars
    BY <2>2 DEF vars, config, world, TInv, TierTypeOK, Entries, Calls, LkgCap, StaleCap,
                CachesGood, EntryGood, CallsGood, CallGood, NeverDowngraded
  <2> QED
    BY <2>1, <2>2
<1> QED
  BY <1>1, <1>2, PTL DEF Spec

\* Type correctness of the tier cache.
THEOREM TierTypeCorrect == Spec => []TierTypeOK
<1>1. TInv => TierTypeOK
  BY DEF TInv
<1> QED
  BY <1>1, TierInductive, PTL

\* No cache and no durable record ever holds a tier that billing did not assign.
THEOREM CacheNeverPoisoned == Spec => []NeverPoisoned
<1>1. TInv => NeverPoisoned
  BY DEF TInv, CachesGood, EntryGood, NeverPoisoned
<1> QED
  BY <1>1, TierInductive, PTL

\* An entry is never staler than its age and the flight of one lookup, for any
\* number of replicas writing the shared record out of order.
THEOREM StalenessIsBounded == Spec => []StalenessBounded
<1>1. TInv => StalenessBounded
  <2> SUFFICES ASSUME TInv PROVE StalenessBounded
    OBVIOUS
  <2>1. \A r \in Replicas : EntryGood(items[r], ttl) /\ EntryGood(lastGood[r], LkgCap)
    BY DEF TInv, CachesGood
  <2>2. EntryGood(durable, LkgCap)
    BY DEF TInv, CachesGood
  <2> QED
    BY <2>1, <2>2 DEF EntryGood, StalenessBounded, Fresh
<1> QED
  BY <1>1, TierInductive, PTL

\* Once a lookup has landed in the durable record, no call that finds the store
\* up gets the default or an error, on any replica and after any restarts.
THEOREM CallsNeverDowngraded == Spec => []NeverDowngraded
<1>1. TInv => NeverDowngraded
  BY DEF TInv
<1> QED
  BY <1>1, TierInductive, PTL

=============================================================================

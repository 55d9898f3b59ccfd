----------------------------- MODULE SelfHealing -----------------------------
(***************************************************************************)
(* The processes that force-set gauges, over the activation API of         *)
(* GaugeActivations:                                                       *)
(*   "loop"    the reconciler's background pass (reconcile/reconcile.go);  *)
(*   "recalc"  engine.ReconcileOrg, behind the "Recalculate usage" button  *)
(*             and MaybeReadRepair (engine/recount_20260810.go);           *)
(*   "recount" recount-before-deny inside Acquire (engine/activation.go).  *)
(* Each reads a truth (the ledger's open index or the consumer's observed- *)
(* usage provider), and later reads and overwrites the org gauges, one     *)
(* store round trip at a time.                                             *)
(*                                                                         *)
(* The reconciler only runs on the DynamoDB ledger, whose ListOpen reads   *)
(* the eventually consistent index GSI1.  Acquires that carry an           *)
(* idempotency key are left to GaugeActivations: a replay moves no gauge.  *)
(***************************************************************************)
EXTENDS GaugeActivations

CONSTANTS
    Healers,       \* goroutines that may run a healing pass
    KindsOf,       \* the kinds of pass each may run, one at a time
    Providers,     \* the possible ObservedUsageProviders: the resources one reports on
    NoProvider,    \* none is wired
    ProviderFails, \* TRUE: a call to it may fail or time out
    Foreign        \* TRUE: other replicas acquire too, and touch their own map only

Kinds == {"loop", "recalc", "recount"}

ASSUME HealersHaveKinds == KindsOf \in [Healers -> SUBSET Kinds]
ASSUME ProviderDeclared == /\ {ProviderFails, Foreign} \subseteq BOOLEAN
                           /\ \A p \in Providers : p = NoProvider \/ p \subseteq Resources

VARIABLES
    provider,   \* the ObservedUsageProvider, fixed at Setup; what it does not report is
                \* UNKNOWN (D-51)
    untouched,  \* acquires that have spent and not yet recorded their touch
    touched,    \* resources in the guard window of the reconciling replica
    index,      \* the activations GSI1 lists as open
    visible,    \* the activations whose resource the provider counts as live
    heal        \* the healing passes

healVars == <<provider, untouched, touched, index, visible, heal>>
allVars  == <<vars, healVars>>

Request == [id : Ids, bundle : SUBSET Resources, user : Users \cup {NoUser}]
NoRequest == [id |-> NoId, bundle |-> {}, user |-> NoUser]

\* A count per resource; Unknown where the source made no observation.
Unknown == -1
Counts  == [Resources -> Nat \cup {Unknown}]
NoCounts == [r \in Resources |-> Unknown]

Wired == provider # NoProvider

\* ledger: the open activations per resource, as listed; truth: the count per
\* resource the pass learnt about, which it converges to; left: the resources
\* still to visit; at: the one being converged.
Pass == [pc : {"idle", "observe", "visit", "read", "set", "retry", "uncapped"},
         kind : Kinds \cup {"none"}, ledger : Counts, truth : Counts, left : SUBSET Resources,
         at : SUBSET Resources, repaired : BOOLEAN, req : Request \cup {NoRequest}]

NoPass == [pc |-> "idle", kind |-> "none", ledger |-> NoCounts, truth |-> NoCounts,
           left |-> {}, at |-> {}, repaired |-> FALSE, req |-> NoRequest]

HealTypeOK ==
    /\ TypeOK
    /\ provider \in Providers
    /\ untouched \subseteq Ids
    /\ touched \subseteq Resources
    /\ index \subseteq Ids
    /\ visible \subseteq Ids
    /\ heal \in [Healers -> Pass]

HealInit ==
    /\ Init
    /\ provider \in Providers
    /\ untouched = {} /\ touched = {} /\ index = {} /\ visible = {}
    /\ heal = [h \in Healers |-> NoPass]

-----------------------------------------------------------------------------
(* The activation API, with the touch that Acquire records after its spend *)

\* An id a recounting request will use is not minted by another.
Unclaimed(i) == \A h \in Healers : heal[h].req.id # i

AcquireAndTouchLater(i, b, u) ==
    /\ Unclaimed(i)
    /\ Acquire(i, b, u, NoKey)
    /\ untouched' = untouched \cup {i}
    /\ UNCHANGED <<provider, touched, index, visible, heal>>

\* recordTouch for every gauge of the bundle, before PutOpen.  An acquire on
\* another replica leaves the reconciling replica's map alone.
RecordTouch(i) ==
    /\ i \in untouched
    /\ untouched' = untouched \ {i}
    /\ \E here \in (IF Foreign THEN BOOLEAN ELSE {TRUE}) :
          touched' = IF here THEN touched \cup row[i].bundle ELSE touched
    /\ UNCHANGED <<vars, provider, index, visible, heal>>

PutOpenTouched(i) ==
    /\ i \notin untouched
    /\ PutOpen(i)
    /\ UNCHANGED healVars

LoseAcquire(i) ==
    /\ Lose(i)
    /\ untouched' = untouched \ {i}
    /\ UNCHANGED <<provider, touched, index, visible, heal>>

\* The 120 s guard window of a resource passes.  It is long against an Acquire
\* in flight, the lag of the index and the lag of the provider.
ExpireTouch(r) ==
    /\ r \in touched
    /\ \A i \in Ids : r \in row[i].bundle =>
           /\ row[i].phase # "spent"
           /\ row[i].phase = "open" => i \in index /\ (Wired => i \in visible)
    /\ touched' = touched \ {r}
    /\ UNCHANGED <<vars, provider, untouched, index, visible, heal>>

\* ReleaseActivation and Settle record no touch.
ReleaseOrSettle ==
    /\ \/ \E i \in Ids : MarkReleased(i) \/ AbortRelease(i)
       \/ \E i \in Ids, r \in Resources : ReleaseOrg(i, r) \/ ReleaseUser(i, r)
       \/ \E s \in Settlers, i \in Ids, c \in Costs : SettleFirst(s, i, c)
       \/ \E s \in Settlers : SettleSecond(s) \/ SettleReport(s) \/ AbortSettle(s)
    /\ UNCHANGED healVars

-----------------------------------------------------------------------------
(* External: the index of the ledger and the consumer's product state *)

\* GSI1 catches up with the row of i.
Propagate(i) ==
    /\ index' = IF row[i].phase = "open" THEN index \cup {i} ELSE index \ {i}
    /\ index' # index
    /\ UNCHANGED <<vars, provider, untouched, touched, visible, heal>>

\* The caller provisions after Acquire admitted it and the provider sees the
\* resource some time later; the resource goes away after it is released.
ProviderSees(i) ==
    /\ Wired
    /\ visible' = IF row[i].phase = "open" THEN visible \cup {i} ELSE visible \ {i}
    /\ visible' # visible
    /\ UNCHANGED <<vars, provider, untouched, touched, index, heal>>

CountOn(S, r) == Cardinality({i \in S : r \in row[i].bundle})

\* Mutant: a resource the provider does not report is read as zero live.
ObservedUsageOrZero ==
    [r \in Resources |-> IF r \in provider THEN CountOn(visible, r) ELSE 0]

ObservedUsage ==
    [r \in Resources |-> IF r \in provider THEN CountOn(visible, r) ELSE Unknown]

-----------------------------------------------------------------------------
(* The healing passes *)

HealStep(h, pass) == heal' = [heal EXCEPT ![h] = pass]

\* The loop's pass: ListOpen, summed per resource.
BeginLoop(h) ==
    /\ "loop" \in KindsOf[h]
    /\ heal[h].pc = "idle"
    /\ LET opens == [r \in Resources |-> CountOn(index, r)]
       IN  HealStep(h, [NoPass EXCEPT !.pc = IF Wired THEN "observe" ELSE "visit",
                                      !.kind = "loop", !.ledger = opens,
                                      !.truth = IF Wired THEN NoCounts ELSE opens,
                                      !.left = Resources])
    /\ UNCHANGED <<vars, provider, untouched, touched, index, visible>>

\* engine.ReconcileOrg: without a provider there is no truth source and it ends.
BeginRecalc(h) ==
    /\ "recalc" \in KindsOf[h] /\ Wired
    /\ heal[h].pc = "idle"
    /\ HealStep(h, [NoPass EXCEPT !.pc = "observe", !.kind = "recalc", !.left = Resources])
    /\ UNCHANGED <<vars, provider, untouched, touched, index, visible>>

\* An Acquire whose script denied it: with a provider wired and limits enforced
\* it verifies the gauges of its bundle before it answers.
BeginRecount(h, i, b, u) ==
    /\ "recount" \in KindsOf[h] /\ Wired
    /\ heal[h].pc = "idle"
    /\ mode = "enforce"
    /\ row[i].phase = "unminted" /\ Unclaimed(i)
    /\ ~Admits(b, u)
    /\ HealStep(h, [NoPass EXCEPT !.pc = "observe", !.kind = "recount", !.left = b,
                                  !.req = [id |-> i, bundle |-> b, user |-> u]])
    /\ UNCHANGED <<vars, provider, untouched, touched, index, visible>>

\* The provider answers for the whole org in one call.
Observe(h) ==
    /\ heal[h].pc = "observe"
    /\ HealStep(h, [heal[h] EXCEPT !.pc = "visit", !.truth = ObservedUsage])
    /\ UNCHANGED <<vars, provider, untouched, touched, index, visible>>

\* The provider is unreachable.  The loop and recalc set nothing (D-31); the
\* recount fails open and retries its spend without limits.
ObserveFails(h) ==
    /\ ProviderFails
    /\ heal[h].pc = "observe"
    /\ HealStep(h, IF heal[h].kind = "recount" THEN [heal[h] EXCEPT !.pc = "uncapped"]
                   ELSE NoPass)
    /\ UNCHANGED <<vars, provider, untouched, touched, index, visible>>

\* The loop skips a resource in the guard window; every kind skips one the
\* provider made no observation of.
MustSkip(h, r) ==
    \/ heal[h].kind = "loop" /\ r \in touched
    \/ heal[h].truth[r] = Unknown

\* The next resource of the pass: skipped, or converged in the steps below.
Visit(h, r) ==
    /\ heal[h].pc = "visit"
    /\ r \in heal[h].left
    /\ HealStep(h, IF MustSkip(h, r) THEN [heal[h] EXCEPT !.left = @ \ {r}]
                   ELSE [heal[h] EXCEPT !.left = @ \ {r}, !.pc = "read", !.at = {r}])
    /\ UNCHANGED <<vars, provider, untouched, touched, index, visible>>

\* Usage the ledger does not know of: the loop sets the gauge and alerts even
\* when the gauge agrees with the provider.
Unsettleable(h, r) == heal[h].kind = "loop" /\ heal[h].truth[r] > heal[h].ledger[r]

\* The gauge of r is taken to be cur: the pass moves on, or force-sets it.
Compare(h, r, cur) ==
    HealStep(h, IF cur = heal[h].truth[r] /\ ~Unsettleable(h, r)
                THEN [heal[h] EXCEPT !.pc = "visit", !.at = {}]
                ELSE [heal[h] EXCEPT !.pc = "set"])

\* Mutant: a gauge above the truth is taken for activity not yet recorded.
ReadGaugeRaiseOnly(h) ==
    /\ heal[h].pc = "read"
    /\ \A r \in heal[h].at :
          HealStep(h, IF org[r] >= heal[h].truth[r]
                      THEN [heal[h] EXCEPT !.pc = "visit", !.at = {}]
                      ELSE [heal[h] EXCEPT !.pc = "set"])
    /\ UNCHANGED <<vars, provider, untouched, touched, index, visible>>

\* GetFloat, and the comparison with the truth read before.
ReadGauge(h) ==
    /\ heal[h].pc = "read"
    /\ \A r \in heal[h].at : Compare(h, r, org[r])
    /\ UNCHANGED <<vars, provider, untouched, touched, index, visible>>

\* GetFloat fails: a recalc ends; the loop and the recount ignore the error and
\* go by the 0 that came with it.
ReadFails(h) ==
    /\ Faults
    /\ heal[h].pc = "read"
    /\ IF heal[h].kind = "recalc" THEN HealStep(h, NoPass)
       ELSE \A r \in heal[h].at : Compare(h, r, 0)
    /\ UNCHANGED <<vars, provider, untouched, touched, index, visible>>

\* Set: the gauge is overwritten, whatever happened to it since it was read.
\* Only the org gauge: the per-user ones are never healed.
SetGauge(h) ==
    /\ heal[h].pc = "set"
    /\ org' = [r \in Resources |-> IF r \in heal[h].at THEN heal[h].truth[r] ELSE org[r]]
    /\ HealStep(h, [heal[h] EXCEPT !.pc = "visit", !.at = {}, !.repaired = TRUE])
    /\ UNCHANGED <<mode, usr, latch, row, todo, units, settler, replayed,
                   provider, untouched, touched, index, visible>>

\* A failed Set ends the loop's pass and recalc; the recount goes on.
SetFails(h) ==
    /\ Faults
    /\ heal[h].pc = "set"
    /\ HealStep(h, IF heal[h].kind = "recount"
                   THEN [heal[h] EXCEPT !.pc = "visit", !.at = {}] ELSE NoPass)
    /\ UNCHANGED <<vars, provider, untouched, touched, index, visible>>

\* The pass is over.  A recount that repaired something retries its spend; one
\* that repaired nothing is denied.
EndPass(h) ==
    /\ heal[h].pc = "visit"
    /\ heal[h].left = {}
    /\ HealStep(h, IF heal[h].kind = "recount" /\ heal[h].repaired
                   THEN [heal[h] EXCEPT !.pc = "retry"] ELSE NoPass)
    /\ UNCHANGED <<vars, provider, untouched, touched, index, visible>>

\* The one retry of a recounted acquire: under the limits after a repair,
\* without them when the provider could not be asked.
Retry(h) ==
    LET q == heal[h].req
        admitted == heal[h].pc = "uncapped" \/ Admits(q.bundle, q.user)
    IN  /\ heal[h].pc \in {"retry", "uncapped"}
        /\ IF admitted THEN SpendAll(q.id, q.bundle, q.user, NoKey)
                            /\ untouched' = untouched \cup {q.id}
                       ELSE UNCHANGED <<vars, untouched>>
        /\ HealStep(h, NoPass)
        /\ UNCHANGED <<provider, touched, index, visible>>

-----------------------------------------------------------------------------
ContinuePass(h) ==
    \/ Observe(h) \/ ObserveFails(h)
    \/ \E r \in Resources : Visit(h, r)
    \/ ReadGauge(h) \/ ReadFails(h) \/ SetGauge(h) \/ SetFails(h) \/ EndPass(h) \/ Retry(h)

HealNext ==
    \/ \E i \in Ids, b \in Bundles, u \in Users \cup {NoUser} :
           \/ AcquireAndTouchLater(i, b, u)
           \/ \E h \in Healers : BeginRecount(h, i, b, u)
    \/ \E i \in Ids : \/ RecordTouch(i) \/ PutOpenTouched(i) \/ LoseAcquire(i)
                      \/ Propagate(i) \/ ProviderSees(i)
    \/ \E r \in Resources : ExpireTouch(r)
    \/ ReleaseOrSettle
    \/ \E h \in Healers : BeginLoop(h) \/ BeginRecalc(h) \/ ContinuePass(h)

HealSpec == HealInit /\ [][HealNext]_allVars

\* The reconciler's ticker fires again and again; a pass, or a call, in flight
\* goes on or fails; time passes, and the index and the provider catch up.  A
\* provider call, a read or a Set that the loop tries again and again succeeds in the end.
\* Nothing makes a user press "Recalculate", or acquire, release or settle.
HealFairSpec ==
    /\ HealSpec
    /\ \A h \in Healers : WF_allVars(ContinuePass(h))
    /\ \A h \in {g \in Healers : "loop" \in KindsOf[g]} :
          /\ WF_allVars(BeginLoop(h))
          /\ SF_allVars(Observe(h)) /\ SF_allVars(ReadGauge(h)) /\ SF_allVars(SetGauge(h))
    /\ \A i \in Ids : /\ WF_allVars(RecordTouch(i))
                      /\ WF_allVars(PutOpenTouched(i) \/ LoseAcquire(i))
                      /\ WF_allVars(Propagate(i))
                      /\ WF_allVars(ProviderSees(i))
    /\ \A r \in Resources : WF_allVars(ExpireTouch(r))
    /\ \A i \in Ids : WF_allVars(/\ \E r \in Resources : ReleaseOrg(i, r) \/ ReleaseUser(i, r)
                                 /\ UNCHANGED healVars)

-----------------------------------------------------------------------------
(* Properties *)

\* The resources whose truth a pass can learn.
Healable == IF Wired THEN provider ELSE Resources

\* Whatever the crashes, lost rows, aborted releases, stranded settlements and
\* racing force-sets left on it, an org gauge that the reconciler can verify
\* ends up at the number of OPEN activations once activity stops (D-33).
Converges == <>[](\A r \in Healable : org[r] = Cardinality(OpenOn(r)))

\* A gauge nobody could verify is never force-set: it stays exactly what the
\* acquires and releases made it.  A provider that fails, or is silent about a
\* resource, does not count as zero, nor does the ledger stand in for it
\* (D-31, D-51).
UnverifiedStaysExact ==
    \A r \in Resources \ Healable : org[r] = Cardinality(ChargedOn(r))
=============================================================================

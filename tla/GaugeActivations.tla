-------------------------- MODULE GaugeActivations --------------------------
(***************************************************************************)
(* The activation API of the engine (engine/activation.go): Acquire,       *)
(* ReleaseActivation and Settle, over the gauge counters they charge       *)
(* (counters/acquire.go, counters/store_redis.go, counters/store_memory.go)*)
(* and the activation ledger (activations/activations.go, ddb.go).         *)
(*                                                                         *)
(* One organisation is modelled: every key the code builds holds the org.  *)
(* Any number of replicas and requests run the operations; a request is    *)
(* present only through what it has done so far to an activation, so an    *)
(* action below is one store round trip of some request.  A request that   *)
(* dies between two round trips, or whose store call fails, simply takes   *)
(* no further step (Lose, AbortRelease).                                   *)
(***************************************************************************)
EXTENDS Integers, FiniteSets

CONSTANTS
    Ids,          \* the activation ids MintActivationID may return
    Resources,    \* gauge resource keys
    Users, NoUser,
    Bundles,      \* the declared bundles (and single keys): sets of resources
    IdemKeys,     \* idempotency keys, as IdemKeyPair composes them: the caller's
    NoKey,        \* key in the first gauge's namespace.  NoKey: none given
    NoId,
    OrgLimit,     \* gaugeLimit's org limit per resource, NoLimit = unlimited
    UserLimit,    \* and its per-user limit
    NoLimit,
    TierMayFail,  \* TRUE: Provider.GetTier may fail during an Acquire
    Modes,        \* the enforcement modes the configuration may declare
    Settlers,     \* concurrent Settle calls
    Costs, NoCost,
    AtomicSettle, \* TRUE: activations.InMemoryStore; FALSE: RedisStore, DDBStore
    Faults        \* TRUE: store calls may fail and replicas may crash

ASSUME IdsFinite == IsFiniteSet(Ids)
ASSUME NilsAreFresh == /\ NoUser \notin Users
                       /\ NoKey \notin IdemKeys
                       /\ NoId \notin Ids
                       /\ NoCost \notin Costs
                       /\ NoLimit \notin Nat
ASSUME BundlesAreGauges == Bundles \subseteq (SUBSET Resources) \ {{}}
ASSUME LimitsAreAmounts == /\ OrgLimit \in [Resources -> Nat \cup {NoLimit}]
                           /\ UserLimit \in [Resources -> Nat \cup {NoLimit}]
ASSUME ModesDeclared == Modes \subseteq {"enforce", "shadow", "disabled", "killed"}
ASSUME FlagsAreBoolean == {TierMayFail, AtomicSettle, Faults} \subseteq BOOLEAN

VARIABLES
    mode,       \* Config.Enforcement, fixed at Setup
    org,        \* the org gauge of each resource
    usr,        \* the per-user gauge of each resource
    latch,      \* idempotency latches: NoId, or the activation that claimed it
    row,        \* the activation of each id: its ledger row and its progress
    todo,       \* what the release of each activation has yet to decrement
    units,      \* history: what each activation charged and has not given back
    settler,    \* the Settle calls: in flight, or answered FALSE with no event
    replayed    \* history: activations whose Acquire was answered "dup" to a retry

vars == <<mode, org, usr, latch, row, todo, units, settler, replayed>>

-----------------------------------------------------------------------------
(* Types *)

Scopes == {"org", "user"}
Units  == Resources \X Scopes

(* "spent": the counters are charged and PutOpen has not returned; "lost":  *)
(* the acquire failed or died before its row was written; "expired": the    *)
(* row passed DefaultReleasedTTL.                                           *)
Phases == {"unminted", "spent", "open", "released", "settled", "lost", "expired"}

Row == [phase : Phases, bundle : SUBSET Resources,
        user : Users \cup {NoUser}, cost : Costs \cup {NoCost}]

NoRow == [phase |-> "unminted", bundle |-> {}, user |-> NoUser, cost |-> NoCost]

Idle == [pc |-> "idle", id |-> NoId, cost |-> NoCost]

SettleCall == [pc : {"tryOpen", "report", "silent"}, id : Ids, cost : Costs] \cup {Idle}

TypeOK ==
    /\ mode \in Modes
    /\ org \in [Resources -> Nat]
    /\ usr \in [Users -> [Resources -> Nat]]
    /\ latch \in [IdemKeys -> Ids \cup {NoId}]
    /\ row \in [Ids -> Row]
    /\ units \in [Ids -> SUBSET Units]
    /\ todo \in [Ids -> SUBSET Units]
    /\ settler \in [Settlers -> SettleCall]
    /\ replayed \subseteq Ids

Init ==
    /\ mode \in Modes
    /\ org = [r \in Resources |-> 0]
    /\ usr = [u \in Users |-> [r \in Resources |-> 0]]
    /\ latch = [k \in IdemKeys |-> NoId]
    /\ row = [i \in Ids |-> NoRow]
    /\ units = [i \in Ids |-> {}]
    /\ todo = [i \in Ids |-> {}]
    /\ settler = [s \in Settlers |-> Idle]
    /\ replayed = {}

-----------------------------------------------------------------------------
(* Acquire *)

\* Mutant: the limit compared with the old value, an off-by-one.
FitsBeforeAdding(used, limit) == limit # NoLimit => used <= limit

\* One more unit stays within the limit; a nil limit is not checked.
Fits(used, limit) == limit # NoLimit => used + 1 <= limit

\* The resources of bundle b whose limits one Acquire checks.  Only "enforce"
\* checks any: "disabled" clears the limits up front, and "shadow" re-runs a
\* denied acquire without them.  gaugeLimit asks the tier provider once per
\* resource, and a failed answer leaves that resource unlimited.
Capped(b) == IF mode # "enforce" THEN {{}}
             ELSE IF TierMayFail THEN SUBSET b ELSE {b}

\* Mutant: the per-user gauges are charged but not checked.
AdmitsOrg(b, u) == \E C \in Capped(b) : \A r \in C : Fits(org[r], OrgLimit[r])

\* The check loop of the acquire script: every capped gauge has room, for the
\* org and, when the request names a user with a limit, for the user.
Admits(b, u) ==
    \E C \in Capped(b) : \A r \in C :
        /\ Fits(org[r], OrgLimit[r])
        /\ u # NoUser => Fits(usr[u][r], UserLimit[r])

\* What an acquire of bundle b for user u adds: one unit per gauge and scope.
Charge(b, u) == b \X (IF u = NoUser THEN {"org"} ELSE Scopes)

\* The spend half of the acquire script: claim the idempotency key and charge
\* all gauges at once.  The id is minted for this request alone, so minting it
\* here rather than right after the script is not observable.
SpendAll(i, b, u, k) ==
    /\ latch' = IF k = NoKey THEN latch ELSE [latch EXCEPT ![k] = i]
    /\ org' = [r \in Resources |-> IF r \in b THEN org[r] + 1 ELSE org[r]]
    /\ usr' = [v \in Users |-> [r \in Resources |->
                  IF v = u /\ r \in b THEN usr[v][r] + 1 ELSE usr[v][r]]]
    /\ row' = [row EXCEPT ![i] = [phase |-> "spent", bundle |-> b,
                                  user |-> u, cost |-> NoCost]]
    /\ units' = [units EXCEPT ![i] = Charge(b, u)]
    /\ UNCHANGED <<mode, todo, settler, replayed>>

\* Acquire up to and including AtomicAcquire: the preamble's kill switch, then
\* the script.  A request that is denied changes nothing.
Acquire(i, b, u, k) ==
    /\ mode # "killed"
    /\ row[i].phase = "unminted"
    /\ k # NoKey => latch[k] = NoId
    /\ Admits(b, u)
    /\ SpendAll(i, b, u, k)

\* A retry under a claimed idempotency key: admitted as "dup", before any limit
\* is looked at and without an activation id.
AcquireDup(k) ==
    /\ mode # "killed"
    /\ latch[k] # NoId
    /\ replayed' = replayed \cup {latch[k]}
    /\ UNCHANGED <<mode, org, usr, latch, row, todo, units, settler>>

\* PutOpen wrote the OPEN row.  When its answer is lost the caller sees an
\* error although the row is there: the same step for the ledger.
PutOpen(i) ==
    /\ row[i].phase = "spent"
    /\ row' = [row EXCEPT ![i].phase = "open"]
    /\ UNCHANGED <<mode, org, usr, latch, todo, units, settler, replayed>>

\* PutOpen failed, or the replica died before it: Acquire answers
\* persist_failed (or nothing), and the charge stays on the counters.
Lose(i) ==
    /\ Faults
    /\ row[i].phase = "spent"
    /\ row' = [row EXCEPT ![i].phase = "lost"]
    /\ UNCHANGED <<mode, org, usr, latch, todo, units, settler, replayed>>

\* Redis drops an idempotency latch after 24 h (the script's EX argument).
ExpireLatch(k) ==
    /\ latch[k] # NoId
    /\ latch' = [latch EXCEPT ![k] = NoId]
    /\ UNCHANGED <<mode, org, usr, row, todo, units, settler, replayed>>

-----------------------------------------------------------------------------
(* ReleaseActivation *)

\* Mutant: the transition does not look at the state it leaves.
MarkReleasedAgain(i) ==
    /\ row[i].phase \in {"open", "released"}
    /\ row' = [row EXCEPT ![i].phase = "released"]
    /\ todo' = [todo EXCEPT ![i] = Charge(row[i].bundle, row[i].user)]
    /\ UNCHANGED <<mode, org, usr, latch, units, settler, replayed>>

\* Mutant: the gauges are returned while the row stays OPEN.
MarkReleasedLate(i) ==
    /\ row[i].phase = "open"
    /\ todo' = [todo EXCEPT ![i] = Charge(row[i].bundle, row[i].user)]
    /\ UNCHANGED <<mode, org, usr, latch, row, units, settler, replayed>>

\* The transition OPEN -> RELEASED; the winner goes on to return the row's
\* Spend.  A duplicate or late release finds another state and does nothing.
MarkReleased(i) ==
    /\ row[i].phase = "open"
    /\ row' = [row EXCEPT ![i].phase = "released"]
    /\ todo' = [todo EXCEPT ![i] = Charge(row[i].bundle, row[i].user)]
    /\ UNCHANGED <<mode, org, usr, latch, units, settler, replayed>>

\* Subtract one, atomically, never below zero.
DecrByFloorZero(v) == IF v - 1 < 0 THEN 0 ELSE v - 1

\* The loop over the row's Spend returns, for each resource in turn, the org
\* gauge and then the user's: no resource is left between the two.
BetweenResources(i) ==
    \A r \in Resources : <<r, "user">> \in todo[i] => <<r, "org">> \in todo[i]

\* decrFloor on the org gauge of the next resource of the released activation.
ReleaseOrg(i, r) ==
    /\ <<r, "org">> \in todo[i]
    /\ BetweenResources(i)
    /\ org' = [org EXCEPT ![r] = DecrByFloorZero(@)]
    /\ todo' = [todo EXCEPT ![i] = @ \ {<<r, "org">>}]
    /\ units' = [units EXCEPT ![i] = @ \ {<<r, "org">>}]
    /\ UNCHANGED <<mode, usr, latch, row, settler, replayed>>

\* decrFloor on the per-user gauge, right after the org gauge of the resource.
ReleaseUser(i, r) ==
    /\ <<r, "user">> \in todo[i]
    /\ <<r, "org">> \notin todo[i]
    /\ usr' = [usr EXCEPT ![row[i].user][r] = DecrByFloorZero(@)]
    /\ todo' = [todo EXCEPT ![i] = @ \ {<<r, "user">>}]
    /\ units' = [units EXCEPT ![i] = @ \ {<<r, "user">>}]
    /\ UNCHANGED <<mode, org, latch, row, settler, replayed>>

\* Mutant: the loop gives up after any decrement, without an error.
AbortReleaseUnasked(i) ==
    /\ todo[i] # {}
    /\ todo' = [todo EXCEPT ![i] = {}]
    /\ UNCHANGED <<mode, org, usr, latch, row, units, settler, replayed>>

\* A failed decrement, or a crash: ReleaseActivation stops, and no later call
\* resumes it, the row being RELEASED already.
AbortRelease(i) ==
    /\ Faults
    /\ todo[i] # {}
    /\ todo' = [todo EXCEPT ![i] = {}]
    /\ UNCHANGED <<mode, org, usr, latch, row, units, settler, replayed>>

\* RELEASED and SETTLED rows expire after DefaultReleasedTTL; OPEN rows never.
\* The release that produced the row has long ended.
ExpireRow(i) ==
    /\ row[i].phase \in {"released", "settled"}
    /\ todo[i] = {}
    /\ row' = [row EXCEPT ![i].phase = "expired"]
    /\ UNCHANGED <<mode, org, usr, latch, todo, units, settler, replayed>>

-----------------------------------------------------------------------------
(* Settle *)

\* A caller can name only an activation whose row has been written.
Written(i) == row[i].phase \in {"open", "released", "settled", "expired"}

\* Mutant: the conditional write loses its condition, and the last cost wins.
RecordLast(i, c, from) == row' = [row EXCEPT ![i] = [@ EXCEPT !.phase = "settled", !.cost = c]]

\* One transition attempt of MarkSettled on an activation in one of the states
\* `from': the conditional write succeeds, or leaves the row alone.
Record(i, c, from) ==
    row' = IF row[i].phase \in from
           THEN [row EXCEPT ![i] = [@ EXCEPT !.phase = "settled", !.cost = c]]
           ELSE row

\* MarkSettled, first attempt.  InMemoryStore settles from any other state
\* under its mutex; RedisStore and DDBStore try RELEASED first.
SettleFirst(s, i, c) ==
    /\ settler[s].pc \in {"idle", "silent"}
    /\ Written(i)
    /\ LET from == IF AtomicSettle THEN {"open", "released"} ELSE {"released"}
       IN  /\ Record(i, c, from)
           /\ settler' = [settler EXCEPT ![s] =
                 IF row[i].phase \in from THEN Idle
                 ELSE [pc |-> IF AtomicSettle THEN "report" ELSE "tryOpen",
                       id |-> i, cost |-> c]]
    /\ UNCHANGED <<mode, org, usr, latch, todo, units, replayed>>

\* MarkSettled, second attempt: from OPEN.
SettleSecond(s) ==
    /\ settler[s].pc = "tryOpen"
    /\ LET i == settler[s].id
       IN  /\ Record(i, settler[s].cost, {"open"})
           /\ settler' = IF row[i].phase = "open" THEN [settler EXCEPT ![s] = Idle]
                         ELSE [settler EXCEPT ![s].pc = "report"]
    /\ UNCHANGED <<mode, org, usr, latch, todo, units, replayed>>

\* Mutant: a FALSE answer is taken for a replay, and the costs not compared.
SettleReportUncompared(s) ==
    /\ settler[s].pc = "report"
    /\ settler' = [settler EXCEPT ![s].pc = "silent"]
    /\ UNCHANGED <<mode, org, usr, latch, row, todo, units, replayed>>

\* Neither attempt moved the row: Settle reads it back, emits settle_conflict
\* when it holds a different cost, and answers FALSE either way.  When the read
\* fails nothing is emitted.
SettleReport(s) ==
    /\ settler[s].pc = "report"
    /\ \E read \in (IF Faults THEN BOOLEAN ELSE {TRUE}) :
          LET call == settler[s]
              conflict == /\ read
                          /\ row[call.id].phase # "expired"
                          /\ row[call.id].cost \notin {NoCost, call.cost}
          IN  settler' = [settler EXCEPT ![s] =
                             IF conflict THEN Idle ELSE [call EXCEPT !.pc = "silent"]]
    /\ UNCHANGED <<mode, org, usr, latch, row, todo, units, replayed>>

\* A store call of MarkSettled fails: Settle answers with the error.
AbortSettle(s) ==
    /\ Faults
    /\ settler[s].pc \in {"tryOpen", "report"}
    /\ settler' = [settler EXCEPT ![s] = Idle]
    /\ UNCHANGED <<mode, org, usr, latch, row, todo, units, replayed>>

-----------------------------------------------------------------------------
Next ==
    \/ \E i \in Ids, b \in Bundles, u \in Users \cup {NoUser}, k \in IdemKeys \cup {NoKey} :
           Acquire(i, b, u, k)
    \/ \E k \in IdemKeys : AcquireDup(k) \/ ExpireLatch(k)
    \/ \E i \in Ids : PutOpen(i) \/ Lose(i) \/ MarkReleased(i) \/ AbortRelease(i) \/ ExpireRow(i)
    \/ \E i \in Ids, r \in Resources : ReleaseOrg(i, r) \/ ReleaseUser(i, r)
    \/ \E s \in Settlers, i \in Ids, c \in Costs : SettleFirst(s, i, c)
    \/ \E s \in Settlers : SettleSecond(s) \/ SettleReport(s) \/ AbortSettle(s)

Spec == Init /\ [][Next]_vars

\* A ReleaseActivation call that got its row runs to the end of its loop: the
\* goroutine is scheduled, and without Faults every decrement answers.
FairSpec ==
    /\ Spec
    /\ \A i \in Ids : WF_vars(\E r \in Resources : ReleaseOrg(i, r) \/ ReleaseUser(i, r))

-----------------------------------------------------------------------------
(* Properties *)

\* The OPEN activations that hold resource r, for the org and for one user.
OpenOn(r)    == {i \in Ids : row[i].phase = "open" /\ r \in row[i].bundle}
OpenOf(u, r) == {i \in OpenOn(r) : row[i].user = u}

\* The activations whose charge of r was not given back, per scope.
ChargedOn(r)    == {i \in Ids : <<r, "org">> \in units[i]}
ChargedOf(u, r) == {i \in Ids : row[i].user = u /\ <<r, "user">> \in units[i]}

\* Every gauge holds exactly the charges not yet given back, whatever the
\* interleaving of acquires, duplicate releases, settlements and failures: no
\* charge is applied twice, none is returned twice, and the floor of
\* DecrByFloorZero never swallows a decrement.
GaugesExact ==
    \A r \in Resources :
        /\ org[r] = Cardinality(ChargedOn(r))
        /\ \A u \in Users : usr[u][r] = Cardinality(ChargedOf(u, r))

\* D-31's forbidden direction: a gauge never falls below the number of OPEN
\* activations it stands for, so admission never rests on phantom headroom.
\* Crashes, lost rows and aborted releases may only leave it too high.
NeverUndercount ==
    \A r \in Resources :
        /\ org[r] >= Cardinality(OpenOn(r))
        /\ \A u \in Users : usr[u][r] >= Cardinality(OpenOf(u, r))

\* While limits are enforced and the tier is resolved, no interleaving of
\* acquires, releases and failures admits more OPEN activations than the org's
\* limit or than one user's (QI-03: two racers at limit-1).
AdmissionBounded ==
    mode = "enforce" /\ ~TierMayFail =>
        \A r \in Resources :
            /\ OrgLimit[r] # NoLimit => Cardinality(OpenOn(r)) <= OrgLimit[r]
            /\ UserLimit[r] # NoLimit =>
                   \A u \in Users : Cardinality(OpenOf(u, r)) <= UserLimit[r]

\* An activation never returns to an earlier state, whoever races on it, and
\* the first recorded cost is the one that stays (D-22, D-46).
LaterPhases == [unminted |-> Phases, spent |-> Phases \ {"unminted"},
                open |-> {"open", "released", "settled"},
                released |-> {"released", "settled", "expired"},
                settled |-> {"settled", "expired"}, lost |-> {"lost"},
                expired |-> {"expired"}]
LifecycleNeverRewinds ==
    [][\A i \in Ids :
          /\ row'[i].phase \in LaterPhases[row[i].phase]
          /\ row[i].cost # NoCost => row'[i].cost = row[i].cost]_vars

\* When Settle answers FALSE and emits nothing, the caller's cost is the one on
\* record: a cost is never discarded in silence (D-46).  A row already dropped
\* by its TTL is the one exception.
SettleNeverSilent ==
    \A s \in Settlers :
        LET call == settler[s]
        IN  call.pc = "silent" =>
                row[call.id].phase = "expired" \/ row[call.id].cost = call.cost

\* Holdings, read off the gauges and rows: the units held are those charged and not given
\* back, and an activation has ended once its row says RELEASED or SETTLED, or has expired.
StageOf == [unminted |-> "free", spent |-> "held", open |-> "held", lost |-> "held",
            released |-> "ended", settled |-> "ended", expired |-> "ended"]
Quota == INSTANCE Holdings WITH
    enforced <- mode = "enforce" /\ ~TierMayFail,
    stage <- [i \in Ids |-> StageOf[row[i].phase]],
    owner <- [i \in Ids |-> row[i].user],
    held <- units

\* The API does to the quota what Holdings allows and nothing else: however requests
\* interleave and whatever fails, an activation is admitted once, whole, on the true
\* holdings of the org and of the user (the counters are all that Acquire looks at); it
\* ends once, and nothing is given back before it has ended or a second time.
ImplementsHoldings == Quota!Spec

\* Without failures every released activation gets all its gauges returned.
ReleaseReturns == \A i \in Ids : row[i].phase = "released" ~> units[i] = {}

=============================================================================

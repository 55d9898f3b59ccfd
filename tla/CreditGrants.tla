---------------------------- MODULE CreditGrants ----------------------------
(***************************************************************************)
(* Sign-up credit grants: the webhook receiver (authevents/receiver.go),   *)
(* the handler ledger's Dispatch and retry loop (handlerledger/retry.go)   *)
(* over its durable stores (redis_store.go, dynamodb_store.go), and the    *)
(* default credit-grant handler (authevents/default_handler.go) with the   *)
(* billing granter (quota/credit_granter.go).                              *)
(*                                                                         *)
(* A worker is one delivery of an event to one replica: by auth, by auth's *)
(* redelivery, by quotactl replay.  Every action is one round trip of one  *)
(* worker, to the ledger, the tier provider or billing.                    *)
(***************************************************************************)
EXTENDS Integers, FiniteSets

CONSTANTS
    Events,       \* signed events of a type the handler is registered for
    NoEvent,
    Users, NoUser,
    Orgs, NoOrg,
    Tiers, NoTier,
    UserOf,       \* the user each event names, NoUser when it names none
    OrgOf,        \* the org each event names, NoOrg when it names none
    TiersOf,      \* external: the tiers the provider may answer for each user
    Granting,     \* the configured tiers with a positive sign-up credit_grant
    Policies,     \* the dedup policies the configuration may declare
    Workers,
    Backend,      \* the durable ledger store: "redis" or "ddb"
    MaxAttempts,  \* RetryConfig.Attempts
    MaxRuns,      \* bound: the Attempts of a row past which nothing fails for it
    Faults        \* TRUE: calls may fail, answers get lost, replicas die

AllPolicies == {"per_user_per_tier", "per_org_per_tier", "per_user_global", "per_org_global"}

ASSUME EventsDeclared == /\ NoEvent \notin Events
                         /\ NoUser \notin Users /\ NoOrg \notin Orgs /\ NoTier \notin Tiers
                         /\ Users \cap (Orgs \cup {NoOrg}) = {}
                         /\ UserOf \in [Events -> Users \cup {NoUser}]
                         /\ OrgOf \in [Events -> Orgs \cup {NoOrg}]
                         /\ TiersOf \in [Users -> SUBSET (Tiers \cup {NoTier})]
                         /\ Granting \subseteq Tiers
ASSUME PoliciesDeclared == Policies \subseteq AllPolicies
ASSUME StoreIsDurable == Backend \in {"redis", "ddb"}
ASSUME BoundsArePositive == {MaxAttempts, MaxRuns} \subseteq Nat \ {0}
ASSUME FaultsIsBoolean == Faults \in BOOLEAN

VARIABLES
    policy,    \* credit_grant.dedup of each tier, fixed by the configuration
    row,       \* the ledger row of each event
    live,      \* the events whose row's lease has not run out
    marks,     \* the business-dedup rows
    pins,      \* the orgs some replica has pinned each user to
    credits,   \* external: the grants billing has booked
    work       \* the deliveries in progress

vars == <<policy, row, live, marks, pins, credits, work>>

Statuses == {"none", "in_progress", "success", "skipped", "failed_permanent"}
Terminal == {"success", "skipped", "failed_permanent"}

Row   == [status : Statuses, attempts : Nat]
NoRow == [status |-> "none", attempts |-> 0]

\* What a grant is made for, and the key two of them share: user, org, tier.
Grant   == [user : Users, org : Orgs \cup {NoOrg}, tier : Tiers]
Keys    == ((Users \cup Orgs \cup {NoOrg}) \X (Tiers \cup {NoTier}))
NoGrant == [user |-> NoUser, org |-> NoOrg, tier |-> NoTier]

\* copy, clean: the row as last read, and whether it has been written since;
\* owner: this worker's claim is the latest and its lease has not run out;
\* tries: attempts of the retry loop; grant: what this attempt grants;
\* verdict: the status to record.
Steps == {"idle", "read", "claim", "resolve", "dedup", "grant", "mark", "outcome", "record"}

Work == [pc : Steps, ev : Events \cup {NoEvent}, copy : Row, clean : BOOLEAN,
         owner : BOOLEAN, tries : 0..MaxAttempts, grant : Grant \cup {NoGrant}, verdict : Statuses]

Idle == [pc |-> "idle", ev |-> NoEvent, copy |-> NoRow, clean |-> FALSE,
         owner |-> FALSE, tries |-> 0, grant |-> NoGrant, verdict |-> "none"]

TypeOK ==
    /\ policy \in [Tiers -> Policies]
    /\ row \in [Events -> Row]
    /\ live \subseteq Events
    /\ marks \subseteq Keys
    /\ pins \in [Users -> SUBSET Orgs]
    /\ credits \subseteq [key : Keys, grant : Grant]
    /\ work \in [Workers -> Work]

Init ==
    /\ policy \in [Tiers -> Policies]
    /\ row = [e \in Events |-> NoRow]
    /\ live = {} /\ marks = {} /\ credits = {}
    /\ pins \in [Users -> SUBSET Orgs]   \* an operator may have pinned
    /\ work = [w \in Workers |-> Idle]

-----------------------------------------------------------------------------
(* Workers and the rows of the ledger *)

At(w, pc) == work[w].pc = pc
Step(w, rec) == work' = [work EXCEPT ![w] = rec]

\* Whatever Dispatch returned is logged, and auth is answered 200.
Answer(w) == Step(w, Idle)

\* A write of e's row by w: whoever has read the row reads a changed one.
WriteRow(w, e, r, rec) ==
    /\ row' = [row EXCEPT ![e] = r]
    /\ work' = [v \in Workers |-> IF v = w THEN rec
                                  ELSE IF work[v].ev = e THEN [work[v] EXCEPT !.clean = FALSE]
                                  ELSE work[v]]

\* What may go wrong with e's row stops at the bound on its attempts.
MayFail(e) == Faults /\ row[e].attempts < MaxRuns

-----------------------------------------------------------------------------
(* The receiver and RecordAttempt *)

\* A verified delivery, a redelivery or a replay reaches a replica.
Deliver(w, e) ==
    /\ At(w, "idle")
    /\ Step(w, [Idle EXCEPT !.pc = "read", !.ev = e])
    /\ UNCHANGED <<policy, row, live, marks, pins, credits>>

\* Mutant: only a finished row is looked at.
BlocksFinished(e, r) == r.status \in Terminal

\* A finished row, or one in progress under a running lease, is left alone.
Blocks(e, r) == r.status \in Terminal \/ (r.status = "in_progress" /\ e \in live)

\* RecordAttempt reads the row.
AttemptRead(w) ==
    LET e == work[w].ev IN
    /\ At(w, "read")
    /\ IF Blocks(e, row[e]) THEN Answer(w)
       ELSE Step(w, [work[w] EXCEPT !.pc = "claim", !.copy = row[e], !.clean = TRUE])
    /\ UNCHANGED <<policy, row, live, marks, pins, credits>>

\* Mutant: WATCH is forgotten.
UnchangedUnwatched(w) == TRUE

\* The condition of the claim.  Redis: WATCH saw no write of the row.  DynamoDB:
\* the row is still missing, or still has the Attempts that were read.
Unchanged(w) ==
    LET now == row[work[w].ev] IN
    IF Backend = "redis" THEN work[w].clean
    ELSE IF work[w].copy = NoRow THEN now = NoRow
    ELSE now # NoRow /\ now.attempts = work[w].copy.attempts

\* RecordAttempt's conditional write: one more attempt, under a new lease.
AttemptClaim(w) ==
    LET e == work[w].ev
        claimed == [status |-> "in_progress", attempts |-> work[w].copy.attempts + 1]
    IN  /\ At(w, "claim")
        /\ Unchanged(w)
        /\ WriteRow(w, e, claimed, [Idle EXCEPT !.pc = "resolve", !.ev = e, !.owner = TRUE, !.tries = 1])
        /\ live' = live \cup {e}
        /\ UNCHANGED <<policy, marks, pins, credits>>

\* Another writer was first: RecordAttempt reads again, or has used up its tries.
AttemptContended(w) ==
    /\ At(w, "claim")
    /\ ~Unchanged(w)
    /\ Answer(w) \/ Step(w, [work[w] EXCEPT !.pc = "read"])
    /\ UNCHANGED <<policy, row, live, marks, pins, credits>>

\* A call of RecordAttempt fails: the event is dropped with a log line.
AttemptFails(w) ==
    /\ Faults
    /\ work[w].pc \in {"read", "claim"}
    /\ Answer(w)
    /\ UNCHANGED <<policy, row, live, marks, pins, credits>>

-----------------------------------------------------------------------------
(* The credit-grant handler, inside runWithRetry *)

\* The handler returned a sentinel: Skip or Success.
Return(w, verdict) ==
    Step(w, [work[w] EXCEPT !.pc = "outcome", !.verdict = verdict, !.grant = NoGrant])

\* The handler returned an error: another attempt after the backoff, or the
\* last one was used up, or the delivery's context ended meanwhile.
Retry(w) ==
    \/ /\ work[w].tries < MaxAttempts
       /\ Step(w, [work[w] EXCEPT !.pc = "resolve", !.tries = @ + 1, !.grant = NoGrant])
    \/ /\ work[w].tries = MaxAttempts \/ Faults
       /\ Step(w, [work[w] EXCEPT !.pc = "outcome", !.tries = MaxAttempts, !.grant = NoGrant,
                                  !.verdict = "failed_permanent"])

\* The org of the grant: the event's, else the one this replica has pinned.
OrgsFor(e) == IF OrgOf[e] # NoOrg THEN {OrgOf[e]} ELSE pins[UserOf[e]] \cup {NoOrg}

\* The handler up to GetTier's answer and the tier's credit_grant.
Resolve(w) ==
    LET e == work[w].ev
        u == UserOf[e]
    IN  /\ At(w, "resolve")
        /\ IF u = NoUser THEN Return(w, "skipped") /\ UNCHANGED pins
           ELSE \E o \in OrgsFor(e), t \in TiersOf[u] :
                    /\ pins' = [pins EXCEPT ![u] = IF o = NoOrg THEN @ ELSE @ \cup {o}]
                    /\ IF t \notin Granting THEN Return(w, "skipped")
                       ELSE Step(w, [work[w] EXCEPT !.pc = "dedup",
                                       !.grant = [user |-> u, org |-> o, tier |-> t]])
        /\ UNCHANGED <<policy, row, live, marks, credits>>

\* GetTier fails, after the pin was set.
ResolveFails(w) ==
    LET u == UserOf[work[w].ev] IN
    /\ Faults
    /\ At(w, "resolve")
    /\ u # NoUser
    /\ \E o \in OrgsFor(work[w].ev) :
           pins' = [pins EXCEPT ![u] = IF o = NoOrg THEN @ ELSE @ \cup {o}]
    /\ Retry(w)
    /\ UNCHANGED <<policy, row, live, marks, credits>>

\* ComposeCreditDedupKey: whom the policy counts, and whether the tier counts.
DedupKey(g) ==
    CASE policy[g.tier] = "per_user_per_tier" -> <<g.user, g.tier>>
      [] policy[g.tier] = "per_org_per_tier"  -> <<g.org, g.tier>>
      [] policy[g.tier] = "per_user_global"   -> <<g.user, NoTier>>
      [] policy[g.tier] = "per_org_global"    -> <<g.org, NoTier>>

\* Mutant: the key is one of the org, whatever the policy.
BillingKeyOfOrg(g) == <<g.org, g.tier>>

\* BillingIdempotencyKey, in the same terms: never the event.
BillingKey(g) ==
    CASE policy[g.tier] = "per_user_per_tier" -> <<g.user, g.tier>>
      [] policy[g.tier] = "per_org_per_tier"  -> <<g.org, g.tier>>
      [] policy[g.tier] = "per_user_global"   -> <<g.user, NoTier>>
      [] policy[g.tier] = "per_org_global"    -> <<g.org, NoTier>>

\* Mutant: the dedup row is written first, to close the race between deliveries.
CheckDedupMarks(w) ==
    /\ At(w, "dedup")
    /\ IF DedupKey(work[w].grant) \in marks THEN Return(w, "skipped") /\ UNCHANGED marks
       ELSE Step(w, [work[w] EXCEPT !.pc = "grant"]) /\ marks' = marks \cup {DedupKey(work[w].grant)}
    /\ UNCHANGED <<policy, row, live, pins, credits>>

\* AlreadyDone.
CheckDedup(w) ==
    /\ At(w, "dedup")
    /\ IF DedupKey(work[w].grant) \in marks THEN Return(w, "skipped")
       ELSE Step(w, [work[w] EXCEPT !.pc = "grant"])
    /\ UNCHANGED <<policy, row, live, marks, pins, credits>>

CheckDedupFails(w) ==
    /\ Faults
    /\ At(w, "dedup")
    /\ Retry(w)
    /\ UNCHANGED <<policy, row, live, marks, pins, credits>>

\* External: billing books the first grant under a key and answers a repeat with
\* the first result.
Book(g) == credits' = IF \E c \in credits : c.key = BillingKey(g) THEN credits
                      ELSE credits \cup {[key |-> BillingKey(g), grant |-> g]}

\* The client sends no grant without an org.
Accepts(g) == g.org # NoOrg

\* GrantCredit succeeds.
GrantCredit(w) ==
    /\ At(w, "grant")
    /\ Accepts(work[w].grant)
    /\ Book(work[w].grant)
    /\ Step(w, [work[w] EXCEPT !.pc = "mark"])
    /\ UNCHANGED <<policy, row, live, marks, pins>>

\* GrantCredit returns an error; billing may have booked the grant all the same.
GrantFails(w) ==
    /\ At(w, "grant")
    /\ \/ ~Accepts(work[w].grant) /\ UNCHANGED credits
       \/ Faults /\ Accepts(work[w].grant) /\ (Book(work[w].grant) \/ UNCHANGED credits)
    /\ Retry(w)
    /\ UNCHANGED <<policy, row, live, marks, pins>>

\* MarkDone; a failure is only logged.
MarkDone(w) ==
    /\ At(w, "mark")
    /\ \/ marks' = marks \cup {DedupKey(work[w].grant)}
       \/ Faults /\ UNCHANGED marks
    /\ Return(w, "success")
    /\ UNCHANGED <<policy, row, live, pins, credits>>

-----------------------------------------------------------------------------
(* RecordOutcome *)

\* RecordOutcome reads the row; there is nothing to update when it is gone.
OutcomeRead(w) ==
    LET e == work[w].ev IN
    /\ At(w, "outcome")
    /\ IF row[e] = NoRow THEN Answer(w)
       ELSE Step(w, [work[w] EXCEPT !.pc = "record", !.copy = row[e], !.clean = TRUE])
    /\ UNCHANGED <<policy, row, live, marks, pins, credits>>

\* The outcome replaces the row's status and attempts and clears its lease.
\* DynamoDB writes it back unconditionally; Redis when WATCH saw no write.
OutcomeWrite(w) ==
    LET e == work[w].ev IN
    /\ At(w, "record")
    /\ Backend = "redis" => work[w].clean
    /\ WriteRow(w, e, [status |-> work[w].verdict, attempts |-> work[w].tries], Idle)
    /\ live' = live \ {e}
    /\ UNCHANGED <<policy, marks, pins, credits>>

\* Redis: WATCH saw a write; the transaction starts again, or its tries are used up.
OutcomeContended(w) ==
    /\ Backend = "redis"
    /\ At(w, "record")
    /\ ~work[w].clean
    /\ Answer(w) \/ Step(w, [work[w] EXCEPT !.pc = "outcome"])
    /\ UNCHANGED <<policy, row, live, marks, pins, credits>>

\* The outcome is not recorded: the store fails, or the context has ended.
OutcomeFails(w) ==
    /\ work[w].pc \in {"outcome", "record"}
    /\ MayFail(work[w].ev)
    /\ Answer(w)
    /\ UNCHANGED <<policy, row, live, marks, pins, credits>>

-----------------------------------------------------------------------------
(* Time, crashes and the operator *)

\* The replica dies with the delivery it was handling.
Crash(w) ==
    /\ work[w].pc # "idle"
    /\ MayFail(work[w].ev)
    /\ Step(w, Idle)
    /\ UNCHANGED <<policy, row, live, marks, pins, credits>>

\* The claims of e end: its lease has run out, or its row is gone.
Disown(e) == [v \in Workers |-> IF work[v].ev = e THEN [work[v] EXCEPT !.owner = FALSE] ELSE work[v]]

\* The lease of a row runs out, its worker dead or merely slow.
ExpireLease(e) ==
    /\ e \in live
    /\ MayFail(e)
    /\ live' = live \ {e}
    /\ work' = Disown(e)
    /\ UNCHANGED <<policy, row, marks, pins, credits>>

\* The row passes its TTL (72 h on Redis, 90 days on DynamoDB): no delivery is
\* still working on it.  Business-dedup rows never expire.
ExpireRow(e) ==
    /\ row[e] # NoRow
    /\ e \notin live
    /\ \A w \in Workers : work[w].ev # e
    /\ row' = [row EXCEPT ![e] = NoRow]
    /\ UNCHANGED <<policy, live, marks, pins, credits, work>>

\* DeleteUser takes away a row of the user, whatever its state; the business-
\* dedup rows stay.
DeleteUserRow(e) ==
    /\ UserOf[e] # NoUser
    /\ row[e] # NoRow
    /\ row' = [row EXCEPT ![e] = NoRow]
    /\ live' = live \ {e}
    /\ work' = [v \in Workers |-> [Disown(e)[v] EXCEPT !.clean = @ /\ work[v].ev # e]]
    /\ UNCHANGED <<policy, marks, pins, credits>>

-----------------------------------------------------------------------------
Handle(w) ==
    \/ AttemptRead(w) \/ AttemptClaim(w) \/ AttemptContended(w) \/ AttemptFails(w)
    \/ Resolve(w) \/ ResolveFails(w) \/ CheckDedup(w) \/ CheckDedupFails(w)
    \/ GrantCredit(w) \/ GrantFails(w) \/ MarkDone(w)
    \/ OutcomeRead(w) \/ OutcomeWrite(w) \/ OutcomeContended(w) \/ OutcomeFails(w)

Next ==
    \/ \E w \in Workers, e \in Events : Deliver(w, e)
    \/ \E w \in Workers : Handle(w) \/ Crash(w)
    \/ \E e \in Events : ExpireLease(e) \/ ExpireRow(e) \/ DeleteUserRow(e)

Spec == Init /\ [][Next]_vars

-----------------------------------------------------------------------------
(* Properties *)

\* Two grants the dedup policy of their tiers is to make one.
SameSubject(g, h) ==
    /\ policy[g.tier] = policy[h.tier]
    /\ CASE policy[g.tier] = "per_user_per_tier" -> g.user = h.user /\ g.tier = h.tier
         [] policy[g.tier] = "per_org_per_tier"  -> g.org = h.org /\ g.tier = h.tier
         [] policy[g.tier] = "per_user_global"   -> g.user = h.user
         [] policy[g.tier] = "per_org_global"    -> g.org = h.org

\* Whatever is redelivered, replayed or run twice after a lease ran out, by
\* whichever event, and whatever answers are lost, billing books one grant per
\* subject of the tier's dedup policy (default_handler.go:58-61).
CreditedOnce ==
    \A c, d \in credits : SameSubject(c.grant, d.grant) => c = d

\* The users to whom the provider never answers a tier without a grant.
Entitled(e) == UserOf[e] # NoUser /\ TiersOf[UserOf[e]] \subseteq Granting

\* An entitled user's event that the ledger calls a success, or skipped, stands
\* for credit that was booked for its user or for an org it shares: a business-
\* dedup mark never comes before the money.
DecidedMeansCredited ==
    \A e \in Events :
        Entitled(e) /\ row[e].status \in {"success", "skipped"} =>
            \E c \in credits : \/ c.grant.user = UserOf[e]
                               \/ c.grant.org \in pins[UserOf[e]]

\* At most one delivery of an event runs the handler under a running lease: a
\* second one starts only once the first one's lease has run out.
LeaseExclusive ==
    \A v, w \in Workers :
        work[v].owner /\ work[w].owner /\ work[v].ev = work[w].ev => v = w

\* A finished row blocks further attempts (ledger.go:119): no delivery starts the
\* handler of an event whose outcome has been recorded.
TerminalBlocks ==
    [][\A e \in Events : row[e].status \in Terminal => row'[e].status # "in_progress"]_vars
=============================================================================

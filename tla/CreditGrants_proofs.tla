------------------------ MODULE CreditGrants_proofs ------------------------
(***************************************************************************)
(* Proofs about sign-up credit grants, for every set of events, users,     *)
(* orgs, tiers and deliveries, every assignment of dedup policies and      *)
(* every failure setting.                                                  *)
(***************************************************************************)
EXTENDS CreditGrants, TLAPS

-----------------------------------------------------------------------------
(* Type correctness *)

\* A worker that is not idle has an event, one that computes a grant holds it,
\* and one that records an outcome records a terminal one.
Holding ==
    \A w \in Workers :
        /\ work[w].pc # "idle" => work[w].ev \in Events
        /\ work[w].pc \in {"dedup", "grant", "mark"} => work[w].grant \in Grant
        /\ work[w].pc \in {"outcome", "record"} => work[w].verdict \in Terminal
        /\ work[w].pc \in {"idle", "read", "claim"} => ~work[w].owner

TInv == TypeOK /\ Holding

\* Only worker w changes, to rec, a record that Holding accepts.
Takes(w, rec) ==
    /\ rec \in Work
    /\ rec.pc # "idle" => rec.ev \in Events
    /\ rec.pc \in {"dedup", "grant", "mark"} => rec.grant \in Grant
    /\ rec.pc \in {"outcome", "record"} => rec.verdict \in Terminal
    /\ rec.pc \in {"idle", "read", "claim"} => ~rec.owner
    /\ work' = [work EXCEPT ![w] = rec]

LEMMA TakesTyped ==
    ASSUME TInv, NEW w \in Workers, NEW rec, Takes(w, rec)
    PROVE  work' \in [Workers -> Work] /\ Holding'
BY DEF TInv, TypeOK, Holding, Takes

LEMMA IdleIsWork == Idle \in Work /\ NoRow \in Row
BY BoundsArePositive DEF Idle, Work, Steps, NoRow, Row, Statuses, NoGrant


LEMMA InitTInv == Init => TInv
<1> SUFFICES ASSUME Init PROVE TInv
  OBVIOUS
<1>1. \A w \in Workers : work[w] = Idle
  BY DEF Init
<1>2. TypeOK
  BY <1>1, IdleIsWork DEF Init, TypeOK
<1>3. Holding
  BY <1>1 DEF Holding, Idle
<1> QED
  BY <1>2, <1>3 DEF TInv

\* The worker that returns or retries.
LEMMA Ends ==
    ASSUME TInv, NEW w \in Workers,
           \/ Answer(w)
           \/ work[w].pc # "idle" /\ Retry(w)
           \/ \E v \in Terminal : work[w].pc # "idle" /\ Return(w, v)
    PROVE  \E rec : Takes(w, rec)
<1> USE DEF TInv, TypeOK, Holding, Takes, Step
<1>1. CASE Answer(w)
  BY <1>1, IdleIsWork DEF Answer, Idle
<1>2. CASE work[w].pc # "idle" /\ Retry(w)
  <2>1. work[w] \in Work /\ work[w].ev \in Events /\ work[w].tries \in 0..MaxAttempts
    BY <1>2 DEF Work
  <2>2. CASE work[w].tries < MaxAttempts
             /\ Step(w, [work[w] EXCEPT !.pc = "resolve", !.tries = @ + 1, !.grant = NoGrant])
    <3> DEFINE n == work[w].tries + 1
               c == [work[w] EXCEPT !.pc = "resolve", !.tries = n, !.grant = NoGrant]
    <3>1. n \in 0..MaxAttempts
      BY <2>1, <2>2, BoundsArePositive
    <3>2. work' = [work EXCEPT ![w] = c]
      BY <2>2
    <3> HIDE DEF n
    <3>3. c \in Work /\ c.pc = "resolve" /\ c.ev \in Events
      BY <2>1, <3>1 DEF Work, Steps
    <3> HIDE DEF c
    <3>4. Takes(w, c)
      BY <3>2, <3>3
    <3> QED
      BY <3>4
  <2>3. CASE Step(w, [work[w] EXCEPT !.pc = "outcome", !.tries = MaxAttempts, !.grant = NoGrant,
                                     !.verdict = "failed_permanent"])
    <3> DEFINE c == [work[w] EXCEPT !.pc = "outcome", !.tries = MaxAttempts, !.grant = NoGrant,
                                    !.verdict = "failed_permanent"]
    <3>1. MaxAttempts \in 0..MaxAttempts
      BY BoundsArePositive
    <3>2. work' = [work EXCEPT ![w] = c]
      BY <2>3
    <3>3. c \in Work /\ c.pc = "outcome" /\ c.ev \in Events /\ c.verdict \in Terminal
      BY <2>1, <3>1 DEF Work, Steps, Statuses, Terminal
    <3> HIDE DEF c
    <3>4. Takes(w, c)
      BY <3>2, <3>3
    <3> QED
      BY <3>4
  <2> QED
    BY <1>2, <2>2, <2>3 DEF Retry
<1>3. ASSUME NEW v \in Terminal, work[w].pc # "idle", Return(w, v)
      PROVE  \E rec : Takes(w, rec)
  <2> DEFINE c == [work[w] EXCEPT !.pc = "outcome", !.verdict = v, !.grant = NoGrant]
  <2>1. work[w] \in Work /\ work[w].ev \in Events
    BY <1>3
  <2>2. work' = [work EXCEPT ![w] = c]
    BY <1>3 DEF Return
  <2>3. c \in Work /\ c.pc = "outcome" /\ c.ev \in Events /\ c.verdict \in Terminal
    BY <2>1, <1>3 DEF Work, Steps, Statuses, Terminal
  <2> HIDE DEF c
  <2>4. Takes(w, c)
    BY <2>2, <2>3
  <2> QED
    BY <2>4
<1> QED
  BY <1>1, <1>2, <1>3

\* Every step of a delivery that leaves the ledger's rows alone.
LEMMA StepTyped ==
    ASSUME TInv, NEW w \in Workers,
           \/ \E e \in Events : Deliver(w, e)
           \/ AttemptRead(w) \/ AttemptContended(w) \/ AttemptFails(w)
           \/ Resolve(w) \/ ResolveFails(w) \/ CheckDedup(w) \/ CheckDedupFails(w)
           \/ GrantCredit(w) \/ GrantFails(w) \/ MarkDone(w)
           \/ OutcomeRead(w) \/ OutcomeContended(w) \/ OutcomeFails(w) \/ Crash(w)
    PROVE  \E rec : Takes(w, rec)
<1> USE DEF At
<1>1. ASSUME NEW e \in Events, Deliver(w, e)
      PROVE  \E rec : Takes(w, rec)
  BY <1>1, IdleIsWork DEF Deliver, Step, Takes, Work, Steps, Idle
<1>2. CASE AttemptRead(w)
  BY <1>2, IdleIsWork DEF AttemptRead, TInv, TypeOK, Holding, Takes, Step, Answer, Work, Steps, Idle
<1>3. CASE AttemptContended(w)
  <2>1. CASE Answer(w)
    BY <2>1, Ends
  <2>2. CASE Step(w, [work[w] EXCEPT !.pc = "read"])
    BY <1>3, <2>2 DEF AttemptContended, TInv, TypeOK, Holding, Takes, Step, Work, Steps
  <2> QED
    BY <1>3, <2>1, <2>2 DEF AttemptContended
<1>4. CASE AttemptFails(w) \/ OutcomeFails(w)
  BY <1>4, Ends DEF AttemptFails, OutcomeFails
<1>5. CASE Resolve(w)
  <2>1. CASE Return(w, "skipped")
    BY <1>5, <2>1, Ends DEF Resolve, Terminal
  <2>2. ASSUME UserOf[work[w].ev] # NoUser, NEW o \in OrgsFor(work[w].ev), NEW t \in Granting,
               Step(w, [work[w] EXCEPT !.pc = "dedup",
                            !.grant = [user |-> UserOf[work[w].ev], org |-> o, tier |-> t]])
        PROVE  \E rec : Takes(w, rec)
    <3>1. work[w].ev \in Events /\ work[w] \in Work
      BY <1>5 DEF Resolve, TInv, TypeOK, Holding
    <3>2. UserOf[work[w].ev] \in Users
      BY <2>2, <3>1, EventsDeclared
    <3>3. o \in Orgs \cup {NoOrg}
      BY <2>2, <3>1, <3>2, EventsDeclared DEF OrgsFor, TInv, TypeOK
    <3> DEFINE g == [user |-> UserOf[work[w].ev], org |-> o, tier |-> t]
    <3>4. g \in Grant
      BY <3>2, <3>3, EventsDeclared DEF Grant
    <3>5. Step(w, [work[w] EXCEPT !.pc = "dedup", !.grant = g])
      BY <2>2
    <3> HIDE DEF g
    <3> QED
      BY <3>1, <3>4, <3>5 DEF Takes, Step, Work, Steps
  <2> QED
    BY <1>5, <2>1, <2>2 DEF Resolve
<1>6. CASE ResolveFails(w) \/ CheckDedupFails(w) \/ GrantFails(w)
  <2>1. Retry(w) /\ work[w].pc # "idle"
    BY <1>6 DEF ResolveFails, CheckDedupFails, GrantFails
  <2> QED
    BY <2>1, Ends
<1>7. CASE CheckDedup(w)
  <2>1. CASE Return(w, "skipped")
    BY <1>7, <2>1, Ends DEF CheckDedup, Terminal
  <2>2. CASE Step(w, [work[w] EXCEPT !.pc = "grant"])
    BY <1>7, <2>2 DEF CheckDedup, TInv, TypeOK, Holding, Takes, Step, Work, Steps
  <2> QED
    BY <1>7, <2>1, <2>2 DEF CheckDedup
<1>8. CASE GrantCredit(w)
  BY <1>8 DEF GrantCredit, TInv, TypeOK, Holding, Takes, Step, Work, Steps
<1>9. CASE MarkDone(w)
  BY <1>9, Ends DEF MarkDone, Terminal
<1>10. CASE OutcomeRead(w)
  BY <1>10, IdleIsWork DEF OutcomeRead, TInv, TypeOK, Holding, Takes, Step, Answer, Work, Steps, Idle
<1>11. CASE OutcomeContended(w)
  <2>1. CASE Answer(w)
    BY <2>1, Ends
  <2>2. CASE Step(w, [work[w] EXCEPT !.pc = "outcome"])
    <3>1. work[w] \in Work /\ work[w].ev \in Events /\ work[w].verdict \in Terminal
      BY <1>11 DEF OutcomeContended, TInv, TypeOK, Holding
    <3> QED
      BY <2>2, <3>1 DEF Takes, Step, Work, Steps
  <2> QED
    BY <1>11, <2>1, <2>2 DEF OutcomeContended
<1>12. CASE Crash(w)
  BY <1>12, Ends DEF Crash, Answer
<1> QED
  BY <1>1, <1>2, <1>3, <1>4, <1>5, <1>6, <1>7, <1>8, <1>9, <1>10, <1>11, <1>12


\* A write of a row by w.
LEMMA WriteTyped ==
    ASSUME TInv, NEW w \in Workers, NEW e \in Events, NEW r \in Row, NEW rec \in Work,
           WriteRow(w, e, r, rec),
           rec.pc # "idle" => rec.ev \in Events,
           rec.pc \notin {"dedup", "grant", "mark", "outcome", "record"},
           rec.pc \in {"idle", "read", "claim"} => ~rec.owner
    PROVE  row' \in [Events -> Row] /\ work' \in [Workers -> Work] /\ Holding'
<1>1. row' \in [Events -> Row]
  BY DEF WriteRow, TInv, TypeOK
<1>2. ASSUME NEW v \in Workers
      PROVE  /\ work'[v] \in Work
             /\ work'[v].pc # "idle" => work'[v].ev \in Events
             /\ work'[v].pc \in {"dedup", "grant", "mark"} => work'[v].grant \in Grant
             /\ work'[v].pc \in {"outcome", "record"} => work'[v].verdict \in Terminal
             /\ work'[v].pc \in {"idle", "read", "claim"} => ~work'[v].owner
  <2>1. CASE v = w
    BY <2>1 DEF WriteRow
  <2>2. CASE v # w /\ work[v].ev = e
    <3>1. work'[v] = [work[v] EXCEPT !.clean = FALSE]
      BY <1>2, <2>2 DEF WriteRow
    <3> QED
      BY <3>1 DEF TInv, TypeOK, Holding, Work
  <2>3. CASE v # w /\ work[v].ev # e
    BY <1>2, <2>3 DEF WriteRow, TInv, TypeOK, Holding
  <2> QED
    BY <2>1, <2>2, <2>3
<1>3. work' \in [Workers -> Work]
  BY <1>2 DEF WriteRow
<1> QED
  BY <1>1, <1>2, <1>3 DEF Holding

LEMMA DisownTyped ==
    ASSUME TInv, NEW e \in Events
    PROVE  /\ Disown(e) \in [Workers -> Work]
           /\ \A v \in Workers :
                 /\ Disown(e)[v].pc = work[v].pc /\ Disown(e)[v].ev = work[v].ev
                 /\ Disown(e)[v].grant = work[v].grant /\ Disown(e)[v].verdict = work[v].verdict
                 /\ Disown(e)[v].copy = work[v].copy /\ Disown(e)[v].clean = work[v].clean
                 /\ Disown(e)[v].owner = (work[v].owner /\ work[v].ev # e)
BY DEF Disown, TInv, TypeOK, Work

LEMMA KeysTyped ==
    ASSUME policy \in [Tiers -> Policies], NEW g \in Grant
    PROVE  DedupKey(g) \in Keys /\ BillingKey(g) = DedupKey(g)
BY PoliciesDeclared DEF DedupKey, BillingKey, Keys, Grant, AllPolicies

\* The steps of a delivery that leave the ledger's rows alone.
Quiet(w) ==
    \/ \E e \in Events : Deliver(w, e)
    \/ AttemptRead(w) \/ AttemptContended(w) \/ AttemptFails(w)
    \/ Resolve(w) \/ ResolveFails(w) \/ CheckDedup(w) \/ CheckDedupFails(w)
    \/ GrantCredit(w) \/ GrantFails(w) \/ MarkDone(w)
    \/ OutcomeRead(w) \/ OutcomeContended(w) \/ OutcomeFails(w) \/ Crash(w)

\* Every step is one of six kinds.
LEMMA NextCases ==
    ASSUME Next
    PROVE  \/ \E w \in Workers : Quiet(w) \/ AttemptClaim(w) \/ OutcomeWrite(w)
           \/ \E e \in Events : ExpireLease(e) \/ ExpireRow(e) \/ DeleteUserRow(e)
BY DEF Next, Handle, Quiet

LEMMA BookTyped ==
    ASSUME TInv, NEW g \in Grant, Book(g)
    PROVE  credits' \subseteq [key : Keys, grant : Grant]
BY KeysTyped DEF Book, TInv, TypeOK

\* Orgs a delivery pins are orgs.
LEMMA OrgsForTyped ==
    ASSUME TInv, NEW e \in Events, UserOf[e] # NoUser
    PROVE  UserOf[e] \in Users /\ OrgsFor(e) \subseteq Orgs \cup {NoOrg}
BY EventsDeclared DEF OrgsFor, TInv, TypeOK

\* What a quiet step does to the rest of the state.
LEMMA QuietTyped ==
    ASSUME TInv, NEW w \in Workers, Quiet(w)
    PROVE  TInv'
<1>1. work' \in [Workers -> Work] /\ Holding'
  BY StepTyped, TakesTyped DEF Quiet
<1>2. UNCHANGED <<policy, row, live>>
  BY DEF Quiet, Deliver, AttemptRead, AttemptContended, AttemptFails, Resolve, ResolveFails,
         CheckDedup, CheckDedupFails, GrantCredit, GrantFails, MarkDone, OutcomeRead,
         OutcomeContended, OutcomeFails, Crash
<1>3. pins' \in [Users -> SUBSET Orgs]
  <2>1. CASE Resolve(w) \/ ResolveFails(w)
    <3>1. work[w].ev \in Events
      BY <2>1 DEF Resolve, ResolveFails, At, TInv, Holding
    <3>2. CASE UNCHANGED pins
      BY <3>2 DEF TInv, TypeOK
    <3>3. ASSUME UserOf[work[w].ev] # NoUser, NEW o \in OrgsFor(work[w].ev),
                 pins' = [pins EXCEPT ![UserOf[work[w].ev]] = IF o = NoOrg THEN @ ELSE @ \cup {o}]
          PROVE  pins' \in [Users -> SUBSET Orgs]
      BY <3>1, <3>3, OrgsForTyped DEF TInv, TypeOK
    <3> QED
      BY <2>1, <3>2, <3>3 DEF Resolve, ResolveFails
  <2>2. CASE ~ (Resolve(w) \/ ResolveFails(w))
    BY <2>2 DEF Quiet, Deliver, AttemptRead, AttemptContended, AttemptFails,
         CheckDedup, CheckDedupFails, GrantCredit, GrantFails, MarkDone, OutcomeRead,
         OutcomeContended, OutcomeFails, Crash, TInv, TypeOK
  <2> QED
    BY <2>1, <2>2
<1>4. marks' \subseteq Keys
  <2>1. CASE MarkDone(w)
    <3>1. work[w].grant \in Grant
      BY <2>1 DEF MarkDone, At, TInv, Holding
    <3> QED
      BY <2>1, <3>1, KeysTyped DEF MarkDone, TInv, TypeOK
  <2>2. CASE ~MarkDone(w)
    BY <2>2 DEF Quiet, Deliver, AttemptRead, AttemptContended, AttemptFails, Resolve, ResolveFails,
         CheckDedup, CheckDedupFails, GrantCredit, GrantFails, OutcomeRead,
         OutcomeContended, OutcomeFails, Crash, TInv, TypeOK
  <2> QED
    BY <2>1, <2>2
<1>5. credits' \subseteq [key : Keys, grant : Grant]
  <2>1. CASE GrantCredit(w) \/ GrantFails(w)
    <3>1. work[w].grant \in Grant
      BY <2>1 DEF GrantCredit, GrantFails, At, TInv, Holding
    <3> QED
      BY <2>1, <3>1, BookTyped DEF GrantCredit, GrantFails, TInv, TypeOK
  <2>2. CASE ~ (GrantCredit(w) \/ GrantFails(w))
    BY <2>2 DEF Quiet, Deliver, AttemptRead, AttemptContended, AttemptFails, Resolve, ResolveFails,
         CheckDedup, CheckDedupFails, MarkDone, OutcomeRead,
         OutcomeContended, OutcomeFails, Crash, TInv, TypeOK
  <2> QED
    BY <2>1, <2>2
<1> QED
  BY <1>1, <1>2, <1>3, <1>4, <1>5 DEF TInv, TypeOK

LEMMA ClaimTyped ==
    ASSUME TInv, NEW w \in Workers, AttemptClaim(w)
    PROVE  TInv'
<1> DEFINE e == work[w].ev
           r == [status |-> "in_progress", attempts |-> work[w].copy.attempts + 1]
           rec == [Idle EXCEPT !.pc = "resolve", !.ev = e, !.owner = TRUE, !.tries = 1]
<1>1. e \in Events
  BY DEF AttemptClaim, At, TInv, Holding
<1>2. r \in Row
  BY DEF TInv, TypeOK, Work, Row, Statuses
<1>3. rec \in Work /\ rec.pc = "resolve" /\ rec.ev = e
  <2> HIDE DEF e
  <2>1. 1 \in 0..MaxAttempts
    BY BoundsArePositive
  <2> QED
    BY <1>1, <2>1, IdleIsWork DEF Work, Steps
<1>4. WriteRow(w, e, r, rec) /\ live' = live \cup {e} /\ UNCHANGED <<policy, marks, pins, credits>>
  BY DEF AttemptClaim
<1> HIDE DEF e, r, rec
<1>5. row' \in [Events -> Row] /\ work' \in [Workers -> Work] /\ Holding'
  BY <1>1, <1>2, <1>3, <1>4, WriteTyped
<1> QED
  BY <1>1, <1>4, <1>5 DEF TInv, TypeOK

LEMMA OutcomeTyped ==
    ASSUME TInv, NEW w \in Workers, OutcomeWrite(w)
    PROVE  TInv'
<1> DEFINE e == work[w].ev
           r == [status |-> work[w].verdict, attempts |-> work[w].tries]
<1>1. e \in Events
  BY DEF OutcomeWrite, At, TInv, Holding
<1>2. r \in Row
  BY BoundsArePositive DEF TInv, TypeOK, Work, Row
<1>3. WriteRow(w, e, r, Idle) /\ live' = live \ {e} /\ UNCHANGED <<policy, marks, pins, credits>>
  BY DEF OutcomeWrite
<1> HIDE DEF e, r
<1>4. Idle.pc = "idle" /\ ~Idle.owner
  BY DEF Idle
<1>5. row' \in [Events -> Row] /\ work' \in [Workers -> Work] /\ Holding'
  BY <1>1, <1>2, <1>3, <1>4, IdleIsWork, WriteTyped
<1> QED
  BY <1>3, <1>5 DEF TInv, TypeOK

\* DeleteUserRow's effect on the workers.
LEMMA DeleteWork ==
    ASSUME TInv, NEW e \in Events, DeleteUserRow(e)
    PROVE  /\ work' \in [Workers -> Work]
           /\ \A v \in Workers :
                 /\ work'[v].pc = work[v].pc /\ work'[v].ev = work[v].ev
                 /\ work'[v].grant = work[v].grant /\ work'[v].verdict = work[v].verdict
                 /\ work'[v].clean = (work[v].clean /\ work[v].ev # e)
                 /\ work'[v].owner = (work[v].owner /\ work[v].ev # e)
<1>1. ASSUME NEW v \in Workers
      PROVE  /\ work'[v] \in Work
             /\ work'[v].pc = work[v].pc /\ work'[v].ev = work[v].ev
             /\ work'[v].grant = work[v].grant /\ work'[v].verdict = work[v].verdict
             /\ work'[v].clean = (work[v].clean /\ work[v].ev # e)
             /\ work'[v].owner = (work[v].owner /\ work[v].ev # e)
  <2> DEFINE d == Disown(e)[v]
             b == d.clean /\ work[v].ev # e
  <2>1. d \in Work /\ b \in BOOLEAN
    BY DisownTyped
  <2>2. work'[v] = [d EXCEPT !.clean = b]
    BY DEF DeleteUserRow
  <2>3. /\ d.pc = work[v].pc /\ d.ev = work[v].ev /\ d.grant = work[v].grant
        /\ d.verdict = work[v].verdict /\ d.clean = work[v].clean
        /\ d.owner = (work[v].owner /\ work[v].ev # e)
    BY DisownTyped
  <2>4. b = (work[v].clean /\ work[v].ev # e)
    BY <2>3
  <2> HIDE DEF d, b
  <2> QED
    BY <2>1, <2>2, <2>3, <2>4 DEF Work
<1> QED
  BY <1>1 DEF DeleteUserRow

LEMMA NextTInv == TInv /\ [Next]_vars => TInv'
<1> SUFFICES ASSUME TInv, [Next]_vars PROVE TInv'
  OBVIOUS
<1>1. ASSUME NEW w \in Workers, Quiet(w) \/ AttemptClaim(w) \/ OutcomeWrite(w)
      PROVE  TInv'
  BY <1>1, QuietTyped, ClaimTyped, OutcomeTyped
<1>2. ASSUME NEW e \in Events, ExpireLease(e)
      PROVE  TInv'
  <2>1. work' = Disown(e) /\ UNCHANGED <<policy, row, marks, pins, credits>> /\ live' = live \ {e}
    BY <1>2 DEF ExpireLease
  <2>2. work' \in [Workers -> Work] /\ Holding'
    BY <2>1, DisownTyped DEF TInv, Holding
  <2> QED
    BY <2>1, <2>2 DEF TInv, TypeOK
<1>3. ASSUME NEW e \in Events, ExpireRow(e)
      PROVE  TInv'
  BY <1>3, IdleIsWork DEF ExpireRow, TInv, TypeOK, Holding
<1>4. ASSUME NEW e \in Events, DeleteUserRow(e)
      PROVE  TInv'
  <2>1. work' \in [Workers -> Work] /\ Holding'
    BY <1>4, DeleteWork DEF TInv, Holding
  <2> QED
    BY <1>4, <2>1, IdleIsWork DEF DeleteUserRow, TInv, TypeOK
<1>5. CASE UNCHANGED vars
  BY <1>5 DEF vars, TInv, TypeOK, Holding
<1> QED
  BY <1>1, <1>2, <1>3, <1>4, <1>5, NextCases

\* The ledger rows, the business-dedup rows, the pins, billing's grants and the
\* deliveries stay well typed, and no retry loop runs past its attempts.
THEOREM TypeCorrect == Spec => []TypeOK
<1>1. Spec => []TInv
  BY InitTInv, NextTInv, PTL DEF Spec
<1>2. TInv => TypeOK
  BY DEF TInv
<1> QED
  BY <1>1, <1>2, PTL

-----------------------------------------------------------------------------
(* One grant per subject, and no decision without the money *)

\* A booked grant is booked under its own key, for an org, and alone under it.
KeyedRight == \A c \in credits : c.key = BillingKey(c.grant) /\ c.grant.org # NoOrg
OnePerKey  == \A c, d \in credits : c.key = d.key => c = d

\* A business-dedup row stands for a booked grant.
MarksPaid == \A k \in marks : \E c \in credits : c.key = k

\* e's user, or an org it shares, has been credited.
Paid(e) == \E c \in credits : c.grant.user = UserOf[e] \/ c.grant.org \in pins[UserOf[e]]

\* What a delivery in progress knows: it grants to its event's user and an org
\* pinned for it; past the grant, billing has booked one under the key; and the
\* success or skip it is about to record stands for credit.
Sound(r) ==
    /\ r.pc \in {"dedup", "grant", "mark"} =>
           /\ r.grant.user = UserOf[r.ev]
           /\ r.grant.org # NoOrg => r.grant.org \in pins[r.grant.user]
    /\ r.pc = "mark" => \E c \in credits : c.key = BillingKey(r.grant)
    /\ /\ r.pc \in {"outcome", "record"}
       /\ r.verdict \in {"success", "skipped"}
       /\ Entitled(r.ev)
       => Paid(r.ev)

Decided(e) == Entitled(e) /\ row[e].status \in {"success", "skipped"} => Paid(e)

CInv == /\ TInv
        /\ KeyedRight /\ OnePerKey
        /\ MarksPaid
        /\ \A w \in Workers : Sound(work[w])
        /\ \A e \in Events : Decided(e)

\* Under one policy per tier, equal keys have a user or an org in common.
LEMMA KeySubject ==
    ASSUME policy \in [Tiers -> Policies], NEW g \in Grant, NEW h \in Grant,
           BillingKey(g) = BillingKey(h)
    PROVE  g.user = h.user \/ g.org = h.org
BY PoliciesDeclared, EventsDeclared DEF BillingKey, Grant, AllPolicies

\* Grants that the policy is to make one have equal keys.
LEMMA SubjectKey ==
    ASSUME policy \in [Tiers -> Policies], NEW g \in Grant, NEW h \in Grant, SameSubject(g, h)
    PROVE  BillingKey(g) = BillingKey(h)
BY PoliciesDeclared DEF BillingKey, SameSubject, Grant, AllPolicies

\* Policies are fixed, and neither credits nor pins are taken back.
Grows == /\ policy' = policy
         /\ credits \subseteq credits'
         /\ \A u \in Users : pins[u] \subseteq pins'[u]

LEMMA KeyStable ==
    ASSUME policy' = policy, NEW g
    PROVE  BillingKey(g)' = BillingKey(g)
BY DEF BillingKey

\* Credits change only when a delivery at "grant" has billing book its grant.
LEMMA CreditSteps ==
    ASSUME TInv, [Next]_vars
    PROVE  \/ UNCHANGED credits
           \/ \E w \in Workers : /\ work[w].pc = "grant" /\ work[w].grant.org # NoOrg
                                 /\ Book(work[w].grant)
<1>1. ASSUME NEW w \in Workers, Quiet(w)
      PROVE  UNCHANGED credits \/ (work[w].pc = "grant" /\ work[w].grant.org # NoOrg /\ Book(work[w].grant))
  <2>1. CASE GrantCredit(w) \/ GrantFails(w)
    BY <2>1 DEF GrantCredit, GrantFails, Accepts, At
  <2>2. CASE ~ (GrantCredit(w) \/ GrantFails(w))
    BY <1>1, <2>2 DEF Quiet, Deliver, AttemptRead, AttemptContended, AttemptFails, Resolve,
         ResolveFails, CheckDedup, CheckDedupFails, MarkDone, OutcomeRead,
         OutcomeContended, OutcomeFails, Crash
  <2> QED
    BY <2>1, <2>2
<1>2. ASSUME NEW w \in Workers, AttemptClaim(w) \/ OutcomeWrite(w)
      PROVE  UNCHANGED credits
  BY <1>2 DEF AttemptClaim, OutcomeWrite
<1>3. ASSUME NEW e \in Events, ExpireLease(e) \/ ExpireRow(e) \/ DeleteUserRow(e)
      PROVE  UNCHANGED credits
  BY <1>3 DEF ExpireLease, ExpireRow, DeleteUserRow
<1> QED
  BY <1>1, <1>2, <1>3, NextCases DEF vars

LEMMA Growing ==
    ASSUME TInv, [Next]_vars
    PROVE  Grows
<1>1. credits \subseteq credits'
  BY CreditSteps DEF Book
<1>2. ASSUME NEW w \in Workers, Resolve(w) \/ ResolveFails(w)
      PROVE  policy' = policy /\ \A u \in Users : pins[u] \subseteq pins'[u]
  BY <1>2 DEF Resolve, ResolveFails, TInv, TypeOK
<1>3. ASSUME NEW w \in Workers, Quiet(w), ~ (Resolve(w) \/ ResolveFails(w))
      PROVE  UNCHANGED <<policy, pins>>
  BY <1>3 DEF Quiet, Deliver, AttemptRead, AttemptContended, AttemptFails, CheckDedup,
       CheckDedupFails, GrantCredit, GrantFails, MarkDone, OutcomeRead,
       OutcomeContended, OutcomeFails, Crash
<1>4. ASSUME NEW w \in Workers, AttemptClaim(w) \/ OutcomeWrite(w)
      PROVE  UNCHANGED <<policy, pins>>
  BY <1>4 DEF AttemptClaim, OutcomeWrite
<1>5. ASSUME NEW e \in Events, ExpireLease(e) \/ ExpireRow(e) \/ DeleteUserRow(e)
      PROVE  UNCHANGED <<policy, pins>>
  BY <1>5 DEF ExpireLease, ExpireRow, DeleteUserRow
<1>6. policy' = policy /\ \A u \in Users : pins[u] \subseteq pins'[u]
  BY <1>2, <1>3, <1>4, <1>5, NextCases DEF vars
<1> QED
  BY <1>1, <1>6 DEF Grows

LEMMA CreditsKeep ==
    ASSUME CInv, [Next]_vars
    PROVE  KeyedRight' /\ OnePerKey'
<1>1. policy' = policy
  BY Growing DEF Grows, CInv
<1>2. CASE UNCHANGED credits
  BY <1>1, <1>2, KeyStable DEF CInv, KeyedRight, OnePerKey
<1>3. ASSUME NEW g, g.org # NoOrg, Book(g)
      PROVE  KeyedRight' /\ OnePerKey'
  <2>1. g.org # NoOrg /\ Book(g)
    BY <1>3
  <2>2. CASE \E c \in credits : c.key = BillingKey(g)
    BY <1>1, <2>1, <2>2, KeyStable DEF CInv, KeyedRight, OnePerKey, Book
  <2>3. CASE ~ \E c \in credits : c.key = BillingKey(g)
    <3>1. credits' = credits \cup {[key |-> BillingKey(g), grant |-> g]}
      BY <2>1, <2>3 DEF Book
    <3>2. BillingKey(g)' = BillingKey(g)
      BY <1>1, KeyStable
    <3>3. KeyedRight'
      BY <1>1, <2>1, <3>1, <3>2, KeyStable DEF CInv, KeyedRight
    <3>4. OnePerKey'
      BY <2>3, <3>1 DEF CInv, OnePerKey
    <3> QED
      BY <3>3, <3>4
  <2> QED
    BY <2>2, <2>3
<1> QED
  BY <1>2, <1>3, CreditSteps DEF CInv

LEMMA MarksKeep ==
    ASSUME CInv, [Next]_vars
    PROVE  MarksPaid'
<1>1. Grows
  BY Growing DEF CInv
<1>2. CASE UNCHANGED marks
  BY <1>1, <1>2 DEF CInv, MarksPaid, Grows
<1>3. ASSUME NEW w \in Workers, MarkDone(w)
      PROVE  MarksPaid'
  <2>1. work[w].pc = "mark" /\ work[w].grant \in Grant /\ policy \in [Tiers -> Policies]
    BY <1>3 DEF MarkDone, At, CInv, TInv, TypeOK, Holding
  <2>2. \E c \in credits : c.key = DedupKey(work[w].grant)
    BY <2>1, KeysTyped DEF CInv, Sound
  <2>3. marks' \subseteq marks \cup {DedupKey(work[w].grant)}
    BY <1>3 DEF MarkDone
  <2> QED
    BY <1>1, <2>2, <2>3 DEF CInv, MarksPaid, Grows
<1>4. ASSUME NEW w \in Workers, Quiet(w), ~MarkDone(w)
      PROVE  UNCHANGED marks
  BY <1>4 DEF Quiet, Deliver, AttemptRead, AttemptContended, AttemptFails, Resolve, ResolveFails,
       CheckDedup, CheckDedupFails, GrantCredit, GrantFails, OutcomeRead,
       OutcomeContended, OutcomeFails, Crash
<1>5. ASSUME NEW w \in Workers, AttemptClaim(w) \/ OutcomeWrite(w)
      PROVE  UNCHANGED marks
  BY <1>5 DEF AttemptClaim, OutcomeWrite
<1>6. ASSUME NEW e \in Events, ExpireLease(e) \/ ExpireRow(e) \/ DeleteUserRow(e)
      PROVE  UNCHANGED marks
  BY <1>6 DEF ExpireLease, ExpireRow, DeleteUserRow
<1> QED
  BY <1>2, <1>3, <1>4, <1>5, <1>6, NextCases DEF vars

\* An event whose user has been credited stays so.
LEMMA PaidKeeps ==
    ASSUME Grows, NEW e \in Events, UserOf[e] # NoUser, Paid(e)
    PROVE  Paid(e)'
BY EventsDeclared DEF Grows, Paid

\* A delivery that a step leaves alone knows what it knew.
LEMMA SoundKeeps ==
    ASSUME TInv, Grows, NEW v \in Workers, Sound(work[v]),
           work'[v].pc = work[v].pc, work'[v].ev = work[v].ev,
           work'[v].grant = work[v].grant, work'[v].verdict = work[v].verdict
    PROVE  Sound(work[v])'
<1>1. ASSUME work[v].pc \in {"dedup", "grant", "mark"}
      PROVE  /\ work'[v].grant.user = UserOf[work'[v].ev]
             /\ work'[v].grant.org # NoOrg => work'[v].grant.org \in pins'[work'[v].grant.user]
  <2>1. work[v].grant.user \in Users
    BY <1>1 DEF TInv, Holding, Grant
  <2> QED
    BY <1>1, <2>1 DEF Sound, Grows
<1>2. ASSUME work[v].pc = "mark"
      PROVE  \E c \in credits' : c.key = BillingKey(work[v].grant)'
  BY <1>2 DEF Sound, Grows, BillingKey
<1>3. ASSUME work[v].pc \in {"outcome", "record"}, work[v].verdict \in {"success", "skipped"},
             Entitled(work[v].ev)
      PROVE  Paid(work[v].ev)'
  <2>1. work[v].ev \in Events /\ UserOf[work[v].ev] # NoUser
    BY <1>3 DEF TInv, Holding, Entitled
  <2>2. Paid(work[v].ev)
    BY <1>3 DEF Sound
  <2> QED
    BY <2>1, <2>2, EventsDeclared DEF Grows, Paid
<1> QED
  BY <1>1, <1>2, <1>3 DEF Sound, Entitled

\* A grant booked under the key of a delivery's grant pays the delivery's event.
LEMMA PaidByKey ==
    ASSUME CInv, NEW w \in Workers, work[w].pc \in {"dedup", "grant", "mark"},
           \E c \in credits : c.key = BillingKey(work[w].grant)
    PROVE  Paid(work[w].ev)
<1> DEFINE g == work[w].grant
<1>1. PICK c \in credits : c.key = BillingKey(g)
  OBVIOUS
<1>2. g \in Grant /\ c.grant \in Grant /\ policy \in [Tiers -> Policies]
  BY DEF CInv, TInv, TypeOK, Holding
<1>3. c.key = BillingKey(c.grant) /\ c.grant.org # NoOrg
  BY DEF CInv, KeyedRight
<1>4. g.user = UserOf[work[w].ev] /\ (g.org # NoOrg => g.org \in pins[g.user])
  BY DEF CInv, Sound
<1> HIDE DEF g
<1>5. c.grant.user = g.user \/ c.grant.org = g.org
  BY <1>1, <1>2, <1>3, KeySubject
<1> QED
  BY <1>3, <1>4, <1>5 DEF Paid

\* A delivery that moves to a step at which nothing is known knows enough.
LEMMA SoundNothing ==
    ASSUME NEW w \in Workers,
           \/ work'[w].pc \notin {"dedup", "grant", "mark", "outcome", "record"}
           \/ work'[w].pc = "outcome" /\ work'[w].verdict = "failed_permanent"
    PROVE  Sound(work[w])'
BY DEF Sound

\* The same for a delivery that returns a verdict that stands for credit.
LEMMA SoundReturn ==
    ASSUME TInv, NEW w \in Workers, work[w].pc # "idle", NEW v \in Terminal, Return(w, v),
           Entitled(work[w].ev) => Paid(work[w].ev), Grows
    PROVE  Sound(work[w])'
<1>1. work[w] \in Work /\ work[w].ev \in Events
  BY DEF TInv, TypeOK, Holding
<1>2. work'[w].pc = "outcome" /\ work'[w].ev = work[w].ev
  BY <1>1 DEF Return, Step, TInv, TypeOK, Work
<1>3. Entitled(work[w].ev) => Paid(work[w].ev)'
  <2> SUFFICES ASSUME Entitled(work[w].ev) PROVE Paid(work[w].ev)'
    OBVIOUS
  <2>1. UserOf[work[w].ev] \in Users
    BY <1>1, EventsDeclared DEF Entitled
  <2> QED
    BY <1>2, <2>1 DEF Grows, Paid
<1> QED
  BY <1>2, <1>3 DEF Sound, Entitled

\* What billing has been asked to book is booked under its key.
LEMMA Booked ==
    ASSUME NEW g, Book(g)
    PROVE  \E c \in credits' : c.key = BillingKey(g)
<1>1. CASE \E c \in credits : c.key = BillingKey(g)
  BY <1>1 DEF Book
<1>2. CASE ~ \E c \in credits : c.key = BillingKey(g)
  <2>1. [key |-> BillingKey(g), grant |-> g] \in credits'
    BY <1>2 DEF Book
  <2> QED
    BY <2>1
<1> QED
  BY <1>1, <1>2

LEMMA SoundMoves ==
    ASSUME CInv, NEW w \in Workers, Quiet(w), Grows
    PROVE  Sound(work[w])'
<1> USE DEF At
<1>0. TInv /\ work[w] \in Work /\ work \in [Workers -> Work] /\ (work[w].pc # "idle" => work[w].ev \in Events)
  BY DEF CInv, TInv, TypeOK, Holding
<1>1. CASE (\E e \in Events : Deliver(w, e)) \/ AttemptRead(w) \/ AttemptContended(w)
           \/ AttemptFails(w) \/ OutcomeFails(w) \/ Crash(w)
  <2>1. work'[w].pc \in {"idle", "read", "claim"}
    <3>1. CASE \E e \in Events : Deliver(w, e)
      BY <1>0, <3>1, IdleIsWork DEF Deliver, Step, Work
    <3>2. CASE Answer(w)
      BY <1>0, <3>2 DEF Answer, Step, Idle
    <3>3. CASE \E c, b : Step(w, [work[w] EXCEPT !.pc = "claim", !.copy = c, !.clean = b])
      BY <1>0, <3>3 DEF Step, Work
    <3>4. CASE Step(w, [work[w] EXCEPT !.pc = "read"])
      BY <1>0, <3>4 DEF Step, Work
    <3> QED
      BY <1>1, <3>1, <3>2, <3>3, <3>4
      DEF AttemptRead, AttemptContended, AttemptFails, OutcomeFails, Crash, Answer
  <2> QED
    BY <2>1, SoundNothing
<1>2. CASE ResolveFails(w) \/ CheckDedupFails(w) \/ GrantFails(w)
  <2>1. Retry(w)
    BY <1>2 DEF ResolveFails, CheckDedupFails, GrantFails
  <2>2. work'[w].pc = "resolve" \/ (work'[w].pc = "outcome" /\ work'[w].verdict = "failed_permanent")
    BY <1>0, <2>1 DEF Retry, Step, Work
  <2> QED
    BY <2>2, SoundNothing
<1>3. CASE Resolve(w)
  <2>1. ASSUME Return(w, "skipped"), ~Entitled(work[w].ev)
        PROVE  Sound(work[w])'
    BY <1>0, <1>3, <2>1, SoundReturn DEF Resolve, Terminal
  <2>2. ASSUME UserOf[work[w].ev] # NoUser, NEW o \in OrgsFor(work[w].ev), NEW t \in Granting,
               pins' = [pins EXCEPT ![UserOf[work[w].ev]] = IF o = NoOrg THEN @ ELSE @ \cup {o}],
               Step(w, [work[w] EXCEPT !.pc = "dedup",
                            !.grant = [user |-> UserOf[work[w].ev], org |-> o, tier |-> t]])
        PROVE  Sound(work[w])'
    <3>1. UserOf[work[w].ev] \in Users
      BY <1>0, <1>3, <2>2, EventsDeclared DEF Resolve
    <3>2. /\ work'[w].pc = "dedup" /\ work'[w].ev = work[w].ev
          /\ work'[w].grant.user = UserOf[work[w].ev] /\ work'[w].grant.org = o
      BY <1>0, <2>2 DEF Step, Work
    <3>3. o # NoOrg => o \in pins'[UserOf[work[w].ev]]
      BY <1>0, <2>2, <3>1 DEF TInv, TypeOK
    <3> QED
      BY <3>2, <3>3 DEF Sound
  <2> QED
    BY <1>3, <2>1, <2>2 DEF Resolve, Entitled
<1>4. CASE CheckDedup(w)
  <2>1. CASE Return(w, "skipped") /\ DedupKey(work[w].grant) \in marks
    <3>1. BillingKey(work[w].grant) = DedupKey(work[w].grant)
      BY <1>0, <1>4, KeysTyped DEF CheckDedup, TInv, TypeOK, Holding
    <3>2. Paid(work[w].ev)
      BY <1>4, <2>1, <3>1, PaidByKey DEF CheckDedup, CInv, MarksPaid
    <3> QED
      BY <1>0, <1>4, <2>1, <3>2, SoundReturn DEF CheckDedup, Terminal
  <2>2. CASE Step(w, [work[w] EXCEPT !.pc = "grant"])
    <3>1. work'[w].pc = "grant" /\ work'[w].ev = work[w].ev /\ work'[w].grant = work[w].grant
      BY <1>0, <2>2 DEF Step, Work
    <3> QED
      BY <1>4, <3>1 DEF CheckDedup, CInv, Sound
  <2> QED
    BY <1>4, <2>1, <2>2 DEF CheckDedup
<1>5. CASE GrantCredit(w)
  <2>1. work'[w].pc = "mark" /\ work'[w].ev = work[w].ev /\ work'[w].grant = work[w].grant
    BY <1>0, <1>5 DEF GrantCredit, Step, Work
  <2>2. \E c \in credits' : c.key = BillingKey(work[w].grant)
    BY <1>5, Booked DEF GrantCredit
  <2>3. BillingKey(work[w].grant)' = BillingKey(work[w].grant)
    BY <2>1 DEF Grows, BillingKey
  <2> QED
    BY <1>5, <2>1, <2>2, <2>3 DEF GrantCredit, CInv, Sound
<1>6. CASE MarkDone(w)
  <2>1. Paid(work[w].ev)
    BY <1>6, PaidByKey DEF MarkDone, CInv, Sound
  <2> QED
    BY <1>0, <1>6, <2>1, SoundReturn DEF MarkDone, Terminal
<1>7. CASE OutcomeRead(w) \/ OutcomeContended(w)
  <2>1. CASE work' = [work EXCEPT ![w] = Idle]
    BY <1>0, <2>1, SoundNothing DEF Idle
  <2>2. CASE work'[w].pc \in {"outcome", "record"} /\ work'[w].ev = work[w].ev
             /\ work'[w].verdict = work[w].verdict
    <3>1. work[w].pc \in {"outcome", "record"} /\ UNCHANGED <<pins, credits>>
      BY <1>7 DEF OutcomeRead, OutcomeContended
    <3> QED
      BY <2>2, <3>1 DEF CInv, Sound, Paid, Entitled
  <2>3. \/ work' = [work EXCEPT ![w] = Idle]
        \/ /\ work'[w].pc \in {"outcome", "record"} /\ work'[w].ev = work[w].ev
           /\ work'[w].verdict = work[w].verdict
    <3>1. CASE Step(w, [work[w] EXCEPT !.pc = "outcome"])
      BY <1>0, <3>1 DEF Step, Work
    <3>2. CASE Step(w, [work[w] EXCEPT !.pc = "record", !.copy = row[work[w].ev], !.clean = TRUE])
      BY <1>0, <3>2 DEF Step, Work
    <3> QED
      BY <1>7, <3>1, <3>2 DEF OutcomeRead, OutcomeContended, Step, Answer
  <2> QED
    BY <2>1, <2>2, <2>3
<1> QED
  BY <1>1, <1>2, <1>3, <1>4, <1>5, <1>6, <1>7 DEF Quiet

\* Every delivery stays sound.
LEMMA WorkKeeps ==
    ASSUME CInv, [Next]_vars, NEW v \in Workers
    PROVE  Sound(work[v])'
<1>0. TInv /\ Grows /\ Sound(work[v])
  BY Growing DEF CInv
<1>1. ASSUME NEW w \in Workers, Quiet(w)
      PROVE  Sound(work[v])'
  <2>1. PICK rec : Takes(w, rec)
    BY <1>0, <1>1, StepTyped DEF Quiet
  <2>2. CASE v = w
    BY <1>0, <1>1, <2>2, SoundMoves
  <2>3. CASE v # w
    <3>1. work'[v] = work[v]
      BY <2>1, <2>3 DEF Takes
    <3> QED
      BY <1>0, <3>1, SoundKeeps
  <2> QED
    BY <2>2, <2>3
<1>2. ASSUME NEW w \in Workers, NEW e, NEW r, NEW rec, WriteRow(w, e, r, rec),
             rec.pc \in {"idle", "resolve"}
      PROVE  Sound(work[v])'
  <2>1. CASE v = w
    <3>1. work'[v].pc \in {"idle", "resolve"}
      BY <1>2, <2>1 DEF WriteRow
    <3> QED
      BY <3>1, SoundNothing
  <2>2. CASE v # w
    <3>1. /\ work'[v].pc = work[v].pc /\ work'[v].ev = work[v].ev
          /\ work'[v].grant = work[v].grant /\ work'[v].verdict = work[v].verdict
      BY <1>0, <1>2, <2>2 DEF WriteRow, TInv, TypeOK, Work
    <3> QED
      BY <1>0, <3>1, SoundKeeps
  <2> QED
    BY <2>1, <2>2
<1>3. ASSUME NEW w \in Workers, AttemptClaim(w)
      PROVE  Sound(work[v])'
  <2> DEFINE rec == [Idle EXCEPT !.pc = "resolve", !.ev = work[w].ev, !.owner = TRUE, !.tries = 1]
  <2>1. rec.pc = "resolve"
    BY IdleIsWork DEF Work
  <2>2. \E e, r : WriteRow(w, e, r, rec)
    BY <1>3 DEF AttemptClaim
  <2> HIDE DEF rec
  <2> QED
    BY <1>2, <2>1, <2>2
<1>4. ASSUME NEW w \in Workers, OutcomeWrite(w)
      PROVE  Sound(work[v])'
  <2>1. \E e, r : WriteRow(w, e, r, Idle)
    BY <1>4 DEF OutcomeWrite
  <2>2. Idle.pc = "idle"
    BY DEF Idle
  <2> QED
    BY <1>2, <2>1, <2>2
<1>5. ASSUME NEW e \in Events, ExpireLease(e) \/ ExpireRow(e) \/ DeleteUserRow(e)
      PROVE  Sound(work[v])'
  <2>1. /\ work'[v].pc = work[v].pc /\ work'[v].ev = work[v].ev
        /\ work'[v].grant = work[v].grant /\ work'[v].verdict = work[v].verdict
    BY <1>0, <1>5, DisownTyped, DeleteWork DEF ExpireLease, ExpireRow
  <2> QED
    BY <1>0, <2>1, SoundKeeps
<1>6. CASE UNCHANGED vars
  <2>1. work'[v] = work[v]
    BY <1>6 DEF vars
  <2> QED
    BY <1>0, <2>1, SoundKeeps
<1> QED
  BY <1>1, <1>3, <1>4, <1>5, <1>6, NextCases

\* A recorded success or skip stands for credit.
LEMMA DecidedKeeps ==
    ASSUME CInv, [Next]_vars, NEW e \in Events
    PROVE  Decided(e)'
<1>0. TInv /\ Grows /\ row \in [Events -> Row]
  BY Growing DEF CInv, TInv, TypeOK
<1>1. CASE row'[e].status \notin {"success", "skipped"}
  BY <1>1 DEF Decided
<1>2. CASE row'[e].status = row[e].status
  BY <1>0, <1>2, PaidKeeps DEF CInv, Decided, Entitled
<1>3. ASSUME NEW w \in Workers, OutcomeWrite(w), work[w].ev = e
      PROVE  Decided(e)'
  <2>1. row'[e].status = work[w].verdict /\ work[w].pc = "record"
    BY <1>0, <1>3 DEF OutcomeWrite, WriteRow, At
  <2>2. Entitled(e) /\ work[w].verdict \in {"success", "skipped"} => Paid(e)
    BY <1>3, <2>1 DEF CInv, Sound
  <2> QED
    BY <1>0, <2>1, <2>2, PaidKeeps DEF Decided, Entitled
<1>4. ASSUME NEW w \in Workers, OutcomeWrite(w), work[w].ev # e
      PROVE  row'[e] = row[e]
  BY <1>0, <1>4 DEF OutcomeWrite, WriteRow
<1>5. ASSUME NEW w \in Workers, AttemptClaim(w)
      PROVE  row'[e] = row[e] \/ row'[e].status = "in_progress"
  BY <1>0, <1>5 DEF AttemptClaim, WriteRow
<1>6. ASSUME NEW f \in Events, ExpireLease(f) \/ ExpireRow(f) \/ DeleteUserRow(f)
      PROVE  row'[e] = row[e] \/ row'[e].status = "none"
  BY <1>0, <1>6 DEF ExpireLease, ExpireRow, DeleteUserRow, NoRow
<1>7. ASSUME NEW w \in Workers, Quiet(w)
      PROVE  row' = row
  BY <1>7 DEF Quiet, Deliver, AttemptRead, AttemptContended, AttemptFails, Resolve, ResolveFails,
       CheckDedup, CheckDedupFails, GrantCredit, GrantFails, MarkDone, OutcomeRead,
       OutcomeContended, OutcomeFails, Crash
<1> QED
  BY <1>1, <1>2, <1>3, <1>4, <1>5, <1>6, <1>7, NextCases DEF vars

LEMMA InitCInv == Init => CInv
<1> SUFFICES ASSUME Init PROVE CInv
  OBVIOUS
<1>1. TInv
  BY InitTInv
<1>2. \A w \in Workers : Sound(work[w])
  BY DEF Init, Idle, Sound
<1>3. \A e \in Events : Decided(e)
  BY DEF Init, NoRow, Decided
<1> QED
  BY <1>1, <1>2, <1>3 DEF Init, CInv, KeyedRight, OnePerKey, MarksPaid

LEMMA NextCInv == CInv /\ [Next]_vars => CInv'
<1> SUFFICES ASSUME CInv, [Next]_vars PROVE CInv'
  OBVIOUS
<1>1. TInv'
  BY NextTInv DEF CInv
<1> QED
  BY <1>1, CreditsKeep, MarksKeep, WorkKeeps, DecidedKeeps DEF CInv

LEMMA CInvHolds == Spec => []CInv
BY InitCInv, NextCInv, PTL DEF Spec

\* Billing books one grant per subject of the tier's dedup policy, however often
\* and under however many events the sign-up is delivered, replayed or retried,
\* with either ledger: the key of default_handler.go:58-61 carries no event.
THEOREM CreditsAreSingle == Spec => []CreditedOnce
<1>1. ASSUME CInv PROVE CreditedOnce
  <2> SUFFICES ASSUME NEW c \in credits, NEW d \in credits, SameSubject(c.grant, d.grant)
               PROVE  c = d
    BY DEF CreditedOnce
  <2>1. c.grant \in Grant /\ d.grant \in Grant /\ policy \in [Tiers -> Policies]
    BY <1>1 DEF CInv, TInv, TypeOK
  <2>2. c.key = d.key
    BY <1>1, <2>1, SubjectKey DEF CInv, KeyedRight
  <2> QED
    BY <1>1, <2>2 DEF CInv, OnePerKey
<1> QED
  BY <1>1, CInvHolds, PTL

\* A success or a skip the ledger records for an entitled user's event stands for
\* booked credit: the handler checks and writes the business-dedup row on the
\* right sides of the grant.
THEOREM DecisionsAreFunded == Spec => []DecidedMeansCredited
<1>1. ASSUME CInv PROVE DecidedMeansCredited
  BY <1>1 DEF CInv, Decided, Paid, DecidedMeansCredited
<1> QED
  BY <1>1, CInvHolds, PTL

-----------------------------------------------------------------------------
(* Claims on the Redis ledger *)

\* A delivery whose copy of the row is current has found it free.
Watch == \A w \in Workers :
    work[w].pc = "claim" /\ work[w].clean => ~Blocks(work[w].ev, row[work[w].ev])

\* A claim that holds keeps others away from the row.
Owners == \A w \in Workers : work[w].owner => Blocks(work[w].ev, row[work[w].ev])

LInv == TInv /\ Watch /\ Owners /\ LeaseExclusive

\* A quiet step gives no claim, and gets ready to claim only a free row.
LEMMA QuietOwner ==
    ASSUME TInv, NEW w \in Workers, Quiet(w)
    PROVE  /\ UNCHANGED <<row, live>>
           /\ \A v \in Workers \ {w} : work'[v] = work[v]
           /\ work'[w].owner => work[w].owner /\ work'[w].ev = work[w].ev
           /\ work'[w].pc = "claim" => ~Blocks(work'[w].ev, row[work'[w].ev])
<1> USE DEF At
<1>0. work[w] \in Work /\ work \in [Workers -> Work]
  BY DEF TInv, TypeOK
<1>1. UNCHANGED <<row, live>>
  BY DEF Quiet, Deliver, AttemptRead, AttemptContended, AttemptFails, Resolve, ResolveFails,
         CheckDedup, CheckDedupFails, GrantCredit, GrantFails, MarkDone, OutcomeRead,
         OutcomeContended, OutcomeFails, Crash
<1>2. \A v \in Workers \ {w} : work'[v] = work[v]
  <2>1. PICK rec : Takes(w, rec)
    BY StepTyped DEF Quiet
  <2> QED
    BY <2>1 DEF Takes
<1> DEFINE Keeps == /\ work'[w].owner => work[w].owner /\ work'[w].ev = work[w].ev
                    /\ work'[w].pc = "claim" => ~Blocks(work'[w].ev, row[work'[w].ev])
<1> SUFFICES Keeps
  BY <1>1, <1>2
<1>3. CASE Answer(w)
  BY <1>0, <1>3 DEF Answer, Step, Idle
<1>4. CASE \E e \in Events : Deliver(w, e)
  <2>1. ~Idle.owner
    BY DEF Idle
  <2> QED
    BY <1>0, <1>4, <2>1, IdleIsWork DEF Deliver, Step, Work
<1>5. CASE Retry(w) \/ \E v : Return(w, v)
  <2>1. CASE \E n : Step(w, [work[w] EXCEPT !.pc = "resolve", !.tries = n, !.grant = NoGrant])
    BY <1>0, <2>1 DEF Step, Work
  <2>2. CASE \E n, v : Step(w, [work[w] EXCEPT !.pc = "outcome", !.tries = n, !.grant = NoGrant,
                                               !.verdict = v])
    BY <1>0, <2>2 DEF Step, Work
  <2>3. CASE \E v : Step(w, [work[w] EXCEPT !.pc = "outcome", !.verdict = v, !.grant = NoGrant])
    BY <1>0, <2>3 DEF Step, Work
  <2> QED
    BY <1>5, <2>1, <2>2, <2>3 DEF Retry, Return
<1>6. CASE AttemptRead(w) /\ ~Answer(w)
  <2>1. ~Blocks(work[w].ev, row[work[w].ev])
    BY <1>6 DEF AttemptRead
  <2>2. work'[w].ev = work[w].ev /\ work'[w].owner = work[w].owner
    BY <1>0, <1>6 DEF AttemptRead, Step, Work
  <2> QED
    BY <2>1, <2>2
<1>7. CASE AttemptContended(w) \/ OutcomeContended(w) \/ GrantCredit(w)
  BY <1>0, <1>3, <1>7 DEF AttemptContended, OutcomeContended, GrantCredit, Step, Work
<1>8. CASE Resolve(w)
  <2>1. CASE \E g : Step(w, [work[w] EXCEPT !.pc = "dedup", !.grant = g])
    BY <1>0, <2>1 DEF Step, Work
  <2> QED
    BY <1>5, <1>8, <2>1 DEF Resolve
<1>9. CASE CheckDedup(w)
  <2>1. CASE Step(w, [work[w] EXCEPT !.pc = "grant"])
    BY <1>0, <2>1 DEF Step, Work
  <2> QED
    BY <1>5, <1>9, <2>1 DEF CheckDedup
<1>10. CASE OutcomeRead(w)
  <2>1. CASE \E r, b : Step(w, [work[w] EXCEPT !.pc = "record", !.copy = r, !.clean = b])
    BY <1>0, <2>1 DEF Step, Work
  <2> QED
    BY <1>3, <1>10, <2>1 DEF OutcomeRead
<1>11. CASE AttemptFails(w) \/ OutcomeFails(w) \/ Crash(w)
  BY <1>3, <1>11 DEF AttemptFails, OutcomeFails, Crash, Answer
<1>12. CASE ResolveFails(w) \/ CheckDedupFails(w) \/ GrantFails(w) \/ MarkDone(w)
  BY <1>5, <1>12 DEF ResolveFails, CheckDedupFails, GrantFails, MarkDone
<1> QED
  BY <1>3, <1>4, <1>6, <1>7, <1>8, <1>9, <1>10, <1>11, <1>12 DEF Quiet

LEMMA LQuiet ==
    ASSUME LInv, NEW w \in Workers, Quiet(w)
    PROVE  Watch' /\ Owners' /\ LeaseExclusive'
<1>1. /\ UNCHANGED <<row, live>>
      /\ \A v \in Workers \ {w} : work'[v] = work[v]
      /\ work'[w].owner => work[w].owner /\ work'[w].ev = work[w].ev
      /\ work'[w].pc = "claim" => ~Blocks(work'[w].ev, row[work'[w].ev])
  BY QuietOwner DEF LInv
<1>2. Watch'
  BY <1>1 DEF LInv, Watch, Blocks
<1>3. Owners'
  BY <1>1 DEF LInv, Owners, Blocks
<1>4. LeaseExclusive'
  BY <1>1 DEF LInv, LeaseExclusive
<1> QED
  BY <1>2, <1>3, <1>4

\* What a write of e's row by w leaves of the other deliveries.
LEMMA WriteOthers ==
    ASSUME TInv, NEW w \in Workers, NEW e \in Events, NEW r, NEW rec, WriteRow(w, e, r, rec)
    PROVE  /\ row'[e] = r /\ \A f \in Events \ {e} : row'[f] = row[f]
           /\ work'[w] = rec
           /\ \A v \in Workers \ {w} :
                 /\ work'[v].pc = work[v].pc /\ work'[v].ev = work[v].ev
                 /\ work'[v].owner = work[v].owner
                 /\ work'[v].clean = (work[v].clean /\ work[v].ev # e)
BY DEF WriteRow, TInv, TypeOK, Work

\* The claims and the copies of deliveries that have an event.
LEMMA HasEvent ==
    ASSUME TInv, NEW w \in Workers, work[w].owner \/ work[w].pc = "claim"
    PROVE  work[w].ev \in Events
BY DEF TInv, Holding

LEMMA LClaim ==
    ASSUME LInv, NEW w \in Workers, AttemptClaim(w), Backend = "redis"
    PROVE  /\ Watch' /\ Owners' /\ LeaseExclusive'
           /\ row[work[w].ev].status \notin Terminal
           /\ \A f \in Events \ {work[w].ev} : row'[f] = row[f]
<1> DEFINE e == work[w].ev
           r == [status |-> "in_progress", attempts |-> work[w].copy.attempts + 1]
           rec == [Idle EXCEPT !.pc = "resolve", !.ev = e, !.owner = TRUE, !.tries = 1]
<1>0. TInv /\ e \in Events
  BY DEF AttemptClaim, At, LInv, TInv, Holding
<1>1. ~Blocks(e, row[e])
  BY DEF AttemptClaim, At, Unchanged, LInv, Watch
<1>2. WriteRow(w, e, r, rec) /\ live' = live \cup {e}
  BY DEF AttemptClaim
<1>3. rec.pc = "resolve" /\ rec.ev = e /\ r.status = "in_progress"
  BY IdleIsWork DEF Work
<1>8. row[e].status \notin Terminal
  BY <1>1 DEF Blocks
<1> HIDE DEF r, rec
<1>4. /\ row'[e] = r /\ \A f \in Events \ {e} : row'[f] = row[f]
      /\ work'[w] = rec
      /\ \A v \in Workers \ {w} :
            /\ work'[v].pc = work[v].pc /\ work'[v].ev = work[v].ev
            /\ work'[v].owner = work[v].owner
            /\ work'[v].clean = (work[v].clean /\ work[v].ev # e)
  BY <1>0, <1>2, WriteOthers
<1>5. Watch'
  <2> SUFFICES ASSUME NEW v \in Workers, work'[v].pc = "claim", work'[v].clean
               PROVE  ~Blocks(work[v].ev, row[work[v].ev])'
    BY DEF Watch
  <2>1. v # w /\ work[v].pc = "claim" /\ work[v].clean /\ work[v].ev # e /\ work'[v].ev = work[v].ev
    BY <1>3, <1>4
  <2>2. work[v].ev \in Events
    BY <1>0, <2>1, HasEvent
  <2> QED
    BY <1>2, <1>4, <2>1, <2>2 DEF LInv, Watch, Blocks
<1>6. Owners'
  <2> SUFFICES ASSUME NEW v \in Workers, work'[v].owner
               PROVE  Blocks(work[v].ev, row[work[v].ev])'
    BY DEF Owners
  <2>1. CASE work'[v].ev = e
    BY <1>2, <1>3, <1>4, <2>1 DEF Blocks
  <2>2. CASE work'[v].ev # e
    <3>1. v # w /\ work[v].owner /\ work'[v].ev = work[v].ev
      BY <1>3, <1>4, <2>2
    <3>2. work[v].ev \in Events
      BY <1>0, <3>1, HasEvent
    <3> QED
      BY <1>2, <1>4, <2>2, <3>1, <3>2 DEF LInv, Owners, Blocks
  <2> QED
    BY <2>1, <2>2
<1>7. LeaseExclusive'
  <2>1. \A v \in Workers \ {w} : ~ (work[v].owner /\ work[v].ev = e)
    BY <1>1 DEF LInv, Owners
  <2> QED
    BY <1>3, <1>4, <2>1 DEF LInv, LeaseExclusive
<1> QED
  BY <1>4, <1>5, <1>6, <1>7, <1>8

LEMMA LOutcome ==
    ASSUME LInv, NEW w \in Workers, OutcomeWrite(w)
    PROVE  /\ Watch' /\ Owners' /\ LeaseExclusive'
           /\ \A f \in Events : row'[f] = row[f] \/ row'[f].status \in Terminal
<1> DEFINE e == work[w].ev
           r == [status |-> work[w].verdict, attempts |-> work[w].tries]
<1>0. TInv /\ e \in Events /\ r.status \in Terminal
  BY DEF OutcomeWrite, At, LInv, TInv, Holding
<1>1. WriteRow(w, e, r, Idle) /\ live' = live \ {e}
  BY DEF OutcomeWrite
<1>2. Idle.pc = "idle" /\ ~Idle.owner
  BY DEF Idle
<1> HIDE DEF e, r
<1>3. /\ row'[e] = r /\ \A f \in Events \ {e} : row'[f] = row[f]
      /\ work'[w] = Idle
      /\ \A v \in Workers \ {w} :
            /\ work'[v].pc = work[v].pc /\ work'[v].ev = work[v].ev
            /\ work'[v].owner = work[v].owner
            /\ work'[v].clean = (work[v].clean /\ work[v].ev # e)
  BY <1>0, <1>1, WriteOthers
<1>4. Watch'
  <2> SUFFICES ASSUME NEW v \in Workers, work'[v].pc = "claim", work'[v].clean
               PROVE  ~Blocks(work[v].ev, row[work[v].ev])'
    BY DEF Watch
  <2>1. v # w /\ work[v].pc = "claim" /\ work[v].clean /\ work[v].ev # e /\ work'[v].ev = work[v].ev
    BY <1>2, <1>3
  <2>2. work[v].ev \in Events
    BY <1>0, <2>1, HasEvent
  <2> QED
    BY <1>1, <1>3, <2>1, <2>2 DEF LInv, Watch, Blocks
<1>5. Owners'
  <2> SUFFICES ASSUME NEW v \in Workers, work'[v].owner
               PROVE  Blocks(work[v].ev, row[work[v].ev])'
    BY DEF Owners
  <2>1. v # w /\ work[v].owner /\ work'[v].ev = work[v].ev
    BY <1>2, <1>3
  <2>2. work[v].ev \in Events
    BY <1>0, <2>1, HasEvent
  <2>3. CASE work[v].ev = e
    BY <1>0, <1>3, <2>1, <2>3 DEF Blocks
  <2>4. CASE work[v].ev # e
    BY <1>1, <1>3, <2>1, <2>2, <2>4 DEF LInv, Owners, Blocks
  <2> QED
    BY <2>3, <2>4
<1>6. LeaseExclusive'
  BY <1>2, <1>3 DEF LInv, LeaseExclusive
<1> QED
  BY <1>0, <1>3, <1>4, <1>5, <1>6

\* Leases and rows that end: claims end with them.
LEMMA LEnds ==
    ASSUME LInv, NEW e \in Events, ExpireLease(e) \/ ExpireRow(e) \/ DeleteUserRow(e)
    PROVE  /\ Watch' /\ Owners' /\ LeaseExclusive'
           /\ \A f \in Events : row'[f] = row[f] \/ row'[f].status = "none"
<1>0. TInv /\ row \in [Events -> Row]
  BY DEF LInv, TInv, TypeOK
<1>1. /\ \A f \in Events : row'[f] = row[f] \/ row'[f] = NoRow
      /\ \A f \in Events \ {e} : row'[f] = row[f] /\ (f \in live' <=> f \in live)
      /\ e \notin live'
  BY <1>0 DEF ExpireLease, ExpireRow, DeleteUserRow
<1>2. \A v \in Workers :
          /\ work'[v].pc = work[v].pc /\ work'[v].ev = work[v].ev
          /\ work'[v].clean => work[v].clean
          /\ work'[v].owner => work[v].owner /\ work[v].ev # e
  <2>1. CASE ExpireLease(e)
    BY <1>0, <2>1, DisownTyped DEF ExpireLease
  <2>2. CASE ExpireRow(e)
    BY <2>2 DEF ExpireRow
  <2>3. CASE DeleteUserRow(e)
    BY <1>0, <2>3, DeleteWork
  <2> QED
    BY <2>1, <2>2, <2>3
<1>3. "none" \notin Terminal /\ NoRow.status = "none"
  BY DEF Terminal, NoRow
<1>4. Watch'
  <2> SUFFICES ASSUME NEW v \in Workers, work'[v].pc = "claim", work'[v].clean
               PROVE  ~Blocks(work[v].ev, row[work[v].ev])'
    BY DEF Watch
  <2>1. work[v].ev \in Events /\ ~Blocks(work[v].ev, row[work[v].ev])
    BY <1>0, <1>2, HasEvent DEF LInv, Watch
  <2> QED
    BY <1>1, <1>2, <1>3, <2>1 DEF Blocks
<1>5. Owners'
  <2> SUFFICES ASSUME NEW v \in Workers, work'[v].owner
               PROVE  Blocks(work[v].ev, row[work[v].ev])'
    BY DEF Owners
  <2>1. work[v].ev \in Events \ {e} /\ Blocks(work[v].ev, row[work[v].ev])
    BY <1>0, <1>2, HasEvent DEF LInv, Owners
  <2> QED
    BY <1>1, <1>2, <2>1 DEF Blocks
<1>6. LeaseExclusive'
  BY <1>2 DEF LInv, LeaseExclusive
<1> QED
  BY <1>1, <1>3, <1>4, <1>5, <1>6

LEMMA InitLInv == Init => LInv
<1> SUFFICES ASSUME Init PROVE LInv
  OBVIOUS
<1>1. \A w \in Workers : work[w] = Idle
  BY DEF Init
<1> QED
  BY <1>1, InitTInv DEF LInv, Watch, Owners, LeaseExclusive, Idle

LEMMA NextLInv ==
    ASSUME Backend = "redis"
    PROVE  LInv /\ [Next]_vars => LInv'
<1> SUFFICES ASSUME LInv, [Next]_vars PROVE LInv'
  OBVIOUS
<1>1. TInv'
  BY NextTInv DEF LInv
<1>2. CASE UNCHANGED vars
  BY <1>1, <1>2 DEF vars, LInv, Watch, Owners, LeaseExclusive, Blocks
<1>3. ASSUME NEW w \in Workers, Quiet(w) \/ AttemptClaim(w) \/ OutcomeWrite(w)
      PROVE  LInv'
  BY <1>1, <1>3, LQuiet, LClaim, LOutcome DEF LInv
<1>4. ASSUME NEW e \in Events, ExpireLease(e) \/ ExpireRow(e) \/ DeleteUserRow(e)
      PROVE  LInv'
  BY <1>1, <1>4, LEnds DEF LInv
<1> QED
  BY <1>2, <1>3, <1>4, NextCases

\* With the Redis ledger one delivery of an event at a time runs the handler
\* under a running lease, whatever crashes, expires or is deleted (WATCH in
\* redis_store.go).
THEOREM RedisLeaseExclusive ==
    ASSUME Backend = "redis"
    PROVE  Spec => []LeaseExclusive
<1>1. Spec => []LInv
  BY InitLInv, NextLInv, PTL DEF Spec
<1>2. LInv => LeaseExclusive
  BY DEF LInv
<1> QED
  BY <1>1, <1>2, PTL

\* With the Redis ledger a finished row is never claimed again (ledger.go:119).
THEOREM RedisTerminalBlocks ==
    ASSUME Backend = "redis"
    PROVE  Spec => TerminalBlocks
<1> DEFINE Stays == \A e \in Events : row[e].status \in Terminal => row'[e].status # "in_progress"
<1>1. ASSUME LInv, [Next]_vars PROVE [Stays]_vars
  <2>0. "in_progress" \notin Terminal /\ "none" # "in_progress"
    BY DEF Terminal
  <2>1. ASSUME NEW w \in Workers, Quiet(w) PROVE Stays
    BY <1>1, <2>0, <2>1, QuietOwner DEF LInv
  <2>2. ASSUME NEW w \in Workers, AttemptClaim(w) PROVE Stays
    BY <1>1, <2>0, <2>2, LClaim
  <2>3. ASSUME NEW w \in Workers, OutcomeWrite(w) PROVE Stays
    BY <1>1, <2>0, <2>3, LOutcome
  <2>4. ASSUME NEW e \in Events, ExpireLease(e) \/ ExpireRow(e) \/ DeleteUserRow(e) PROVE Stays
    BY <1>1, <2>0, <2>4, LEnds
  <2> HIDE DEF Stays
  <2> QED
    BY <1>1, <2>1, <2>2, <2>3, <2>4, NextCases
<1>2. Spec => []LInv
  BY InitLInv, NextLInv, PTL DEF Spec
<1> QED
  BY <1>1, <1>2, PTL DEF Spec, TerminalBlocks
=============================================================================

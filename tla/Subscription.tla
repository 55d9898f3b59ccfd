---------------------------- MODULE Subscription ----------------------------
(***************************************************************************)
(* Registering this service's webhook endpoint with auth                   *)
(* (authevents/subscribe.go): the best-effort SubscribeOnStartup that      *)
(* Setup runs in a goroutine, and the strict Subscribe that an operator    *)
(* runs (`quotactl subscribe-events [--rotate-secret]`), which changes a   *)
(* secret by deleting the subscription and creating it again.              *)
(*                                                                         *)
(* Every call is a sequence of HTTP requests, one action each, so calls    *)
(* interleave; a request may fail before auth acts or after (the answer is *)
(* lost).  Auth itself is external: it keeps one subscription for an       *)
(* endpoint and answers a second create with 409.                          *)
(***************************************************************************)
EXTENDS Naturals

CONSTANTS
    Operators,        \* strict Subscribe calls, each re-run until it succeeds
    Starter,          \* the goroutine of Setup
    OldSecret,        \* what the service was deployed with
    NewSecret,        \* what the operator rotates to
    MaxAuthFaults     \* how many requests fail

ASSUME StarterIsNoOperator == Starter \notin Operators /\ MaxAuthFaults \in Nat

VARIABLES
    subs,             \* auth: the subscriptions of this endpoint
    lastId,           \* auth: ids handed out so far
    call,             \* what each caller's current call has found and done
    answer,           \* what each caller was told last
    authFaults        \* requests that have failed so far

subVars == <<subs, lastId, call, answer, authFaults>>

SubCallers == Operators \cup {Starter}

Secrets == {OldSecret, NewSecret}

\* usable: enabled, and listening to the event types this service handles.
SubscriptionRecord == [id : Nat \ {0}, secret : Secrets, usable : BOOLEAN]

NoCall == [at |-> "idle", rotate |-> FALSE, found |-> 0, replaced |-> FALSE]

Answers == {"none", "existing", "unverified", "created", "rotated", "error", "skipped"}

SubTypeOK ==
    /\ subs \subseteq SubscriptionRecord
    /\ lastId \in Nat
    /\ call \in [SubCallers -> [at : {"idle", "list", "delete", "create"}, rotate : BOOLEAN,
                                found : Nat, replaced : BOOLEAN]]
    /\ answer \in [SubCallers -> Answers]
    /\ authFaults \in 0..MaxAuthFaults

SecretOf(c) == IF c = Starter THEN OldSecret ELSE NewSecret

\* The endpoint may be registered already, by an earlier deployment.
SubInit ==
    /\ subs \in {{}} \cup {{[id |-> 1, secret |-> s, usable |-> u]} : s \in Secrets, u \in BOOLEAN}
    /\ lastId = IF subs = {} THEN 0 ELSE 1
    /\ call = [c \in SubCallers |-> NoCall]
    /\ answer = [c \in SubCallers |-> "none"]
    /\ authFaults = 0

Return(c, a) ==
    /\ answer' = [answer EXCEPT ![c] = a]
    /\ call' = [call EXCEPT ![c] = NoCall]

Goto(c, at) == call' = [call EXCEPT ![c].at = at] /\ UNCHANGED answer

AuthFails == authFaults < MaxAuthFaults /\ authFaults' = authFaults + 1

(***************************************************************************)
(* The two entries                                                         *)
(***************************************************************************)
\* The operator runs the command, and runs it again after an error; the messages of the
\* refusals name --rotate-secret.
Subscribe(o) ==
    /\ call[o].at = "idle" /\ answer[o] \in {"none", "error"}
    /\ \E r \in BOOLEAN : call' = [call EXCEPT ![o].at = "list", ![o].rotate = r]
    /\ UNCHANGED <<subs, lastId, answer, authFaults>>

\* SubscribeOnStartup takes its event types from the registered handlers.
SubscribeOnStartup(handled) ==
    /\ call[Starter].at = "idle"
    /\ IF handled THEN Goto(Starter, "list") ELSE Return(Starter, "skipped")
    /\ UNCHANGED <<subs, lastId, authFaults>>

(***************************************************************************)
(* listByEndpoint                                                          *)
(***************************************************************************)
\* Strict: an existing subscription must be the one asked for, unless it is to be replaced.
\* Its secret can be compared only where auth discloses it; otherwise the command succeeds and
\* says that it was not verified.
FoundStrict(o, e) ==
    IF call[o].rotate
    THEN call' = [call EXCEPT ![o].at = "delete", ![o].found = e.id] /\ UNCHANGED answer
    ELSE \E disclosed \in BOOLEAN :
            Return(o, IF ~e.usable \/ (disclosed /\ e.secret # SecretOf(o)) THEN "error"
                      ELSE IF disclosed THEN "existing" ELSE "unverified")

\* Mutant of Found: on startup a subscription with another secret is replaced.
FoundReplaces(c, e) ==
    IF c = Starter /\ e.secret # SecretOf(c)
    THEN call' = [call EXCEPT ![c].at = "delete", ![c].found = e.id] /\ UNCHANGED answer
    ELSE IF c = Starter THEN Return(c, "existing") ELSE FoundStrict(c, e)

\* On startup: a subscription with another secret is logged and left alone.
Found(c, e) == IF c = Starter THEN Return(c, "existing") ELSE FoundStrict(c, e)

ListByEndpoint(c) ==
    /\ call[c].at = "list"
    /\ IF subs = {} THEN Goto(c, "create") ELSE \E e \in subs : Found(c, e)
    /\ UNCHANGED <<subs, lastId, authFaults>>

\* On startup a token that may not list still gets to create.
ListFails(c) ==
    /\ call[c].at = "list" /\ AuthFails
    /\ IF c = Starter THEN Goto(c, "create") ELSE Return(c, "error")
    /\ UNCHANGED <<subs, lastId>>

(***************************************************************************)
(* deleteSubscription: 404 means already gone                              *)
(***************************************************************************)
Gone(id) == subs' = {e \in subs : e.id # id}

DeleteSubscription(c) ==
    /\ call[c].at = "delete"
    /\ Gone(call[c].found)
    /\ call' = [call EXCEPT ![c].at = "create", ![c].replaced = TRUE]
    /\ UNCHANGED <<lastId, answer, authFaults>>

DeleteFails(c) ==
    /\ call[c].at = "delete" /\ AuthFails
    /\ Gone(call[c].found) \/ UNCHANGED subs
    /\ Return(c, "error")
    /\ UNCHANGED lastId

(***************************************************************************)
(* createSubscriptionStatus                                                *)
(***************************************************************************)
Created(c) ==
    /\ lastId' = lastId + 1
    /\ subs' = {[id |-> lastId', secret |-> SecretOf(c), usable |-> TRUE]}

\* Mutant of CreateSubscription: 409 is taken for "already subscribed".
CreateTakesConflict(c) ==
    /\ call[c].at = "create"
    /\ IF subs = {} THEN Created(c) ELSE UNCHANGED <<subs, lastId>>
    /\ Return(c, IF call[c].replaced THEN "rotated" ELSE "created")
    /\ UNCHANGED authFaults

CreateSubscription(c) ==
    /\ call[c].at = "create"
    /\ \/ /\ subs = {}
          /\ Created(c)
          /\ Return(c, IF call[c].replaced THEN "rotated" ELSE "created")
       \/ /\ subs # {}                                  \* 409
          /\ Return(c, "error")
          /\ UNCHANGED <<subs, lastId>>
    /\ UNCHANGED authFaults

CreateFails(c) ==
    /\ call[c].at = "create" /\ AuthFails
    /\ \/ subs = {} /\ Created(c)
       \/ UNCHANGED <<subs, lastId>>
    /\ Return(c, "error")

AuthAnswers(c) == ListByEndpoint(c) \/ DeleteSubscription(c) \/ CreateSubscription(c)

CallStep(c) == AuthAnswers(c) \/ ListFails(c) \/ DeleteFails(c) \/ CreateFails(c)

(***************************************************************************)
(* Properties                                                              *)
(***************************************************************************)
\* Nobody is left without a subscription in silence: when an endpoint that was registered once,
\* by a call or by an earlier deployment, is not registered any more, an operator is between the delete and
\* the create of a rotation or has been told of an error (Subscribe's doc comment: "If the
\* create fails after the delete, the error says so").
GapIsLoud ==
    (subs = {} /\ lastId > 0) =>
        \E o \in Operators : call[o].at # "idle" \/ answer[o] = "error"

\* An operator that re-runs the command as the errors say ends with the endpoint registered
\* and signing with the operator's secret for good, whatever Setup's best-effort goroutine,
\* deployed with the old secret, creates in between and whichever requests fail; or is told
\* that auth did not let the secret be verified ("if events fail with 401, re-run with
\* --rotate-secret").  A run that ends in any other success ends with the new secret.
RotationEnds ==
    (\E o \in Operators : call[o].at # "idle") ~>
        \/ [](\E e \in subs : e.secret = NewSecret /\ e.usable)
        \/ \E o \in Operators : answer[o] = "unverified"
=============================================================================

------------------------------- MODULE Outbox -------------------------------
(***************************************************************************)
(* The durable outbox of money-bearing lifecycle events: EmitViaOutbox and *)
(* the drain loop (outbox/emitter.go), the settlement fallback             *)
(* (outbox/settle.go, quota/settler.go) and the two durable stores         *)
(* (outbox/store.go's RedisStore, outbox/ddb.go's DDBStore).               *)
(*                                                                         *)
(* Any number of EmitViaOutbox calls and of drain loops, one per replica,  *)
(* share the store; every action is one round trip of one of them, to the  *)
(* store, to the transport or to billing.  The Attempts counter is left    *)
(* out: nothing reads it.                                                  *)
(***************************************************************************)
EXTENDS Integers, FiniteSets

CONSTANTS
    Events,       \* intent keys, reservation_id:event_type
    Reservations, Blank,  \* reservation ids; Blank: the event carries none
    NoEvent,
    Res,          \* the reservation of each event
    Terminal,     \* the events of a type in TerminalCostEvents
    Observable,   \* the events whose payload observation.Observe accepts
    Verdict,      \* external: what billing makes of a settlement of each event
    Emitters,     \* concurrent EmitViaOutbox calls
    Drainers,     \* drain loops
    Backend,      \* the durable store AutoSelect resolved
    MaxPerPass,   \* Drain's budget
    HasPublisher, HasSettler,
    Drop,         \* past_horizon = "drop"
    Outages,      \* TRUE: the transport and billing may fail or lose an answer
    StoreFaults,  \* TRUE: a call to the store may fail
    Crashes       \* TRUE: a replica may die, or be told to stop, at any point

Verdicts == {"accept", "refuse", "reject"}

ASSUME EventsDeclared == /\ IsFiniteSet(Events)
                         /\ NoEvent \notin Events
                         /\ Res \in [Events -> Reservations \cup {Blank}]
                         /\ Blank \notin Reservations
                         /\ Terminal \subseteq Events
                         /\ Observable \subseteq Events
                         /\ Verdict \in [Events -> Verdicts]
ASSUME WorkersDisjoint == Emitters \cap Drainers = {}
ASSUME StoreIsDurable == Backend \in {"redis", "ddb"}
ASSUME BudgetIsPositive == MaxPerPass \in Nat \ {0}
ASSUME SwitchesAreBoolean ==
    {HasPublisher, HasSettler, Drop, Outages, StoreFaults, Crashes} \subseteq BOOLEAN

VARIABLES
    row,        \* the status of each intent's row, "none" when there is no row
    indexed,    \* Redis: the members of the pending set; DDB: what gsi_status lists
    older,      \* for each event, those with an earlier FirstTS
    aged,       \* the events whose FirstTS is past the retry horizon, or not set
    intended,   \* history: the events PutIntent has answered for
    published,  \* history: the events that reached the transport
    debited,    \* external: the event that settled each settlement key first
    alerted,    \* the events OnVoid has been called for
    killed,     \* the drain loops stopped by Kill
    call        \* the EmitViaOutbox calls and the drain passes

vars == <<row, indexed, older, aged, intended, published, debited, alerted, killed, call>>

Workers == Emitters \cup Drainers

Status == {"none", "pending", "voided"}

Steps == {"idle", "index", "publish", "deliver", "bumpGet", "bumpPut", "settle",
          "voidGet", "voidPut", "unindex", "alert", "next"}

\* ev: the event being handled; copy: its row as a read-modify-write read it;
\* queue, late: the rest of the drain's list, and what was past the horizon.
Call == [pc : Steps, ev : Events \cup {NoEvent}, copy : Status,
         queue : SUBSET Events, late : SUBSET Events]

NoCall == [pc |-> "idle", ev |-> NoEvent, copy |-> "none", queue |-> {}, late |-> {}]

TypeOK ==
    /\ row \in [Events -> Status]
    /\ indexed \subseteq Events
    /\ older \in [Events -> SUBSET Events]
    /\ aged \subseteq Events
    /\ intended \subseteq Events
    /\ published \subseteq Events
    /\ debited \in [Reservations \cup {Blank} -> Events \cup {NoEvent}]
    /\ alerted \subseteq Events
    /\ killed \subseteq Drainers
    /\ call \in [Workers -> Call]
    /\ \A w \in Workers : call[w].pc = "bumpPut" => call[w].copy # "none"

Init ==
    /\ row = [e \in Events |-> "none"]
    /\ indexed = {} /\ older = [e \in Events |-> {}] /\ aged = Events
    /\ intended = {} /\ published = {} /\ alerted = {} /\ killed = {}
    /\ debited = [k \in Reservations \cup {Blank} |-> NoEvent]
    /\ call = [w \in Workers |-> NoCall]

-----------------------------------------------------------------------------
(* Control flow of a worker *)

Goto(w, pc) == call' = [call EXCEPT ![w].pc = pc]

\* The worker is done with its event: the call returns, the drain goes on.
Done(w) ==
    call' = [call EXCEPT ![w] = IF w \in Emitters THEN NoCall
                                ELSE [@ EXCEPT !.pc = "next", !.ev = NoEvent, !.copy = "none"]]

\* What EmitViaOutbox does once its intent is written.
AfterIntent == IF HasPublisher THEN "publish" ELSE "settle"

-----------------------------------------------------------------------------
(* EmitViaOutbox *)

\* PutIntent, first round trip: the conditional put (DDB) or SETNX (Redis).  An
\* existing row, of whatever status, is kept with its FirstTS and the intent
\* counts as written; Redis adds a new key to the pending set in a second step.
PutIntent(w, e) ==
    LET created == row[e] = "none"
        pc == IF created /\ Backend = "redis" THEN "index" ELSE AfterIntent
    IN  /\ w \in Emitters
        /\ call[w].pc = "idle"
        /\ call' = [call EXCEPT ![w].pc = pc, ![w].ev = e]
        /\ intended' = IF pc = "index" THEN intended ELSE intended \cup {e}
        /\ row' = IF created THEN [row EXCEPT ![e] = "pending"] ELSE row
        /\ older' = IF created THEN [f \in Events |-> IF f = e THEN Events \ {e} ELSE older[f] \ {e}]
                    ELSE older
        /\ aged' = IF created THEN aged \ {e} ELSE aged
        /\ UNCHANGED <<indexed, published, debited, alerted, killed>>

\* Redis PutIntent, second round trip: ZADD to the pending set.
IndexIntent(w) ==
    /\ call[w].pc = "index"
    /\ indexed' = indexed \cup {call[w].ev}
    /\ intended' = intended \cup {call[w].ev}
    /\ Goto(w, AfterIntent)
    /\ UNCHANGED <<row, older, aged, published, debited, alerted, killed>>

\* The ZADD fails, or the answer to the first round trip is lost: EmitViaOutbox
\* returns the error.  What it has written stays.
EmitFails(w) ==
    /\ StoreFaults
    /\ w \in Emitters
    /\ call[w].pc \in {"index", AfterIntent}
    /\ Done(w)
    /\ UNCHANGED <<row, indexed, older, aged, intended, published, debited, alerted, killed>>

\* Publish answers, and the intent can be retired.
PublishSucceeds(w) ==
    /\ call[w].pc = "publish"
    /\ published' = published \cup {call[w].ev}
    /\ Goto(w, "deliver")
    /\ UNCHANGED <<row, indexed, older, aged, intended, debited, alerted, killed>>

\* Publish returns an error; the event may have gone out all the same.
PublishFails(w) ==
    /\ Outages
    /\ call[w].pc = "publish"
    /\ \E out \in {{}, {call[w].ev}} : published' = published \cup out
    /\ Goto(w, "bumpGet")
    /\ UNCHANGED <<row, indexed, older, aged, intended, debited, alerted, killed>>

-----------------------------------------------------------------------------
(* The stores *)

\* The row is deleted; Redis takes the key out of the pending set with it.
MarkDelivered(w) ==
    /\ call[w].pc = "deliver"
    /\ row' = [row EXCEPT ![call[w].ev] = "none"]
    /\ indexed' = IF Backend = "redis" THEN indexed \ {call[w].ev} ELSE indexed
    /\ Done(w)
    /\ UNCHANGED <<older, aged, intended, published, debited, alerted, killed>>

\* Mutant: the missing row is not noticed.
BumpGetBlind(w) ==
    /\ call[w].pc = "bumpGet"
    /\ call' = [call EXCEPT ![w].pc = "bumpPut", ![w].copy = row[call[w].ev]]
    /\ UNCHANGED <<row, indexed, older, aged, intended, published, debited, alerted, killed>>

\* BumpAttempt reads the row; there is nothing to bump when it is gone.
BumpGet(w) ==
    /\ call[w].pc = "bumpGet"
    /\ IF row[call[w].ev] = "none" THEN Done(w)
       ELSE call' = [call EXCEPT ![w].pc = "bumpPut", ![w].copy = row[call[w].ev]]
    /\ UNCHANGED <<row, indexed, older, aged, intended, published, debited, alerted, killed>>

\* BumpAttempt writes the row it read back, whatever became of it meanwhile.
BumpPut(w) ==
    /\ call[w].pc = "bumpPut"
    /\ row' = [row EXCEPT ![call[w].ev] = call[w].copy]
    /\ Done(w)
    /\ UNCHANGED <<indexed, older, aged, intended, published, debited, alerted, killed>>

\* A failed MarkDelivered or BumpAttempt is reported or ignored: no retry.
WriteFails(w) ==
    /\ StoreFaults
    /\ call[w].pc \in {"deliver", "bumpGet", "bumpPut"}
    /\ Done(w)
    /\ UNCHANGED <<row, indexed, older, aged, intended, published, debited, alerted, killed>>

AfterVoid == IF Backend = "redis" THEN "unindex" ELSE "alert"

\* MarkVoided reads the row.
VoidGet(w) ==
    /\ call[w].pc = "voidGet"
    /\ IF row[call[w].ev] = "none" THEN Goto(w, AfterVoid) ELSE Goto(w, "voidPut")
    /\ UNCHANGED <<row, indexed, older, aged, intended, published, debited, alerted, killed>>

\* MarkVoided writes it back as voided.
VoidPut(w) ==
    /\ call[w].pc = "voidPut"
    /\ row' = [row EXCEPT ![call[w].ev] = "voided"]
    /\ Goto(w, AfterVoid)
    /\ UNCHANGED <<indexed, older, aged, intended, published, debited, alerted, killed>>

\* Redis: the voided key leaves the pending set.
Unindex(w) ==
    /\ call[w].pc = "unindex"
    /\ indexed' = indexed \ {call[w].ev}
    /\ Goto(w, "alert")
    /\ UNCHANGED <<row, older, aged, intended, published, debited, alerted, killed>>

\* A round trip of MarkVoided fails: Redis still clears the pending set, and
\* void ignores the error and alerts all the same.
VoidFails(w) ==
    /\ StoreFaults
    /\ call[w].pc \in {"voidGet", "voidPut", "unindex"}
    /\ Goto(w, IF call[w].pc = "unindex" THEN "alert" ELSE AfterVoid)
    /\ UNCHANGED <<row, indexed, older, aged, intended, published, debited, alerted, killed>>

\* void appends to the void ledger and calls OnVoid.
Alert(w) ==
    /\ call[w].pc = "alert"
    /\ alerted' = alerted \cup {call[w].ev}
    /\ Done(w)
    /\ UNCHANGED <<row, indexed, older, aged, intended, published, debited, killed>>

-----------------------------------------------------------------------------
(* settleOrVoid *)

\* External: what a settlement request brings back.  "lost": it landed, and the
\* answer did not arrive.
Answers(e) ==
    (CASE Verdict[e] = "accept" -> {"ok"}
       [] Verdict[e] = "refuse" -> {"409"}
       [] Verdict[e] = "reject" -> {"400"})
    \cup (IF ~Outages THEN {} ELSE IF Verdict[e] = "accept" THEN {"5xx", "lost"} ELSE {"5xx"})

\* Mutant: an answer that cannot be classified is taken for a refusal.
SettleOutcomeVoidsUnknown(answer) ==
    CASE answer = "ok" -> "settled" [] answer = "409" -> "retry" [] OTHER -> "unsettleable"

\* Mutant: a 409 is taken for "already accounted".
SettleOutcomeAcks409(answer) ==
    CASE answer \in {"ok", "409"} -> "settled" [] answer = "400" -> "unsettleable"
      [] OTHER -> "retry"

\* classifySettleError and trySettle's reading of its sentinels.
SettleOutcome(answer) ==
    CASE answer = "ok" -> "settled" [] answer = "400" -> "unsettleable" [] OTHER -> "retry"

\* Mutant: the terminal-event gate is missing.
MaySettleAny(e) == HasSettler

\* trySettle attempts a settlement of terminal events only.
MaySettle(e) == HasSettler /\ e \in Terminal

\* A settlement needs a reservation id, its key, and a complete observation.
HasSettlementKey(e) == Res[e] # Blank /\ e \in Observable

\* Where settleOrVoid goes for an event it cannot settle: void, or drop.
Void == IF Drop THEN "deliver" ELSE "voidGet"

\* settleOrVoid of an event that is not sent to billing.
CannotSettle(w) ==
    /\ call[w].pc = "settle"
    /\ ~ (MaySettle(call[w].ev) /\ HasSettlementKey(call[w].ev))
    /\ Goto(w, Void)
    /\ UNCHANGED <<row, indexed, older, aged, intended, published, debited, alerted, killed>>

\* settleOrVoid of one that is: billing debits the first settlement of a key.
Settle(w, answer) ==
    LET e == call[w].ev IN
    /\ call[w].pc = "settle"
    /\ MaySettle(e) /\ HasSettlementKey(e)
    /\ answer \in Answers(e)
    /\ debited' = IF answer \in {"ok", "lost"} /\ debited[Res[e]] = NoEvent
                  THEN [debited EXCEPT ![Res[e]] = e] ELSE debited
    /\ Goto(w, CASE SettleOutcome(answer) = "settled" -> "deliver"
                 [] SettleOutcome(answer) = "retry" -> "bumpGet"
                 [] SettleOutcome(answer) = "unsettleable" -> Void)
    /\ UNCHANGED <<row, indexed, older, aged, intended, published, alerted, killed>>

-----------------------------------------------------------------------------
(* The drain loop *)

\* ListPending: the oldest MaxPerPass entries of the index.  Redis then reads
\* each row and leaves out the ones that are not pending; DDB reads the index
\* alone.  `now' is taken once for the pass.
ListPending(w) ==
    LET oldest == {e \in indexed : Cardinality(older[e] \cap indexed) < MaxPerPass}
    IN  /\ w \in Drainers \ killed
        /\ call[w].pc = "idle"
        /\ call' = [call EXCEPT ![w] = [NoCall EXCEPT
               !.pc = "next", !.late = aged,
               !.queue = IF Backend = "redis" THEN {e \in oldest : row[e] = "pending"} ELSE oldest]]
        /\ UNCHANGED <<row, indexed, older, aged, intended, published, debited, alerted, killed>>

\* Mutant: a record past the horizon is skipped.
NextPendingSkipsLate(w, e) ==
    /\ call[w].pc = "next"
    /\ e \in call[w].queue /\ older[e] \cap call[w].queue = {}
    /\ call' = [call EXCEPT ![w].queue = @ \ {e},
                            ![w].ev = IF e \in call[w].late THEN NoEvent ELSE e,
                            ![w].pc = IF e \in call[w].late THEN "next" ELSE "publish"]
    /\ UNCHANGED <<row, indexed, older, aged, intended, published, debited, alerted, killed>>

\* The next record of the pass, oldest first: past the horizon it is settled or
\* voided, else published; without a publisher it waits for a later pass.
NextPending(w, e) ==
    LET pc == IF e \in call[w].late THEN "settle" ELSE IF HasPublisher THEN "publish" ELSE "next"
    IN  /\ call[w].pc = "next"
        /\ e \in call[w].queue /\ older[e] \cap call[w].queue = {}
        /\ call' = [call EXCEPT ![w].pc = pc, ![w].queue = @ \ {e},
                                ![w].ev = IF pc = "next" THEN NoEvent ELSE e]
        /\ UNCHANGED <<row, indexed, older, aged, intended, published, debited, alerted, killed>>

EndPass(w) ==
    /\ call[w].pc = "next"
    /\ call[w].queue = {}
    /\ call' = [call EXCEPT ![w] = NoCall]
    /\ UNCHANGED <<row, indexed, older, aged, intended, published, debited, alerted, killed>>

\* The emergency stop: no further pass starts.
Kill(w) ==
    /\ Crashes
    /\ w \notin killed
    /\ killed' = killed \cup {w}
    /\ UNCHANGED <<row, indexed, older, aged, intended, published, debited, alerted, call>>

\* The replica dies; its drain loop starts anew, the kill switch forgotten.
Crash(w) ==
    /\ Crashes
    /\ call[w] # NoCall \/ w \in killed
    /\ call' = [call EXCEPT ![w] = NoCall]
    /\ killed' = killed \ {w}
    /\ UNCHANGED <<row, indexed, older, aged, intended, published, debited, alerted>>

\* Time passes: older intents pass the horizon first.
PassHorizon(e) ==
    /\ e \notin aged
    /\ older[e] \subseteq aged
    /\ aged' = aged \cup {e}
    /\ UNCHANGED <<row, indexed, older, intended, published, debited, alerted, killed, call>>

\* External: DynamoDB's index catches up with the row.
Propagate(e) ==
    /\ Backend = "ddb"
    /\ indexed' = IF row[e] = "pending" THEN indexed \cup {e} ELSE indexed \ {e}
    /\ indexed' # indexed
    /\ UNCHANGED <<row, older, aged, intended, published, debited, alerted, killed, call>>

-----------------------------------------------------------------------------
\* The rest of what a worker does with the event it holds.
Handle(w) ==
    \/ IndexIntent(w) \/ EmitFails(w) \/ PublishSucceeds(w) \/ PublishFails(w)
    \/ MarkDelivered(w) \/ BumpGet(w) \/ BumpPut(w) \/ WriteFails(w)
    \/ VoidGet(w) \/ VoidPut(w) \/ Unindex(w) \/ VoidFails(w) \/ Alert(w)
    \/ CannotSettle(w) \/ \E answer \in {"ok", "409", "400", "5xx", "lost"} : Settle(w, answer)

Next ==
    \/ \E w \in Workers, e \in Events : PutIntent(w, e)
    \/ \E w \in Workers : Handle(w) \/ Crash(w)
    \/ \E w \in Drainers : ListPending(w) \/ EndPass(w) \/ Kill(w)
    \/ \E w \in Drainers, e \in Events : NextPending(w, e)
    \/ \E e \in Events : PassHorizon(e) \/ Propagate(e)

Spec == Init /\ [][Next]_vars

\* Every drain loop's ticker keeps firing and a pass goes on to its end; time
\* passes and the index catches up.  A call to the transport or to billing that
\* is made again and again is answered in the end (for each event).
FairSpec ==
    /\ Spec
    /\ \A w \in Workers : WF_vars(Handle(w))
    /\ \A w \in Drainers :
          WF_vars(ListPending(w) \/ EndPass(w) \/ \E e \in Events : NextPending(w, e))
    /\ \A w \in Drainers, e \in Events :
          /\ SF_vars(call[w].ev = e /\ PublishSucceeds(w))
          /\ SF_vars(call[w].ev = e /\ \E answer \in {"ok", "400", "409"} : Settle(w, answer))
    /\ \A e \in Events : WF_vars(PassHorizon(e)) /\ WF_vars(Propagate(e))

-----------------------------------------------------------------------------
(* Properties *)

\* The usage of e was charged: under its own reservation, for a terminal event.
\* A key burnt by a partial or a keyless settlement charges nothing for e.
Booked(e) == Res[e] # Blank /\ debited[Res[e]] \in Terminal

\* The drain will come across the intent: DDB's index follows the row, a Redis
\* key has to be in the pending set or about to be added by its emitter.
Reachable(e) ==
    \/ Backend = "ddb"
    \/ e \in indexed
    \/ \E w \in Emitters : call[w].pc = "index" /\ call[w].ev = e

\* Some worker is about to raise the void alert for e.
AlertDue(e) == \E w \in Workers : call[w].pc \in {"unindex", "alert"} /\ call[w].ev = e

\* Once PutIntent has answered, the event is handed to the transport, charged,
\* voided with an alert, or still pending where the drain finds it: neither
\* concurrent drains, lost answers, stale listings nor read-modify-writes that
\* race with a deletion lose it (D-29, D-12).
NothingLost ==
    ~Drop => \A e \in intended :
        \/ e \in published
        \/ Booked(e)
        \/ e \in alerted \/ AlertDue(e)
        \/ row[e] = "pending" /\ Reachable(e)

\* The store never lets go of an event before it went out: once PutIntent has
\* answered, the row is only ever deleted for an event that was published or
\* charged, through crashes, failed writes and restarts, on either store.
RecordKept ==
    ~Drop => \A e \in intended : row[e] = "none" => e \in published \/ Booked(e)

\* An event charged by a settlement is never voided: the alert "usage may be
\* unbilled" is not raised for what billing has debited, even when its answer
\* was lost (D-31).
ChargedNeverVoided == \A e \in alerted : \A k \in Reservations : debited[k] # e

\* Every intent leaves the outbox: it is published, charged or alerted.  Events
\* billing refuses with a 409 are retried for ever, by design.
EventuallyResolved ==
    \A e \in Events : Verdict[e] # "refuse" =>
        (row[e] = "pending" ~> e \in published \cup alerted \/ Booked(e))

\* MoneyEvents, read off the outbox: an event is owed from the moment PutIntent has answered.
Money == INSTANCE MoneyEvents WITH
             Keys <- Reservations \cup {Blank}, KeyOf <- Res,
             owed <- intended, sent <- published, charged <- debited, voided <- alerted

\* The outbox with its rows, lagging index, passes, lost answers and retries does nothing that
\* MoneyEvents forbids: nothing goes out, is charged or is given up that was not recorded
\* first, a reservation is charged at most once and only by an event that ends it, and a
\* charged event is never given up nor a given-up one charged.
ImplementsMoneyEvents == Money!Spec

=============================================================================

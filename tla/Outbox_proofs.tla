--------------------------- MODULE Outbox_proofs ---------------------------
(***************************************************************************)
(* Proofs about the outbox, for every set of events, reservations,         *)
(* emitters and drain loops, either store and every failure setting.       *)
(***************************************************************************)
EXTENDS Outbox, TLAPS

-----------------------------------------------------------------------------
(* One worker moves at a time *)

\* Only worker w's call changes.
Moves(w) == /\ call' \in [Workers -> Call]
            /\ \A v \in Workers : v # w => call'[v] = call[v]

LEMMA GotoMoves ==
    ASSUME TypeOK, NEW w \in Workers, NEW p \in Steps, Goto(w, p)
    PROVE  /\ Moves(w)
           /\ call'[w] = [call[w] EXCEPT !.pc = p]
           /\ call'[w].pc = p
           /\ call'[w].ev = call[w].ev
           /\ call'[w].copy = call[w].copy
<1>1. call[w] \in Call
  BY DEF TypeOK
<1>2. [call[w] EXCEPT !.pc = p] \in Call
  BY <1>1 DEF Call
<1>3. call' = [call EXCEPT ![w] = [call[w] EXCEPT !.pc = p]]
  BY DEF Goto
<1>4. Moves(w) /\ call'[w] = [call[w] EXCEPT !.pc = p]
  BY <1>2, <1>3 DEF TypeOK, Moves
<1> QED
  BY <1>1, <1>4 DEF Call

LEMMA DoneMoves ==
    ASSUME TypeOK, NEW w \in Workers, Done(w)
    PROVE  /\ Moves(w)
           /\ call'[w].pc \in {"idle", "next"}
           /\ call'[w].copy = "none"
<1>1. call[w] \in Call /\ NoCall \in Call
  BY DEF TypeOK, Call, NoCall, Steps, Status
<1> DEFINE c == IF w \in Emitters THEN NoCall
                ELSE [call[w] EXCEPT !.pc = "next", !.ev = NoEvent, !.copy = "none"]
<1>2. c \in Call /\ c.pc \in {"idle", "next"} /\ c.copy = "none"
  <2>1. CASE w \in Emitters
    BY <1>1, <2>1 DEF NoCall
  <2>2. CASE w \notin Emitters
    BY <1>1, <2>2 DEF Call, Steps, Status
  <2> QED
    BY <2>1, <2>2
<1>3. call' = [call EXCEPT ![w] = c]
  BY DEF Done
<1> HIDE DEF c
<1>4. Moves(w) /\ call'[w] = c
  BY <1>2, <1>3 DEF TypeOK, Moves
<1> QED
  BY <1>2, <1>4

-----------------------------------------------------------------------------
(* Type correctness *)

\* A worker in the middle of an event holds one, and only a BumpAttempt in
\* flight holds a copy of its row.
Holding ==
    \A w \in Workers :
        /\ call[w].pc \notin {"idle", "next"} => call[w].ev \in Events
        /\ call[w].pc # "bumpPut" => call[w].copy = "none"

TInv == TypeOK /\ Holding

LEMMA InitTInv == Init => TInv
<1> SUFFICES ASSUME Init PROVE TInv
  OBVIOUS
<1>1. NoCall \in Call
  BY DEF Call, NoCall, Steps, Status
<1>2. \A w \in Workers : call[w] = NoCall
  BY DEF Init
<1>3. TypeOK
  BY <1>1, <1>2 DEF Init, TypeOK, Status, NoCall
<1>4. Holding
  BY <1>2 DEF Holding, NoCall
<1> QED
  BY <1>3, <1>4 DEF TInv

\* Type correctness of the calls alone, for a step in which w's call changes.
LEMMA MovesTyped ==
    ASSUME TInv, NEW w \in Workers, Moves(w),
           call'[w].pc = "bumpPut" => call'[w].copy # "none",
           call'[w].pc \notin {"idle", "next"} => call'[w].ev \in Events,
           call'[w].pc # "bumpPut" => call'[w].copy = "none"
    PROVE  /\ call' \in [Workers -> Call]
           /\ \A v \in Workers : call'[v].pc = "bumpPut" => call'[v].copy # "none"
           /\ Holding'
BY DEF TInv, TypeOK, Holding, Moves

\* A worker that has an event goes on with it.
LEMMA GotoTyped ==
    ASSUME TInv, NEW w \in Workers, NEW p \in Steps \ {"bumpPut"}, Goto(w, p),
           call[w].pc \notin {"idle", "next", "bumpPut"}
    PROVE  /\ call' \in [Workers -> Call]
           /\ \A v \in Workers : call'[v].pc = "bumpPut" => call'[v].copy # "none"
           /\ Holding'
<1>1. TypeOK
  BY DEF TInv
<1>2. /\ Moves(w) /\ call'[w].pc = p /\ call'[w].ev = call[w].ev
      /\ call'[w].copy = call[w].copy
  BY <1>1, GotoMoves
<1>3. call[w].ev \in Events /\ call[w].copy = "none"
  BY DEF TInv, Holding
<1> QED
  BY <1>2, <1>3, MovesTyped

LEMMA DoneTyped ==
    ASSUME TInv, NEW w \in Workers, Done(w)
    PROVE  /\ call' \in [Workers -> Call]
           /\ \A v \in Workers : call'[v].pc = "bumpPut" => call'[v].copy # "none"
           /\ Holding'
<1>1. TypeOK
  BY DEF TInv
<1>2. Moves(w) /\ call'[w].pc \in {"idle", "next"} /\ call'[w].copy = "none"
  BY <1>1, DoneMoves
<1> QED
  BY <1>2, MovesTyped

LEMMA ResetTyped ==
    ASSUME TInv, NEW w \in Workers, call' = [call EXCEPT ![w] = NoCall]
    PROVE  /\ call' \in [Workers -> Call]
           /\ \A v \in Workers : call'[v].pc = "bumpPut" => call'[v].copy # "none"
           /\ Holding'
           /\ Moves(w) /\ call'[w] = NoCall
<1>1. NoCall \in Call
  BY DEF Call, NoCall, Steps, Status
<1>2. Moves(w) /\ call'[w] = NoCall
  BY <1>1 DEF TInv, TypeOK, Moves
<1>3. call'[w].pc = "idle" /\ call'[w].copy = "none"
  BY <1>2 DEF NoCall
<1>4. /\ call' \in [Workers -> Call]
      /\ \A v \in Workers : call'[v].pc = "bumpPut" => call'[v].copy # "none"
      /\ Holding'
  BY <1>2, <1>3, MovesTyped
<1> QED
  BY <1>2, <1>4

\* PutIntent's effect on its call.
LEMMA PutIntentMoves ==
    ASSUME TInv, NEW w \in Workers, NEW e \in Events, PutIntent(w, e)
    PROVE  /\ Moves(w)
           /\ call'[w].pc \in {"index", "publish", "settle"}
           /\ call'[w].ev = e
           /\ call'[w].copy = "none"
<1> DEFINE pc == IF row[e] = "none" /\ Backend = "redis" THEN "index" ELSE AfterIntent
           c == [call[w] EXCEPT !.pc = pc, !.ev = e]
<1>1. call[w] \in Call /\ call[w].copy = "none"
  BY DEF TInv, TypeOK, Holding, PutIntent
<1>2. pc \in {"index", "publish", "settle"}
  BY DEF AfterIntent
<1> HIDE DEF pc
<1>3. c \in Call /\ c.pc = pc /\ c.ev = e /\ c.copy = "none"
  BY <1>1, <1>2 DEF Call, Steps
<1>4. call' = [call EXCEPT ![w] = c]
  BY DEF PutIntent, pc
<1> HIDE DEF c
<1>5. Moves(w) /\ call'[w] = c
  BY <1>3, <1>4 DEF TInv, TypeOK, Moves
<1> QED
  BY <1>2, <1>3, <1>5

\* NextPending's.
LEMMA NextPendingMoves ==
    ASSUME TInv, NEW w \in Workers, NEW e \in Events, NextPending(w, e)
    PROVE  /\ Moves(w)
           /\ call'[w].pc \in {"settle", "publish", "next"}
           /\ call'[w].pc # "next" => call'[w].ev = e
           /\ call'[w].copy = "none"
<1> DEFINE pc == IF e \in call[w].late THEN "settle" ELSE IF HasPublisher THEN "publish" ELSE "next"
           ev == IF pc = "next" THEN NoEvent ELSE e
           q == call[w].queue \ {e}
           c == [call[w] EXCEPT !.pc = pc, !.queue = q, !.ev = ev]
<1>1. call[w] \in Call /\ call[w].copy = "none"
  BY DEF TInv, TypeOK, Holding, NextPending
<1>2. pc \in {"settle", "publish", "next"} /\ ev \in Events \cup {NoEvent}
      /\ (pc # "next" => ev = e) /\ q \in SUBSET Events
  BY <1>1 DEF Call
<1>3. call' = [call EXCEPT ![w] = c]
  BY DEF NextPending
<1> HIDE DEF pc, ev, q
<1>4. c \in Call /\ c.pc = pc /\ c.ev = ev /\ c.copy = "none"
  BY <1>1, <1>2 DEF Call, Steps
<1> HIDE DEF c
<1>5. Moves(w) /\ call'[w] = c
  BY <1>3, <1>4 DEF TInv, TypeOK, Moves
<1> QED
  BY <1>2, <1>4, <1>5

\* ListPending's.
LEMMA ListPendingMoves ==
    ASSUME TInv, NEW w \in Workers, ListPending(w)
    PROVE  Moves(w) /\ call'[w].pc = "next" /\ call'[w].copy = "none"
<1> DEFINE oldest == {e \in indexed : Cardinality(older[e] \cap indexed) < MaxPerPass}
           q == IF Backend = "redis" THEN {e \in oldest : row[e] = "pending"} ELSE oldest
           c == [NoCall EXCEPT !.pc = "next", !.late = aged, !.queue = q]
<1>1. q \in SUBSET Events /\ aged \in SUBSET Events
  BY DEF TInv, TypeOK
<1>2. call' = [call EXCEPT ![w] = c]
  BY DEF ListPending
<1> HIDE DEF q
<1>3. c \in Call /\ c.pc = "next" /\ c.copy = "none"
  BY <1>1 DEF Call, NoCall, Steps, Status
<1> HIDE DEF c
<1>4. Moves(w) /\ call'[w] = c
  BY <1>2, <1>3 DEF TInv, TypeOK, Moves
<1> QED
  BY <1>3, <1>4

\* BumpGet's, when there is a row.
LEMMA BumpGetMoves ==
    ASSUME TInv, NEW w \in Workers, BumpGet(w), row[call[w].ev] # "none"
    PROVE  /\ Moves(w)
           /\ call'[w].pc = "bumpPut"
           /\ call'[w].ev = call[w].ev
           /\ call'[w].copy = row[call[w].ev]
<1> DEFINE s == row[call[w].ev]
           c == [call[w] EXCEPT !.pc = "bumpPut", !.copy = s]
<1>1. call[w] \in Call /\ s \in Status
  BY DEF TInv, TypeOK, Holding, BumpGet
<1>2. call' = [call EXCEPT ![w] = c]
  BY DEF BumpGet
<1> HIDE DEF s
<1>3. c \in Call /\ c.pc = "bumpPut" /\ c.ev = call[w].ev /\ c.copy = s
  BY <1>1 DEF Call, Steps
<1> HIDE DEF c
<1>4. Moves(w) /\ call'[w] = c
  BY <1>2, <1>3 DEF TInv, TypeOK, Moves
<1> QED
  BY <1>3, <1>4 DEF s

LEMMA NextTInv == TInv /\ [Next]_vars => TInv'
<1> SUFFICES ASSUME TInv, [Next]_vars PROVE TInv'
  OBVIOUS
<1> USE DEF Steps
<1>1. ASSUME NEW w \in Workers, NEW e \in Events, PutIntent(w, e)
      PROVE  TInv'
  <2>1. /\ call' \in [Workers -> Call]
        /\ \A v \in Workers : call'[v].pc = "bumpPut" => call'[v].copy # "none"
        /\ Holding'
    BY <1>1, PutIntentMoves, MovesTyped
  <2>2. row' \in [Events -> Status] /\ older' \in [Events -> SUBSET Events]
        /\ aged' \subseteq Events /\ intended' \subseteq Events
    BY <1>1 DEF TInv, TypeOK, PutIntent, Status
  <2> QED
    BY <1>1, <2>1, <2>2 DEF TInv, TypeOK, PutIntent
<1>2. ASSUME NEW w \in Workers, IndexIntent(w)
      PROVE  TInv'
  <2>1. /\ call' \in [Workers -> Call]
        /\ \A v \in Workers : call'[v].pc = "bumpPut" => call'[v].copy # "none"
        /\ Holding'
    BY <1>2, GotoTyped DEF IndexIntent, AfterIntent
  <2>2. call[w].ev \in Events
    BY <1>2 DEF TInv, Holding, IndexIntent
  <2> QED
    BY <1>2, <2>1, <2>2 DEF TInv, TypeOK, IndexIntent
<1>3. ASSUME NEW w \in Workers, EmitFails(w) \/ WriteFails(w)
      PROVE  TInv'
  BY <1>3, DoneTyped DEF TInv, TypeOK, EmitFails, WriteFails
<1>4. ASSUME NEW w \in Workers, PublishSucceeds(w) \/ PublishFails(w)
      PROVE  TInv'
  <2>1. /\ call' \in [Workers -> Call]
        /\ \A v \in Workers : call'[v].pc = "bumpPut" => call'[v].copy # "none"
        /\ Holding'
    BY <1>4, GotoTyped DEF PublishSucceeds, PublishFails
  <2>2. call[w].ev \in Events
    BY <1>4 DEF TInv, Holding, PublishSucceeds, PublishFails
  <2> QED
    BY <1>4, <2>1, <2>2 DEF TInv, TypeOK, PublishSucceeds, PublishFails
<1>5. ASSUME NEW w \in Workers, MarkDelivered(w)
      PROVE  TInv'
  BY <1>5, DoneTyped DEF TInv, TypeOK, MarkDelivered, Status
<1>6. ASSUME NEW w \in Workers, BumpGet(w)
      PROVE  TInv'
  <2>1. CASE row[call[w].ev] = "none"
    BY <1>6, <2>1, DoneTyped DEF TInv, TypeOK, BumpGet
  <2>2. CASE row[call[w].ev] # "none"
    <3>1. call[w].ev \in Events
      BY <1>6 DEF TInv, Holding, BumpGet
    <3>2. /\ call' \in [Workers -> Call]
          /\ \A v \in Workers : call'[v].pc = "bumpPut" => call'[v].copy # "none"
          /\ Holding'
      BY <1>6, <2>2, <3>1, BumpGetMoves, MovesTyped
    <3> QED
      BY <1>6, <3>2 DEF TInv, TypeOK, BumpGet
  <2> QED
    BY <2>1, <2>2
<1>7. ASSUME NEW w \in Workers, BumpPut(w)
      PROVE  TInv'
  <2>1. call[w].copy \in Status
    BY DEF TInv, TypeOK, Call
  <2> QED
    BY <1>7, <2>1, DoneTyped DEF TInv, TypeOK, BumpPut
<1>8. ASSUME NEW w \in Workers, VoidGet(w) \/ Unindex(w) \/ VoidFails(w) \/ CannotSettle(w)
      PROVE  TInv'
  <2>1. /\ call' \in [Workers -> Call]
        /\ \A v \in Workers : call'[v].pc = "bumpPut" => call'[v].copy # "none"
        /\ Holding'
    <3>1. \E p \in Steps \ {"bumpPut"} : Goto(w, p)
      BY <1>8 DEF VoidGet, Unindex, VoidFails, CannotSettle, AfterVoid, Void
    <3>2. call[w].pc \notin {"idle", "next", "bumpPut"}
      BY <1>8 DEF VoidGet, Unindex, VoidFails, CannotSettle
    <3> QED
      BY <3>1, <3>2, GotoTyped
  <2> QED
    BY <1>8, <2>1 DEF TInv, TypeOK, VoidGet, Unindex, VoidFails, CannotSettle
<1>9. ASSUME NEW w \in Workers, VoidPut(w)
      PROVE  TInv'
  <2>1. /\ call' \in [Workers -> Call]
        /\ \A v \in Workers : call'[v].pc = "bumpPut" => call'[v].copy # "none"
        /\ Holding'
    BY <1>9, GotoTyped DEF VoidPut, AfterVoid
  <2> QED
    BY <1>9, <2>1 DEF TInv, TypeOK, VoidPut, Status
<1>10. ASSUME NEW w \in Workers, Alert(w)
       PROVE  TInv'
  <2>1. call[w].ev \in Events
    BY <1>10 DEF TInv, Holding, Alert
  <2> QED
    BY <1>10, <2>1, DoneTyped DEF TInv, TypeOK, Alert
<1>11. ASSUME NEW w \in Workers, NEW answer, Settle(w, answer)
       PROVE  TInv'
  <2>1. /\ call' \in [Workers -> Call]
        /\ \A v \in Workers : call'[v].pc = "bumpPut" => call'[v].copy # "none"
        /\ Holding'
    <3>1. \E p \in {"deliver", "bumpGet", "voidGet"} : Goto(w, p)
      BY <1>11 DEF Settle, SettleOutcome, Void
    <3> QED
      BY <1>11, <3>1, GotoTyped DEF Settle
  <2>2. call[w].ev \in Events
    BY <1>11 DEF TInv, Holding, Settle
  <2>3. debited' \in [Reservations \cup {Blank} -> Events \cup {NoEvent}]
    BY <1>11, <2>2 DEF TInv, TypeOK, Settle
  <2> QED
    BY <1>11, <2>1, <2>3 DEF TInv, TypeOK, Settle
<1>12. ASSUME NEW w \in Workers, ListPending(w)
       PROVE  TInv'
  BY <1>12, ListPendingMoves, MovesTyped DEF TInv, TypeOK, ListPending
<1>13. ASSUME NEW w \in Workers, NEW e \in Events, NextPending(w, e)
       PROVE  TInv'
  <2>1. /\ call' \in [Workers -> Call]
        /\ \A v \in Workers : call'[v].pc = "bumpPut" => call'[v].copy # "none"
        /\ Holding'
    BY <1>13, NextPendingMoves, MovesTyped
  <2> QED
    BY <1>13, <2>1 DEF TInv, TypeOK, NextPending
<1>14. ASSUME NEW w \in Workers, EndPass(w) \/ Crash(w)
       PROVE  TInv'
  BY <1>14, ResetTyped DEF TInv, TypeOK, EndPass, Crash
<1>15. ASSUME NEW w \in Drainers, Kill(w)
       PROVE  TInv'
  BY <1>15 DEF TInv, TypeOK, Holding, Kill
<1>16. ASSUME NEW e \in Events, PassHorizon(e) \/ Propagate(e)
       PROVE  TInv'
  BY <1>16 DEF TInv, TypeOK, Holding, PassHorizon, Propagate
<1>17. CASE UNCHANGED vars
  BY <1>17 DEF TInv, TypeOK, Holding, vars
<1> QED
  BY <1>1, <1>2, <1>3, <1>4, <1>5, <1>6, <1>7, <1>8, <1>9, <1>10, <1>11, <1>12, <1>13,
     <1>14, <1>15, <1>16, <1>17 DEF Next, Handle, Workers

\* Every reachable state of the outbox is well typed: no read-modify-write in
\* flight holds a missing row, for any number of emitters and drain loops.
THEOREM TypeCorrect == Spec => []TypeOK
<1>1. TInv => TypeOK
  BY DEF TInv
<1> QED
  BY <1>1, InitTInv, NextTInv, PTL DEF Spec

-----------------------------------------------------------------------------
(* Charges and voids *)

Settleable(e) == MaySettle(e) /\ HasSettlementKey(e)

\* Billing can have no debit for e: it is never asked, or it always rejects.
Voidable(e) == ~Settleable(e) \/ Verdict[e] = "reject"

\* A debit was made for a settleable event under its own reservation.
Charges ==
    \A k \in Reservations \cup {Blank} :
        debited[k] # NoEvent => /\ Settleable(debited[k])
                                /\ Verdict[debited[k]] = "accept"
                                /\ Res[debited[k]] = k

\* Only voidable events are being voided or have been alerted.
VoidSteps == {"voidGet", "voidPut", "unindex", "alert"}
Voids == /\ \A e \in alerted : Voidable(e)
         /\ \A w \in Workers : call[w].pc \in VoidSteps => Voidable(call[w].ev)

CInv == TInv /\ Charges /\ Voids

\* A step of w that reaches the void path only with a voidable event, makes no
\* debit and alerts nothing new but a voidable event.
LEMMA MovesVoids ==
    ASSUME CInv, NEW w \in Workers, Moves(w), debited' = debited,
           \A e \in alerted' : e \in alerted \/ Voidable(e),
           call'[w].pc \in VoidSteps => Voidable(call'[w].ev)
    PROVE  Charges' /\ Voids'
<1>1. Charges'
  BY DEF CInv, Charges, Settleable, MaySettle, HasSettlementKey
<1>2. Voids'
  BY DEF CInv, Voids, Moves, Voidable, Settleable, MaySettle, HasSettlementKey
<1> QED
  BY <1>1, <1>2

LEMMA NextCInv == CInv /\ [Next]_vars => CInv'
<1> SUFFICES ASSUME CInv, [Next]_vars PROVE CInv'
  OBVIOUS
<1>t. TInv /\ TypeOK /\ TInv'
  BY NextTInv DEF CInv, TInv
<1> SUFFICES Charges' /\ Voids'
  BY <1>t DEF CInv
<1> USE DEF Steps, VoidSteps
<1>1. ASSUME NEW w \in Workers, NEW e \in Events, PutIntent(w, e)
      PROVE  Charges' /\ Voids'
  BY <1>1, <1>t, PutIntentMoves, MovesVoids DEF PutIntent
<1>2. ASSUME NEW w \in Workers, IndexIntent(w) \/ PublishSucceeds(w) \/ PublishFails(w)
      PROVE  Charges' /\ Voids'
  <2>1. \E p \in {"publish", "settle", "deliver", "bumpGet"} : Goto(w, p)
    BY <1>2 DEF IndexIntent, AfterIntent, PublishSucceeds, PublishFails
  <2> QED
    BY <1>2, <1>t, <2>1, GotoMoves, MovesVoids DEF IndexIntent, PublishSucceeds, PublishFails
<1>3. ASSUME NEW w \in Workers,
             EmitFails(w) \/ WriteFails(w) \/ MarkDelivered(w) \/ BumpPut(w)
      PROVE  Charges' /\ Voids'
  BY <1>3, <1>t, DoneMoves, MovesVoids DEF EmitFails, WriteFails, MarkDelivered, BumpPut
<1>4. ASSUME NEW w \in Workers, BumpGet(w)
      PROVE  Charges' /\ Voids'
  BY <1>4, <1>t, DoneMoves, BumpGetMoves, MovesVoids DEF BumpGet
<1>5. ASSUME NEW w \in Workers, VoidGet(w) \/ VoidPut(w) \/ Unindex(w) \/ VoidFails(w)
      PROVE  Charges' /\ Voids'
  <2>1. \E p \in VoidSteps : Goto(w, p)
    BY <1>5 DEF VoidGet, VoidPut, Unindex, VoidFails, AfterVoid
  <2>2. Voidable(call[w].ev)
    BY <1>5 DEF CInv, Voids, VoidGet, VoidPut, Unindex, VoidFails
  <2>3. debited' = debited /\ alerted' = alerted
    BY <1>5 DEF VoidGet, VoidPut, Unindex, VoidFails
  <2> QED
    BY <1>t, <2>1, <2>2, <2>3, GotoMoves, MovesVoids
<1>6. ASSUME NEW w \in Workers, Alert(w)
      PROVE  Charges' /\ Voids'
  <2>1. Voidable(call[w].ev)
    BY <1>6 DEF CInv, Voids, Alert
  <2> QED
    BY <1>6, <1>t, <2>1, DoneMoves, MovesVoids DEF Alert
<1>7. ASSUME NEW w \in Workers, CannotSettle(w)
      PROVE  Charges' /\ Voids'
  <2>1. \E p \in {"deliver", "voidGet"} : Goto(w, p)
    BY <1>7 DEF CannotSettle, Void
  <2>2. Voidable(call[w].ev)
    BY <1>7 DEF CannotSettle, Voidable, Settleable
  <2> QED
    BY <1>7, <1>t, <2>1, <2>2, GotoMoves, MovesVoids DEF CannotSettle
<1>8. ASSUME NEW w \in Workers, NEW answer, Settle(w, answer)
      PROVE  Charges' /\ Voids'
  <2> DEFINE e == call[w].ev
  <2>1. e \in Events /\ Settleable(e) /\ Verdict[e] \in Verdicts /\ Res[e] \in Reservations \cup {Blank}
    BY <1>8, EventsDeclared DEF CInv, TInv, Holding, Settle, Settleable
  <2>2. answer \in {"ok", "lost"} => Verdict[e] = "accept"
    BY <1>8, <2>1 DEF Settle, Answers, Verdicts
  <2>3. Charges'
    <3>1. CASE debited' = debited
      BY <3>1 DEF CInv, Charges, Settleable, MaySettle, HasSettlementKey
    <3>2. CASE debited' # debited
      <4>1. answer \in {"ok", "lost"} /\ debited' = [debited EXCEPT ![Res[e]] = e]
        BY <1>8, <3>2 DEF Settle
      <4>2. debited'[Res[e]] = e
            /\ \A k \in Reservations \cup {Blank} : k # Res[e] => debited'[k] = debited[k]
        BY <4>1, <2>1, <1>t DEF TypeOK
      <4> HIDE DEF e
      <4>3. ASSUME NEW k \in Reservations \cup {Blank}, debited'[k] # NoEvent
            PROVE  /\ Settleable(debited'[k])
                   /\ Verdict[debited'[k]] = "accept"
                   /\ Res[debited'[k]] = k
        BY <2>1, <2>2, <4>1, <4>2, <4>3 DEF CInv, Charges
      <4> QED
        BY <4>3 DEF Charges, Settleable, MaySettle, HasSettlementKey
    <3> QED
      BY <3>1, <3>2
  <2>4. PICK p \in {"deliver", "bumpGet", "voidGet"} :
            Goto(w, p) /\ (p = "voidGet" => answer \notin {"ok", "lost", "409", "5xx"})
    BY <1>8 DEF Settle, SettleOutcome, Void
  <2>5. p = "voidGet" => Verdict[e] = "reject"
    BY <1>8, <2>1, <2>4 DEF Settle, Answers, Verdicts
  <2>6. /\ Moves(w) /\ call'[w].pc = p /\ call'[w].ev = e
    BY <2>4, <1>t, GotoMoves
  <2>7. Voids'
    BY <1>8, <2>5, <2>6 DEF Settle, CInv, Voids, Moves, Voidable, Settleable, MaySettle,
                            HasSettlementKey
  <2> QED
    BY <2>3, <2>7
<1>9. ASSUME NEW w \in Workers, ListPending(w)
      PROVE  Charges' /\ Voids'
  BY <1>9, <1>t, ListPendingMoves, MovesVoids DEF ListPending
<1>10. ASSUME NEW w \in Workers, NEW e \in Events, NextPending(w, e)
       PROVE  Charges' /\ Voids'
  BY <1>10, <1>t, NextPendingMoves, MovesVoids DEF NextPending
<1>11. ASSUME NEW w \in Workers, EndPass(w) \/ Crash(w)
       PROVE  Charges' /\ Voids'
  <2>1. Moves(w) /\ call'[w].pc = "idle"
    BY <1>11, <1>t, ResetTyped DEF EndPass, Crash, NoCall
  <2> QED
    BY <1>11, <2>1, MovesVoids DEF EndPass, Crash
<1>12. CASE call' = call /\ debited' = debited /\ alerted' = alerted
  BY <1>12 DEF CInv, Charges, Voids, Voidable, Settleable, MaySettle, HasSettlementKey
<1> QED
  BY <1>1, <1>2, <1>3, <1>4, <1>5, <1>6, <1>7, <1>8, <1>9, <1>10, <1>11, <1>12
  DEF Next, Handle, Workers, Kill, PassHorizon, Propagate, vars

LEMMA InitCInv == Init => CInv
<1> SUFFICES ASSUME Init PROVE CInv
  OBVIOUS
<1>1. TInv
  BY InitTInv
<1>2. \A w \in Workers : call[w].pc = "idle"
  BY DEF Init, NoCall
<1>3. Charges /\ Voids
  BY <1>2 DEF Init, Charges, Voids, VoidSteps
<1> QED
  BY <1>1, <1>3 DEF CInv

\* What billing has debited is never voided or alerted as unbilled, whatever
\* answers of the transport, of billing and of the store are lost, and wherever
\* replicas crash (classifySettleError retries what it cannot classify).
THEOREM NoVoidOfACharge == Spec => []ChargedNeverVoided
<1>1. CInv => ChargedNeverVoided
  <2> SUFFICES ASSUME CInv, NEW e \in alerted, NEW k \in Reservations, debited[k] = e
               PROVE  FALSE
    BY DEF ChargedNeverVoided
  <2>1. e \in Events /\ e # NoEvent
    BY EventsDeclared DEF CInv, TInv, TypeOK
  <2>2. Settleable(e) /\ Verdict[e] = "accept"
    BY <2>1 DEF CInv, Charges
  <2>3. Voidable(e)
    BY DEF CInv, Voids
  <2> QED
    BY <2>2, <2>3 DEF Voidable
<1> QED
  BY <1>1, InitCInv, NextCInv, PTL DEF Spec

-----------------------------------------------------------------------------
(* Nothing leaves the store before it went out *)

Sent(e) == e \in published \/ Booked(e)

\* A row is about to be deleted only for an event that went out, and a row
\* deleted under an emitter still indexing it was one of those.
Retires ==
    ~Drop => \A w \in Workers, e \in Events : call[w].ev = e =>
        /\ call[w].pc = "deliver" => Sent(e)
        /\ call[w].pc = "index" /\ row[e] = "none" => Sent(e)

KInv == CInv /\ Retires /\ RecordKept

\* Publishing and debiting are for ever.
Monotone ==
    /\ published \subseteq published'
    /\ \A k \in Reservations \cup {Blank} : debited[k] # NoEvent => debited'[k] = debited[k]

LEMMA SentStable ==
    ASSUME Monotone
    PROVE  \A e \in Events : Sent(e) => Sent(e)'
<1> SUFFICES ASSUME NEW e \in Events, Sent(e) PROVE Sent(e)'
  OBVIOUS
<1>1. CASE e \in published
  BY <1>1 DEF Monotone, Sent
<1>2. CASE Booked(e)
  <2>1. debited[Res[e]] \in Terminal /\ debited[Res[e]] # NoEvent /\ Res[e] \in Reservations \cup {Blank}
    BY <1>2, EventsDeclared DEF Booked
  <2>2. debited'[Res[e]] = debited[Res[e]]
    BY <2>1 DEF Monotone
  <2> QED
    BY <1>2, <2>2 DEF Booked, Sent
<1> QED
  BY <1>1, <1>2 DEF Sent

\* A step of w that deletes no row and answers no PutIntent.
LEMMA MovesKept ==
    ASSUME KInv, NEW w \in Workers, Moves(w), Monotone,
           \A e \in Events : row'[e] = "none" => row[e] = "none",
           intended' = intended,
           call'[w].pc # "index",
           \A e \in Events : ~Drop /\ call'[w].pc = "deliver" /\ call'[w].ev = e => Sent(e)'
    PROVE  Retires' /\ RecordKept'
<1> SUFFICES ASSUME ~Drop PROVE Retires' /\ RecordKept'
  BY DEF Retires, RecordKept
<1>1. TInv /\ intended \subseteq Events
  BY DEF KInv, CInv, TInv, TypeOK
<1>2. ASSUME NEW v \in Workers, NEW e \in Events, call'[v].ev = e
      PROVE  /\ call'[v].pc = "deliver" => Sent(e)'
             /\ call'[v].pc = "index" /\ row'[e] = "none" => Sent(e)'
  <2>1. CASE v = w
    BY <1>2, <2>1
  <2>2. CASE v # w
    <3>1. call'[v] = call[v]
      BY <2>2 DEF Moves
    <3> QED
      BY <1>2, <3>1, SentStable DEF KInv, Retires
  <2> QED
    BY <2>1, <2>2
<1>3. Retires'
  BY <1>2 DEF Retires
<1>4. ASSUME NEW e \in intended', row'[e] = "none"
      PROVE  Sent(e)'
  BY <1>1, <1>4, SentStable DEF KInv, RecordKept, Sent
<1>5. RecordKept'
  BY <1>4 DEF RecordKept, Sent
<1> QED
  BY <1>3, <1>5

LEMMA NextKInv == KInv /\ [Next]_vars => KInv'
<1> SUFFICES ASSUME KInv, [Next]_vars PROVE KInv'
  OBVIOUS
<1>t. CInv /\ TInv /\ TypeOK /\ CInv' /\ TypeOK'
  BY NextCInv DEF KInv, CInv, TInv
<1> SUFFICES Retires' /\ RecordKept'
  BY <1>t DEF KInv
<1> USE DEF Steps
<1>1. ASSUME NEW w \in Workers, NEW e \in Events, PutIntent(w, e)
      PROVE  Retires' /\ RecordKept'
  <2>1. Monotone
    BY <1>1 DEF PutIntent, Monotone
  <2>2. \A f \in Events : row'[f] = "none" => row[f] = "none"
    BY <1>1, <1>t DEF PutIntent, TypeOK
  <2>3. row'[e] # "none" /\ intended' \subseteq intended \cup {e}
    BY <1>1, <1>t DEF PutIntent, TypeOK
  <2>4. Moves(w) /\ call'[w].pc # "deliver" /\ call'[w].ev = e
    BY <1>1, <1>t, PutIntentMoves
  <2>5. ASSUME ~Drop, NEW v \in Workers, NEW f \in Events, call'[v].ev = f
        PROVE  /\ call'[v].pc = "deliver" => Sent(f)'
               /\ call'[v].pc = "index" /\ row'[f] = "none" => Sent(f)'
    <3>1. CASE v = w
      BY <2>3, <2>4, <2>5, <3>1
    <3>2. CASE v # w
      <4>1. call'[v] = call[v]
        BY <2>4, <3>2 DEF Moves
      <4> QED
        BY <2>1, <2>2, <2>5, <4>1, SentStable DEF KInv, Retires
    <3> QED
      BY <3>1, <3>2
  <2>6. ASSUME ~Drop, NEW f \in intended', row'[f] = "none"
        PROVE  Sent(f)'
    BY <1>t, <2>1, <2>2, <2>3, <2>6, SentStable DEF KInv, RecordKept, Sent, TypeOK
  <2> QED
    BY <2>5, <2>6 DEF Retires, RecordKept, Sent
<1>2. ASSUME NEW w \in Workers, IndexIntent(w)
      PROVE  Retires' /\ RecordKept'
  <2>1. Monotone /\ row' = row
    BY <1>2 DEF IndexIntent, Monotone
  <2>2. Moves(w) /\ call'[w].pc \in {"publish", "settle"}
    BY <1>2, <1>t, GotoMoves DEF IndexIntent, AfterIntent
  <2>3. call[w].ev \in Events /\ intended' = intended \cup {call[w].ev}
    BY <1>2, <1>t DEF IndexIntent, TInv, Holding
  <2>4. ASSUME ~Drop, NEW v \in Workers, NEW f \in Events, call'[v].ev = f
        PROVE  /\ call'[v].pc = "deliver" => Sent(f)'
               /\ call'[v].pc = "index" /\ row'[f] = "none" => Sent(f)'
    <3>1. CASE v = w
      BY <2>2, <3>1
    <3>2. CASE v # w
      <4>1. call'[v] = call[v]
        BY <2>2, <3>2 DEF Moves
      <4> QED
        BY <2>1, <2>4, <4>1, SentStable DEF KInv, Retires
    <3> QED
      BY <3>1, <3>2
  <2>5. \A f \in Events : ~Drop /\ call[w].ev = f /\ row[f] = "none" => Sent(f)
    BY <1>2 DEF KInv, Retires, IndexIntent
  <2>6. ASSUME ~Drop, NEW f \in intended', row'[f] = "none"
        PROVE  Sent(f)'
    BY <1>t, <2>1, <2>3, <2>5, <2>6, SentStable DEF KInv, RecordKept, Sent, TypeOK
  <2> QED
    BY <2>4, <2>6 DEF Retires, RecordKept, Sent
<1>3. ASSUME NEW w \in Workers, PublishSucceeds(w)
      PROVE  Retires' /\ RecordKept'
  <2>1. Moves(w) /\ call'[w].pc = "deliver" /\ call'[w].ev = call[w].ev
    BY <1>3, <1>t, GotoMoves DEF PublishSucceeds
  <2>2. \A e \in Events : call'[w].ev = e => Sent(e)'
    BY <1>3, <2>1 DEF PublishSucceeds, Sent
  <2> QED
    BY <1>3, <2>1, <2>2, MovesKept DEF PublishSucceeds, Monotone
<1>4. ASSUME NEW w \in Workers, PublishFails(w)
      PROVE  Retires' /\ RecordKept'
  <2>1. Moves(w) /\ call'[w].pc = "bumpGet"
    BY <1>4, <1>t, GotoMoves DEF PublishFails
  <2> QED
    BY <1>4, <2>1, MovesKept DEF PublishFails, Monotone
<1>5. ASSUME NEW w \in Workers, EmitFails(w) \/ WriteFails(w) \/ Alert(w)
      PROVE  Retires' /\ RecordKept'
  <2>1. Moves(w) /\ call'[w].pc \in {"idle", "next"}
    BY <1>5, <1>t, DoneMoves DEF EmitFails, WriteFails, Alert
  <2> QED
    BY <1>5, <2>1, MovesKept DEF EmitFails, WriteFails, Alert, Monotone
<1>6. ASSUME NEW w \in Workers, MarkDelivered(w)
      PROVE  Retires' /\ RecordKept'
  <2>1. Moves(w) /\ call'[w].pc \in {"idle", "next"}
    BY <1>6, <1>t, DoneMoves DEF MarkDelivered
  <2>2. call[w].ev \in Events /\ \A e \in Events : ~Drop /\ call[w].ev = e => Sent(e)
    BY <1>6, <1>t DEF MarkDelivered, TInv, Holding, KInv, Retires
  <2>3. Monotone /\ intended' = intended
        /\ \A f \in Events : row'[f] = "none" => row[f] = "none" \/ f = call[w].ev
    BY <1>6, <1>t, <2>2 DEF MarkDelivered, TypeOK, Monotone
  <2>4. ASSUME ~Drop, NEW v \in Workers, NEW f \in Events, call'[v].ev = f
        PROVE  /\ call'[v].pc = "deliver" => Sent(f)'
               /\ call'[v].pc = "index" /\ row'[f] = "none" => Sent(f)'
    <3>1. CASE v = w
      BY <2>1, <3>1
    <3>2. CASE v # w
      <4>1. call'[v] = call[v]
        BY <2>1, <3>2 DEF Moves
      <4> QED
        BY <2>2, <2>3, <2>4, <4>1, SentStable DEF KInv, Retires
    <3> QED
      BY <3>1, <3>2
  <2>5. ASSUME ~Drop, NEW f \in intended', row'[f] = "none"
        PROVE  Sent(f)'
    BY <1>t, <2>2, <2>3, <2>5, SentStable DEF KInv, RecordKept, Sent, TypeOK
  <2> QED
    BY <2>4, <2>5 DEF Retires, RecordKept, Sent
<1>7. ASSUME NEW w \in Workers, BumpGet(w)
      PROVE  Retires' /\ RecordKept'
  <2>1. Moves(w) /\ call'[w].pc \in {"idle", "next", "bumpPut"}
    BY <1>7, <1>t, DoneMoves, BumpGetMoves DEF BumpGet
  <2> QED
    BY <1>7, <2>1, MovesKept DEF BumpGet, Monotone
<1>8. ASSUME NEW w \in Workers, BumpPut(w)
      PROVE  Retires' /\ RecordKept'
  <2>1. Moves(w) /\ call'[w].pc \in {"idle", "next"}
    BY <1>8, <1>t, DoneMoves DEF BumpPut
  <2>2. \A f \in Events : row'[f] = "none" => row[f] = "none"
    BY <1>8, <1>t DEF BumpPut, TypeOK
  <2> QED
    BY <1>8, <2>1, <2>2, MovesKept DEF BumpPut, Monotone
<1>9. ASSUME NEW w \in Workers, VoidGet(w) \/ VoidPut(w) \/ Unindex(w) \/ VoidFails(w)
      PROVE  Retires' /\ RecordKept'
  <2>1. \E p \in {"voidPut", "unindex", "alert"} : Goto(w, p)
    BY <1>9 DEF VoidGet, VoidPut, Unindex, VoidFails, AfterVoid
  <2>2. Moves(w) /\ call'[w].pc \in {"voidPut", "unindex", "alert"}
    BY <1>t, <2>1, GotoMoves
  <2>3. \A f \in Events : row'[f] = "none" => row[f] = "none"
    BY <1>9, <1>t DEF VoidGet, VoidPut, Unindex, VoidFails, TypeOK
  <2> QED
    BY <1>9, <2>2, <2>3, MovesKept DEF VoidGet, VoidPut, Unindex, VoidFails, Monotone
<1>10. ASSUME NEW w \in Workers, CannotSettle(w)
       PROVE  Retires' /\ RecordKept'
  <2>1. Goto(w, Void) /\ Void \in Steps
    BY <1>10 DEF CannotSettle, Void
  <2>2. Moves(w) /\ call'[w].pc = Void
    BY <1>t, <2>1, GotoMoves
  <2> QED
    BY <1>10, <2>2, MovesKept DEF CannotSettle, Monotone, Void
<1>11. ASSUME NEW w \in Workers, NEW answer, Settle(w, answer)
       PROVE  Retires' /\ RecordKept'
  <2>e. PICK e \in Events : call[w].ev = e
    BY <1>11, <1>t DEF TInv, Holding, Settle
  <2>1. /\ e \in Events /\ Res[e] \in Reservations \cup {Blank}
        /\ MaySettle(e) /\ HasSettlementKey(e)
    BY <1>11, <2>e, EventsDeclared DEF Settle
  <2>2. Monotone
    BY <1>11, <1>t, <2>e, <2>1 DEF Settle, TypeOK, Monotone
  <2>3. PICK p \in {"deliver", "bumpGet", "voidGet"} :
            Goto(w, p) /\ (p = "deliver" => answer = "ok" \/ Drop)
    BY <1>11 DEF Settle, SettleOutcome, Void
  <2>4. Moves(w) /\ call'[w].pc = p /\ call'[w].ev = e
    BY <1>t, <2>e, <2>3, GotoMoves
  <2>5. ASSUME answer = "ok"
        PROVE  Sent(e)'
    <3>1. CASE debited[Res[e]] = NoEvent
      <4>1. debited'[Res[e]] = e
        BY <1>11, <1>t, <2>e, <2>1, <2>5, <3>1 DEF Settle, TypeOK
      <4> QED
        BY <2>1, <4>1 DEF Sent, Booked, MaySettle, HasSettlementKey
    <3>2. CASE debited[Res[e]] # NoEvent
      <4>1. debited[Res[e]] \in Terminal
        BY <1>t, <2>1, <3>2 DEF CInv, Charges, Settleable, MaySettle
      <4>2. Sent(e)
        BY <2>1, <4>1 DEF Sent, Booked, HasSettlementKey
      <4> QED
        BY <2>1, <2>2, <4>2, SentStable
    <3> QED
      BY <3>1, <3>2
  <2>6. \A f \in Events : ~Drop /\ call'[w].pc = "deliver" /\ call'[w].ev = f => Sent(f)'
    BY <2>3, <2>4, <2>5
  <2>7. row' = row /\ intended' = intended
    BY <1>11 DEF Settle
  <2> QED
    BY <2>2, <2>4, <2>6, <2>7, MovesKept
<1>12. ASSUME NEW w \in Workers, ListPending(w)
       PROVE  Retires' /\ RecordKept'
  BY <1>12, <1>t, ListPendingMoves, MovesKept DEF ListPending, Monotone
<1>13. ASSUME NEW w \in Workers, NEW e \in Events, NextPending(w, e)
       PROVE  Retires' /\ RecordKept'
  BY <1>13, <1>t, NextPendingMoves, MovesKept DEF NextPending, Monotone
<1>14. ASSUME NEW w \in Workers, EndPass(w) \/ Crash(w)
       PROVE  Retires' /\ RecordKept'
  <2>1. Moves(w) /\ call'[w].pc = "idle"
    BY <1>14, <1>t, ResetTyped DEF EndPass, Crash, NoCall
  <2> QED
    BY <1>14, <2>1, MovesKept DEF EndPass, Crash, Monotone
<1>15. CASE UNCHANGED <<row, intended, published, debited, call>>
  BY <1>15 DEF KInv, Retires, RecordKept, Sent, Booked
<1> QED
  BY <1>1, <1>2, <1>3, <1>4, <1>5, <1>6, <1>7, <1>8, <1>9, <1>10, <1>11, <1>12, <1>13,
     <1>14, <1>15
  DEF Next, Handle, Workers, Kill, PassHorizon, Propagate, vars

LEMMA InitKInv == Init => KInv
<1> SUFFICES ASSUME Init PROVE KInv
  OBVIOUS
<1>1. \A w \in Workers : call[w].pc = "idle"
  BY DEF Init, NoCall
<1>2. Retires /\ RecordKept
  BY <1>1 DEF Init, Retires, RecordKept
<1> QED
  BY <1>2, InitCInv DEF KInv

\* The store deletes an intent only once it was published or charged, on either
\* store, through crashes, failed writes, concurrent drains and re-emits (D-29).
THEOREM NothingForgotten == Spec => []RecordKept
<1>1. KInv => RecordKept
  BY DEF KInv
<1> QED
  BY <1>1, InitKInv, NextKInv, PTL DEF Spec

-----------------------------------------------------------------------------
(* No void without its alert, as long as no replica crashes *)

Told(e) == e \in alerted \/ AlertDue(e)

VoidsAlerted ==
    ~Crashes => \A e \in Events :
        /\ row[e] = "voided" => Told(e)
        /\ \A w \in Workers : call[w].copy = "voided" /\ call[w].ev = e => Told(e)

AInv == TInv /\ VoidsAlerted

\* An alert that is due stays due until it is raised: w's step must see to it
\* when w is the one that owes it.
LEMMA ToldStable ==
    ASSUME NEW w \in Workers, Moves(w), alerted \subseteq alerted',
           call[w].pc \in {"unindex", "alert"} =>
               \/ call[w].ev \in alerted'
               \/ call'[w].pc \in {"unindex", "alert"} /\ call'[w].ev = call[w].ev
    PROVE  \A e \in Events : Told(e) => Told(e)'
<1> SUFFICES ASSUME NEW e \in Events, Told(e) PROVE Told(e)'
  OBVIOUS
<1>1. CASE e \in alerted
  BY <1>1 DEF Told
<1>2. CASE AlertDue(e)
  <2>1. PICK v \in Workers : call[v].pc \in {"unindex", "alert"} /\ call[v].ev = e
    BY <1>2 DEF AlertDue
  <2>2. CASE v = w
    BY <2>1, <2>2 DEF Told, AlertDue
  <2>3. CASE v # w
    BY <2>1, <2>3 DEF Moves, Told, AlertDue
  <2> QED
    BY <2>2, <2>3
<1> QED
  BY <1>1, <1>2 DEF Told

\* A step that voids no row and reads none.
LEMMA MovesTold ==
    ASSUME AInv, NEW w \in Workers, Moves(w),
           \A e \in Events : Told(e) => Told(e)',
           \A e \in Events : row'[e] = "voided" => row[e] = "voided",
           call'[w].copy = "none"
    PROVE  VoidsAlerted'
BY DEF AInv, VoidsAlerted, Moves

LEMMA NextAInv == AInv /\ [Next]_vars => AInv'
<1> SUFFICES ASSUME AInv, [Next]_vars PROVE AInv'
  OBVIOUS
<1>t. TInv /\ TypeOK /\ TInv'
  BY NextTInv DEF AInv, TInv
<1> SUFFICES ASSUME ~Crashes PROVE VoidsAlerted'
  BY <1>t DEF AInv, VoidsAlerted
<1> USE DEF Steps
<1>1. ASSUME NEW w \in Workers, NEW e \in Events, PutIntent(w, e)
      PROVE  VoidsAlerted'
  <2>1. Moves(w) /\ call'[w].copy = "none"
    BY <1>1, <1>t, PutIntentMoves
  <2>2. \A f \in Events : Told(f) => Told(f)'
    BY <1>1, <2>1, ToldStable DEF PutIntent
  <2>3. \A f \in Events : row'[f] = "voided" => row[f] = "voided"
    BY <1>1, <1>t DEF PutIntent, TypeOK
  <2> QED
    BY <2>1, <2>2, <2>3, MovesTold
<1>2. ASSUME NEW w \in Workers,
             \/ IndexIntent(w) \/ PublishSucceeds(w) \/ PublishFails(w) \/ CannotSettle(w)
             \/ VoidGet(w) \/ Unindex(w) \/ VoidFails(w)
             \/ \E answer \in {"ok", "409", "400", "5xx", "lost"} : Settle(w, answer)
      PROVE  VoidsAlerted'
  <2>1. PICK p \in Steps :
            /\ Goto(w, p)
            /\ call[w].pc \in {"unindex", "alert"} => p \in {"unindex", "alert"}
    BY <1>2 DEF IndexIntent, AfterIntent, PublishSucceeds, PublishFails, CannotSettle, Void,
                VoidGet, AfterVoid, Unindex, VoidFails, Settle, SettleOutcome
  <2>2. Moves(w) /\ call'[w].pc = p /\ call'[w].ev = call[w].ev /\ call'[w].copy = call[w].copy
    BY <1>t, <2>1, GotoMoves
  <2>3. row' = row /\ alerted' = alerted
    BY <1>2 DEF IndexIntent, PublishSucceeds, PublishFails, CannotSettle, VoidGet, Unindex,
                VoidFails, Settle
  <2>4. call[w].copy = "none"
    BY <1>2, <1>t DEF TInv, Holding, IndexIntent, PublishSucceeds, PublishFails, CannotSettle,
                      VoidGet, Unindex, VoidFails, Settle
  <2>5. \A f \in Events : Told(f) => Told(f)'
    BY <2>1, <2>2, <2>3, ToldStable
  <2> QED
    BY <2>2, <2>3, <2>4, <2>5, MovesTold
<1>3. ASSUME NEW w \in Workers, EmitFails(w) \/ WriteFails(w) \/ MarkDelivered(w)
      PROVE  VoidsAlerted'
  <2>1. Moves(w) /\ call'[w].copy = "none"
    BY <1>3, <1>t, DoneMoves DEF EmitFails, WriteFails, MarkDelivered
  <2>2. \A f \in Events : Told(f) => Told(f)'
    BY <1>3, <2>1, ToldStable DEF EmitFails, AfterIntent, WriteFails, MarkDelivered
  <2>3. \A f \in Events : row'[f] = "voided" => row[f] = "voided"
    BY <1>3, <1>t DEF EmitFails, WriteFails, MarkDelivered, TypeOK
  <2> QED
    BY <2>1, <2>2, <2>3, MovesTold
<1>4. ASSUME NEW w \in Workers, BumpGet(w)
      PROVE  VoidsAlerted'
  <2>1. Moves(w)
    BY <1>4, <1>t, DoneMoves, BumpGetMoves DEF BumpGet
  <2>2. \A f \in Events : Told(f) => Told(f)'
    BY <1>4, <2>1, ToldStable DEF BumpGet
  <2>3. CASE row[call[w].ev] = "none"
    <3>1. call'[w].copy = "none" /\ row' = row
      BY <1>4, <1>t, <2>3, DoneMoves DEF BumpGet
    <3> QED
      BY <2>1, <2>2, <3>1, MovesTold
  <2>4. CASE row[call[w].ev] # "none"
    <3>1. call'[w].copy = row[call[w].ev] /\ call'[w].ev = call[w].ev /\ row' = row
      BY <1>4, <1>t, <2>4, BumpGetMoves DEF BumpGet
    <3> QED
      BY <2>1, <2>2, <3>1 DEF AInv, VoidsAlerted, Moves
  <2> QED
    BY <2>3, <2>4
<1>5. ASSUME NEW w \in Workers, BumpPut(w)
      PROVE  VoidsAlerted'
  <2>1. Moves(w) /\ call'[w].copy = "none"
    BY <1>5, <1>t, DoneMoves DEF BumpPut
  <2>2. \A f \in Events : Told(f) => Told(f)'
    BY <1>5, <2>1, ToldStable DEF BumpPut
  <2>3. \A f \in Events : row'[f] = "voided" =>
            row[f] = "voided" \/ (call[w].copy = "voided" /\ call[w].ev = f)
    BY <1>5, <1>t DEF BumpPut, TypeOK
  <2> QED
    BY <2>1, <2>2, <2>3 DEF AInv, VoidsAlerted, Moves
<1>6. ASSUME NEW w \in Workers, VoidPut(w)
      PROVE  VoidsAlerted'
  <2>1. /\ Moves(w) /\ call'[w].pc \in {"unindex", "alert"} /\ call'[w].ev = call[w].ev
        /\ call'[w].copy = call[w].copy
    BY <1>6, <1>t, GotoMoves DEF VoidPut, AfterVoid
  <2>2. call[w].copy = "none"
    BY <1>6, <1>t DEF TInv, Holding, VoidPut
  <2>3. \A f \in Events : Told(f) => Told(f)'
    BY <1>6, <2>1, ToldStable DEF VoidPut
  <2>4. \A f \in Events : call[w].ev = f => Told(f)'
    BY <2>1 DEF Told, AlertDue
  <2>5. \A f \in Events : row'[f] = "voided" => row[f] = "voided" \/ call[w].ev = f
    BY <1>6, <1>t DEF VoidPut, TypeOK
  <2> QED
    BY <2>1, <2>2, <2>3, <2>4, <2>5 DEF AInv, VoidsAlerted, Moves
<1>7. ASSUME NEW w \in Workers, Alert(w)
      PROVE  VoidsAlerted'
  <2>1. Moves(w) /\ call'[w].copy = "none"
    BY <1>7, <1>t, DoneMoves DEF Alert
  <2>2. \A f \in Events : Told(f) => Told(f)'
    BY <1>7, <2>1, ToldStable DEF Alert
  <2> QED
    BY <1>7, <2>1, <2>2, MovesTold DEF Alert
<1>8. ASSUME NEW w \in Workers, ListPending(w)
      PROVE  VoidsAlerted'
  <2>1. Moves(w) /\ call'[w].copy = "none"
    BY <1>8, <1>t, ListPendingMoves
  <2>2. \A f \in Events : Told(f) => Told(f)'
    BY <1>8, <2>1, ToldStable DEF ListPending
  <2> QED
    BY <1>8, <2>1, <2>2, MovesTold DEF ListPending
<1>9. ASSUME NEW w \in Workers, NEW e \in Events, NextPending(w, e)
      PROVE  VoidsAlerted'
  <2>1. Moves(w) /\ call'[w].copy = "none"
    BY <1>9, <1>t, NextPendingMoves
  <2>2. \A f \in Events : Told(f) => Told(f)'
    BY <1>9, <2>1, ToldStable DEF NextPending
  <2> QED
    BY <1>9, <2>1, <2>2, MovesTold DEF NextPending
<1>10. ASSUME NEW w \in Workers, EndPass(w)
       PROVE  VoidsAlerted'
  <2>1. Moves(w) /\ call'[w].copy = "none"
    BY <1>10, <1>t, ResetTyped DEF EndPass, NoCall
  <2>2. \A f \in Events : Told(f) => Told(f)'
    BY <1>10, <2>1, ToldStable DEF EndPass
  <2> QED
    BY <1>10, <2>1, <2>2, MovesTold DEF EndPass
<1>11. CASE UNCHANGED <<row, alerted, call>>
  BY <1>11 DEF AInv, VoidsAlerted, Told, AlertDue
<1> QED
  BY <1>1, <1>2, <1>3, <1>4, <1>5, <1>6, <1>7, <1>8, <1>9, <1>10, <1>11
  DEF Next, Handle, Workers, Crash, Kill, PassHorizon, Propagate, vars

LEMMA InitAInv == Init => AInv
<1> SUFFICES ASSUME Init PROVE AInv
  OBVIOUS
<1>1. \A w \in Workers : call[w].copy = "none"
  BY DEF Init, NoCall
<1>2. VoidsAlerted
  BY <1>1 DEF Init, VoidsAlerted
<1> QED
  BY <1>2, InitTInv DEF AInv

\* On DynamoDB, as long as no replica dies between a void and its alert, every
\* intent PutIntent has answered for is published, charged, alerted or still
\* pending, for any number of replicas, events and failed calls (D-29, D-12).
THEOREM NothingLostOnDDB ==
    ASSUME Backend = "ddb", ~Crashes
    PROVE  Spec => []NothingLost
<1>1. KInv /\ AInv => NothingLost
  <2> SUFFICES ASSUME KInv, AInv, ~Drop, NEW e \in intended
               PROVE  \/ e \in published
                      \/ Booked(e)
                      \/ e \in alerted \/ AlertDue(e)
                      \/ row[e] = "pending" /\ Reachable(e)
    BY DEF NothingLost
  <2>1. e \in Events /\ row[e] \in {"none", "pending", "voided"}
    BY DEF AInv, TInv, TypeOK, Status
  <2>2. CASE row[e] = "none"
    BY <2>2 DEF KInv, RecordKept
  <2>3. CASE row[e] = "pending"
    BY <2>3 DEF Reachable
  <2>4. CASE row[e] = "voided"
    BY <2>1, <2>4 DEF AInv, VoidsAlerted, Told
  <2> QED
    BY <2>1, <2>2, <2>3, <2>4
<1> QED
  BY <1>1, InitKInv, NextKInv, InitAInv, NextAInv, PTL DEF Spec
-----------------------------------------------------------------------------
(* The outbox implements MoneyEvents *)

\* Whatever is listed, queued or being handled was recorded first: only Redis
\* has rows that PutIntent has not answered for, and those are not listed yet.
Owed ==
    /\ indexed \subseteq intended
    /\ Backend = "ddb" => \A e \in Events : row[e] # "none" => e \in intended
    /\ \A w \in Workers :
          /\ call[w].queue \subseteq intended
          /\ call[w].pc \notin {"idle", "next", "index"} => call[w].ev \in intended

OInv == CInv /\ Owed

\* The list of a pass is only ever shortened.
LEMMA QueueShrinks ==
    ASSUME TInv, NEW w \in Workers,
           \/ \E p \in Steps : Goto(w, p)
           \/ Done(w)
           \/ \E e \in Events : PutIntent(w, e) \/ NextPending(w, e)
           \/ BumpGet(w)
           \/ call' = [call EXCEPT ![w] = NoCall]
    PROVE  call'[w].queue \subseteq call[w].queue
<1>1. call[w] \in Call /\ call \in [Workers -> Call]
  BY DEF TInv, TypeOK
<1>2. CASE \E p \in Steps : Goto(w, p)
  BY <1>1, <1>2 DEF Goto, Call
<1>3. CASE Done(w)
  BY <1>1, <1>3 DEF Done, Call, NoCall
<1>4. ASSUME NEW e \in Events, PutIntent(w, e)
      PROVE  call'[w].queue \subseteq call[w].queue
  <2>1. PICK pc : call' = [call EXCEPT ![w] = [call[w] EXCEPT !.pc = pc, !.ev = e]]
    BY <1>4 DEF PutIntent
  <2> QED
    BY <1>1, <2>1 DEF Call
<1>5. ASSUME NEW e \in Events, NextPending(w, e)
      PROVE  call'[w].queue \subseteq call[w].queue
  <2>1. PICK pc, ev : call' = [call EXCEPT ![w] = [call[w] EXCEPT !.pc = pc, !.queue = @ \ {e}, !.ev = ev]]
    BY <1>5 DEF NextPending
  <2> QED
    BY <1>1, <2>1 DEF Call
<1>6. CASE BumpGet(w) /\ ~Done(w)
  BY <1>1, <1>6 DEF BumpGet, Call
<1>7. CASE call' = [call EXCEPT ![w] = NoCall]
  BY <1>1, <1>7 DEF NoCall, Call
<1> QED
  BY <1>2, <1>3, <1>4, <1>5, <1>6, <1>7

\* A step of w that goes on with a recorded event, or with none.
LEMMA MovesOwed ==
    ASSUME OInv, NEW w \in Workers, Moves(w),
           intended \subseteq intended', indexed' \subseteq intended',
           Backend = "ddb" => \A e \in Events : row'[e] # "none" => e \in intended',
           call'[w].queue \subseteq intended',
           call'[w].pc \notin {"idle", "next", "index"} => call'[w].ev \in intended'
    PROVE  Owed'
BY DEF OInv, Owed, Moves

LEMMA NextOInv == OInv /\ [Next]_vars => OInv'
<1> SUFFICES ASSUME OInv, [Next]_vars PROVE OInv'
  OBVIOUS
<1>t. CInv /\ TInv /\ TypeOK /\ CInv'
  BY NextCInv DEF OInv, CInv, TInv
<1> SUFFICES Owed'
  BY <1>t DEF OInv
<1>o. /\ indexed \subseteq intended
      /\ Backend = "ddb" => \A e \in Events : row[e] # "none" => e \in intended
      /\ \A w \in Workers :
            /\ call[w].queue \subseteq intended
            /\ call[w].pc \notin {"idle", "next", "index"} => call[w].ev \in intended
  BY DEF OInv, Owed
<1>1. ASSUME NEW w \in Workers, NEW e \in Events, PutIntent(w, e)
      PROVE  Owed'
  <2>1. Moves(w) /\ call'[w].ev = e
    BY <1>1, <1>t, PutIntentMoves
  <2>2. call'[w].queue \subseteq call[w].queue
    BY <1>1, <1>t, QueueShrinks
  <2>3. call'[w].pc # "index" => intended' = intended \cup {e}
    BY <1>1, <1>t DEF PutIntent, TypeOK, Call
  <2>4. Backend = "ddb" => intended' = intended \cup {e}
    BY <1>1 DEF PutIntent, AfterIntent
  <2>5. \A f \in Events : f # e => row'[f] = row[f]
    BY <1>1, <1>t DEF PutIntent, TypeOK
  <2>6. intended \subseteq intended' /\ indexed' = indexed
    BY <1>1 DEF PutIntent
  <2> QED
    BY <1>o, <2>1, <2>2, <2>3, <2>4, <2>5, <2>6, MovesOwed
<1>2. ASSUME NEW w \in Workers, IndexIntent(w)
      PROVE  Owed'
  <2>1. PICK p \in {"publish", "settle"} : Goto(w, p)
    BY <1>2 DEF IndexIntent, AfterIntent
  <2>2. Moves(w) /\ call'[w].ev = call[w].ev
    BY <1>t, <2>1, GotoMoves DEF Steps
  <2>3. call'[w].queue \subseteq call[w].queue
    BY <1>t, <2>1, QueueShrinks DEF Steps
  <2> QED
    BY <1>2, <1>o, <2>2, <2>3, MovesOwed DEF IndexIntent
<1>3. ASSUME NEW w \in Workers,
             PublishSucceeds(w) \/ PublishFails(w) \/ VoidGet(w) \/ Unindex(w) \/ VoidFails(w)
                \/ CannotSettle(w) \/ \E answer \in {"ok", "409", "400", "5xx", "lost"} : Settle(w, answer)
      PROVE  Owed'
  <2>1. PICK p \in Steps \ {"index"} : Goto(w, p)
    <3>1. CASE PublishSucceeds(w) \/ PublishFails(w)
      BY <3>1 DEF PublishSucceeds, PublishFails, Steps
    <3>2. CASE VoidGet(w) \/ Unindex(w) \/ VoidFails(w)
      BY <3>2 DEF VoidGet, Unindex, VoidFails, AfterVoid, Steps
    <3>3. CASE CannotSettle(w)
      BY <3>3 DEF CannotSettle, Void, Steps
    <3>4. CASE \E answer \in {"ok", "409", "400", "5xx", "lost"} : Settle(w, answer)
      BY <3>4 DEF Settle, SettleOutcome, Void, Steps
    <3> QED
      BY <1>3, <3>1, <3>2, <3>3, <3>4
  <2>2. Moves(w) /\ call'[w].ev = call[w].ev
    BY <1>t, <2>1, GotoMoves
  <2>3. call'[w].queue \subseteq call[w].queue
    BY <1>t, <2>1, QueueShrinks
  <2>4. /\ call[w].pc \notin {"idle", "next", "index"}
        /\ intended' = intended /\ indexed' \subseteq indexed /\ row' = row
    BY <1>3 DEF PublishSucceeds, PublishFails, VoidGet, Unindex, VoidFails, CannotSettle, Settle
  <2> QED
    BY <1>o, <2>2, <2>3, <2>4, MovesOwed
<1>4. ASSUME NEW w \in Workers, VoidPut(w)
      PROVE  Owed'
  <2>1. PICK p \in Steps : Goto(w, p)
    BY <1>4 DEF VoidPut, AfterVoid, Steps
  <2>2. Moves(w) /\ call'[w].ev = call[w].ev /\ call[w].ev \in intended
    BY <1>t, <1>o, <1>4, <2>1, GotoMoves DEF VoidPut
  <2>3. call'[w].queue \subseteq call[w].queue
    BY <1>t, <2>1, QueueShrinks
  <2>4. \A e \in Events : e # call[w].ev => row'[e] = row[e]
    BY <1>4, <1>t DEF VoidPut, TypeOK
  <2>5. intended' = intended /\ indexed' = indexed
    BY <1>4 DEF VoidPut
  <2> QED
    BY <1>o, <2>2, <2>3, <2>4, <2>5, MovesOwed
<1>5. ASSUME NEW w \in Workers,
             EmitFails(w) \/ WriteFails(w) \/ MarkDelivered(w) \/ BumpPut(w) \/ Alert(w)
      PROVE  Owed'
  <2>1. Done(w)
    BY <1>5 DEF EmitFails, WriteFails, MarkDelivered, BumpPut, Alert
  <2>2. Moves(w) /\ call'[w].pc \in {"idle", "next"}
    BY <1>t, <2>1, DoneMoves
  <2>3. call'[w].queue \subseteq call[w].queue
    BY <1>t, <2>1, QueueShrinks
  <2>4. \A e \in Events : row'[e] # "none" => row[e] # "none" \/ e \in intended
    <3>1. CASE BumpPut(w)
      BY <3>1, <1>o, <1>t DEF BumpPut, TypeOK
    <3>2. CASE MarkDelivered(w)
      BY <3>2, <1>t DEF MarkDelivered, TypeOK
    <3> QED
      BY <1>5, <3>1, <3>2 DEF EmitFails, WriteFails, Alert
  <2>5. intended' = intended /\ indexed' \subseteq indexed
    BY <1>5 DEF EmitFails, WriteFails, MarkDelivered, BumpPut, Alert
  <2> QED
    BY <1>o, <2>2, <2>3, <2>4, <2>5, MovesOwed
<1>6. ASSUME NEW w \in Workers, BumpGet(w)
      PROVE  Owed'
  <2>1. Moves(w) /\ (call'[w].pc \in {"idle", "next"} \/ call'[w].ev = call[w].ev)
    BY <1>6, <1>t, DoneMoves, BumpGetMoves DEF BumpGet
  <2>2. call'[w].queue \subseteq call[w].queue
    BY <1>6, <1>t, QueueShrinks
  <2> QED
    BY <1>6, <1>o, <2>1, <2>2, MovesOwed DEF BumpGet
<1>7. ASSUME NEW w \in Workers, ListPending(w)
      PROVE  Owed'
  <2>1. Moves(w) /\ call'[w].pc = "next"
    BY <1>7, <1>t, ListPendingMoves
  <2>2. call'[w].queue \subseteq indexed
    BY <1>7, <1>t DEF ListPending, NoCall, TypeOK
  <2> QED
    BY <1>7, <1>o, <2>1, <2>2, MovesOwed DEF ListPending
<1>8. ASSUME NEW w \in Workers, NEW e \in Events, NextPending(w, e)
      PROVE  Owed'
  <2>1. Moves(w) /\ (call'[w].pc # "next" => call'[w].ev = e)
    BY <1>8, <1>t, NextPendingMoves
  <2>2. call'[w].queue \subseteq call[w].queue
    BY <1>8, <1>t, QueueShrinks
  <2> QED
    BY <1>8, <1>o, <2>1, <2>2, MovesOwed DEF NextPending
<1>9. ASSUME NEW w \in Workers, EndPass(w) \/ Crash(w)
      PROVE  Owed'
  <2>1. call' = [call EXCEPT ![w] = NoCall]
    BY <1>9 DEF EndPass, Crash
  <2>2. Moves(w) /\ call'[w].pc = "idle"
    BY <1>t, <2>1, ResetTyped DEF NoCall
  <2>3. call'[w].queue \subseteq call[w].queue
    BY <1>t, <2>1, QueueShrinks
  <2> QED
    BY <1>9, <1>o, <2>2, <2>3, MovesOwed DEF EndPass, Crash
<1>10. ASSUME NEW e \in Events, Propagate(e)
       PROVE  Owed'
  BY <1>10, <1>o DEF Propagate, Owed
<1>11. CASE UNCHANGED <<row, indexed, intended, call>>
  BY <1>11, <1>o DEF Owed
<1> QED
  BY <1>1, <1>2, <1>3, <1>4, <1>5, <1>6, <1>7, <1>8, <1>9, <1>10, <1>11
  DEF Next, Handle, Workers, Kill, PassHorizon, vars

LEMMA InitOInv == Init => OInv
<1> SUFFICES ASSUME Init PROVE OInv
  OBVIOUS
<1>1. CInv
  BY InitCInv
<1>2. \A w \in Workers : call[w] = NoCall
  BY DEF Init
<1>3. Owed
  BY <1>2 DEF Init, Owed, NoCall
<1> QED
  BY <1>1, <1>3 DEF OInv

\* The step of MoneyEvents that each step of the outbox is.
LEMMA StepImplements ==
    OInv /\ [Next]_vars => [Money!Next]_(Money!moneyVars)
<1> SUFFICES ASSUME OInv, [Next]_vars PROVE [Money!Next]_(Money!moneyVars)
  OBVIOUS
<1>t. TInv /\ TypeOK /\ Charges /\ Voids /\ Owed
  BY DEF OInv, CInv, TInv
<1>s. ASSUME UNCHANGED <<intended, published, debited, alerted>>
      PROVE  UNCHANGED Money!moneyVars
  BY <1>s DEF Money!moneyVars
<1>1. ASSUME NEW w \in Workers, NEW e \in Events, PutIntent(w, e)
      PROVE  Money!Accept(e) \/ UNCHANGED Money!moneyVars
  BY <1>1, <1>s DEF PutIntent, Money!Accept
<1>2. ASSUME NEW w \in Workers, IndexIntent(w)
      PROVE  \E e \in Events : Money!Accept(e)
  BY <1>2, <1>t DEF IndexIntent, Money!Accept, TInv, Holding
<1>3. ASSUME NEW w \in Workers, PublishSucceeds(w) \/ PublishFails(w)
      PROVE  (\E e \in Events : Money!Send(e)) \/ UNCHANGED Money!moneyVars
  <2>1. call[w].ev \in Events /\ call[w].ev \in intended
    BY <1>3, <1>t DEF PublishSucceeds, PublishFails, TInv, Holding, Owed
  <2>2. UNCHANGED <<intended, debited, alerted>>
        /\ (published' = published \cup {call[w].ev} \/ published' = published)
    BY <1>3 DEF PublishSucceeds, PublishFails
  <2> QED
    BY <1>s, <2>1, <2>2 DEF Money!Send
<1>4. ASSUME NEW w \in Workers, NEW answer, Settle(w, answer)
      PROVE  (\E e \in Events : Money!Charge(e)) \/ UNCHANGED Money!moneyVars
  <2> DEFINE e == call[w].ev
  <2>1. e \in Events /\ e \in intended /\ Settleable(e) /\ Verdict[e] \in Verdicts
    BY <1>4, <1>t, EventsDeclared DEF Settle, TInv, Holding, Owed, Settleable
  <2>2. UNCHANGED <<intended, published, alerted>>
    BY <1>4 DEF Settle
  <2>3. CASE debited' # debited
    <3>1. /\ answer \in {"ok", "lost"} /\ debited[Res[e]] = NoEvent
          /\ debited' = [debited EXCEPT ![Res[e]] = e]
      BY <1>4, <2>3 DEF Settle
    <3>2. Verdict[e] = "accept"
      BY <1>4, <2>1, <3>1 DEF Settle, Answers, Verdicts
    <3>3. e \notin alerted
      BY <1>t, <2>1, <3>2 DEF Voids, Voidable
    <3>4. e \in Terminal
      BY <2>1 DEF Settleable, MaySettle
    <3>5. Money!Charge(e)
      BY <2>1, <2>2, <3>1, <3>3, <3>4 DEF Money!Charge
    <3> QED
      BY <2>1, <3>5
  <2>4. CASE debited' = debited
    BY <1>s, <2>2, <2>4
  <2> QED
    BY <2>3, <2>4
<1>5. ASSUME NEW w \in Workers, Alert(w)
      PROVE  \E e \in Events : Money!GiveUp(e)
  <2> DEFINE e == call[w].ev
  <2>1. e \in Events /\ e # NoEvent /\ e \in intended /\ Voidable(e)
    BY <1>5, <1>t, EventsDeclared DEF Alert, TInv, Holding, Owed, Voids, VoidSteps
  <2>2. \A k \in Reservations \cup {Blank} : debited[k] # e
    BY <1>t, <2>1 DEF Charges, Voidable
  <2>3. alerted' = alerted \cup {e} /\ UNCHANGED <<intended, published, debited>>
    BY <1>5 DEF Alert
  <2> QED
    BY <2>1, <2>2, <2>3 DEF Money!GiveUp
<1>6. CASE UNCHANGED <<intended, published, debited, alerted>>
  BY <1>6, <1>s
<1> QED
  <2>1. CASE Next
    BY <2>1, <1>1, <1>2, <1>3, <1>4, <1>5, <1>6
    DEF Next, Handle, Money!Next, Workers, EmitFails, MarkDelivered, BumpGet, BumpPut, WriteFails,
        VoidGet, VoidPut, Unindex, VoidFails, CannotSettle, ListPending, EndPass, Kill,
        NextPending, Crash, PassHorizon, Propagate
  <2>2. CASE UNCHANGED vars
    BY <2>2, <1>6 DEF vars
  <2> QED
    BY <2>1, <2>2

\* The outbox, on either store and with every failure it knows, does to money events
\* what MoneyEvents allows and nothing else: an event is recorded before it goes
\* out, a reservation is charged once and by an event that ends it, and no event is both
\* charged and given up (EmitViaOutbox, Drain, settleOrVoid).
THEOREM OutboxImplementsMoneyEvents == Spec => ImplementsMoneyEvents
<1>1. Init => Money!Init
  BY DEF Init, Money!Init
<1> QED
  BY <1>1, InitOInv, NextOInv, StepImplements, PTL DEF Spec, ImplementsMoneyEvents, Money!Spec
=============================================================================

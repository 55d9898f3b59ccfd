------------------------- MODULE SelfHealing_proofs -------------------------
(***************************************************************************)
(* Proofs about the healing passes, for every set of healers, every        *)
(* provider wiring, coverage and failure setting.                          *)
(*                                                                         *)
(* A pass may overwrite an org gauge only with what it learnt of it, so    *)
(* the argument follows what a pass may know (PassOK).  The retry of a     *)
(* recounted acquire charges an id minted long before, so it also needs    *)
(* that nobody else charged that id in between (RequestsFresh).  The rest  *)
(* is the bookkeeping of GaugeActivations_proofs, one gauge at a time.     *)
(***************************************************************************)
EXTENDS SelfHealing, GaugeActivations_proofs

-----------------------------------------------------------------------------
(* The inductive invariant *)

\* What a pass p may know and be about to do: a count only of a
\* resource its source covers, a gauge to converge only when its count is
\* known, and a spend to retry only for a recount, which carries its request.
PassOK(p) ==
    /\ \A r \in Resources : p.truth[r] # Unknown => r \in Healable
    /\ \A r \in p.at : p.truth[r] # Unknown
    /\ p.pc = "observe" => p.at = {}
    /\ p.pc = "read" => \E r \in Resources : p.at = {r}
    /\ p.pc # "idle" /\ p.kind = "recount" => p.req \in Request
    /\ p.pc \in {"retry", "uncapped"} => p.kind = "recount"

PassesOK == \A h \in Healers : PassOK(heal[h])

\* The id of a recounting request is still unminted, and nobody else's.
RequestsFresh ==
    \A h \in Healers : heal[h].req.id \in Ids =>
        /\ row[heal[h].req.id].phase = "unminted"
        /\ \A g \in Healers \ {h} : heal[g].req.id # heal[h].req.id

\* The org gauges no pass can verify, and every per-user gauge.
UnhealedExact ==
    /\ \A r \in Resources \ Healable : OrgExact(r)
    /\ \A u \in Users, r \in Resources : UserExact(u, r)

HInv == HealTypeOK /\ Bookkeeping /\ PassesOK /\ RequestsFresh /\ UnhealedExact

-----------------------------------------------------------------------------
(* The activation API, seen from the healing passes *)

\* Healable depends on the wiring alone, which is fixed at Setup.
LEMMA HealableKept ==
    ASSUME provider' = provider
    PROVE  Healable' = Healable
BY DEF Healable, Wired

LEMMA ApiStep ==
    ASSUME HInv, [Next]_vars, provider' = provider
    PROVE  TypeOK' /\ Bookkeeping' /\ UnhealedExact'
<1>1. TypeOK /\ Bookkeeping
  BY DEF HInv, HealTypeOK
<1>2. TypeOK' /\ Bookkeeping'
  BY <1>1, NextTypeOK, NextBookkeeping
<1>3. \A r \in Resources : /\ OrgExact(r) => OrgExact(r)'
                           /\ \A u \in Users : UserExact(u, r) => UserExact(u, r)'
  BY <1>1, NextGaugeExact
<1>4. UnhealedExact'
  BY <1>3, HealableKept DEF HInv, UnhealedExact
<1> QED
  BY <1>2, <1>4

\* The spend of a fresh id, by an Acquire or by the retry of a recounted one.
LEMMA SpendStep ==
    ASSUME HInv, NEW i \in Ids, NEW b \in SUBSET Resources, NEW u \in Users \cup {NoUser},
           row[i].phase = "unminted", SpendAll(i, b, u, NoKey), provider' = provider
    PROVE  TypeOK' /\ Bookkeeping' /\ UnhealedExact'
<1>1. TypeOK /\ Bookkeeping
  BY DEF HInv, HealTypeOK
<1>2. TypeOK' /\ Bookkeeping'
  BY <1>1, SpendTypeOK, SpendBookkeeping
<1>3. \A r \in Resources : /\ OrgExact(r) => OrgExact(r)'
                           /\ \A v \in Users : UserExact(v, r) => UserExact(v, r)'
  BY <1>1, SpendExact
<1>4. UnhealedExact'
  BY <1>3, HealableKept DEF HInv, UnhealedExact
<1> QED
  BY <1>2, <1>4

\* Only a spend mints an id.
LEMMA UnmintedKept ==
    ASSUME TypeOK, NEW j \in Ids, row[j].phase = "unminted",
           \/ ReleaseOrSettle
           \/ \E i \in Ids : PutOpen(i) \/ Lose(i)
    PROVE  row'[j].phase = "unminted"
<1>1. ASSUME NEW i \in Ids, NEW c, NEW from \in SUBSET {"open", "released"}, Record(i, c, from)
      PROVE  row'[j].phase = "unminted"
  <2>1. row[j].phase \notin from
    OBVIOUS
  <2>2. CASE i = j
    BY <1>1, <2>1, <2>2 DEF Record
  <2>3. CASE i # j
    BY <1>1, <2>3 DEF Record, TypeOK
  <2> QED
    BY <2>2, <2>3
<1>2. ASSUME NEW i \in Ids, PutOpen(i) \/ Lose(i) \/ MarkReleased(i)
      PROVE  row'[j].phase = "unminted"
  <2>1. i # j
    BY <1>2 DEF PutOpen, Lose, MarkReleased
  <2> QED
    BY <1>2, <2>1 DEF PutOpen, Lose, MarkReleased, TypeOK
<1>3. ASSUME NEW i \in Ids, AbortRelease(i) \/ \E r \in Resources : ReleaseOrg(i, r) \/ ReleaseUser(i, r)
      PROVE  row'[j].phase = "unminted"
  BY <1>3 DEF AbortRelease, ReleaseOrg, ReleaseUser
<1>4. ASSUME NEW s \in Settlers, NEW i \in Ids, NEW c \in Costs, SettleFirst(s, i, c)
      PROVE  row'[j].phase = "unminted"
  <2>1. Record(i, c, {"open", "released"}) \/ Record(i, c, {"released"})
    BY <1>4 DEF SettleFirst
  <2> QED
    BY <1>1, <2>1
<1>5. ASSUME NEW s \in Settlers, SettleSecond(s)
      PROVE  row'[j].phase = "unminted"
  <2>1. settler[s].id \in Ids /\ Record(settler[s].id, settler[s].cost, {"open"})
    BY <1>5 DEF TypeOK, SettleSecond, SettleCall, Idle
  <2> QED
    BY <1>1, <2>1
<1>6. ASSUME NEW s \in Settlers, SettleReport(s) \/ AbortSettle(s)
      PROVE  row'[j].phase = "unminted"
  BY <1>6 DEF SettleReport, AbortSettle
<1> QED
  BY <1>2, <1>3, <1>4, <1>5, <1>6 DEF ReleaseOrSettle

-----------------------------------------------------------------------------
(* The passes *)

LEMMA NoPassOK ==
    ASSUME NEW h \in Healers
    PROVE  NoPass \in Pass /\ PassOK(NoPass)
BY DEF NoPass, Pass, PassOK, NoRequest, NoCounts, Counts, Unknown

LEMMA CountOnType ==
    ASSUME NEW S \in SUBSET Ids, NEW r
    PROVE  CountOn(S, r) \in Nat
<1>1. IsFiniteSet({i \in S : r \in row[i].bundle})
  BY IdsFinite, FS_Subset
<1> QED
  BY <1>1, FS_CardinalityType DEF CountOn

\* A pass moves on: what it knows stays sound, and it keeps its request or ends.
Moves(h) ==
    \E p \in Pass : /\ PassOK(p)
                    /\ p.req \in {heal[h].req, NoRequest}
                    /\ heal' = [heal EXCEPT ![h] = p]

LEMMA BeginMoves ==
    ASSUME HealTypeOK, NEW h \in Healers, BeginLoop(h) \/ BeginRecalc(h)
    PROVE  Moves(h)
<1>1. CASE BeginLoop(h)
  <2> DEFINE opens == [r \in Resources |-> CountOn(index, r)]
  <2>1. opens \in Counts
    BY CountOnType DEF HealTypeOK, Counts
  <2>2. NoCounts \in Counts
    BY DEF NoCounts, Counts
  <2>3. PICK c \in {"observe", "visit"}, t \in {NoCounts, opens} :
          /\ heal' = [heal EXCEPT ![h] = [NoPass EXCEPT !.pc = c, !.kind = "loop", !.ledger = opens,
                                                        !.truth = t, !.left = Resources]]
          /\ Wired => t = NoCounts
    BY <1>1 DEF BeginLoop, HealStep
  <2> HIDE DEF opens
  <2> DEFINE p == [NoPass EXCEPT !.pc = c, !.kind = "loop", !.ledger = opens, !.truth = t, !.left = Resources]
  <2>4. p \in Pass /\ p.req = NoRequest /\ p.truth = t /\ p.at = {} /\ p.pc = c /\ p.kind = "loop"
    BY <2>1, <2>2, <2>3, NoPassOK DEF Pass, NoPass, Kinds
  <2>5. PassOK(p)
    <3>1. \A r \in Resources : t[r] # Unknown => r \in Healable
      BY <2>3 DEF NoCounts, Healable, Wired
    <3> QED
      BY <2>3, <2>4, <3>1 DEF PassOK
  <2> HIDE DEF p
  <2> QED
    BY <2>3, <2>4, <2>5 DEF Moves, p
<1>2. CASE BeginRecalc(h)
  <2> DEFINE p == [NoPass EXCEPT !.pc = "observe", !.kind = "recalc", !.left = Resources]
  <2>1. p \in Pass /\ p.req = NoRequest /\ p.truth = NoCounts /\ p.at = {} /\ p.pc = "observe" /\ p.kind = "recalc"
    BY NoPassOK DEF Pass, NoPass, Kinds
  <2>2. PassOK(p)
    BY <1>2, <2>1 DEF PassOK, BeginRecalc, NoCounts
  <2>3. heal' = [heal EXCEPT ![h] = p]
    BY <1>2 DEF BeginRecalc, HealStep
  <2> HIDE DEF p
  <2> QED
    BY <2>1, <2>2, <2>3 DEF Moves
<1> QED
  BY <1>1, <1>2

LEMMA EndMoves ==
    ASSUME NEW h \in Healers, HealStep(h, NoPass)
    PROVE  Moves(h)
<1>1. NoPass.req = NoRequest
  BY DEF NoPass
<1> QED
  BY <1>1, NoPassOK DEF Moves, HealStep

\* The gauge read, or the 0 of a failed read: on to the Set, or to the next.
LEMMA CompareMoves ==
    ASSUME HealTypeOK, PassesOK, NEW h \in Healers, NEW r \in Resources, NEW cur,
           heal[h].pc = "read", heal[h].at = {r}, Compare(h, r, cur)
    PROVE  Moves(h)
<1>1. heal[h] \in Pass /\ PassOK(heal[h])
  BY DEF HealTypeOK, PassesOK
<1>2. PICK p \in {[heal[h] EXCEPT !.pc = "visit", !.at = {}], [heal[h] EXCEPT !.pc = "set"]} :
        heal' = [heal EXCEPT ![h] = p]
  BY DEF Compare, HealStep
<1>3. p \in Pass /\ p.req = heal[h].req /\ p.kind = heal[h].kind
  BY <1>1, <1>2 DEF Pass
<1>4. PassOK(p)
  BY <1>1, <1>2 DEF Pass, PassOK
<1> QED
  BY <1>2, <1>3, <1>4 DEF Moves

LEMMA ContinueMoves ==
    ASSUME HealTypeOK, PassesOK, NEW h \in Healers, ContinuePass(h)
    PROVE  Moves(h)
<1>0. heal[h] \in Pass /\ PassOK(heal[h])
  BY DEF HealTypeOK, PassesOK
<1>1. CASE Observe(h)
  <2> DEFINE t == ObservedUsage
             p == [heal[h] EXCEPT !.pc = "visit", !.truth = t]
  <2>1. t \in Counts
    BY CountOnType DEF HealTypeOK, Counts, ObservedUsage, Unknown
  <2>2. \A r \in Resources : t[r] # Unknown => r \in Healable
    BY DEF ObservedUsage, Healable
  <2>3. heal' = [heal EXCEPT ![h] = p] /\ heal[h].pc = "observe" /\ heal[h].at = {}
    BY <1>0, <1>1 DEF Observe, HealStep, PassOK
  <2> HIDE DEF t
  <2>4. p \in Pass /\ p.req = heal[h].req /\ p.kind = heal[h].kind /\ p.truth = t /\ p.at = {} /\ p.pc = "visit"
    BY <1>0, <2>1, <2>3 DEF Pass
  <2> HIDE DEF p
  <2>5. PassOK(p)
    BY <1>0, <2>2, <2>3, <2>4 DEF PassOK
  <2> QED
    BY <2>3, <2>4, <2>5 DEF Moves
<1>2. CASE ObserveFails(h)
  <2>1. CASE heal[h].kind = "recount"
    <3> DEFINE p == [heal[h] EXCEPT !.pc = "uncapped"]
    <3>1. heal' = [heal EXCEPT ![h] = p] /\ heal[h].pc = "observe"
      BY <1>2, <2>1 DEF ObserveFails, HealStep
    <3>2. p \in Pass /\ p.req = heal[h].req /\ p.kind = heal[h].kind /\ p.truth = heal[h].truth /\ p.at = heal[h].at
          /\ p.pc = "uncapped"
      BY <1>0 DEF Pass
    <3> HIDE DEF p
    <3>3. PassOK(p)
      BY <1>0, <2>1, <3>1, <3>2 DEF PassOK
    <3> QED
      BY <3>1, <3>2, <3>3 DEF Moves
  <2>2. CASE heal[h].kind # "recount"
    BY <1>2, <2>2, EndMoves DEF ObserveFails
  <2> QED
    BY <2>1, <2>2
<1>3. ASSUME NEW r \in Resources, Visit(h, r)
      PROVE  Moves(h)
  <2> DEFINE p == IF MustSkip(h, r) THEN [heal[h] EXCEPT !.left = @ \ {r}]
                  ELSE [heal[h] EXCEPT !.left = @ \ {r}, !.pc = "read", !.at = {r}]
  <2>1. heal' = [heal EXCEPT ![h] = p] /\ heal[h].pc = "visit"
    BY <1>3 DEF Visit, HealStep
  <2>2. p \in Pass /\ p.req = heal[h].req /\ p.kind = heal[h].kind /\ p.truth = heal[h].truth
    BY <1>0 DEF Pass
  <2>3. \/ p.pc = "visit" /\ p.at = heal[h].at
        \/ p.pc = "read" /\ p.at = {r} /\ heal[h].truth[r] # Unknown
    BY <1>0, <2>1 DEF Pass, MustSkip
  <2> HIDE DEF p
  <2>4. PassOK(p)
    BY <1>0, <2>1, <2>2, <2>3 DEF PassOK
  <2> QED
    BY <2>1, <2>2, <2>4 DEF Moves
<1>4. CASE ReadGauge(h)
  <2>1. PICK r \in Resources : heal[h].at = {r}
    BY <1>0, <1>4 DEF ReadGauge, PassOK
  <2>2. heal[h].pc = "read" /\ Compare(h, r, org[r])
    BY <1>4, <2>1 DEF ReadGauge
  <2> QED
    BY <2>1, <2>2, CompareMoves
<1>5. CASE ReadFails(h)
  <2>1. PICK r \in Resources : heal[h].at = {r}
    BY <1>0, <1>5 DEF ReadFails, PassOK
  <2>2. heal[h].pc = "read" /\ (HealStep(h, NoPass) \/ Compare(h, r, 0))
    BY <1>5, <2>1 DEF ReadFails
  <2> QED
    BY <2>1, <2>2, CompareMoves, EndMoves
<1>6. CASE SetGauge(h)
  <2> DEFINE p == [heal[h] EXCEPT !.pc = "visit", !.at = {}, !.repaired = TRUE]
  <2>1. heal' = [heal EXCEPT ![h] = p] /\ heal[h].pc = "set"
    BY <1>6 DEF SetGauge, HealStep
  <2>2. p \in Pass /\ p.req = heal[h].req /\ p.kind = heal[h].kind /\ p.truth = heal[h].truth /\ p.at = {} /\ p.pc = "visit"
    BY <1>0 DEF Pass
  <2> HIDE DEF p
  <2>3. PassOK(p)
    BY <1>0, <2>1, <2>2 DEF PassOK
  <2> QED
    BY <2>1, <2>2, <2>3 DEF Moves
<1>7. CASE SetFails(h)
  <2>1. CASE heal[h].kind = "recount"
    <3> DEFINE p == [heal[h] EXCEPT !.pc = "visit", !.at = {}]
    <3>1. heal' = [heal EXCEPT ![h] = p] /\ heal[h].pc = "set"
      BY <1>7, <2>1 DEF SetFails, HealStep
    <3>2. p \in Pass /\ p.req = heal[h].req /\ p.kind = heal[h].kind /\ p.truth = heal[h].truth /\ p.at = {} /\ p.pc = "visit"
      BY <1>0 DEF Pass
    <3> HIDE DEF p
    <3>3. PassOK(p)
      BY <1>0, <3>1, <3>2 DEF PassOK
    <3> QED
      BY <3>1, <3>2, <3>3 DEF Moves
  <2>2. CASE heal[h].kind # "recount"
    BY <1>7, <2>2, EndMoves DEF SetFails
  <2> QED
    BY <2>1, <2>2
<1>8. CASE EndPass(h)
  <2>1. CASE heal[h].kind = "recount" /\ heal[h].repaired
    <3> DEFINE p == [heal[h] EXCEPT !.pc = "retry"]
    <3>1. heal' = [heal EXCEPT ![h] = p] /\ heal[h].pc = "visit"
      BY <1>8, <2>1 DEF EndPass, HealStep
    <3>2. p \in Pass /\ p.req = heal[h].req /\ p.kind = heal[h].kind /\ p.truth = heal[h].truth /\ p.at = heal[h].at
          /\ p.pc = "retry"
      BY <1>0 DEF Pass
    <3> HIDE DEF p
    <3>3. PassOK(p)
      BY <1>0, <2>1, <3>1, <3>2 DEF PassOK
    <3> QED
      BY <3>1, <3>2, <3>3 DEF Moves
  <2>2. CASE ~(heal[h].kind = "recount" /\ heal[h].repaired)
    BY <1>8, <2>2, EndMoves DEF EndPass
  <2> QED
    BY <2>1, <2>2
<1>9. CASE Retry(h)
  BY <1>9, EndMoves DEF Retry
<1> QED
  BY <1>1, <1>2, <1>3, <1>4, <1>5, <1>6, <1>7, <1>8, <1>9 DEF ContinuePass

LEMMA MovesKeep ==
    ASSUME HInv, NEW h \in Healers, Moves(h), provider' = provider
    PROVE  /\ heal' \in [Healers -> Pass]
           /\ PassesOK'
           /\ \A g \in Healers : heal'[g].req.id \in {heal[g].req.id, NoId}
           /\ \A g \in Healers \ {h} : heal'[g] = heal[g]
<1>1. PICK p \in Pass : /\ PassOK(p)
                        /\ p.req \in {heal[h].req, NoRequest}
                        /\ heal' = [heal EXCEPT ![h] = p]
  BY DEF Moves
<1>2. \A g \in Healers : heal'[g] = IF g = h THEN p ELSE heal[g]
  BY <1>1 DEF HInv, HealTypeOK
<1>3. heal' \in [Healers -> Pass]
  BY <1>1 DEF HInv, HealTypeOK
<1>4. ASSUME NEW g \in Healers PROVE PassOK(heal[g])'
  <2>1. PassOK(heal'[g])
    BY <1>1, <1>2 DEF HInv, PassesOK
  <2> QED
    BY <2>1, HealableKept DEF PassOK
<1>5. \A g \in Healers : heal'[g].req.id \in {heal[g].req.id, NoId}
  BY <1>1, <1>2 DEF NoRequest
<1> QED
  BY <1>2, <1>3, <1>4, <1>5 DEF PassesOK

\* Requests stay fresh when they are only dropped and their ids stay unminted.
LEMMA FreshFrame ==
    ASSUME RequestsFresh,
           \A g \in Healers : heal'[g].req.id \in {heal[g].req.id, NoId},
           \A g \in Healers : heal'[g].req.id \in Ids
                                  => row'[heal'[g].req.id].phase = "unminted"
    PROVE  RequestsFresh'
BY NilsAreFresh DEF RequestsFresh

-----------------------------------------------------------------------------
(* Every step keeps the invariant *)

LEMMA InitHInv == HealInit => HInv
<1> SUFFICES ASSUME HealInit PROVE HInv
  OBVIOUS
<1>1. IInv
  BY InitIInv DEF HealInit
<1>2. heal \in [Healers -> Pass] /\ PassesOK
  BY NoPassOK DEF HealInit, PassesOK
<1>3. RequestsFresh
  BY NilsAreFresh DEF HealInit, RequestsFresh, NoPass, NoRequest
<1>4. UnhealedExact
  BY <1>1 DEF IInv, GaugesExact, UnhealedExact, OrgExact, UserExact
<1> QED
  BY <1>1, <1>2, <1>3, <1>4 DEF HInv, HealTypeOK, HealInit, IInv

\* Steps that leave the passes alone and mint no id a pass has claimed.
LEMMA ApiKeeps ==
    ASSUME HInv, [Next]_vars, UNCHANGED <<provider, heal>>,
           untouched' \subseteq Ids, touched' \subseteq Resources,
           index' \subseteq Ids, visible' \subseteq Ids,
           \A h \in Healers : heal[h].req.id \in Ids
                                  => row'[heal[h].req.id].phase = "unminted"
    PROVE  HInv'
<1>1. TypeOK' /\ Bookkeeping' /\ UnhealedExact'
  BY ApiStep
<1>2. HealTypeOK'
  BY <1>1 DEF HInv, HealTypeOK
<1>3. PassesOK'
  BY HealableKept DEF HInv, PassesOK, PassOK
<1>4. RequestsFresh'
  BY FreshFrame DEF HInv
<1> QED
  BY <1>1, <1>2, <1>3, <1>4 DEF HInv

LEMMA AcquireKeeps ==
    ASSUME HInv, NEW i \in Ids, NEW b \in Bundles, NEW u \in Users \cup {NoUser},
           AcquireAndTouchLater(i, b, u)
    PROVE  HInv'
<1>1. Next
  BY DEF AcquireAndTouchLater, Next
<1>2. ASSUME NEW h \in Healers, heal[h].req.id \in Ids
      PROVE  row'[heal[h].req.id].phase = "unminted"
  <2>1. heal[h].req.id # i
    BY DEF AcquireAndTouchLater, Unclaimed
  <2>2. row[heal[h].req.id].phase = "unminted"
    BY <1>2 DEF HInv, RequestsFresh
  <2> QED
    BY <1>2, <2>1, <2>2 DEF AcquireAndTouchLater, Acquire, SpendAll, HInv, HealTypeOK, TypeOK
<1> QED
  BY <1>1, <1>2, ApiKeeps DEF AcquireAndTouchLater, HInv, HealTypeOK

\* The activation API after the spend, the index, the provider and the guard.
LEMMA EnvironmentKeeps ==
    ASSUME HInv,
           \/ \E i \in Ids : \/ RecordTouch(i) \/ PutOpenTouched(i) \/ LoseAcquire(i)
                             \/ Propagate(i) \/ ProviderSees(i)
           \/ \E r \in Resources : ExpireTouch(r)
           \/ ReleaseOrSettle
    PROVE  HInv'
<1>0. HealTypeOK /\ TypeOK /\ RequestsFresh
  BY DEF HInv, HealTypeOK
<1>1. ASSUME NEW i \in Ids, RecordTouch(i) PROVE HInv'
  <2>1. touched' \subseteq Resources
    BY <1>0, <1>1 DEF RecordTouch, HealTypeOK, TypeOK, Row
  <2>2. UNCHANGED vars /\ row' = row
    BY <1>1 DEF RecordTouch, vars
  <2> QED
    BY <1>0, <1>1, <2>1, <2>2, ApiKeeps DEF RecordTouch, HealTypeOK, RequestsFresh
<1>2. ASSUME NEW i \in Ids, PutOpenTouched(i) \/ LoseAcquire(i) PROVE HInv'
  <2>1. PutOpen(i) \/ Lose(i)
    BY <1>2 DEF PutOpenTouched, LoseAcquire
  <2>2. Next
    BY <2>1 DEF Next
  <2>3. \A h \in Healers : heal[h].req.id \in Ids => row'[heal[h].req.id].phase = "unminted"
    BY <1>0, <2>1, UnmintedKept DEF RequestsFresh
  <2> QED
    BY <1>0, <1>2, <2>2, <2>3, ApiKeeps DEF PutOpenTouched, LoseAcquire, HealTypeOK, healVars
<1>3. ASSUME NEW i \in Ids, Propagate(i) \/ ProviderSees(i) PROVE HInv'
  <2>1. index' \subseteq Ids /\ visible' \subseteq Ids
    BY <1>0, <1>3 DEF Propagate, ProviderSees, HealTypeOK
  <2>2. UNCHANGED vars /\ row' = row
    BY <1>3 DEF Propagate, ProviderSees, vars
  <2> QED
    BY <1>0, <1>3, <2>1, <2>2, ApiKeeps DEF Propagate, ProviderSees, HealTypeOK, RequestsFresh
<1>4. ASSUME NEW r \in Resources, ExpireTouch(r) PROVE HInv'
  <2>1. UNCHANGED vars /\ row' = row
    BY <1>4 DEF ExpireTouch, vars
  <2> QED
    BY <1>0, <1>4, <2>1, ApiKeeps DEF ExpireTouch, HealTypeOK, RequestsFresh
<1>5. CASE ReleaseOrSettle
  <2>1. Next
    BY <1>5 DEF ReleaseOrSettle, Next
  <2>2. \A h \in Healers : heal[h].req.id \in Ids => row'[heal[h].req.id].phase = "unminted"
    BY <1>0, <1>5, UnmintedKept DEF RequestsFresh
  <2> QED
    BY <1>0, <1>5, <2>1, <2>2, ApiKeeps DEF ReleaseOrSettle, HealTypeOK, healVars
<1> QED
  BY <1>1, <1>2, <1>3, <1>4, <1>5

\* A denied acquire claims an unminted, unclaimed id for its recount.
LEMMA RecountKeeps ==
    ASSUME HInv, NEW h \in Healers, NEW i \in Ids, NEW b \in Bundles,
           NEW u \in Users \cup {NoUser}, BeginRecount(h, i, b, u)
    PROVE  HInv'
<1> DEFINE q == [id |-> i, bundle |-> b, user |-> u]
           p == [NoPass EXCEPT !.pc = "observe", !.kind = "recount", !.left = b, !.req = q]
<1>0. HealTypeOK /\ TypeOK /\ RequestsFresh /\ PassesOK
  BY DEF HInv, HealTypeOK
<1>1. q \in Request /\ q.id = i
  BY BundlesAreGauges DEF Request
<1>2. heal' = [heal EXCEPT ![h] = p] /\ UNCHANGED <<vars, provider, untouched, touched, index, visible>>
  BY DEF BeginRecount, HealStep
<1>3. Unclaimed(i) /\ row[i].phase = "unminted"
  BY DEF BeginRecount
<1> HIDE DEF q
<1>4. p \in Pass /\ p.req = q /\ p.truth = NoCounts /\ p.at = {} /\ p.pc = "observe"
  BY <1>1, BundlesAreGauges, NoPassOK DEF Pass, NoPass, Kinds
<1> HIDE DEF p
<1>5. PassOK(p)
  BY <1>1, <1>4 DEF PassOK, NoCounts
<1>6. \A g \in Healers : heal'[g] = IF g = h THEN p ELSE heal[g]
  BY <1>0, <1>2 DEF HealTypeOK
<1>7. HealTypeOK'
  <2>1. TypeOK'
    BY <1>0, <1>2, NextTypeOK
  <2>2. heal' \in [Healers -> Pass]
    BY <1>0, <1>2, <1>4 DEF HealTypeOK
  <2> QED
    BY <1>0, <1>2, <2>1, <2>2 DEF HealTypeOK
<1>8. PassesOK'
  <2>1. \A g \in Healers : PassOK(heal'[g])
    BY <1>0, <1>5, <1>6 DEF PassesOK
  <2>2. Healable' = Healable
    BY <1>2, HealableKept
  <2> QED
    BY <2>1, <2>2 DEF PassesOK, PassOK
<1>9. RequestsFresh'
  <2>1. row' = row
    BY <1>2 DEF vars
  <2>2. heal'[h].req.id = i /\ \A g \in Healers \ {h} : heal'[g].req.id = heal[g].req.id
    BY <1>1, <1>4, <1>6
  <2>3. \A g \in Healers : heal[g].req.id # i
    BY <1>3 DEF Unclaimed
  <2> QED
    BY <1>0, <1>3, <2>1, <2>2, <2>3 DEF RequestsFresh
<1> QED
  BY <1>2, <1>7, <1>8, <1>9, ApiStep DEF HInv

\* The force-set reaches only gauges whose count the pass learnt: it writes a
\* number, and none of the gauges nobody can verify.
LEMMA SetGaugeKeeps ==
    ASSUME HInv, NEW h \in Healers, SetGauge(h)
    PROVE  TypeOK' /\ Bookkeeping' /\ UnhealedExact'
<1>0. HealTypeOK /\ TypeOK /\ Bookkeeping /\ PassesOK /\ UnhealedExact
  BY DEF HInv, HealTypeOK
<1>1. heal[h] \in Pass /\ PassOK(heal[h])
  BY <1>0 DEF HealTypeOK, PassesOK
<1>2. \A r \in heal[h].at : r \in Resources /\ heal[h].truth[r] \in Nat /\ r \in Healable
  BY <1>1 DEF Pass, PassOK, Counts
<1>3. org' = [r \in Resources |-> IF r \in heal[h].at THEN heal[h].truth[r] ELSE org[r]]
  BY DEF SetGauge
<1>4. UNCHANGED <<mode, usr, latch, row, todo, units, settler, replayed, provider>>
  BY DEF SetGauge
<1>5. org' \in [Resources -> Nat]
  BY <1>0, <1>2, <1>3 DEF TypeOK
<1>6. TypeOK' /\ Bookkeeping'
  BY <1>0, <1>4, <1>5 DEF TypeOK, Bookkeeping
<1>7. ASSUME NEW r \in Resources \ Healable PROVE OrgExact(r)'
  <2>1. org'[r] = org[r]
    BY <1>2, <1>3
  <2>2. ChargedOn(r)' = ChargedOn(r)
    BY <1>4 DEF ChargedOn
  <2> QED
    BY <1>0, <2>1, <2>2 DEF UnhealedExact, OrgExact
<1>8. ASSUME NEW u \in Users, NEW r \in Resources PROVE UserExact(u, r)'
  <2>1. usr' = usr /\ ChargedOf(u, r)' = ChargedOf(u, r)
    BY <1>4 DEF ChargedOf
  <2> QED
    BY <1>0, <2>1 DEF UnhealedExact, UserExact
<1> QED
  BY <1>4, <1>6, <1>7, <1>8, HealableKept DEF UnhealedExact

\* The retry charges the id its recount claimed, which is still unminted.
LEMMA RetryKeeps ==
    ASSUME HInv, NEW h \in Healers, Retry(h)
    PROVE  HInv'
<1> DEFINE q == heal[h].req
<1>0. HealTypeOK /\ TypeOK /\ PassesOK /\ RequestsFresh
  BY DEF HInv, HealTypeOK
<1>1. q \in Request /\ q.id \in Ids /\ q.bundle \in SUBSET Resources /\ q.user \in Users \cup {NoUser}
  BY <1>0 DEF Retry, PassesOK, PassOK, Request
<1>2. row[q.id].phase = "unminted" /\ \A g \in Healers \ {h} : heal[g].req.id # q.id
  BY <1>0, <1>1 DEF RequestsFresh
<1>3. UNCHANGED <<provider, touched, index, visible>> /\ HealStep(h, NoPass)
  BY DEF Retry
<1>4. /\ heal' \in [Healers -> Pass]
      /\ PassesOK'
      /\ \A g \in Healers : heal'[g].req.id \in {heal[g].req.id, NoId}
      /\ \A g \in Healers \ {h} : heal'[g] = heal[g]
  BY <1>3, EndMoves, MovesKeep
<1>5. heal'[h].req.id = NoId
  BY <1>0, <1>3 DEF HealStep, HealTypeOK, NoPass, NoRequest
<1>6. CASE SpendAll(q.id, q.bundle, q.user, NoKey) /\ untouched' = untouched \cup {q.id}
  <2>1. TypeOK' /\ Bookkeeping' /\ UnhealedExact'
    BY <1>1, <1>2, <1>3, <1>6, SpendStep
  <2>2. ASSUME NEW g \in Healers, heal'[g].req.id \in Ids
        PROVE  row'[heal'[g].req.id].phase = "unminted"
    <3>1. g # h
      BY <1>5, <2>2, NilsAreFresh
    <3>2. heal'[g] = heal[g] /\ heal[g].req.id # q.id
      BY <1>2, <1>4, <3>1
    <3>3. row[heal[g].req.id].phase = "unminted"
      BY <1>0, <2>2, <3>2 DEF RequestsFresh
    <3>4. row'[heal[g].req.id] = row[heal[g].req.id]
      BY <1>0, <1>6, <2>2, <3>2 DEF SpendAll, TypeOK
    <3> QED
      BY <3>2, <3>3, <3>4
  <2>3. RequestsFresh'
    BY <1>0, <1>4, <2>2, FreshFrame
  <2> QED
    BY <1>0, <1>1, <1>3, <1>4, <1>6, <2>1, <2>3 DEF HInv, HealTypeOK
<1>7. CASE UNCHANGED <<vars, untouched>>
  <2>1. TypeOK' /\ Bookkeeping' /\ UnhealedExact'
    BY <1>3, <1>7, ApiStep
  <2>2. row' = row
    BY <1>7 DEF vars
  <2>3. \A g \in Healers : heal'[g].req.id \in Ids => row'[heal'[g].req.id].phase = "unminted"
    BY <1>0, <1>4, <2>2, NilsAreFresh DEF RequestsFresh
  <2>4. RequestsFresh'
    BY <1>0, <1>4, <2>3, FreshFrame
  <2> QED
    BY <1>0, <1>3, <1>4, <1>7, <2>1, <2>4 DEF HInv, HealTypeOK
<1> QED
  BY <1>6, <1>7 DEF Retry

LEMMA PassKeeps ==
    ASSUME HInv, NEW h \in Healers, BeginLoop(h) \/ BeginRecalc(h) \/ ContinuePass(h)
    PROVE  HInv'
<1>0. HealTypeOK /\ PassesOK /\ RequestsFresh
  BY DEF HInv
<1>1. CASE Retry(h)
  BY <1>1, RetryKeeps
<1>2. CASE ~Retry(h)
  <2>1. Moves(h)
    BY <1>0, BeginMoves, ContinueMoves
  <2>2. UNCHANGED <<provider, untouched, touched, index, visible>> /\ row' = row
    BY <1>2 DEF ContinuePass, BeginLoop, BeginRecalc, Observe, ObserveFails, Visit, ReadGauge,
                ReadFails, SetGauge, SetFails, EndPass, vars
  <2>3. /\ heal' \in [Healers -> Pass]
        /\ PassesOK'
        /\ \A g \in Healers : heal'[g].req.id \in {heal[g].req.id, NoId}
    BY <2>1, <2>2, MovesKeep
  <2>4. RequestsFresh'
    <3>1. \A g \in Healers : heal'[g].req.id \in Ids => row'[heal'[g].req.id].phase = "unminted"
      BY <1>0, <2>2, <2>3, NilsAreFresh DEF RequestsFresh
    <3> QED
      BY <1>0, <2>3, <3>1, FreshFrame
  <2>5. TypeOK' /\ Bookkeeping' /\ UnhealedExact'
    <3>1. SetGauge(h) \/ UNCHANGED vars
      BY <1>2 DEF ContinuePass, BeginLoop, BeginRecalc, Observe, ObserveFails, Visit, ReadGauge,
                  ReadFails, SetFails, EndPass
    <3> QED
      BY <2>2, <3>1, SetGaugeKeeps, ApiStep
  <2> QED
    BY <1>0, <2>2, <2>3, <2>4, <2>5 DEF HInv, HealTypeOK
<1> QED
  BY <1>1, <1>2

\* The inductive invariant of the healing passes holds in every reachable state.
THEOREM HealInductive == HealSpec => []HInv
<1>1. HealInit => HInv
  BY InitHInv
<1>2. HInv /\ [HealNext]_allVars => HInv'
  <2> SUFFICES ASSUME HInv, [HealNext]_allVars PROVE HInv'
    OBVIOUS
  <2>1. CASE HealNext
    BY <2>1, AcquireKeeps, RecountKeeps, EnvironmentKeeps, PassKeeps DEF HealNext
  <2>2. CASE UNCHANGED allVars
    <3>1. UNCHANGED <<vars, provider, untouched, touched, index, visible, heal>> /\ row' = row
      BY <2>2 DEF allVars, healVars, vars
    <3> QED
      BY <3>1, ApiKeeps DEF HInv, HealTypeOK, RequestsFresh
  <2> QED
    BY <2>1, <2>2
<1> QED
  BY <1>1, <1>2, PTL DEF HealSpec

\* Type correctness of the activation API together with the healing passes: in
\* particular a force-set never writes an unknown count.
THEOREM HealTypeCorrect == HealSpec => []HealTypeOK
<1>1. HInv => HealTypeOK
  BY DEF HInv
<1> QED
  BY <1>1, HealInductive, PTL

\* A gauge no pass can verify (the provider is silent about its resource) stays
\* exactly what the acquires and releases made it, whatever passes run, fail,
\* race, or retry a spend (D-31, D-51).
THEOREM UnverifiedGaugesStayExact == HealSpec => []UnverifiedStaysExact
<1>1. HInv => UnverifiedStaysExact
  BY DEF HInv, UnhealedExact, UnverifiedStaysExact, OrgExact
<1> QED
  BY <1>1, HealInductive, PTL

\* The force-sets reach the org gauges only: every per-user gauge keeps exactly
\* the charges not given back, also on the resources that are healed.
THEOREM UserGaugesStayExact ==
    HealSpec => [](\A u \in Users, r \in Resources : usr[u][r] = Cardinality(ChargedOf(u, r)))
<1>1. HInv => \A u \in Users, r \in Resources : usr[u][r] = Cardinality(ChargedOf(u, r))
  BY DEF HInv, UnhealedExact, UserExact
<1> QED
  BY <1>1, HealInductive, PTL

=============================================================================

---------------------- MODULE GaugeActivations_proofs ----------------------
(***************************************************************************)
(* Proofs about the activation API, for every set of ids, resources, users *)
(* and bundles, every limit, mode, store kind and failure setting.         *)
(*                                                                         *)
(* GaugesExact is not inductive alone: that a decrement finds a charge to  *)
(* take needs Bookkeeping, which ties the release loop to the ledger row.  *)
(***************************************************************************)
EXTENDS GaugeActivations, FiniteSetTheorems, TLAPS

-----------------------------------------------------------------------------
(* The inductive invariant *)

\* What the row of an activation says of its charges.  Until it is released
\* nothing was given back; a release gives back only what is still charged;
\* a per-user charge names its user.
Bookkeeping ==
    \A i \in Ids :
        /\ row[i].phase = "unminted" => units[i] = {}
        /\ row[i].phase \in {"spent", "open"} =>
               units[i] = Charge(row[i].bundle, row[i].user)
        /\ row[i].phase \notin {"released", "settled"} => todo[i] = {}
        /\ todo[i] \subseteq units[i]
        /\ \A r \in Resources : <<r, "user">> \in units[i] => row[i].user \in Users

IInv == TypeOK /\ Bookkeeping /\ GaugesExact

-----------------------------------------------------------------------------
(* Type correctness *)

LEMMA ChargeType ==
    ASSUME NEW b \in SUBSET Resources, NEW u
    PROVE  Charge(b, u) \subseteq Units
BY DEF Charge, Units, Scopes

LEMMA InitTypeOK == Init => TypeOK
BY DEF Init, TypeOK, NoRow, Row, Phases, Idle, SettleCall

LEMMA PhaseType ==
    ASSUME TypeOK, NEW i \in Ids, NEW ph \in Phases,
           row' = [row EXCEPT ![i].phase = ph]
    PROVE  row' \in [Ids -> Row]
<1>1. row[i] \in Row
  BY DEF TypeOK
<1>2. [row[i] EXCEPT !.phase = ph] \in Row
  BY <1>1 DEF Row
<1>3. row' = [row EXCEPT ![i] = [row[i] EXCEPT !.phase = ph]]
  OBVIOUS
<1> QED
  BY <1>2, <1>3 DEF TypeOK

LEMMA RecordType ==
    ASSUME TypeOK, NEW i \in Ids, NEW c \in Costs, NEW from, Record(i, c, from)
    PROVE  row' \in [Ids -> Row]
<1>1. row[i] \in Row
  BY DEF TypeOK
<1>2. [row[i] EXCEPT !.phase = "settled", !.cost = c] \in Row
  BY <1>1 DEF Row, Phases
<1>3. \/ row' = row
      \/ row' = [row EXCEPT ![i] = [row[i] EXCEPT !.phase = "settled", !.cost = c]]
  BY DEF Record
<1> QED
  BY <1>2, <1>3 DEF TypeOK

LEMMA SpendTypeOK ==
    ASSUME TypeOK, NEW i \in Ids, NEW b \in SUBSET Resources, NEW u \in Users \cup {NoUser},
           NEW k \in IdemKeys \cup {NoKey}, SpendAll(i, b, u, k)
    PROVE  TypeOK'
<1>2. org' \in [Resources -> Nat] /\ usr' \in [Users -> [Resources -> Nat]]
  BY DEF TypeOK, SpendAll
<1>3. latch' \in [IdemKeys -> Ids \cup {NoId}]
  BY DEF TypeOK, SpendAll
<1>4. row' \in [Ids -> Row]
  BY DEF TypeOK, SpendAll, Row, Phases
<1>5. units' \in [Ids -> SUBSET Units]
  <2> DEFINE ch == Charge(b, u)
  <2>1. ch \in SUBSET Units
    BY ChargeType
  <2>2. units' = [units EXCEPT ![i] = ch]
    BY DEF SpendAll
  <2> HIDE DEF ch
  <2> QED
    BY <2>1, <2>2 DEF TypeOK
<1> QED
  BY <1>2, <1>3, <1>4, <1>5 DEF TypeOK, SpendAll

LEMMA NextTypeOK == TypeOK /\ [Next]_vars => TypeOK'
<1> SUFFICES ASSUME TypeOK, [Next]_vars PROVE TypeOK'
  OBVIOUS
<1>1. ASSUME NEW i \in Ids, NEW b \in Bundles, NEW u \in Users \cup {NoUser},
             NEW k \in IdemKeys \cup {NoKey}, Acquire(i, b, u, k)
      PROVE  TypeOK'
  BY <1>1, BundlesAreGauges, SpendTypeOK DEF Acquire
<1>2. ASSUME NEW k \in IdemKeys, AcquireDup(k) \/ ExpireLatch(k)
      PROVE  TypeOK'
  BY <1>2 DEF TypeOK, AcquireDup, ExpireLatch
<1>3. ASSUME NEW i \in Ids, PutOpen(i) \/ Lose(i) \/ ExpireRow(i)
      PROVE  TypeOK'
  <2>1. row' \in [Ids -> Row]
    BY <1>3, PhaseType DEF PutOpen, Lose, ExpireRow, Phases
  <2> QED
    BY <1>3, <2>1 DEF TypeOK, PutOpen, Lose, ExpireRow
<1>4. ASSUME NEW i \in Ids, MarkReleased(i)
      PROVE  TypeOK'
  <2> DEFINE ch == Charge(row[i].bundle, row[i].user)
  <2>1. ch \in SUBSET Units
    BY ChargeType DEF TypeOK, Row
  <2>2. todo' = [todo EXCEPT ![i] = ch]
    BY <1>4 DEF MarkReleased
  <2>3. row' \in [Ids -> Row]
    BY <1>4, PhaseType DEF MarkReleased, Phases
  <2> HIDE DEF ch
  <2>4. todo' \in [Ids -> SUBSET Units]
    BY <2>1, <2>2 DEF TypeOK
  <2> QED
    BY <1>4, <2>3, <2>4 DEF TypeOK, MarkReleased
<1>5. ASSUME NEW i \in Ids, AbortRelease(i)
      PROVE  TypeOK'
  BY <1>5 DEF TypeOK, AbortRelease
<1>6. ASSUME NEW i \in Ids, NEW r \in Resources, ReleaseOrg(i, r)
      PROVE  TypeOK'
  BY <1>6 DEF TypeOK, ReleaseOrg, DecrByFloorZero
<1>7. ASSUME NEW i \in Ids, NEW r \in Resources, ReleaseUser(i, r)
      PROVE  TypeOK'
  <2>1. usr' \in [Users -> [Resources -> Nat]]
    <3> DEFINE u == row[i].user
               rest == [usr[u] EXCEPT ![r] = DecrByFloorZero(usr[u][r])]
    <3>1. usr' = [usr EXCEPT ![u] = rest]
      BY <1>7 DEF ReleaseUser
    <3>2. u \in Users => rest \in [Resources -> Nat]
      BY DEF TypeOK, DecrByFloorZero
    <3> HIDE DEF u, rest
    <3> QED
      BY <3>1, <3>2 DEF TypeOK
  <2>2. units' \in [Ids -> SUBSET Units] /\ todo' \in [Ids -> SUBSET Units]
    BY <1>7 DEF TypeOK, ReleaseUser
  <2> QED
    BY <1>7, <2>1, <2>2 DEF TypeOK, ReleaseUser
<1>8. ASSUME NEW s \in Settlers, NEW i \in Ids, NEW c \in Costs, SettleFirst(s, i, c)
      PROVE  TypeOK'
  <2>1. row' \in [Ids -> Row]
    BY <1>8, RecordType DEF SettleFirst
  <2>2. settler' \in [Settlers -> SettleCall]
    BY <1>8 DEF TypeOK, SettleFirst, Idle, SettleCall
  <2> QED
    BY <1>8, <2>1, <2>2 DEF TypeOK, SettleFirst
<1>9. ASSUME NEW s \in Settlers, SettleSecond(s)
      PROVE  TypeOK'
  <2>1. settler[s].id \in Ids /\ settler[s].cost \in Costs
    BY <1>9 DEF TypeOK, SettleSecond, SettleCall, Idle
  <2>2. Record(settler[s].id, settler[s].cost, {"open"})
    BY <1>9 DEF SettleSecond
  <2>3. row' \in [Ids -> Row]
    BY <2>1, <2>2, RecordType
  <2>4. settler' \in [Settlers -> SettleCall]
    <3>1. settler[s] \in SettleCall /\ settler[s] # Idle
      BY <1>9 DEF TypeOK, SettleSecond, Idle
    <3>2. [settler[s] EXCEPT !.pc = "report"] \in SettleCall
      BY <3>1 DEF SettleCall
    <3>3. \/ settler' = [settler EXCEPT ![s] = Idle]
          \/ settler' = [settler EXCEPT ![s] = [settler[s] EXCEPT !.pc = "report"]]
      BY <1>9 DEF SettleSecond
    <3> QED
      BY <3>2, <3>3 DEF TypeOK, SettleCall
  <2> QED
    BY <1>9, <2>3, <2>4 DEF TypeOK, SettleSecond
<1>10. ASSUME NEW s \in Settlers, SettleReport(s)
       PROVE  TypeOK'
  <2>1. settler[s] \in SettleCall /\ settler[s] # Idle
    BY <1>10 DEF TypeOK, SettleReport, Idle
  <2>2. [settler[s] EXCEPT !.pc = "silent"] \in SettleCall
    BY <2>1 DEF SettleCall
  <2>3. \/ settler' = [settler EXCEPT ![s] = Idle]
        \/ settler' = [settler EXCEPT ![s] = [settler[s] EXCEPT !.pc = "silent"]]
    BY <1>10 DEF SettleReport
  <2>4. settler' \in [Settlers -> SettleCall]
    BY <2>2, <2>3 DEF TypeOK, SettleCall
  <2> QED
    BY <1>10, <2>4 DEF TypeOK, SettleReport
<1>11. ASSUME NEW s \in Settlers, AbortSettle(s)
       PROVE  TypeOK'
  BY <1>11 DEF TypeOK, AbortSettle, SettleCall
<1>12. CASE UNCHANGED vars
  BY <1>12 DEF TypeOK, vars
<1> QED
  BY <1>1, <1>2, <1>3, <1>4, <1>5, <1>6, <1>7, <1>8, <1>9, <1>10, <1>11, <1>12 DEF Next

\* Every reachable state of the activation API is well typed: no gauge is ever
\* negative, and no row, latch or Settle call holds anything it should not.
THEOREM TypeCorrect == Spec => []TypeOK
<1>1. Init => TypeOK
  BY InitTypeOK
<1>2. TypeOK /\ [Next]_vars => TypeOK'
  BY NextTypeOK
<1> QED
  BY <1>1, <1>2, PTL DEF Spec

-----------------------------------------------------------------------------
(* The gauges hold exactly what is charged *)

LEMMA ChargeHolds ==
    ASSUME NEW b \in SUBSET Resources, NEW u, NEW r \in Resources
    PROVE  /\ <<r, "org">> \in Charge(b, u) <=> r \in b
           /\ <<r, "user">> \in Charge(b, u) <=> r \in b /\ u # NoUser
BY DEF Charge, Scopes

LEMMA ChargedFinite ==
    ASSUME NEW r, NEW u
    PROVE  IsFiniteSet(ChargedOn(r)) /\ IsFiniteSet(ChargedOf(u, r))
<1>1. ChargedOn(r) \subseteq Ids /\ ChargedOf(u, r) \subseteq Ids
  BY DEF ChargedOn, ChargedOf
<1> QED
  BY <1>1, IdsFinite, FS_Subset

LEMMA InitIInv == Init => IInv
<1> SUFFICES ASSUME Init PROVE IInv
  OBVIOUS
<1>1. TypeOK
  BY InitTypeOK
<1>2. Bookkeeping
  BY DEF Init, Bookkeeping, NoRow
<1>3. GaugesExact
  <2>1. \A r \in Resources : ChargedOn(r) = {} /\ \A u \in Users : ChargedOf(u, r) = {}
    BY DEF Init, ChargedOn, ChargedOf
  <2> QED
    BY <2>1, FS_EmptySet DEF Init, GaugesExact
<1> QED
  BY <1>1, <1>2, <1>3 DEF IInv

LEMMA SpendBookkeeping ==
    ASSUME TypeOK, Bookkeeping, NEW i \in Ids, NEW b \in SUBSET Resources,
           NEW u \in Users \cup {NoUser}, NEW k, row[i].phase = "unminted",
           SpendAll(i, b, u, k)
    PROVE  Bookkeeping'
<1> DEFINE ch == Charge(b, u)
<1>1. /\ row' = [row EXCEPT ![i] = [phase |-> "spent", bundle |-> b,
                                    user |-> u, cost |-> NoCost]]
      /\ units' = [units EXCEPT ![i] = ch]
      /\ todo' = todo
      /\ row[i].phase = "unminted"
  BY DEF SpendAll
<1>2. \A r \in Resources : <<r, "user">> \in ch => u \in Users
  BY ChargeHolds
<1>3. row'[i].bundle = b /\ row'[i].user = u /\ row'[i].phase = "spent"
  BY <1>1 DEF TypeOK
<1>4. units'[i] = Charge(row'[i].bundle, row'[i].user)
  BY <1>1, <1>3 DEF TypeOK
<1>5. todo[i] = {}
  BY <1>1 DEF Bookkeeping
<1> HIDE DEF ch
<1>6. ASSUME NEW j \in Ids, j # i
      PROVE  row'[j] = row[j] /\ units'[j] = units[j] /\ todo'[j] = todo[j]
  BY <1>1, <1>6 DEF TypeOK
<1>7. units'[i] = ch
  BY <1>1 DEF TypeOK
<1> QED
  BY <1>1, <1>2, <1>3, <1>4, <1>5, <1>6, <1>7 DEF Bookkeeping

LEMMA NextBookkeeping ==
    ASSUME TypeOK, Bookkeeping, [Next]_vars
    PROVE  Bookkeeping'
<1>1. ASSUME NEW i \in Ids, NEW b \in Bundles, NEW u \in Users \cup {NoUser},
             NEW k \in IdemKeys \cup {NoKey}, Acquire(i, b, u, k)
      PROVE  Bookkeeping'
  BY <1>1, BundlesAreGauges, SpendBookkeeping DEF Acquire
<1>2. ASSUME NEW k \in IdemKeys, AcquireDup(k) \/ ExpireLatch(k)
      PROVE  Bookkeeping'
  BY <1>2 DEF Bookkeeping, AcquireDup, ExpireLatch
<1>3. ASSUME NEW i \in Ids, PutOpen(i) \/ Lose(i) \/ ExpireRow(i)
      PROVE  Bookkeeping'
  <2>1. PICK ph \in {"open", "lost", "expired"} : row' = [row EXCEPT ![i].phase = ph]
    BY <1>3 DEF PutOpen, Lose, ExpireRow
  <2>2. ph = "open" => row[i].phase = "spent"
    BY <1>3, <2>1 DEF PutOpen, Lose, ExpireRow, TypeOK, Row
  <2>3. todo[i] = {}
    BY <1>3 DEF PutOpen, Lose, ExpireRow, Bookkeeping
  <2>4. \A j \in Ids : /\ row'[j].user = row[j].user /\ row'[j].bundle = row[j].bundle
                       /\ row'[j].phase = IF j = i THEN ph ELSE row[j].phase
    BY <2>1 DEF TypeOK, Row
  <2>5. units' = units /\ todo' = todo
    BY <1>3 DEF PutOpen, Lose, ExpireRow
  <2> QED
    BY <2>2, <2>3, <2>4, <2>5 DEF Bookkeeping
<1>4. ASSUME NEW i \in Ids, MarkReleased(i)
      PROVE  Bookkeeping'
  <2> DEFINE ch == Charge(row[i].bundle, row[i].user)
  <2>1. units[i] = ch
    BY <1>4 DEF MarkReleased, Bookkeeping
  <2>2. todo' = [todo EXCEPT ![i] = ch] /\ units' = units
    BY <1>4 DEF MarkReleased
  <2>3. \A j \in Ids : /\ row'[j].user = row[j].user /\ row'[j].bundle = row[j].bundle
                       /\ row'[j].phase = IF j = i THEN "released" ELSE row[j].phase
    BY <1>4 DEF MarkReleased, TypeOK, Row
  <2> HIDE DEF ch
  <2>4. \A j \in Ids : todo'[j] = IF j = i THEN ch ELSE todo[j]
    BY <2>2 DEF TypeOK
  <2> QED
    BY <2>1, <2>2, <2>3, <2>4 DEF Bookkeeping
<1>5. ASSUME NEW i \in Ids, AbortRelease(i)
      PROVE  Bookkeeping'
  BY <1>5 DEF Bookkeeping, AbortRelease, TypeOK
<1>6. ASSUME NEW i \in Ids, NEW r \in Resources, ReleaseOrg(i, r) \/ ReleaseUser(i, r)
      PROVE  Bookkeeping'
  <2>1. PICK x : /\ todo' = [todo EXCEPT ![i] = @ \ {x}]
                 /\ units' = [units EXCEPT ![i] = @ \ {x}]
                 /\ row' = row
    BY <1>6 DEF ReleaseOrg, ReleaseUser
  <2>2. todo[i] # {}
    BY <1>6 DEF ReleaseOrg, ReleaseUser
  <2>3. row[i].phase \in {"released", "settled"}
    BY <2>2 DEF Bookkeeping
  <2>4. \A j \in Ids : /\ todo'[j] = IF j = i THEN todo[j] \ {x} ELSE todo[j]
                       /\ units'[j] = IF j = i THEN units[j] \ {x} ELSE units[j]
    BY <2>1 DEF TypeOK
  <2>5. \A j \in Ids : todo'[j] \subseteq todo[j] /\ units'[j] \subseteq units[j]
    BY <2>4
  <2>6. \A j \in Ids : todo'[j] \subseteq units'[j]
    BY <2>4 DEF Bookkeeping
  <2>7. \A j \in Ids : row[j].phase \in {"unminted", "spent", "open"} => units'[j] = units[j]
    BY <2>3, <2>4
  <2> QED
    BY <2>1, <2>5, <2>6, <2>7 DEF Bookkeeping
<1>7. ASSUME NEW i \in Ids, NEW c \in Costs, NEW from \in SUBSET {"open", "released"},
             Record(i, c, from), UNCHANGED <<units, todo>>
      PROVE  Bookkeeping'
  <2>1. CASE row' = row
    BY <1>7, <2>1 DEF Bookkeeping
  <2>2. CASE row' # row
    <3>1. row' = [row EXCEPT ![i] = [row[i] EXCEPT !.phase = "settled", !.cost = c]]
      BY <1>7, <2>2 DEF Record
    <3>2. \A j \in Ids : /\ row'[j].user = row[j].user /\ row'[j].bundle = row[j].bundle
                         /\ row'[j].phase = IF j = i THEN "settled" ELSE row[j].phase
      BY <3>1 DEF TypeOK, Row
    <3>3. row[i].phase \in from
      BY <1>7, <2>2 DEF Record
    <3> QED
      BY <1>7, <3>2, <3>3 DEF Bookkeeping
  <2> QED
    BY <2>1, <2>2
<1>8. ASSUME NEW s \in Settlers, NEW i \in Ids, NEW c \in Costs, SettleFirst(s, i, c)
      PROVE  Bookkeeping'
  <2>1. \/ Record(i, c, {"open", "released"})
        \/ Record(i, c, {"released"})
    BY <1>8 DEF SettleFirst
  <2>2. UNCHANGED <<units, todo>>
    BY <1>8 DEF SettleFirst
  <2> QED
    BY <1>7, <2>1, <2>2
<1>9. ASSUME NEW s \in Settlers, SettleSecond(s)
      PROVE  Bookkeeping'
  <2>1. settler[s].id \in Ids /\ settler[s].cost \in Costs
    BY <1>9 DEF TypeOK, SettleSecond, SettleCall, Idle
  <2>2. Record(settler[s].id, settler[s].cost, {"open"}) /\ UNCHANGED <<units, todo>>
    BY <1>9 DEF SettleSecond
  <2> QED
    BY <1>7, <2>1, <2>2
<1>10. ASSUME NEW s \in Settlers, SettleReport(s) \/ AbortSettle(s)
       PROVE  Bookkeeping'
  BY <1>10 DEF Bookkeeping, SettleReport, AbortSettle
<1>11. CASE UNCHANGED vars
  BY <1>11 DEF Bookkeeping, vars
<1> QED
  BY <1>1, <1>2, <1>3, <1>4, <1>5, <1>6, <1>8, <1>9, <1>10, <1>11 DEF Next

\* One gauge holds exactly what is charged on it.  The lemmas below are about
\* one gauge at a time: the healing passes of SelfHealing break some and not others.
OrgExact(r)     == org[r] = Cardinality(ChargedOn(r))
UserExact(u, r) == usr[u][r] = Cardinality(ChargedOf(u, r))

\* An action that moves no gauge and no charge, and keeps the users of the rows.
LEMMA ExactFrame ==
    ASSUME UNCHANGED <<org, usr, units>>, \A j \in Ids : row'[j].user = row[j].user,
           NEW r \in Resources
    PROVE  /\ OrgExact(r) => OrgExact(r)'
           /\ \A u \in Users : UserExact(u, r) => UserExact(u, r)'
<1>1. /\ ChargedOn(r)' = ChargedOn(r)
      /\ \A u \in Users : ChargedOf(u, r)' = ChargedOf(u, r)
  BY DEF ChargedOn, ChargedOf
<1> QED
  BY <1>1 DEF OrgExact, UserExact

LEMMA SpendExact ==
    ASSUME TypeOK, Bookkeeping, NEW i \in Ids, NEW b \in SUBSET Resources,
           NEW u \in Users \cup {NoUser}, NEW k, row[i].phase = "unminted",
           SpendAll(i, b, u, k), NEW r \in Resources
    PROVE  /\ OrgExact(r) => OrgExact(r)'
           /\ \A v \in Users : UserExact(v, r) => UserExact(v, r)'
<1> DEFINE ch == Charge(b, u)
<1>1. units[i] = {} /\ units' = [units EXCEPT ![i] = ch] /\ units \in [Ids -> SUBSET Units]
  BY DEF SpendAll, Bookkeeping, TypeOK
<1>2. \A j \in Ids : row'[j].user = IF j = i THEN u ELSE row[j].user
  BY DEF SpendAll, TypeOK
<1>3. /\ <<r, "org">> \in ch <=> r \in b
      /\ <<r, "user">> \in ch <=> r \in b /\ u # NoUser
  BY ChargeHolds
<1> HIDE DEF ch
<1>4. ASSUME OrgExact(r) PROVE OrgExact(r)'
  <2>1. i \notin ChargedOn(r)
    BY <1>1 DEF ChargedOn
  <2>2. ChargedOn(r)' = IF r \in b THEN ChargedOn(r) \cup {i} ELSE ChargedOn(r)
    BY <1>1, <1>3 DEF ChargedOn
  <2>3. org'[r] = IF r \in b THEN org[r] + 1 ELSE org[r]
    BY DEF SpendAll
  <2>4. Cardinality(ChargedOn(r) \cup {i}) = Cardinality(ChargedOn(r)) + 1
    BY <2>1, ChargedFinite, FS_AddElement
  <2> QED
    BY <1>4, <2>2, <2>3, <2>4 DEF OrgExact
<1>5. ASSUME NEW v \in Users, UserExact(v, r) PROVE UserExact(v, r)'
  <2>1. i \notin ChargedOf(v, r)
    BY <1>1 DEF ChargedOf
  <2>2. ChargedOf(v, r)' = IF v = u /\ r \in b THEN ChargedOf(v, r) \cup {i}
                                               ELSE ChargedOf(v, r)
    BY <1>1, <1>2, <1>3, NilsAreFresh DEF ChargedOf
  <2>3. usr'[v][r] = IF v = u /\ r \in b THEN usr[v][r] + 1 ELSE usr[v][r]
    BY DEF SpendAll
  <2>4. Cardinality(ChargedOf(v, r) \cup {i}) = Cardinality(ChargedOf(v, r)) + 1
    BY <2>1, ChargedFinite, FS_AddElement
  <2> QED
    BY <1>5, <2>2, <2>3, <2>4 DEF UserExact
<1> QED
  BY <1>4, <1>5

\* The charge that a decrement takes is on the gauge, so the floor is not met.
LEMMA ReleaseOrgExact ==
    ASSUME TypeOK, Bookkeeping, NEW i \in Ids, NEW q \in Resources, ReleaseOrg(i, q),
           NEW r \in Resources
    PROVE  /\ OrgExact(r) => OrgExact(r)'
           /\ \A u \in Users : UserExact(u, r) => UserExact(u, r)'
<1>1. <<q, "org">> \in units[i]
  BY DEF ReleaseOrg, Bookkeeping
<1>2. \A j \in Ids : units'[j] = IF j = i THEN units[j] \ {<<q, "org">>} ELSE units[j]
  BY DEF ReleaseOrg, TypeOK
<1>3. ASSUME r = q, OrgExact(r) PROVE OrgExact(r)'
  <2>1. ChargedOn(r)' = ChargedOn(r) \ {i} /\ i \in ChargedOn(r)
    BY <1>1, <1>2, <1>3 DEF ChargedOn
  <2>2. /\ IsFiniteSet(ChargedOn(r)')
        /\ Cardinality(ChargedOn(r)') = Cardinality(ChargedOn(r)) - 1
    BY <2>1, ChargedFinite, FS_RemoveElement
  <2>3. Cardinality(ChargedOn(r)') \in Nat
    BY <2>2, FS_CardinalityType
  <2>4. org'[r] = DecrByFloorZero(org[r]) /\ org[r] \in Nat
    BY <1>3 DEF ReleaseOrg, TypeOK
  <2> QED
    BY <1>3, <2>2, <2>3, <2>4 DEF DecrByFloorZero, OrgExact
<1>4. ASSUME r # q PROVE OrgExact(r) => OrgExact(r)'
  <2>1. org'[r] = org[r] /\ ChargedOn(r)' = ChargedOn(r)
    BY <1>2, <1>4 DEF ReleaseOrg, TypeOK, ChargedOn
  <2> QED
    BY <2>1 DEF OrgExact
<1>5. ASSUME NEW u \in Users PROVE UserExact(u, r) => UserExact(u, r)'
  <2>1. usr' = usr /\ ChargedOf(u, r)' = ChargedOf(u, r)
    BY <1>2 DEF ReleaseOrg, ChargedOf
  <2> QED
    BY <2>1 DEF UserExact
<1> QED
  BY <1>3, <1>4, <1>5

LEMMA ReleaseUserExact ==
    ASSUME TypeOK, Bookkeeping, NEW i \in Ids, NEW q \in Resources, ReleaseUser(i, q),
           NEW r \in Resources
    PROVE  /\ OrgExact(r) => OrgExact(r)'
           /\ \A u \in Users : UserExact(u, r) => UserExact(u, r)'
<1>1. <<q, "user">> \in units[i] /\ row' = row /\ org' = org
  BY DEF ReleaseUser, Bookkeeping
<1>w. PICK w \in Users : w = row[i].user
  BY <1>1 DEF Bookkeeping
<1>2. \A j \in Ids : units'[j] = IF j = i THEN units[j] \ {<<q, "user">>} ELSE units[j]
  BY DEF ReleaseUser, TypeOK
<1>3. \A v \in Users :
          usr'[v][r] = IF v = w /\ r = q THEN DecrByFloorZero(usr[v][r]) ELSE usr[v][r]
  BY <1>w DEF ReleaseUser, TypeOK
<1>4. OrgExact(r) => OrgExact(r)'
  <2>1. ChargedOn(r)' = ChargedOn(r)
    BY <1>2 DEF ChargedOn
  <2> QED
    BY <1>1, <2>1 DEF OrgExact
<1>5. ASSUME NEW v \in Users, UserExact(v, r) PROVE UserExact(v, r)'
  <2>1. CASE v = w /\ r = q
    <3>1. ChargedOf(v, r)' = ChargedOf(v, r) \ {i} /\ i \in ChargedOf(v, r)
      BY <1>1, <1>2, <1>w, <2>1 DEF ChargedOf
    <3>2. /\ IsFiniteSet(ChargedOf(v, r)')
          /\ Cardinality(ChargedOf(v, r)') = Cardinality(ChargedOf(v, r)) - 1
      BY <3>1, ChargedFinite, FS_RemoveElement
    <3>3. Cardinality(ChargedOf(v, r)') \in Nat
      BY <3>2, FS_CardinalityType
    <3>4. usr[v][r] \in Nat
      BY DEF TypeOK
    <3> QED
      BY <1>3, <1>5, <2>1, <3>2, <3>3, <3>4 DEF DecrByFloorZero, UserExact
  <2>2. CASE ~(v = w /\ r = q)
    <3>1. usr'[v][r] = usr[v][r] /\ ChargedOf(v, r)' = ChargedOf(v, r)
      BY <1>1, <1>2, <1>3, <1>w, <2>2 DEF ChargedOf
    <3> QED
      BY <1>5, <3>1 DEF UserExact
  <2> QED
    BY <2>1, <2>2
<1> QED
  BY <1>4, <1>5

\* A step of the activation API keeps every gauge exact that was.
LEMMA NextGaugeExact ==
    ASSUME TypeOK, Bookkeeping, [Next]_vars, NEW r \in Resources
    PROVE  /\ OrgExact(r) => OrgExact(r)'
           /\ \A u \in Users : UserExact(u, r) => UserExact(u, r)'
<1> DEFINE Kept == /\ OrgExact(r) => OrgExact(r)'
                   /\ \A u \in Users : UserExact(u, r) => UserExact(u, r)'
<1>1. ASSUME NEW i \in Ids, NEW b \in Bundles, NEW u \in Users \cup {NoUser},
             NEW k \in IdemKeys \cup {NoKey}, Acquire(i, b, u, k)
      PROVE  Kept
  BY <1>1, BundlesAreGauges, SpendExact DEF Acquire
<1>2. ASSUME NEW k \in IdemKeys, AcquireDup(k) \/ ExpireLatch(k)
      PROVE  Kept
  BY <1>2, ExactFrame DEF AcquireDup, ExpireLatch
<1>3. ASSUME NEW i \in Ids,
             PutOpen(i) \/ Lose(i) \/ MarkReleased(i) \/ AbortRelease(i) \/ ExpireRow(i)
      PROVE  Kept
  <2>1. \A j \in Ids : row'[j].user = row[j].user
    BY <1>3 DEF TypeOK, Row, PutOpen, Lose, MarkReleased, AbortRelease, ExpireRow
  <2>2. UNCHANGED <<org, usr, units>>
    BY <1>3 DEF PutOpen, Lose, MarkReleased, AbortRelease, ExpireRow
  <2> QED
    BY <2>1, <2>2, ExactFrame
<1>4. ASSUME NEW i \in Ids, NEW q \in Resources, ReleaseOrg(i, q) \/ ReleaseUser(i, q)
      PROVE  Kept
  BY <1>4, ReleaseOrgExact, ReleaseUserExact
<1>5. ASSUME NEW i \in Ids, NEW c \in Costs, NEW from, Record(i, c, from)
      PROVE  \A j \in Ids : row'[j].user = row[j].user
  BY <1>5 DEF TypeOK, Row, Record
<1>6. ASSUME NEW s \in Settlers, NEW i \in Ids, NEW c \in Costs, SettleFirst(s, i, c)
      PROVE  Kept
  BY <1>5, <1>6, ExactFrame DEF SettleFirst
<1>7. ASSUME NEW s \in Settlers, SettleSecond(s)
      PROVE  Kept
  <2>1. settler[s].id \in Ids /\ settler[s].cost \in Costs
    BY <1>7 DEF TypeOK, SettleSecond, SettleCall, Idle
  <2> QED
    BY <1>5, <1>7, <2>1, ExactFrame DEF SettleSecond
<1>8. ASSUME NEW s \in Settlers, SettleReport(s) \/ AbortSettle(s)
      PROVE  Kept
  BY <1>8, ExactFrame DEF SettleReport, AbortSettle
<1>9. CASE UNCHANGED vars
  BY <1>9, ExactFrame DEF vars
<1> QED
  BY <1>1, <1>2, <1>3, <1>4, <1>6, <1>7, <1>8, <1>9 DEF Next

LEMMA NextExact ==
    ASSUME IInv, [Next]_vars
    PROVE  GaugesExact'
<1>1. \A r \in Resources : OrgExact(r) /\ \A u \in Users : UserExact(u, r)
  BY DEF IInv, GaugesExact, OrgExact, UserExact
<1>2. \A r \in Resources : OrgExact(r)' /\ \A u \in Users : UserExact(u, r)'
  BY <1>1, NextGaugeExact DEF IInv
<1> QED
  BY <1>2 DEF GaugesExact, OrgExact, UserExact

\* The inductive invariant holds in every reachable state.
THEOREM Inductive == Spec => []IInv
<1>1. Init => IInv
  BY InitIInv
<1>2. IInv /\ [Next]_vars => IInv'
  BY NextTypeOK, NextBookkeeping, NextExact DEF IInv
<1> QED
  BY <1>1, <1>2, PTL DEF Spec

\* For every configuration, the gauges equal the charges not given back.
THEOREM GaugesAreExact == Spec => []GaugesExact
<1>1. IInv => GaugesExact
  BY DEF IInv
<1> QED
  BY <1>1, Inductive, PTL

-----------------------------------------------------------------------------
(* Consequences: no undercount, and bounded admission *)

LEMMA OpenIsCharged ==
    ASSUME IInv, NEW r \in Resources
    PROVE  /\ Cardinality(OpenOn(r)) \in Nat /\ Cardinality(OpenOn(r)) <= org[r]
           /\ \A u \in Users : /\ Cardinality(OpenOf(u, r)) \in Nat
                               /\ Cardinality(OpenOf(u, r)) <= usr[u][r]
<1>0. ASSUME NEW i \in OpenOn(r)
      PROVE  /\ i \in Ids
             /\ <<r, "org">> \in units[i]
             /\ row[i].user # NoUser => <<r, "user">> \in units[i]
  <2>1. i \in Ids /\ row[i].phase = "open" /\ r \in row[i].bundle
    BY DEF OpenOn
  <2>3. units[i] = Charge(row[i].bundle, row[i].user)
    BY <2>1 DEF IInv, Bookkeeping
  <2>4. /\ <<r, "org">> \in Charge(row[i].bundle, row[i].user)
        /\ row[i].user # NoUser => <<r, "user">> \in Charge(row[i].bundle, row[i].user)
    BY <2>1 DEF Charge, Scopes
  <2> QED
    BY <2>1, <2>3, <2>4
<1>1. OpenOn(r) \subseteq ChargedOn(r)
  BY <1>0 DEF ChargedOn
<1>2. \A u \in Users : OpenOf(u, r) \subseteq ChargedOf(u, r)
  BY <1>0, NilsAreFresh DEF OpenOf, ChargedOf
<1> QED
  BY <1>1, <1>2, ChargedFinite, FS_Subset, FS_CardinalityType DEF IInv, GaugesExact

\* D-31, for every configuration and whatever crashes: a gauge never falls
\* below the OPEN activations it counts.
THEOREM NoUndercount == Spec => []NeverUndercount
<1>1. IInv => NeverUndercount
  BY OpenIsCharged DEF NeverUndercount, IInv, TypeOK
<1> QED
  BY <1>1, Inductive, PTL

\* While limits are enforced no gauge passes its limit.
GaugesWithinLimit ==
    mode = "enforce" /\ ~TierMayFail =>
        \A r \in Resources :
            /\ OrgLimit[r] # NoLimit => org[r] <= OrgLimit[r]
            /\ UserLimit[r] # NoLimit => \A u \in Users : usr[u][r] <= UserLimit[r]

LEMMA AdmitsFits ==
    ASSUME mode = "enforce", ~TierMayFail, NEW b, NEW u, Admits(b, u), NEW r \in b
    PROVE  /\ OrgLimit[r] # NoLimit => org[r] + 1 <= OrgLimit[r]
           /\ u # NoUser /\ UserLimit[r] # NoLimit => usr[u][r] + 1 <= UserLimit[r]
BY DEF Admits, Capped, Fits

\* A step that raises no gauge keeps every gauge within its limit.
LEMMA LimitFrame ==
    ASSUME GaugesWithinLimit, TypeOK, TypeOK', mode' = mode,
           \A r \in Resources : org'[r] <= org[r],
           \A r \in Resources, u \in Users : usr'[u][r] <= usr[u][r]
    PROVE  GaugesWithinLimit'
<1> SUFFICES ASSUME mode = "enforce", ~TierMayFail, NEW r \in Resources
             PROVE  /\ OrgLimit[r] # NoLimit => org'[r] <= OrgLimit[r]
                    /\ UserLimit[r] # NoLimit => \A u \in Users : usr'[u][r] <= UserLimit[r]
  BY DEF GaugesWithinLimit
<1>1. /\ OrgLimit[r] # NoLimit => OrgLimit[r] \in Nat
      /\ UserLimit[r] # NoLimit => UserLimit[r] \in Nat
  BY LimitsAreAmounts
<1>2. /\ org[r] \in Nat /\ org'[r] \in Nat
      /\ \A u \in Users : usr[u][r] \in Nat /\ usr'[u][r] \in Nat
  BY DEF TypeOK
<1> QED
  BY <1>1, <1>2 DEF GaugesWithinLimit

LEMMA NextWithinLimit ==
    ASSUME TypeOK, TypeOK', GaugesWithinLimit, [Next]_vars
    PROVE  GaugesWithinLimit'
<1>0. /\ \A r \in Resources : org[r] \in Nat
      /\ \A r \in Resources, u \in Users : usr[u][r] \in Nat
  BY DEF TypeOK
<1>1. ASSUME NEW i \in Ids, NEW b \in Bundles, NEW u \in Users \cup {NoUser},
             NEW k \in IdemKeys \cup {NoKey}, Acquire(i, b, u, k)
      PROVE  GaugesWithinLimit'
  <2> SUFFICES ASSUME mode = "enforce", ~TierMayFail, NEW r \in Resources
               PROVE  /\ OrgLimit[r] # NoLimit => org'[r] <= OrgLimit[r]
                      /\ UserLimit[r] # NoLimit =>
                             \A v \in Users : usr'[v][r] <= UserLimit[r]
    BY <1>1 DEF GaugesWithinLimit, Acquire, SpendAll
  <2>1. /\ org'[r] = IF r \in b THEN org[r] + 1 ELSE org[r]
        /\ \A v \in Users :
               usr'[v][r] = IF v = u /\ r \in b THEN usr[v][r] + 1 ELSE usr[v][r]
    BY <1>1 DEF Acquire, SpendAll
  <2>2. /\ OrgLimit[r] # NoLimit => org[r] <= OrgLimit[r]
        /\ UserLimit[r] # NoLimit => \A v \in Users : usr[v][r] <= UserLimit[r]
    BY DEF GaugesWithinLimit
  <2>3. r \in b => /\ OrgLimit[r] # NoLimit => org[r] + 1 <= OrgLimit[r]
                   /\ u # NoUser /\ UserLimit[r] # NoLimit => usr[u][r] + 1 <= UserLimit[r]
    BY <1>1, AdmitsFits DEF Acquire, SpendAll
  <2> QED
    BY <2>1, <2>2, <2>3, NilsAreFresh
<1>2. ASSUME NEW i \in Ids, NEW r \in Resources, ReleaseOrg(i, r)
      PROVE  GaugesWithinLimit'
  <2>1. mode' = mode /\ usr' = usr
    BY <1>2 DEF ReleaseOrg
  <2>2. \A q \in Resources : org'[q] <= org[q]
    BY <1>0, <1>2 DEF ReleaseOrg, DecrByFloorZero, TypeOK
  <2> QED
    BY <1>0, <2>1, <2>2, LimitFrame
<1>3. ASSUME NEW i \in Ids, NEW r \in Resources, ReleaseUser(i, r)
      PROVE  GaugesWithinLimit'
  <2>1. mode' = mode /\ org' = org
    BY <1>3 DEF ReleaseUser
  <2>2. ASSUME NEW v \in Users, NEW q \in Resources
        PROVE  usr'[v][q] \in {usr[v][q], DecrByFloorZero(usr[v][q])}
    BY <1>3 DEF ReleaseUser, TypeOK
  <2>3. \A v \in Users, q \in Resources : usr'[v][q] <= usr[v][q]
    BY <1>0, <2>2 DEF DecrByFloorZero
  <2> QED
    BY <1>0, <2>1, <2>3, LimitFrame
<1>4. CASE UNCHANGED <<mode, org, usr>>
  BY <1>0, <1>4, LimitFrame
<1> QED
  BY <1>1, <1>2, <1>3, <1>4
  DEF Next, vars, AcquireDup, ExpireLatch, PutOpen, Lose, MarkReleased, AbortRelease,
      ExpireRow, SettleFirst, SettleSecond, SettleReport, AbortSettle

\* For every configuration that enforces limits and resolves tiers, the OPEN
\* activations of an org, and of each of its users, stay within the limits.
THEOREM AdmissionIsBounded == Spec => []AdmissionBounded
<1>1. Init => GaugesWithinLimit
  BY LimitsAreAmounts DEF Init, GaugesWithinLimit
<1>2. TypeOK /\ TypeOK' /\ GaugesWithinLimit /\ [Next]_vars => GaugesWithinLimit'
  BY NextWithinLimit
<1>3. ASSUME IInv, GaugesWithinLimit
      PROVE  AdmissionBounded
  <2> SUFFICES ASSUME mode = "enforce", ~TierMayFail, NEW r \in Resources
               PROVE  /\ OrgLimit[r] # NoLimit => Cardinality(OpenOn(r)) <= OrgLimit[r]
                      /\ UserLimit[r] # NoLimit =>
                             \A u \in Users : Cardinality(OpenOf(u, r)) <= UserLimit[r]
    BY DEF AdmissionBounded
  <2>1. /\ OrgLimit[r] # NoLimit => OrgLimit[r] \in Nat /\ org[r] <= OrgLimit[r]
        /\ UserLimit[r] # NoLimit =>
               UserLimit[r] \in Nat /\ \A u \in Users : usr[u][r] <= UserLimit[r]
    BY <1>3, LimitsAreAmounts DEF GaugesWithinLimit
  <2>2. org[r] \in Nat /\ \A u \in Users : usr[u][r] \in Nat
    BY <1>3 DEF IInv, TypeOK
  <2> QED
    BY <1>3, <2>1, <2>2, OpenIsCharged
<1> QED
  BY <1>1, <1>2, <1>3, TypeCorrect, Inductive, PTL DEF Spec
-----------------------------------------------------------------------------
(* The life cycle of an activation *)

\* A cost is on record exactly from the settlement on, until the row expires.
CostsFollowPhases ==
    \A i \in Ids :
        /\ row[i].cost # NoCost => row[i].phase \in {"settled", "expired"}
        /\ row[i].phase = "settled" => row[i].cost # NoCost

LInv == TypeOK /\ CostsFollowPhases

\* One step of the life cycle of every activation.
Forward ==
    \A i \in Ids :
        /\ row'[i].phase \in LaterPhases[row[i].phase]
        /\ row[i].cost # NoCost => row'[i].cost = row[i].cost

\* An activation moves on to phase ph, and keeps its cost.
LEMMA PhaseForward ==
    ASSUME LInv, NEW i \in Ids, NEW ph \in Phases,
           row' = [row EXCEPT ![i].phase = ph],
           ph \in LaterPhases[row[i].phase],
           ph # "settled",
           row[i].cost # NoCost => ph = "expired"
    PROVE  Forward /\ CostsFollowPhases'
<1>1. \A j \in Ids : /\ row'[j].cost = row[j].cost
                     /\ row'[j].phase = IF j = i THEN ph ELSE row[j].phase
  BY DEF LInv, TypeOK, Row
<1>2. \A j \in Ids : row[j].phase \in Phases /\ row[j].phase \in LaterPhases[row[j].phase]
  BY DEF LInv, TypeOK, Row, Phases, LaterPhases
<1> QED
  BY <1>1, <1>2 DEF LInv, CostsFollowPhases, Forward

LEMMA RecordForward ==
    ASSUME LInv, NEW i \in Ids, NEW c \in Costs, NEW from \in SUBSET {"open", "released"},
           Record(i, c, from)
    PROVE  Forward /\ CostsFollowPhases'
<1>1. \A j \in Ids : row[j].phase \in Phases /\ row[j].phase \in LaterPhases[row[j].phase]
  BY DEF LInv, TypeOK, Row, Phases, LaterPhases
<1>2. CASE row[i].phase \in from
  <2>1. \A j \in Ids : /\ row'[j].cost = IF j = i THEN c ELSE row[j].cost
                       /\ row'[j].phase = IF j = i THEN "settled" ELSE row[j].phase
    BY <1>2 DEF LInv, TypeOK, Row, Record
  <2>2. row[i].phase = "open" \/ row[i].phase = "released"
    BY <1>2
  <2>3. "settled" \in LaterPhases[row[i].phase] /\ row[i].cost = NoCost
    BY <2>2 DEF LInv, CostsFollowPhases, LaterPhases
  <2> QED
    BY <1>1, <2>1, <2>3, NilsAreFresh DEF LInv, CostsFollowPhases, Forward
<1>3. CASE row[i].phase \notin from
  BY <1>1, <1>3 DEF Record, LInv, CostsFollowPhases, Forward
<1> QED
  BY <1>2, <1>3

LEMMA NextForward ==
    ASSUME LInv, [Next]_vars
    PROVE  Forward /\ CostsFollowPhases'
<1>t. TypeOK /\ CostsFollowPhases
  BY DEF LInv
<1>p. \A j \in Ids : row[j].phase \in Phases /\ row[j].phase \in LaterPhases[row[j].phase]
  BY <1>t DEF TypeOK, Row, Phases, LaterPhases
<1>1. ASSUME NEW i \in Ids, NEW b \in Bundles, NEW u \in Users \cup {NoUser},
             NEW k \in IdemKeys \cup {NoKey}, Acquire(i, b, u, k)
      PROVE  Forward /\ CostsFollowPhases'
  <2>1. row[i].phase = "unminted" /\ row[i].cost = NoCost
    BY <1>1, <1>t DEF Acquire, CostsFollowPhases
  <2>2. \A j \in Ids : /\ row'[j].cost = IF j = i THEN NoCost ELSE row[j].cost
                       /\ row'[j].phase = IF j = i THEN "spent" ELSE row[j].phase
    BY <1>1, <1>t DEF TypeOK, Row, Acquire, SpendAll
  <2>3. "spent" \in LaterPhases["unminted"]
    BY DEF LaterPhases, Phases
  <2> QED
    BY <1>p, <1>t, <2>1, <2>2, <2>3 DEF CostsFollowPhases, Forward
<1>2. ASSUME NEW i \in Ids, PutOpen(i) \/ Lose(i) \/ MarkReleased(i) \/ ExpireRow(i)
      PROVE  Forward /\ CostsFollowPhases'
  <2>1. PICK ph \in {"open", "lost", "released", "expired"} :
            /\ row' = [row EXCEPT ![i].phase = ph]
            /\ ph \in LaterPhases[row[i].phase]
            /\ ph # "expired" => row[i].phase \in {"spent", "open"}
    BY <1>2 DEF PutOpen, Lose, MarkReleased, ExpireRow, LaterPhases, Phases
  <2>2. row[i].cost # NoCost => ph = "expired"
    BY <1>t, <2>1 DEF CostsFollowPhases
  <2> QED
    BY <2>1, <2>2, PhaseForward DEF Phases
<1>3. ASSUME NEW s \in Settlers, NEW i \in Ids, NEW c \in Costs, SettleFirst(s, i, c)
      PROVE  Forward /\ CostsFollowPhases'
  <2>1. Record(i, c, {"open", "released"}) \/ Record(i, c, {"released"})
    BY <1>3 DEF SettleFirst
  <2> QED
    BY <2>1, RecordForward
<1>4. ASSUME NEW s \in Settlers, SettleSecond(s)
      PROVE  Forward /\ CostsFollowPhases'
  <2>1. settler[s].id \in Ids /\ settler[s].cost \in Costs
    BY <1>4, <1>t DEF TypeOK, SettleSecond, SettleCall, Idle
  <2>2. Record(settler[s].id, settler[s].cost, {"open"})
    BY <1>4 DEF SettleSecond
  <2> QED
    BY <2>1, <2>2, RecordForward
<1>5. CASE row' = row
  BY <1>5, <1>p, <1>t DEF CostsFollowPhases, Forward
<1> QED
  BY <1>1, <1>2, <1>3, <1>4, <1>5
  DEF Next, AcquireDup, ExpireLatch, AbortRelease, ReleaseOrg, ReleaseUser, SettleReport,
      AbortSettle, vars

LEMMA InitLInv == Init => LInv
<1> SUFFICES ASSUME Init PROVE LInv
  OBVIOUS
<1>1. CostsFollowPhases
  BY DEF Init, NoRow, CostsFollowPhases
<1> QED
  BY <1>1, InitTypeOK DEF LInv

LEMMA NextLInv == LInv /\ [Next]_vars => LInv'
BY NextTypeOK, NextForward DEF LInv

\* No step of any request takes an activation back in its life or replaces a cost
\* once recorded, on whichever ledger and wherever releases, settlements and
\* failures meet (the conditional transitions of the activation stores).
THEOREM LifecycleIsMonotone == Spec => LifecycleNeverRewinds
<1>1. LInv /\ [Next]_vars =>
        [\A i \in Ids :
            /\ row'[i].phase \in LaterPhases[row[i].phase]
            /\ row[i].cost # NoCost => row'[i].cost = row[i].cost]_vars
  BY NextForward DEF Forward
<1> QED
  BY <1>1, InitLInv, NextLInv, PTL DEF Spec, LifecycleNeverRewinds

-----------------------------------------------------------------------------
(* Settle on the in-memory ledger *)

\* A Settle call that did not move the row has seen a cost on record, or the row expired.
SettlersInformed ==
    \A s \in Settlers :
        /\ settler[s].pc # "tryOpen"
        /\ settler[s].pc = "report" => row[settler[s].id].phase \in {"settled", "expired"}

SInv == LInv /\ SettlersInformed /\ SettleNeverSilent

LEMMA NextSInv ==
    ASSUME AtomicSettle, ~Faults, SInv, [Next]_vars
    PROVE  SInv'
<1>t. LInv /\ TypeOK /\ LInv' /\ SettlersInformed /\ SettleNeverSilent
  BY NextLInv DEF SInv, LInv
<1>f. Forward
  BY <1>t, NextForward
<1> SUFFICES SettlersInformed' /\ SettleNeverSilent'
  BY <1>t DEF SInv
\* What the calls that do not move have seen stays true.
<1>1. ASSUME NEW s \in Settlers, settler'[s] = settler[s]
      PROVE  /\ settler'[s].pc # "tryOpen"
             /\ settler'[s].pc = "report" => row'[settler'[s].id].phase \in {"settled", "expired"}
             /\ settler'[s].pc = "silent" => \/ row'[settler'[s].id].phase = "expired"
                                             \/ row'[settler'[s].id].cost = settler'[s].cost
  <2>1. CASE settler[s].pc \in {"report", "silent"}
    <3>1. settler[s].id \in Ids /\ settler[s].cost \in Costs
      BY <1>t, <2>1 DEF TypeOK, SettleCall, Idle
    <3>2. row'[settler[s].id].phase \in LaterPhases[row[settler[s].id].phase]
          /\ (row[settler[s].id].cost # NoCost => row'[settler[s].id].cost = row[settler[s].id].cost)
      BY <1>f, <3>1 DEF Forward
    <3>3. row[settler[s].id].phase \in {"settled", "expired"} =>
             row'[settler[s].id].phase \in {"settled", "expired"}
      BY <3>2 DEF LaterPhases
    <3>4. row[settler[s].id].phase = "expired" => row'[settler[s].id].phase = "expired"
      BY <3>2 DEF LaterPhases
    <3> QED
      BY <1>1, <1>t, <2>1, <3>1, <3>2, <3>3, <3>4, NilsAreFresh DEF SettlersInformed, SettleNeverSilent
  <2>2. CASE settler[s].pc \notin {"report", "silent"}
    BY <1>1, <1>t, <2>2 DEF SettlersInformed
  <2> QED
    BY <2>1, <2>2
<1>2. ASSUME NEW s \in Settlers, NEW i \in Ids, NEW c \in Costs, SettleFirst(s, i, c)
      PROVE  /\ settler'[s].pc # "tryOpen"
             /\ settler'[s].pc = "report" => row'[settler'[s].id].phase \in {"settled", "expired"}
             /\ settler'[s].pc # "silent"
             /\ \A v \in Settlers : v # s => settler'[v] = settler[v]
  <2>1. CASE row[i].phase \in {"open", "released"}
    <3>1. settler' = [settler EXCEPT ![s] = Idle]
      BY <1>2, <2>1 DEF SettleFirst
    <3> QED
      BY <1>t, <3>1 DEF TypeOK, Idle
  <2>2. CASE row[i].phase \notin {"open", "released"}
    <3>1. settler' = [settler EXCEPT ![s] = [pc |-> "report", id |-> i, cost |-> c]]
      BY <1>2, <2>2 DEF SettleFirst
    <3>2. row' = row /\ row[i].phase \in {"settled", "expired"}
      BY <1>2, <2>2 DEF SettleFirst, Record, Written
    <3> QED
      BY <1>t, <3>1, <3>2 DEF TypeOK
  <2> QED
    BY <2>1, <2>2
<1>3. ASSUME NEW s \in Settlers, SettleReport(s)
      PROVE  /\ settler'[s].pc \notin {"tryOpen", "report"}
             /\ settler'[s].pc = "silent" => \/ row'[settler'[s].id].phase = "expired"
                                             \/ row'[settler'[s].id].cost = settler'[s].cost
             /\ \A v \in Settlers : v # s => settler'[v] = settler[v]
  <2> DEFINE call == settler[s]
             conflict == row[call.id].phase # "expired" /\ row[call.id].cost \notin {NoCost, call.cost}
  <2>1. /\ settler' = [settler EXCEPT ![s] = IF conflict THEN Idle ELSE [call EXCEPT !.pc = "silent"]]
        /\ row' = row
    BY <1>3 DEF SettleReport
  <2>2. call \in SettleCall /\ call.pc = "report" /\ call # Idle
    BY <1>3, <1>t DEF SettleReport, TypeOK, Idle
  <2>3. row[call.id].phase = "settled" \/ row[call.id].phase = "expired"
    BY <1>t, <2>2 DEF SettlersInformed
  <2>4. call.id \in Ids
    BY <2>2 DEF SettleCall
  <2>5. row[call.id].phase = "settled" => row[call.id].cost # NoCost
    BY <1>t, <2>4 DEF LInv, CostsFollowPhases
  <2>6. CASE conflict
    BY <1>t, <2>1, <2>6 DEF TypeOK, Idle
  <2>7. CASE ~conflict
    <3> DEFINE done == [call EXCEPT !.pc = "silent"]
    <3>1. settler' = [settler EXCEPT ![s] = done]
      BY <2>1, <2>7
    <3>2. done.pc = "silent" /\ done.id = call.id /\ done.cost = call.cost
      BY <2>2 DEF SettleCall
    <3> HIDE DEF done
    <3>3. settler'[s] = done /\ \A v \in Settlers : v # s => settler'[v] = settler[v]
      BY <1>t, <3>1 DEF TypeOK
    <3> QED
      BY <2>1, <2>3, <2>5, <2>7, <3>2, <3>3
  <2> QED
    BY <2>6, <2>7
<1>4. CASE settler' = settler
  BY <1>1, <1>4 DEF SettlersInformed, SettleNeverSilent
<1>5. CASE \E s \in Settlers, i \in Ids, c \in Costs : SettleFirst(s, i, c)
  BY <1>1, <1>2, <1>5 DEF SettlersInformed, SettleNeverSilent
<1>6. CASE \E s \in Settlers : SettleReport(s)
  BY <1>1, <1>3, <1>6 DEF SettlersInformed, SettleNeverSilent
<1>7. \A s \in Settlers : ~SettleSecond(s) /\ ~AbortSettle(s)
  BY <1>t DEF SettlersInformed, SettleSecond, AbortSettle
<1> QED
  BY <1>4, <1>5, <1>6, <1>7
  DEF Next, Acquire, SpendAll, AcquireDup, ExpireLatch, PutOpen, Lose, MarkReleased, AbortRelease,
      ExpireRow, ReleaseOrg, ReleaseUser, vars

\* On the in-memory ledger, whose MarkSettled is one step under its mutex, a Settle that
\* answers FALSE without an event left the caller's own cost on record: whatever
\* settlements and releases race, no cost is dropped in silence (D-46).
THEOREM InMemorySettleIsNeverSilent ==
    ASSUME AtomicSettle, ~Faults
    PROVE  Spec => []SettleNeverSilent
<1>1. Init => SInv
  <2> SUFFICES ASSUME Init PROVE SInv
    OBVIOUS
  <2>1. \A s \in Settlers : settler[s].pc = "idle"
    BY DEF Init, Idle
  <2> QED
    BY <2>1, InitLInv DEF SInv, SettlersInformed, SettleNeverSilent
<1>2. SInv /\ [Next]_vars => SInv'
  BY NextSInv
<1>3. SInv => SettleNeverSilent
  BY DEF SInv
<1> QED
  BY <1>1, <1>2, <1>3, PTL DEF Spec

-----------------------------------------------------------------------------
(* The activation API implements Holdings *)

\* What Holdings counts is what the gauges count.
LEMMA HeldIsCharged ==
    ASSUME NEW r, NEW u
    PROVE  Quota!HeldOn(r) = ChargedOn(r) /\ Quota!HeldOf(u, r) = ChargedOf(u, r)
BY DEF Quota!HeldOn, Quota!HeldOf, ChargedOn, ChargedOf

LEMMA SameCardinality == \A S : Quota!Cardinality(S) = Cardinality(S)
BY DEF Cardinality, Quota!Cardinality

\* An admission decided on the gauges is one decided on the true holdings.
LEMMA AdmittedOnHoldings ==
    ASSUME IInv, mode = "enforce", ~TierMayFail, NEW b \in Bundles,
           NEW u \in Users \cup {NoUser}, Admits(b, u), NEW r \in b
    PROVE  /\ Quota!Room(Quota!HeldOn(r), OrgLimit[r])
           /\ u # NoUser => Quota!Room(Quota!HeldOf(u, r), UserLimit[r])
<1>1. r \in Resources
  BY BundlesAreGauges
<1>2. /\ OrgLimit[r] # NoLimit => org[r] + 1 <= OrgLimit[r]
      /\ u # NoUser /\ UserLimit[r] # NoLimit => usr[u][r] + 1 <= UserLimit[r]
  BY AdmitsFits
<1>3. /\ OrgLimit[r] # NoLimit => OrgLimit[r] \in Nat
      /\ UserLimit[r] # NoLimit => UserLimit[r] \in Nat
  BY <1>1, LimitsAreAmounts
<1>4. org[r] \in Nat /\ (u # NoUser => usr[u][r] \in Nat)
  BY <1>1 DEF IInv, TypeOK
<1>5. org[r] = Cardinality(Quota!HeldOn(r))
  BY <1>1, HeldIsCharged DEF IInv, GaugesExact
<1>6. u # NoUser => usr[u][r] = Cardinality(Quota!HeldOf(u, r))
  BY <1>1, HeldIsCharged DEF IInv, GaugesExact
<1>7. OrgLimit[r] # NoLimit => Cardinality(Quota!HeldOn(r)) < OrgLimit[r]
  BY <1>2, <1>3, <1>4, <1>5
<1>8. u # NoUser /\ UserLimit[r] # NoLimit => Cardinality(Quota!HeldOf(u, r)) < UserLimit[r]
  BY <1>2, <1>3, <1>4, <1>6
<1>9. \A h, n : (n # NoLimit => Cardinality(h) < n) => Quota!Room(h, n)
  BY SameCardinality DEF Quota!Room
<1>10. Quota!Room(Quota!HeldOn(r), OrgLimit[r])
  BY <1>7, <1>9
<1>11. u # NoUser => Quota!Room(Quota!HeldOf(u, r), UserLimit[r])
  BY <1>8, <1>9
<1> QED
  BY <1>10, <1>11

\* The rows, as Holdings sees them: the stage and the owner of every activation.
Stages == [i \in Ids |-> StageOf[row[i].phase]]
Owners == [i \in Ids |-> row[i].user]

LEMMA Staged ==
    /\ StageOf["unminted"] = "free"
    /\ \A ph \in {"spent", "open", "lost"} : StageOf[ph] = "held"
    /\ \A ph \in {"released", "settled", "expired"} : StageOf[ph] = "ended"
BY DEF StageOf

\* A step that leaves the units alone, and moves at most one activation, to a phase of the
\* same stage or from "held" to "ended".
LEMMA MovesStage ==
    ASSUME TypeOK, TypeOK', mode' = mode, units' = units, NEW i \in Ids,
           \A j \in Ids : row'[j].user = row[j].user,
           \A j \in Ids : j # i => row'[j].phase = row[j].phase,
           \/ StageOf[row'[i].phase] = StageOf[row[i].phase]
           \/ StageOf[row[i].phase] = "held" /\ StageOf[row'[i].phase] = "ended"
    PROVE  Quota!End(i) \/ UNCHANGED Quota!holdVars
<1>1. Owners' = Owners
  BY DEF Owners
<1>2. CASE StageOf[row'[i].phase] = StageOf[row[i].phase]
  <2>1. \A j \in Ids : StageOf[row'[j].phase] = StageOf[row[j].phase]
    BY <1>2
  <2>2. Stages' = Stages
    BY <2>1 DEF Stages
  <2> QED
    BY <1>1, <2>2 DEF Quota!holdVars, Stages, Owners
<1>3. CASE StageOf[row[i].phase] = "held" /\ StageOf[row'[i].phase] = "ended"
  <2>1. Stages' = [Stages EXCEPT ![i] = "ended"] /\ Stages[i] = "held"
    BY <1>3 DEF Stages
  <2> QED
    BY <1>1, <2>1 DEF Quota!End, Stages, Owners
<1> QED
  BY <1>2, <1>3

\* The step of Holdings that each step of the API is.
LEMMA StepHolds ==
    IInv /\ IInv' /\ [Next]_vars => [Quota!Next]_(Quota!holdVars)
<1> SUFFICES ASSUME IInv, IInv', [Next]_vars PROVE [Quota!Next]_(Quota!holdVars)
  OBVIOUS
<1>t. TypeOK /\ TypeOK' /\ Bookkeeping
  BY DEF IInv
<1>s. ASSUME UNCHANGED <<mode, row, units>>
      PROVE  UNCHANGED Quota!holdVars
  BY <1>s DEF Quota!holdVars
<1>1. ASSUME NEW i \in Ids, NEW b \in Bundles, NEW u \in Users \cup {NoUser},
             NEW k \in IdemKeys \cup {NoKey}, Acquire(i, b, u, k)
      PROVE  Quota!Admit(i, b, u)
  <2>1. /\ row[i].phase = "unminted" /\ mode' = mode
        /\ row' = [row EXCEPT ![i] = [phase |-> "spent", bundle |-> b,
                                      user |-> u, cost |-> NoCost]]
        /\ units' = [units EXCEPT ![i] = Charge(b, u)]
    BY <1>1 DEF Acquire, SpendAll
  <2>2. \A j \in Ids : /\ row'[j].phase = IF j = i THEN "spent" ELSE row[j].phase
                       /\ row'[j].user = IF j = i THEN u ELSE row[j].user
    BY <1>t, <2>1 DEF TypeOK
  <2>a. \A j \in Ids : StageOf[row'[j].phase] = IF j = i THEN "held" ELSE StageOf[row[j].phase]
    BY <2>2, Staged
  <2>b. Stages' = [Stages EXCEPT ![i] = "held"]
    BY <2>a DEF Stages
  <2>3. Stages' = [Stages EXCEPT ![i] = "held"] /\ Stages[i] = "free"
    BY <2>1, <2>b, Staged DEF Stages
  <2>4. Owners' = [Owners EXCEPT ![i] = u]
    BY <2>2 DEF Owners
  <2>5. mode = "enforce" /\ ~TierMayFail =>
            \A r \in b : /\ Quota!Room(Quota!HeldOn(r), OrgLimit[r])
                         /\ u # NoUser => Quota!Room(Quota!HeldOf(u, r), UserLimit[r])
    BY <1>1, AdmittedOnHoldings DEF Acquire
  <2>6. Charge(b, u) = b \X (IF u = NoUser THEN {"org"} ELSE {"org", "user"})
    BY DEF Charge, Scopes
  <2> QED
    BY <2>1, <2>3, <2>4, <2>5, <2>6 DEF Quota!Admit, Stages, Owners
<1>2. ASSUME NEW i \in Ids, PutOpen(i) \/ Lose(i) \/ MarkReleased(i) \/ ExpireRow(i)
      PROVE  Quota!End(i) \/ UNCHANGED Quota!holdVars
  <2>1. PICK ph \in {"open", "lost", "released", "expired"} :
            /\ row' = [row EXCEPT ![i].phase = ph]
            /\ ph \in {"open", "lost"} => row[i].phase = "spent"
            /\ ph = "released" => row[i].phase = "open"
            /\ ph = "expired" => row[i].phase \in {"released", "settled"}
    BY <1>2 DEF PutOpen, Lose, MarkReleased, ExpireRow
  <2>2. mode' = mode /\ units' = units
    BY <1>2 DEF PutOpen, Lose, MarkReleased, ExpireRow
  <2>3. \A j \in Ids : /\ row'[j].user = row[j].user
                       /\ row'[j].phase = IF j = i THEN ph ELSE row[j].phase
    BY <1>t, <2>1 DEF TypeOK, Row
  <2>4. \/ StageOf[row'[i].phase] = StageOf[row[i].phase]
        \/ StageOf[row[i].phase] = "held" /\ StageOf[row'[i].phase] = "ended"
    BY <2>1, <2>3, Staged
  <2> QED
    BY <1>t, <2>2, <2>3, <2>4, MovesStage
<1>3. ASSUME NEW i \in Ids, NEW c \in Costs, NEW from \in SUBSET {"open", "released"},
             Record(i, c, from), mode' = mode, units' = units
      PROVE  Quota!End(i) \/ UNCHANGED Quota!holdVars
  <2>1. CASE row[i].phase \in from
    <3>1. \A j \in Ids : /\ row'[j].user = row[j].user
                         /\ row'[j].phase = IF j = i THEN "settled" ELSE row[j].phase
      BY <1>3, <1>t, <2>1 DEF TypeOK, Row, Record
    <3>2. row[i].phase = "open" \/ row[i].phase = "released"
      BY <2>1
    <3>3. \/ StageOf[row'[i].phase] = StageOf[row[i].phase]
          \/ StageOf[row[i].phase] = "held" /\ StageOf[row'[i].phase] = "ended"
      BY <3>1, <3>2, Staged
    <3> QED
      BY <1>3, <1>t, <3>1, <3>3, MovesStage
  <2>2. CASE row[i].phase \notin from
    BY <1>3, <1>s, <2>2 DEF Record
  <2> QED
    BY <2>1, <2>2
<1>4. ASSUME NEW s \in Settlers, NEW i \in Ids, NEW c \in Costs, SettleFirst(s, i, c)
      PROVE  Quota!End(i) \/ UNCHANGED Quota!holdVars
  <2>1. mode' = mode /\ units' = units
    BY <1>4 DEF SettleFirst
  <2>2. Record(i, c, {"open", "released"}) \/ Record(i, c, {"released"})
    BY <1>4 DEF SettleFirst
  <2> QED
    BY <1>3, <2>1, <2>2
<1>5. ASSUME NEW s \in Settlers, SettleSecond(s)
      PROVE  (\E i \in Ids : Quota!End(i)) \/ UNCHANGED Quota!holdVars
  <2>1. settler[s].id \in Ids /\ settler[s].cost \in Costs
    BY <1>5, <1>t DEF TypeOK, SettleSecond, SettleCall, Idle
  <2>2. Record(settler[s].id, settler[s].cost, {"open"}) /\ mode' = mode /\ units' = units
    BY <1>5 DEF SettleSecond
  <2> QED
    BY <1>3, <2>1, <2>2
<1>6. ASSUME NEW i \in Ids, NEW r \in Resources, ReleaseOrg(i, r) \/ ReleaseUser(i, r)
      PROVE  \E unit \in units[i] : Quota!GiveBack(i, unit)
  <2>1. PICK unit \in todo[i] : /\ units' = [units EXCEPT ![i] = @ \ {unit}]
                                /\ row' = row /\ mode' = mode
    BY <1>6 DEF ReleaseOrg, ReleaseUser
  <2>2. unit \in units[i] /\ row[i].phase \in {"released", "settled"}
    BY <1>t, <2>1 DEF Bookkeeping
  <2>3. Stages[i] = "ended"
    BY <2>2, Staged DEF Stages
  <2>4. Stages' = Stages /\ Owners' = Owners
    BY <2>1 DEF Stages, Owners
  <2> QED
    BY <2>1, <2>2, <2>3, <2>4 DEF Quota!GiveBack, Stages, Owners
<1>7. CASE UNCHANGED <<mode, row, units>>
  BY <1>7, <1>s
<1> QED
  BY <1>1, <1>2, <1>4, <1>5, <1>6, <1>7
  DEF Next, Quota!Next, vars, AcquireDup, ExpireLatch, AbortRelease, SettleReport, AbortSettle

\* Counters, latches, ledger and their failures together do to an org's quota what Holdings
\* allows and nothing else: every admission is whole and decided on what is truly held, an
\* activation ends once, and its units come back once and only then (Acquire,
\* ReleaseActivation, Settle).
THEOREM ActivationsImplementHoldings == Spec => ImplementsHoldings
<1>1. Init => Quota!Init
  BY Staged DEF Init, Quota!Init, NoRow
<1>2. IInv /\ [Next]_vars => IInv'
  BY NextTypeOK, NextBookkeeping, NextExact DEF IInv
<1> QED
  BY <1>1, <1>2, InitIInv, StepHolds, PTL DEF Spec, ImplementsHoldings, Quota!Spec
=============================================================================

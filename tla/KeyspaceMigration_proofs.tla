---------------------- MODULE KeyspaceMigration_proofs ----------------------
(***************************************************************************)
(* Proofs about the keyspace migration, for every fleet of pods, every set *)
(* of idempotency keys, limit, latch lifetime and rate window, and for     *)
(* every bound on the counter and the clock.                               *)
(*                                                                         *)
(* The invariant says which pods run (Era), which key shape holds the      *)
(* recorded usage (Usage) and which latches are left (Latches) in every    *)
(* phase of the migration, each as long as the fleet has left the          *)
(* procedure in no way that breaks it, and while a force-set is half done. *)
(***************************************************************************)
EXTENDS KeyspaceMigration, TLAPS

-----------------------------------------------------------------------------
(* The inductive invariant *)

\* The pods that read shape v, and those that know no other.
Readers(v) == {p \in Running : ks[p].version = v}
Single(v)  == {p \in Readers(v) : ~ks[p].dual}

OnlyV2 == \A p \in Running : Only(p, 2)

\* Only a running pod in dual has a second Set to do, and reap is final first.
InProgress ==
    /\ \A q \in Pods : force[q] # Absent => q \in Running /\ ks[q].dual
    /\ migrator.pc = "reap" => Final

\* The one force-set under way has written the shape its pod reads.
HalfSet ==
    \A q \in Pods : force[q] # Absent =>
        /\ force[q] = level
        /\ counter[ks[q].version] = level
        /\ \A p \in Pods \ {q} : force[p] = Absent

\* Nobody reads v1 after the end, nor writes it beside a fleet that began with v2.
Era ==
    /\ HalfSet
    /\ Final => Readers(1) = {}
    /\ (Alone2 /\ ~Final /\ Settled) => OnlyV2

\* v1 holds the usage until the end, unless the fleet began with v2.
Full1 == (~Final /\ ~Alone2) => Value(counter, 1) = level

\* v2 holds it where it is read, and from the flip on: before that a writer of v1 alone
\* may have left the twin behind.
Full2 ==
    (Alone2 \/ Flipped \/ Readers(2) # {}) =>
        \/ counter[2] = level
        \/ counter[1] = Absent /\ counter[2] = Absent /\ level = 0

InStep == (counter[2] # Absent /\ ~behind) => counter[2] = level

\* While no write to v1 alone follows a verdict that was not torn, the shapes agree.
Trusted == (migrator.verified /\ fresh) => counter[1] = counter[2] \/ Alone2 \/ Final

Usage == Settled => Full1 /\ Full2 /\ InStep /\ Trusted

\* A latch belongs to the last charge of its key.  A key charged on v1 alone was
\* charged before dual-on, and no v2-only pod runs while that latch lives; one
\* charged on v2 alone, or whose v1 latch was reaped, has no reader of v1.
LatchOK(k) ==
    /\ \A s \in Shapes : Live(s, k) =>
           charged[k].times > 0 /\ latch[s][k] = charged[k].at + LatchTTL
    /\ charged[k].times <= 1
    /\ charged[k].times > 0 =>
           /\ charged[k].at <= now /\ now < charged[k].at + LatchTTL
           /\ Live(1, k) \/ Live(2, k)
           /\ ~Live(1, k) => Final \/ (Alone2 /\ OnlyV2)
           /\ ~Live(2, k) => /\ marker.phase \in {"none", "dual"}
                             /\ marker.phase = "dual" => charged[k].at <= marker.since
                             /\ Single(2) = {}

Latches == \A k \in Keys : LatchOK(k)

KInv ==
    /\ TypeOK /\ InProgress
    /\ left \subseteq {"late", "stale"} => Era
    /\ left \subseteq {"late"} => Usage
    /\ left \subseteq {"stale"} => Latches

-----------------------------------------------------------------------------
(* Helpers *)

Counters == [Shapes -> Nat \cup {Absent}]

LEMMA AbsentIsNoNat == Absent \notin Nat
BY AbsentIsNoNumber

LEMMA RunningKeyspace ==
    ASSUME TypeOK, NEW p \in Running
    PROVE  /\ p \in Pods /\ ks[p] \in Keyspaces
           /\ ks[p].version \in Shapes /\ ks[p].dual \in BOOLEAN
           /\ p \in Readers(ks[p].version)
           /\ ~ks[p].dual => p \in Single(ks[p].version)
<1>1. p \in Pods /\ ks[p] \in Keyspaces
  BY DEF TypeOK, Running
<1> QED
  BY <1>1 DEF Keyspaces, Readers, Single

LEMMA ValueType ==
    ASSUME NEW c \in Counters, NEW s \in Shapes
    PROVE  /\ Value(c, s) \in Nat
           /\ c[s] # Absent => Value(c, s) = c[s]
           /\ c[s] = Absent => Value(c, s) = 0
BY DEF Value, Counters

LEMMA WrittenShapes ==
    ASSUME NEW k \in Keyspaces
    PROVE  /\ k.dual => Written(k) = {1, 2}
           /\ ~k.dual => Written(k) = {k.version}
           /\ SecondaryVersion(k.version) \in Shapes
           /\ k.version = 1 => SecondaryVersion(k.version) = 2
           /\ k.version = 2 => SecondaryVersion(k.version) = 1
BY DEF Written, Shapes, Keyspaces, SecondaryVersion

LEMMA SeededValues ==
    ASSUME NEW c \in Counters, NEW k
    PROVE  /\ Seeded(c, k) \in Counters
           /\ Seeded(c, k)[1] = c[1]
           /\ Seeded(c, k)[2] = IF k.dual /\ c[2] = Absent THEN c[1] ELSE c[2]
BY DEF Seeded, Counters, Shapes

\* What a step of a pod makes of the counter it wrote, and of the usage.
Incr == [n \in Nat |-> n + 1]
Decr == [n \in Nat |-> IF n = 0 THEN 0 ELSE n - 1]

LEMMA IncrValues ==
    ASSUME NEW c \in Counters, NEW k
    PROVE  /\ Incr \in [Nat -> Nat]
           /\ IncrBoth(c, k, 1) \in Counters
           /\ \A s \in Shapes : IncrBoth(c, k, 1)[s] =
                  IF s \in Written(k) THEN Incr[Value(c, s)] ELSE c[s]
<1>1. \A s \in Shapes : Value(c, s) \in Nat /\ c[s] \in Nat \cup {Absent}
  BY ValueType DEF Counters
<1> QED
  BY <1>1 DEF Incr, IncrBoth, Counters

LEMMA DecrValues ==
    ASSUME NEW c \in Counters, NEW k
    PROVE  /\ Decr \in [Nat -> Nat]
           /\ DecrFloor(c, k) \in Counters
           /\ \A s \in Shapes : DecrFloor(c, k)[s] =
                  IF s \in Written(k) THEN Decr[Value(c, s)] ELSE c[s]
<1>1. \A s \in Shapes : /\ Value(c, s) \in Nat /\ c[s] \in Nat \cup {Absent}
                        /\ Value(c, s) # 0 => c[s] = Value(c, s)
  BY ValueType DEF Counters
<1> QED
  BY <1>1 DEF Decr, DecrFloor, Counters

-----------------------------------------------------------------------------
(* Types *)

LEMMA InitKInv == Init => KInv
<1> SUFFICES ASSUME Init PROVE KInv
  OBVIOUS
<1>1. TypeOK
  <2>1. ks \in [Pods -> Keyspaces \cup {Down}]
    BY DEF Init, Keyspaces, Shapes
  <2>2. marker \in [phase : Phases, since : Nat]
    BY DEF Init, Phases, Never
  <2>3. charged \in [Keys -> [at : Nat, times : Nat]]
    BY DEF Init, NotCharged, Never
  <2>4. latch \in [Shapes -> [Keys -> Nat]]
    BY DEF Init, Never
  <2>5. migrator \in [pc : {"idle", "verify", "reap"}, read : Nat, verified : BOOLEAN]
    BY DEF Init
  <2>6. counter \in [Shapes -> Nat \cup {Absent}] /\ force \in [Pods -> Nat \cup {Absent}]
    BY DEF Init
  <2>7. now \in Nat \ {0} /\ level \in Nat
    BY DEF Init
  <2>8. fresh \in BOOLEAN /\ behind \in BOOLEAN /\ left \subseteq Deviations
    BY DEF Init
  <2> QED
    BY <2>1, <2>2, <2>3, <2>4, <2>5, <2>6, <2>7, <2>8 DEF TypeOK
<1>2. InProgress
  BY DEF Init, InProgress
<1>3. ~Final /\ ~Flipped /\ ~Alone2 /\ Readers(2) = {}
  BY DEF Init, Readers, Running, Final, Flipped, Alone2, Shapes
<1>4. Era /\ Usage
  BY <1>3 DEF Init, Era, Usage, Full1, Full2, InStep, Trusted, HalfSet, Value, Shapes
<1>5. Latches
  BY DEF Init, Latches, LatchOK, Live, Never, NotCharged
<1> QED
  BY <1>1, <1>2, <1>4, <1>5 DEF KInv

\* The histories have their types, and no step takes a deviation back.
LEMMA HistoryTypes ==
    ASSUME TypeOK, Next
    PROVE  /\ fresh' \in BOOLEAN /\ behind' \in BOOLEAN
           /\ left \subseteq left' /\ left' \subseteq Deviations
<1>0. fresh \in BOOLEAN /\ behind \in BOOLEAN /\ left \subseteq Deviations
  BY DEF TypeOK
<1>1. \A p \in Pods : WriteLeaves(p) \subseteq Deviations
  BY DEF WriteLeaves, Deviations
<1>2. ASSUME NEW p \in Pods, Passed(p)
      PROVE  fresh' \in BOOLEAN /\ behind' \in BOOLEAN
  BY <1>2 DEF Passed
<1>3. ASSUME NEW p \in Pods, Wrote(p)
      PROVE  /\ fresh' \in BOOLEAN /\ behind' \in BOOLEAN
             /\ left \subseteq left' /\ left' \subseteq Deviations
  BY <1>0, <1>1, <1>2, <1>3 DEF Wrote
<1>4. ASSUME NEW p \in Pods, PodStep(p)
      PROVE  /\ fresh' \in BOOLEAN /\ behind' \in BOOLEAN
             /\ left \subseteq left' /\ left' \subseteq Deviations
  <2>1. CASE Spend(p) \/ Release(p) \/ \E t \in 0..MaxLevel : ForceSet(p, t)
    BY <1>3, <2>1 DEF Spend, Release, ForceSet
  <2>2. ASSUME NEW k \in Keys, Acquire(p, k)
        PROVE  /\ fresh' \in BOOLEAN /\ behind' \in BOOLEAN
               /\ left \subseteq left' /\ left' \subseteq Deviations
    <3>1. \/ UNCHANGED <<fresh, behind, left>>
          \/ /\ Passed(p)
             /\ left' = left \cup WriteLeaves(p)
                             \cup {d \in {"late"} : Only(p, 1) /\ marker.phase = "dual"}
      BY <2>2 DEF Acquire
    <3> QED
      BY <1>0, <1>1, <1>2, <3>1 DEF Deviations
  <2>3. CASE ForceSetTwin(p) \/ ForceSetTorn(p) \/ Stop(p)
    BY <1>0, <2>3 DEF ForceSetTwin, ForceSetTorn, Stop, Deviations
  <2>4. ASSUME NEW k \in Keyspaces, Boot(p, k)
        PROVE  /\ fresh' \in BOOLEAN /\ behind' \in BOOLEAN
               /\ left \subseteq left' /\ left' \subseteq Deviations
    BY <1>0, <2>4 DEF Boot, BootLeaves, Deviations
  <2> QED
    BY <1>4, <2>1, <2>2, <2>3, <2>4 DEF PodStep
<1>5. CASE MigratorStep
  BY <1>0, <1>5 DEF MigratorStep, DualOn, Backfill, VerifyFirst, VerifySecond, VerifyNothing,
                    Flip, Reap, ReapValue, ReapLatch, MigratorEnds, Deviations
<1>6. CASE Tick
  BY <1>0, <1>6 DEF Tick
<1> QED
  BY <1>4, <1>5, <1>6 DEF Next

LEMMA PodTypeOK ==
    ASSUME TypeOK, InProgress, NEW p \in Pods, PodStep(p)
    PROVE  TypeOK' /\ InProgress'
<1>0. counter \in Counters /\ level \in Nat
  BY DEF TypeOK, Counters
<1>h. fresh' \in BOOLEAN /\ behind' \in BOOLEAN /\ left' \subseteq Deviations
  BY HistoryTypes DEF Next
<1> DEFINE sc == Seeded(counter, ks[p])
<1>s. sc \in Counters
  BY <1>0, SeededValues
<1> HIDE DEF sc
<1>1. CASE Spend(p)
  <2>1. counter' \in Counters
    BY <1>1, <1>s, IncrValues DEF Spend, sc
  <2> QED
    BY <1>h, <1>0, <1>1, <2>1 DEF Spend, TypeOK, Counters, InProgress, Running, Final
<1>2. CASE Release(p)
  <2>1. counter' \in Counters
    BY <1>2, <1>s, DecrValues DEF Release, sc
  <2>2. level' \in Nat
    BY <1>0, <1>2 DEF Release
  <2> QED
    BY <1>h, <1>0, <1>2, <2>1, <2>2 DEF Release, TypeOK, Counters, InProgress, Running, Final
<1>3. ASSUME NEW k \in Keys, Acquire(p, k)
      PROVE  TypeOK' /\ InProgress'
  <2>1. counter' \in Counters
    <3>1. counter' = sc \/ counter' = IncrBoth(sc, ks[p], 1)
      BY <1>3 DEF Acquire, sc
    <3> QED
      BY <1>s, <3>1, IncrValues
  <2>2. now + LatchTTL \in Nat /\ now \in Nat
    BY BoundsAreNaturals DEF TypeOK
  <2>3. latch' \in [Shapes -> [Keys -> Nat]]
    <3>1. \/ latch' = latch
          \/ latch' = [s \in Shapes |-> IF s \in Written(ks[p])
                                        THEN [latch[s] EXCEPT ![k] = now + LatchTTL]
                                        ELSE latch[s]]
      BY <1>3 DEF Acquire
    <3> QED
      BY <2>2, <3>1 DEF TypeOK
  <2>4. charged' \in [Keys -> [at : Nat, times : Nat]]
    <3>1. \/ charged' = charged
          \/ charged' = [charged EXCEPT ![k] = [at |-> now, times |-> charged[k].times + 1]]
      BY <1>3 DEF Acquire
    <3>2. charged[k].times + 1 \in Nat
      BY DEF TypeOK
    <3> QED
      BY <2>2, <3>1, <3>2 DEF TypeOK
  <2>5. level' \in Nat
    BY <1>0, <1>3 DEF Acquire
  <2>6. UNCHANGED <<ks, marker, migrator, force, now>>
    BY <1>0, <1>3 DEF Acquire
  <2> QED
    BY <1>h, <2>1, <2>3, <2>4, <2>5, <2>6 DEF TypeOK, Counters, InProgress, Running, Final
<1>4. ASSUME NEW t \in 0..MaxLevel, ForceSet(p, t)
      PROVE  TypeOK' /\ InProgress'
  <2>0. t \in Nat
    BY BoundsAreNaturals
  <2>1. p \in Running /\ ks[p].version \in Shapes /\ ks[p].dual \in BOOLEAN
    BY <1>4, RunningKeyspace DEF ForceSet
  <2>2. counter' \in Counters
    BY <1>0, <1>4, <2>0, <2>1 DEF ForceSet, Counters
  <2>3. force' \in [Pods -> Nat \cup {Absent}]
    BY <1>4, <2>0 DEF ForceSet, TypeOK
  <2>4. \A q \in Pods : force'[q] # Absent => q \in Running /\ ks[q].dual
    BY <1>4, <2>1 DEF ForceSet, TypeOK, InProgress
  <2>5. level' \in Nat /\ UNCHANGED <<ks, latch, marker, migrator, now, charged>>
    BY <1>0, <1>4, <2>0 DEF ForceSet
  <2> QED
    BY <1>h, <2>2, <2>3, <2>4, <2>5 DEF TypeOK, Counters, InProgress, Running, Final
<1>5. CASE ForceSetTwin(p)
  <2>1. p \in Running /\ ks[p] \in Keyspaces
    BY <1>5, RunningKeyspace DEF ForceSetTwin, InProgress
  <2>2. SecondaryVersion(ks[p].version) \in Shapes /\ force[p] \in Nat
    BY <1>5, <2>1, WrittenShapes DEF ForceSetTwin, TypeOK
  <2>3. counter' \in Counters
    BY <1>0, <1>5, <2>2 DEF ForceSetTwin, Counters
  <2>4. force' \in [Pods -> Nat \cup {Absent}] /\ \A q \in Pods : force'[q] \in {force[q], Absent}
    BY <1>5 DEF ForceSetTwin, TypeOK
  <2> QED
    BY <1>h, <1>5, <2>3, <2>4 DEF ForceSetTwin, TypeOK, Counters, InProgress, Running, Final
<1>6. CASE ForceSetTorn(p)
  <2>1. force' \in [Pods -> Nat \cup {Absent}] /\ \A q \in Pods : force'[q] \in {force[q], Absent}
    BY <1>6 DEF ForceSetTorn, TypeOK
  <2> QED
    BY <1>h, <1>6, <2>1 DEF ForceSetTorn, TypeOK, InProgress, Running, Final
<1>7. CASE Stop(p)
  <2>1. /\ force' \in [Pods -> Nat \cup {Absent}]
        /\ \A q \in Pods : force'[q] = IF q = p THEN Absent ELSE force[q]
    BY <1>7 DEF Stop, TypeOK
  <2>2. /\ ks' \in [Pods -> Keyspaces \cup {Down}]
        /\ \A q \in Pods : ks'[q] = IF q = p THEN Down ELSE ks[q]
    BY <1>7 DEF Stop, TypeOK
  <2> QED
    BY <1>h, <1>0, <1>7, <2>1, <2>2 DEF Stop, TypeOK, InProgress, Running, Final
<1>8. ASSUME NEW k \in Keyspaces, Boot(p, k)
      PROVE  TypeOK' /\ InProgress'
  <2>1. force[p] = Absent
    BY <1>8 DEF Boot, InProgress, Running
  <2>2. /\ ks' \in [Pods -> Keyspaces \cup {Down}]
        /\ \A q \in Pods : ks'[q] = IF q = p THEN k ELSE ks[q]
    BY <1>8 DEF Boot, TypeOK
  <2> QED
    BY <1>h, <1>0, <1>8, <2>1, <2>2 DEF Boot, TypeOK, InProgress, Running, Final
<1> QED
  BY <1>1, <1>2, <1>3, <1>4, <1>5, <1>6, <1>7, <1>8 DEF PodStep

LEMMA MigratorTypeOK ==
    ASSUME TypeOK, InProgress, MigratorStep
    PROVE  TypeOK' /\ InProgress'
<1>0. /\ counter \in Counters /\ marker \in [phase : Phases, since : Nat] /\ now \in Nat
      /\ migrator \in [pc : {"idle", "verify", "reap"}, read : Nat, verified : BOOLEAN]
  BY DEF TypeOK, Counters
<1>h. fresh' \in BOOLEAN /\ behind' \in BOOLEAN /\ left' \subseteq Deviations
  BY HistoryTypes DEF Next
<1>1. CASE DualOn \/ Flip
  <2>1. marker' \in [phase : Phases, since : Nat] /\ migrator.pc = "idle"
    BY <1>0, <1>1 DEF DualOn, Flip, Phases, Verb
  <2> QED
    BY <1>h, <1>1, <2>1 DEF DualOn, Flip, TypeOK, InProgress, Running
<1>2. CASE Backfill
  <2>1. counter' \in Counters
    BY <1>0, <1>2 DEF Backfill, Counters, Shapes
  <2> QED
    BY <1>h, <1>2, <2>1 DEF Backfill, TypeOK, Counters, InProgress, Running, Final
<1>3. CASE VerifyFirst \/ VerifySecond \/ VerifyNothing \/ MigratorEnds
  <2>1. counter[1] \in Nat \cup {Absent}
    BY <1>0 DEF Counters, Shapes
  <2>2. /\ migrator' \in [pc : {"idle", "verify", "reap"}, read : Nat, verified : BOOLEAN]
        /\ migrator'.pc # "reap"
    <3>1. CASE VerifyFirst
      BY <1>0, <2>1, <3>1 DEF VerifyFirst
    <3>2. CASE VerifyNothing
      BY <1>0, <3>2 DEF VerifyNothing, Verb
    <3>3. PICK v \in BOOLEAN : VerifySecond \/ MigratorEnds =>
            migrator' = [pc |-> "idle", read |-> 0, verified |-> v]
      BY DEF VerifySecond, MigratorEnds, Verdict
    <3>4. CASE VerifySecond \/ MigratorEnds
      BY <3>3, <3>4
    <3> QED
      BY <1>3, <3>1, <3>2, <3>4
  <2> QED
    BY <1>h, <1>3, <2>2 DEF VerifyFirst, VerifySecond, VerifyNothing, MigratorEnds, TypeOK,
                      InProgress, Running
<1>4. CASE Reap
  <2>1. /\ migrator' \in [pc : {"idle", "verify", "reap"}, read : Nat, verified : BOOLEAN]
        /\ marker' \in [phase : Phases, since : Nat] /\ marker'.phase = "reaped"
    BY <1>0, <1>4 DEF Reap, Phases
  <2> QED
    BY <1>h, <1>4, <2>1 DEF Reap, TypeOK, InProgress, Running, Final
<1>5. CASE ReapValue
  <2>1. counter' \in Counters
    BY <1>0, <1>5 DEF ReapValue, Counters
  <2> QED
    BY <1>h, <1>5, <2>1 DEF ReapValue, TypeOK, Counters, InProgress, Running, Final
<1>6. ASSUME NEW k \in Keys, ReapLatch(k)
      PROVE  TypeOK' /\ InProgress'
  <2>1. latch' \in [Shapes -> [Keys -> Nat]]
    BY <1>6 DEF ReapLatch, TypeOK, Never, Shapes
  <2> QED
    BY <1>h, <1>6, <2>1 DEF ReapLatch, TypeOK, InProgress, Running, Final
<1> QED
  BY <1>1, <1>2, <1>3, <1>4, <1>5, <1>6 DEF MigratorStep

LEMMA TickTypeOK ==
    ASSUME TypeOK, InProgress, Tick
    PROVE  TypeOK' /\ InProgress'
<1>h. fresh' \in BOOLEAN /\ behind' \in BOOLEAN /\ left' \subseteq Deviations
  BY HistoryTypes DEF Next
<1>1. now' \in Nat \ {0}
  BY DEF Tick, TypeOK
<1>2. latch' \in [Shapes -> [Keys -> Nat]]
  BY DEF Tick, TypeOK, Never
<1>3. charged' \in [Keys -> [at : Nat, times : Nat]]
  BY DEF Tick, TypeOK, NotCharged, Never
<1> QED
  BY <1>h, <1>1, <1>2, <1>3 DEF Tick, TypeOK, InProgress, Running, Final

-----------------------------------------------------------------------------
(* What a step that leaves the procedure in no way is *)

\* A write of a pod p that follows the procedure.
Script(p) ==
    /\ Settled
    /\ Only(p, 1) => ~Flipped /\ Readers(2) = {}
    /\ Only(p, 2) => Final \/ (~V1KeysExist /\ OnlyV2)

LEMMA ScriptFacts ==
    ASSUME NEW p, WriteLeaves(p) \subseteq {"late", "stale"}
    PROVE  Script(p)
<1>1. "torn" \notin WriteLeaves(p) /\ "mixed" \notin WriteLeaves(p)
  OBVIOUS
<1>2. Settled
  BY <1>1 DEF WriteLeaves, Settled
<1>3. Only(p, 1) => ~Flipped /\ Readers(2) = {}
  BY <1>1 DEF WriteLeaves, Readers
<1>4. Only(p, 2) => Final \/ (~V1KeysExist /\ OnlyV2)
  BY <1>1 DEF WriteLeaves, OnlyV2
<1> QED
  BY <1>2, <1>3, <1>4 DEF Script

\* The three shapes of a writer.
LEMMA WriterShapes ==
    ASSUME TypeOK, NEW p \in Running
    PROVE  /\ ks[p].dual \/ Only(p, 1) \/ Only(p, 2)
           /\ ks[p].dual => Written(ks[p]) = {1, 2} /\ ~Only(p, 1) /\ ~Only(p, 2)
           /\ Only(p, 1) => ~ks[p].dual /\ Written(ks[p]) = {1} /\ ks[p].version = 1
           /\ Only(p, 2) => ~ks[p].dual /\ Written(ks[p]) = {2} /\ p \in Readers(2)
<1>1. /\ ks[p] \in Keyspaces /\ ks[p].version \in {1, 2} /\ ks[p].dual \in BOOLEAN
      /\ p \in Readers(ks[p].version)
  BY RunningKeyspace DEF Shapes
<1>2. Written(ks[p]) = IF ks[p].dual THEN {1, 2} ELSE {ks[p].version}
  BY DEF Written, Shapes
<1> QED
  BY <1>1, <1>2 DEF Only

\* What a pod's write makes of the two keys: f of the value, on the shapes it writes.
Wrote2(p, f) ==
    /\ \A s \in Shapes : counter'[s] =
           IF s \in Written(ks[p]) THEN f[Value(Seeded(counter, ks[p]), s)]
           ELSE Seeded(counter, ks[p])[s]
    /\ level' = f[level] /\ counter' \in Counters
    /\ UNCHANGED <<ks, marker, migrator, force>>

\* The keys after such a write, for each shape of the writer.
LEMMA WrittenValues ==
    ASSUME TypeOK, NEW p \in Running, NEW f \in [Nat -> Nat], Wrote2(p, f)
    PROVE  /\ level \in Nat /\ level' \in Nat /\ level' # Absent
           /\ counter[1] \in Nat \cup {Absent} /\ counter[2] \in Nat \cup {Absent}
           /\ counter'[1] # Absent => counter'[1] \in Nat
           /\ ks[p].dual =>
                 /\ counter'[1] = f[Value(counter, 1)] /\ counter'[1] # Absent
                 /\ counter'[2] = IF counter[2] = Absent THEN f[Value(counter, 1)] ELSE f[counter[2]]
                 /\ counter'[2] # Absent
           /\ Only(p, 1) =>
                 counter'[1] = f[Value(counter, 1)] /\ counter'[1] # Absent /\ counter'[2] = counter[2]
           /\ Only(p, 2) =>
                 counter'[2] = f[Value(counter, 2)] /\ counter'[2] # Absent /\ counter'[1] = counter[1]
<1>0. counter \in Counters /\ level \in Nat /\ level' = f[level] /\ counter' \in Counters
  BY DEF TypeOK, Counters, Wrote2
<1> DEFINE sc == Seeded(counter, ks[p])
<1>1. /\ sc \in Counters /\ sc[1] = counter[1]
      /\ sc[2] = IF ks[p].dual /\ counter[2] = Absent THEN counter[1] ELSE counter[2]
  BY <1>0, SeededValues
<1>2. \A s \in Shapes : counter'[s] = IF s \in Written(ks[p]) THEN f[Value(sc, s)] ELSE sc[s]
  BY DEF Wrote2
<1> HIDE DEF sc
<1>3. 1 \in Shapes /\ 2 \in Shapes
  BY DEF Shapes
<1>4. /\ Value(sc, 1) \in Nat /\ Value(sc, 2) \in Nat
      /\ Value(counter, 1) \in Nat /\ Value(counter, 2) \in Nat
      /\ counter[2] # Absent => Value(counter, 2) = counter[2]
  BY <1>0, <1>1, <1>3, ValueType
<1>5. /\ Value(sc, 1) = Value(counter, 1)
      /\ ~ks[p].dual => Value(sc, 2) = Value(counter, 2)
      /\ ks[p].dual => Value(sc, 2) = IF counter[2] = Absent THEN Value(counter, 1) ELSE counter[2]
  BY <1>1 DEF Value
<1>6. \A n \in Nat : f[n] \in Nat /\ f[n] # Absent
  BY AbsentIsNoNat
<1>7. /\ level' \in Nat /\ level' # Absent
      /\ counter[1] \in Nat \cup {Absent} /\ counter[2] \in Nat \cup {Absent}
      /\ counter'[1] # Absent => counter'[1] \in Nat
  BY <1>0, <1>3, <1>6 DEF Counters
<1>8. CASE ks[p].dual
  <2>1. 1 \in Written(ks[p]) /\ 2 \in Written(ks[p]) /\ ~Only(p, 1) /\ ~Only(p, 2)
    BY <1>8, WriterShapes
  <2>2. counter'[1] = f[Value(sc, 1)] /\ counter'[2] = f[Value(sc, 2)]
    BY <1>2, <1>3, <2>1
  <2> QED
    BY <1>0, <1>4, <1>5, <1>6, <1>7, <1>8, <2>1, <2>2
<1>9. CASE Only(p, 1)
  <2>1. 1 \in Written(ks[p]) /\ 2 \notin Written(ks[p]) /\ ~ks[p].dual /\ ~Only(p, 2)
    BY <1>9, WriterShapes DEF Only
  <2>2. counter'[1] = f[Value(sc, 1)] /\ counter'[2] = sc[2]
    BY <1>2, <1>3, <2>1
  <2> QED
    BY <1>0, <1>1, <1>4, <1>5, <1>6, <1>7, <2>1, <2>2
<1>10. CASE Only(p, 2)
  <2>1. 2 \in Written(ks[p]) /\ 1 \notin Written(ks[p]) /\ ~ks[p].dual /\ ~Only(p, 1)
    BY <1>10, WriterShapes DEF Only
  <2>2. counter'[2] = f[Value(sc, 2)] /\ counter'[1] = sc[1]
    BY <1>2, <1>3, <2>1
  <2> QED
    BY <1>0, <1>1, <1>4, <1>5, <1>6, <1>7, <2>1, <2>2
<1> QED
  BY <1>8, <1>9, <1>10, WriterShapes

\* The pods' shapes follow their keyspaces alone.
LEMMA FleetFrame ==
    ASSUME UNCHANGED <<ks, marker, force>>
    PROVE  /\ Readers(1)' = Readers(1) /\ Readers(2)' = Readers(2) /\ Single(2)' = Single(2)
           /\ OnlyV2' = OnlyV2 /\ Final' = Final /\ Flipped' = Flipped /\ Settled' = Settled
BY DEF Readers, Single, Running, OnlyV2, Only, Written, Final, Flipped, Settled

-----------------------------------------------------------------------------
(* The fleet *)

LEMMA WriteEra ==
    ASSUME TypeOK, Era, NEW p \in Running, Script(p), NEW f \in [Nat -> Nat], Wrote2(p, f)
    PROVE  Era' /\ (Alone2 /\ OnlyV2 => Alone2')
<1>1. /\ Readers(1)' = Readers(1) /\ OnlyV2' = OnlyV2 /\ Final' = Final /\ Settled' = Settled
      /\ Settled /\ UNCHANGED force
  BY FleetFrame DEF Wrote2, Script
<1>2. HalfSet'
  BY <1>1 DEF HalfSet, Settled
<1>3. (ks[p].dual \/ Only(p, 1)) => counter'[1] # Absent
  BY WrittenValues
<1>4. Only(p, 2) => counter'[2] # Absent /\ counter'[1] = counter[1] /\ (Final \/ OnlyV2)
  BY WrittenValues DEF Script
<1>5. ks[p].dual \/ Only(p, 1) \/ Only(p, 2)
  BY WriterShapes
<1>6. (Alone2' /\ ~Final) => OnlyV2
  BY <1>3, <1>4, <1>5 DEF Alone2
<1>7. OnlyV2 => Only(p, 2)
  BY DEF OnlyV2
<1>8. (Alone2 /\ OnlyV2) => Alone2'
  BY <1>4, <1>7 DEF Alone2
<1> QED
  BY <1>1, <1>2, <1>6, <1>8 DEF Era

\* Seeding the twin, by a pod or by backfill.
Seeds ==
    /\ counter'[1] = counter[1]
    /\ counter'[2] = counter[2] \/ (counter[2] = Absent /\ counter'[2] = counter[1])
    /\ UNCHANGED <<ks, marker, force, level>>

LEMMA SeedEra ==
    ASSUME TypeOK, InProgress, Era, Seeds
    PROVE  Era' /\ Alone2' = Alone2
<1>1. /\ Readers(1)' = Readers(1) /\ OnlyV2' = OnlyV2 /\ Final' = Final /\ Settled' = Settled
      /\ UNCHANGED <<ks, force, level>>
  BY FleetFrame DEF Seeds
<1>2. Alone2' = Alone2
  BY DEF Seeds, Alone2
<1>3. HalfSet'
  <2> SUFFICES ASSUME NEW q \in Pods, force[q] # Absent
               PROVE  counter'[ks[q].version] = level
    BY <1>1 DEF HalfSet, Era
  <2>1. counter[ks[q].version] = level /\ ks[q].version \in {1, 2} /\ level # Absent
    BY RunningKeyspace, AbsentIsNoNat DEF Era, HalfSet, InProgress, Shapes, TypeOK
  <2> QED
    BY <2>1 DEF Seeds
<1> QED
  BY <1>1, <1>2, <1>3 DEF Era

LEMMA ForceSetEra ==
    ASSUME TypeOK, Era, NEW p \in Running, NEW t \in Nat, ForceSet(p, t), ks[p].dual, Script(p)
    PROVE  Era' /\ ~Settled' /\ ~OnlyV2
<1>1. /\ ks[p].version \in Shapes /\ p \in Pods /\ t # Absent /\ Settled
      /\ counter \in Counters /\ force \in [Pods -> Nat \cup {Absent}]
  BY RunningKeyspace, AbsentIsNoNat DEF TypeOK, Counters, Script
<1>2. /\ counter'[ks[p].version] = t /\ level' = t /\ UNCHANGED <<ks, marker>>
      /\ \A q \in Pods : force'[q] = IF q = p THEN t ELSE Absent
  BY <1>1 DEF ForceSet, Settled, Counters
<1>3. ~Settled' /\ HalfSet'
  BY <1>1, <1>2 DEF Settled, HalfSet
<1>4. Readers(1)' = Readers(1) /\ Final' = Final
  BY <1>2 DEF Readers, Running, Final
<1>5. ~OnlyV2
  BY WriterShapes DEF OnlyV2
<1> QED
  BY <1>3, <1>4, <1>5 DEF Era

LEMMA ForceSetTwinEra ==
    ASSUME TypeOK, InProgress, Era, NEW p \in Pods, ForceSetTwin(p)
    PROVE  /\ Era' /\ counter'[1] = level' /\ counter'[2] = level' /\ level' # Absent
           /\ ~OnlyV2
<1>0. /\ counter \in Counters /\ level \in Nat /\ p \in Running /\ ks[p].dual
      /\ force \in [Pods -> Nat \cup {Absent}] /\ force[p] # Absent
  BY DEF TypeOK, Counters, ForceSetTwin, InProgress
<1>1. /\ force[p] = level /\ counter[ks[p].version] = level
      /\ \A q \in Pods \ {p} : force[q] = Absent
  BY <1>0 DEF Era, HalfSet
<1>2. ks[p] \in Keyspaces /\ ks[p].version \in {1, 2}
  BY <1>0, RunningKeyspace DEF Shapes
<1>3. SecondaryVersion(ks[p].version) = IF ks[p].version = 1 THEN 2 ELSE 1
  BY <1>2, WrittenShapes
<1>4. counter'[1] = level /\ counter'[2] = level
  BY <1>0, <1>1, <1>2, <1>3 DEF ForceSetTwin, Counters, Shapes
<1>5. Settled' /\ HalfSet'
  BY <1>0, <1>1 DEF ForceSetTwin, Settled, HalfSet
<1>6. UNCHANGED <<ks, marker, level>> /\ level # Absent
  BY <1>0, AbsentIsNoNat DEF ForceSetTwin
<1>7. Readers(1)' = Readers(1) /\ Final' = Final /\ ~Alone2'
  BY <1>4, <1>6 DEF Readers, Running, Final, Alone2
<1>8. ~OnlyV2
  BY <1>0, WriterShapes DEF OnlyV2
<1> QED
  BY <1>4, <1>5, <1>6, <1>7, <1>8 DEF Era

\* A pod fewer reads and writes no shape more.
LEMMA StopFleet ==
    ASSUME TypeOK, NEW p \in Pods, Stop(p), force[p] = Absent
    PROVE  /\ Readers(1)' \subseteq Readers(1) /\ Readers(2)' \subseteq Readers(2)
           /\ Single(2)' \subseteq Single(2) /\ (OnlyV2 => OnlyV2') /\ Settled' = Settled
           /\ \A q \in Pods : force'[q] = force[q] /\ (force[q] # Absent => ks'[q] = ks[q])
           /\ UNCHANGED <<counter, marker, migrator, level, latch, charged, now, fresh, behind>>
<1>1. /\ \A q \in Pods : ks'[q] = IF q = p THEN Down ELSE ks[q]
      /\ \A q \in Pods : force'[q] = force[q]
      /\ UNCHANGED <<counter, marker, migrator, level, latch, charged, now, fresh, behind>>
  BY DEF Stop, TypeOK
<1>2. Readers(1)' \subseteq Readers(1) /\ Readers(2)' \subseteq Readers(2) /\ Single(2)' \subseteq Single(2)
  BY <1>1 DEF Readers, Single, Running
<1>3. OnlyV2 => OnlyV2'
  <2> SUFFICES ASSUME OnlyV2, NEW q \in Running' PROVE Only(q, 2)'
    BY DEF OnlyV2
  <2>1. q \in Pods /\ q \in Running /\ ks'[q] = ks[q]
    BY <1>1 DEF Running
  <2>2. Only(q, 2)
    BY <2>1 DEF OnlyV2
  <2> QED
    BY <2>1, <2>2 DEF Only, Written
<1>4. Settled' = Settled
  BY <1>1 DEF Settled
<1> QED
  BY <1>1, <1>2, <1>3, <1>4

LEMMA StopEra ==
    ASSUME TypeOK, Era, NEW p \in Pods, Stop(p), force[p] = Absent
    PROVE  Era'
<1>1. /\ Readers(1)' \subseteq Readers(1) /\ (OnlyV2 => OnlyV2') /\ Settled' = Settled
      /\ \A q \in Pods : force'[q] = force[q] /\ (force[q] # Absent => ks'[q] = ks[q])
      /\ UNCHANGED <<counter, marker, level>>
  BY StopFleet
<1>2. HalfSet'
  BY <1>1 DEF Era, HalfSet
<1>3. Final' = Final /\ Alone2' = Alone2
  BY <1>1 DEF Final, Alone2
<1> QED
  BY <1>1, <1>2, <1>3 DEF Era

\* A pod more.
LEMMA BootFleet ==
    ASSUME TypeOK, InProgress, NEW p \in Pods, NEW k \in Keyspaces, Boot(p, k),
           BootLeaves(k) \subseteq {"late", "stale"}
    PROVE  /\ k.version = 1 => ~Final /\ ~Alone2
           /\ k.version # 1 => Readers(1)' \subseteq Readers(1)
           /\ k.version = 2 => Flipped \/ ~V1KeysExist
           /\ k.version # 2 => Readers(2)' \subseteq Readers(2)
           /\ (k.version = 2 /\ ~k.dual) => Final \/ ~V1KeysExist
           /\ ~(k.version = 2 /\ ~k.dual) => Single(2)' \subseteq Single(2)
           /\ Final \/ Alone2 => (OnlyV2 => OnlyV2')
           /\ Settled' = Settled
           /\ \A q \in Pods : force'[q] = force[q] /\ (force[q] # Absent => ks'[q] = ks[q])
           /\ UNCHANGED <<counter, marker, migrator, level, latch, charged, now, fresh, behind>>
           /\ k.version \in {1, 2}
<1>1. /\ \A q \in Pods : ks'[q] = IF q = p THEN k ELSE ks[q]
      /\ UNCHANGED <<counter, marker, migrator, force, level, latch, charged, now, fresh, behind>>
      /\ CheckBootKeyspace(k)
  BY DEF Boot, TypeOK
<1>2. /\ k.version \in {1, 2} /\ k.dual \in BOOLEAN /\ k.scoped \in BOOLEAN
      /\ k.scoped \/ (k.version = 1 /\ ~k.dual)
  BY DEF Keyspaces, Shapes
<1>3. "early" \notin BootLeaves(k) /\ "back" \notin BootLeaves(k)
  OBVIOUS
<1>4. k.version = 2 => Flipped \/ ~V1KeysExist
  BY <1>3 DEF BootLeaves
<1>5. 1 \in Written(k) => ~Final /\ ~Alone2
  BY <1>3 DEF BootLeaves
<1>6. /\ Written(k) = IF k.dual THEN {1, 2} ELSE {k.version}
      /\ k.version = 1 => 1 \in Written(k)
  BY <1>2 DEF Written, Shapes
<1>7. /\ k.version # 1 => Readers(1)' \subseteq Readers(1)
      /\ k.version # 2 => Readers(2)' \subseteq Readers(2)
      /\ ~(k.version = 2 /\ ~k.dual) => Single(2)' \subseteq Single(2)
  BY <1>1 DEF Readers, Single, Running
<1>8. (k.version = 2 /\ ~k.dual) => Final \/ ~V1KeysExist
  BY <1>1, <1>2 DEF CheckBootKeyspace
<1>9. ASSUME Final \/ Alone2, OnlyV2 PROVE OnlyV2'
  <2> SUFFICES ASSUME NEW q \in Running' PROVE Only(q, 2)'
    BY DEF OnlyV2
  <2>1. CASE q = p
    <3>1. Written(k) = {2}
      BY <1>2, <1>5, <1>6, <1>9
    <3> QED
      BY <1>1, <2>1, <3>1 DEF Only, Written
  <2>2. CASE q # p
    <3>1. q \in Running /\ ks'[q] = ks[q]
      BY <1>1, <2>2 DEF Running
    <3>2. Only(q, 2)
      BY <1>9, <3>1 DEF OnlyV2
    <3> QED
      BY <3>1, <3>2 DEF Only, Written
  <2> QED
    BY <2>1, <2>2
<1>10. force[p] = Absent
  BY DEF Boot, InProgress, Running
<1>11. /\ Settled' = Settled
       /\ \A q \in Pods : force'[q] = force[q] /\ (force[q] # Absent => ks'[q] = ks[q])
  BY <1>1, <1>10 DEF Settled
<1>12. k.version = 1 => ~Final /\ ~Alone2
  BY <1>5, <1>6
<1> QED
  BY <1>1, <1>2, <1>4, <1>7, <1>8, <1>9, <1>11, <1>12

LEMMA BootEra ==
    ASSUME TypeOK, InProgress, Era, NEW p \in Pods, NEW k \in Keyspaces, Boot(p, k),
           BootLeaves(k) \subseteq {"late", "stale"}
    PROVE  Era'
<1>1. /\ k.version = 1 => ~Final
      /\ k.version # 1 => Readers(1)' \subseteq Readers(1)
      /\ Final \/ Alone2 => (OnlyV2 => OnlyV2')
      /\ Settled' = Settled
      /\ \A q \in Pods : force'[q] = force[q] /\ (force[q] # Absent => ks'[q] = ks[q])
      /\ UNCHANGED <<counter, marker, level>>
  BY BootFleet
<1>2. HalfSet'
  BY <1>1 DEF Era, HalfSet
<1>3. Final' = Final /\ Alone2' = Alone2
  BY <1>1 DEF Final, Alone2
<1> QED
  BY <1>1, <1>2, <1>3 DEF Era

-----------------------------------------------------------------------------
(* The usage *)

\* A pod that follows the procedure keeps the usage where it is read: every shape it
\* writes goes from the recorded usage to the new one, unless it is a twin left behind.
LEMMA WriteUsage ==
    ASSUME TypeOK, Era, Usage, NEW p \in Running, Script(p), NEW f \in [Nat -> Nat], Wrote2(p, f),
           Passed(p)
    PROVE  Usage'
<1>1. /\ Readers(1)' = Readers(1) /\ Readers(2)' = Readers(2) /\ OnlyV2' = OnlyV2
      /\ Final' = Final /\ Flipped' = Flipped /\ UNCHANGED migrator
      /\ level' = f[level]
  BY FleetFrame DEF Wrote2
<1>2. Settled /\ Full1 /\ Full2 /\ InStep /\ Trusted
  BY DEF Script, Usage
<1>3. /\ level \in Nat /\ level' \in Nat /\ level' # Absent
      /\ counter[1] \in Nat \cup {Absent} /\ counter[2] \in Nat \cup {Absent}
  BY WrittenValues
<1>4. Final => Flipped
  BY DEF Final, Flipped
<1>5. counter'[1] # Absent => Value(counter, 1)' = counter'[1]
  BY DEF Value
<1>v. /\ Value(counter, 1) = IF counter[1] = Absent THEN 0 ELSE counter[1]
      /\ Value(counter, 2) = IF counter[2] = Absent THEN 0 ELSE counter[2]
  BY DEF Value
<1>6. CASE ks[p].dual
  <2>1. /\ counter'[1] = f[Value(counter, 1)] /\ counter'[1] # Absent
        /\ counter'[2] = IF counter[2] = Absent THEN f[Value(counter, 1)] ELSE f[counter[2]]
        /\ counter'[2] # Absent
    BY <1>6, WrittenValues
  <2>2. ~OnlyV2 /\ fresh' = fresh /\ behind' = behind
    BY <1>6, WriterShapes DEF OnlyV2, Passed, TypeOK
  <2>3. ~Alone2' /\ (~Final => ~Alone2)
    BY <1>2, <2>1, <2>2 DEF Alone2, Era
  <2>4. Full1'
    BY <1>1, <1>2, <1>5, <2>1, <2>3 DEF Full1
  <2>5. Full2'
    <3> SUFFICES ASSUME Flipped \/ Readers(2) # {} PROVE counter'[2] = level'
      BY <1>1, <2>3 DEF Full2
    <3>1. counter[2] = level \/ (counter[1] = Absent /\ counter[2] = Absent /\ level = 0)
      BY <1>2 DEF Full2
    <3> QED
      BY <1>1, <1>3, <1>v, <2>1, <3>1, AbsentIsNoNat
  <2>6. InStep'
    <3> SUFFICES ASSUME ~behind PROVE counter'[2] = level'
      BY <2>2 DEF InStep
    <3>1. CASE counter[2] # Absent
      BY <1>1, <1>2, <2>1, <3>1 DEF InStep
    <3>2. CASE counter[2] = Absent
      <4>1. CASE Final
        BY <1>1, <1>2, <1>3, <1>4, <1>v, <2>1, <3>2, <4>1, AbsentIsNoNat DEF Full2
      <4>2. CASE ~Final
        BY <1>1, <1>2, <2>1, <2>3, <3>2, <4>2 DEF Full1
      <4> QED
        BY <4>1, <4>2
    <3> QED
      BY <3>1, <3>2
  <2>7. Trusted'
    <3> SUFFICES ASSUME migrator.verified, fresh, ~Final PROVE counter'[1] = counter'[2]
      BY <1>1, <2>2 DEF Trusted
    <3>1. counter[1] = counter[2]
      BY <1>2, <2>3 DEF Trusted
    <3> QED
      BY <1>v, <2>1, <3>1
  <2> QED
    BY <2>4, <2>5, <2>6, <2>7 DEF Usage
<1>7. CASE Only(p, 1)
  <2>1. counter'[1] = f[Value(counter, 1)] /\ counter'[1] # Absent /\ counter'[2] = counter[2]
    BY <1>7, WrittenValues
  <2>2. ~Flipped /\ Readers(2) = {} /\ ~Final
    BY <1>4, <1>7 DEF Script
  <2>3. ~OnlyV2 /\ ~fresh' /\ (counter[2] # Absent => behind')
    <3>1. ~OnlyV2
      BY <1>7, WriterShapes DEF OnlyV2, Only
    <3>2. ~fresh' /\ (counter[2] # Absent => behind')
      BY <1>7, Zenon DEF Passed
    <3> QED
      BY <3>1, <3>2
  <2>4. ~Alone2' /\ ~Alone2
    BY <1>2, <2>1, <2>2, <2>3 DEF Alone2, Era
  <2>5. Full1'
    BY <1>1, <1>2, <1>5, <2>1, <2>2, <2>4 DEF Full1
  <2>6. Full2'
    BY <1>1, <2>2, <2>4 DEF Full2
  <2>7. InStep' /\ Trusted'
    BY <2>1, <2>3 DEF InStep, Trusted
  <2> QED
    BY <2>5, <2>6, <2>7 DEF Usage
<1>8. CASE Only(p, 2)
  <2>1. counter'[2] = f[Value(counter, 2)] /\ counter'[2] # Absent /\ counter'[1] = counter[1]
    BY <1>8, WrittenValues
  <2>2. Readers(2) # {} /\ (Final \/ counter[1] = Absent)
    BY <1>8, WriterShapes DEF Script, V1KeysExist
  <2>3. counter[2] = level \/ (counter[1] = Absent /\ counter[2] = Absent /\ level = 0)
    BY <1>2, <2>2 DEF Full2
  <2>4. counter'[2] = level'
    BY <1>1, <1>3, <1>v, <2>1, <2>3, AbsentIsNoNat
  <2>5. Final \/ Alone2'
    BY <2>1, <2>2 DEF Alone2
  <2> QED
    BY <1>1, <2>4, <2>5 DEF Usage, Full1, Full2, InStep, Trusted
<1> QED
  BY <1>6, <1>7, <1>8, WriterShapes

\* Seeding the twin copies the usage v1 holds.
LEMMA SeedUsage ==
    ASSUME TypeOK, Usage, Seeds, UNCHANGED <<migrator, fresh, behind>>
    PROVE  Usage'
<1> SUFFICES ASSUME Settled' PROVE Full1' /\ Full2' /\ InStep' /\ Trusted'
  BY DEF Usage
<1>1. /\ Readers(2)' = Readers(2) /\ Final' = Final /\ Flipped' = Flipped /\ Settled' = Settled
      /\ UNCHANGED <<ks, force, level>> /\ counter'[1] = counter[1]
      /\ counter'[2] = counter[2] \/ (counter[2] = Absent /\ counter'[2] = counter[1])
  BY FleetFrame DEF Seeds
<1>2. Full1 /\ Full2 /\ InStep /\ Trusted /\ level # Absent
  BY <1>1, AbsentIsNoNat DEF Usage, TypeOK
<1>3. Alone2' = Alone2 /\ Value(counter, 1)' = Value(counter, 1)
  BY <1>1 DEF Alone2, Value
<1>4. Full1'
  BY <1>1, <1>2, <1>3 DEF Full1
<1>5. Full2'
  BY <1>1, <1>2, <1>3 DEF Full2
<1>6. InStep'
  <2>1. CASE counter'[2] = counter[2]
    BY <1>1, <1>2, <2>1 DEF InStep
  <2>2. CASE counter[2] = Absent /\ counter'[2] = counter[1] /\ counter[1] # Absent
    <3>1. ~Alone2 /\ ~Final
      BY <1>2, <2>2 DEF Alone2, Full2, Flipped, Final
    <3> QED
      BY <1>1, <1>2, <2>2, <3>1 DEF Full1, InStep, Value
  <2> QED
    BY <1>1, <2>1, <2>2
<1>7. Trusted'
  BY <1>1, <1>2, <1>3 DEF Trusted
<1> QED
  BY <1>4, <1>5, <1>6, <1>7

LEMMA BothFull ==
    ASSUME counter'[1] = level', counter'[2] = level', level' # Absent
    PROVE  Usage'
BY DEF Usage, Full1, Full2, InStep, Trusted, Alone2, Value

LEMMA StopUsage ==
    ASSUME TypeOK, Usage, NEW p \in Pods, Stop(p), force[p] = Absent
    PROVE  Usage'
<1>1. /\ Readers(2)' \subseteq Readers(2) /\ Settled' = Settled
      /\ UNCHANGED <<counter, marker, migrator, level, fresh, behind>>
  BY StopFleet
<1>2. /\ Final' = Final /\ Flipped' = Flipped /\ Alone2' = Alone2
      /\ Value(counter, 1)' = Value(counter, 1)
  BY <1>1 DEF Final, Flipped, Alone2, Value
<1> QED
  BY <1>1, <1>2 DEF Usage, Full1, Full2, InStep, Trusted

\* The boot guards, and the procedure, keep out a pod that would read less than the usage.
LEMMA BootUsage ==
    ASSUME TypeOK, InProgress, Usage, NEW p \in Pods, NEW k \in Keyspaces, Boot(p, k),
           BootLeaves(k) \subseteq {"late", "stale"}
    PROVE  Usage'
<1>1. /\ k.version = 2 => Flipped \/ ~V1KeysExist
      /\ k.version # 2 => Readers(2)' \subseteq Readers(2)
      /\ Settled' = Settled
      /\ UNCHANGED <<counter, marker, migrator, level, fresh, behind>>
  BY BootFleet
<1>2. /\ Final' = Final /\ Flipped' = Flipped /\ Alone2' = Alone2
      /\ Value(counter, 1)' = Value(counter, 1)
  BY <1>1 DEF Final, Flipped, Alone2, Value
<1> SUFFICES ASSUME Settled PROVE Full1' /\ Full2' /\ InStep' /\ Trusted'
  BY <1>1 DEF Usage
<1>3. Full1 /\ Full2 /\ InStep /\ Trusted
  BY DEF Usage
<1>4. Full1' /\ InStep' /\ Trusted'
  BY <1>1, <1>2, <1>3 DEF Full1, InStep, Trusted
<1>5. CASE k.version # 2
  BY <1>1, <1>2, <1>3, <1>4, <1>5 DEF Full2
<1>6. CASE k.version = 2 /\ (Flipped \/ Alone2)
  BY <1>1, <1>2, <1>3, <1>4, <1>6 DEF Full2
<1>7. CASE k.version = 2 /\ ~Flipped /\ ~Alone2
  <2>1. counter[1] = Absent /\ counter[2] = Absent /\ ~Final
    BY <1>1, <1>7 DEF V1KeysExist, Alone2, Flipped, Final
  <2>2. level = 0
    BY <1>3, <1>7, <2>1 DEF Full1, Value
  <2> QED
    BY <1>1, <1>4, <2>1, <2>2 DEF Full2
<1> QED
  BY <1>5, <1>6, <1>7

-----------------------------------------------------------------------------
(* The latches *)

LEMMA LatchFrame ==
    ASSUME Latches, UNCHANGED <<latch, charged, now, marker>>, Single(2)' \subseteq Single(2),
           Alone2 /\ OnlyV2 => Alone2' /\ OnlyV2'
    PROVE  Latches'
<1> SUFFICES ASSUME NEW k \in Keys PROVE LatchOK(k)'
  BY DEF Latches
<1>1. LatchOK(k) /\ Final' = Final
  BY DEF Latches, Final
<1>2. \A s \in Shapes : Live(s, k)' = Live(s, k)
  BY DEF Live
<1>3. Live(1, k)' = Live(1, k) /\ Live(2, k)' = Live(2, k)
  BY <1>2 DEF Shapes
<1> QED
  BY <1>1, <1>2, <1>3 DEF LatchOK

\* A pod charges a key only when no latch of an earlier charge is left: it would
\* have met that latch on a shape it writes.
LEMMA ChargeLatches ==
    ASSUME TypeOK, Era, Latches, NEW p \in Running, NEW k \in Keys, Script(p), Wrote2(p, Incr),
           ~IdemDup(p, k), ~(Only(p, 1) /\ marker.phase = "dual"), now' = now,
           latch' = [s \in Shapes |-> IF s \in Written(ks[p])
                                      THEN [latch[s] EXCEPT ![k] = now + LatchTTL]
                                      ELSE latch[s]],
           charged' = [charged EXCEPT ![k] = [at |-> now, times |-> charged[k].times + 1]]
    PROVE  Latches'
<1>1. now \in Nat /\ LatchTTL \in Nat /\ LatchTTL > 0 /\ now # 0 /\ charged[k].times \in Nat
      /\ charged[k].at \in Nat
  BY BoundsAreNaturals DEF TypeOK
<1>i. Incr \in [Nat -> Nat]
  BY DEF Incr
<1>2. /\ Single(2)' = Single(2) /\ OnlyV2' = OnlyV2 /\ Final' = Final /\ marker' = marker
      /\ (Alone2 /\ OnlyV2 => Alone2')
  BY <1>i, FleetFrame, WriteEra DEF Wrote2
<1>3. /\ ks[p].dual \/ Only(p, 1) \/ Only(p, 2)
      /\ ks[p].dual => 1 \in Written(ks[p]) /\ 2 \in Written(ks[p])
      /\ Only(p, 1) => Written(ks[p]) = {1} /\ p \in Readers(1)
      /\ Only(p, 2) => Written(ks[p]) = {2} /\ p \in Single(2)
      /\ OnlyV2 => Only(p, 2)
  <2>1. Only(p, 1) => p \in Readers(1)
    BY WriterShapes DEF Readers
  <2>2. Only(p, 2) => p \in Single(2)
    BY WriterShapes DEF Single
  <2> QED
    BY <2>1, <2>2, WriterShapes DEF OnlyV2
<1>4. \A s \in Written(ks[p]) : ~Live(s, k)
  BY DEF IdemDup
<1>5. LatchOK(k)
  BY DEF Latches
<1>6. charged[k].times = 0
  <2> SUFFICES ASSUME charged[k].times > 0 PROVE FALSE
    BY <1>1
  <2>1. CASE ks[p].dual
    BY <1>3, <1>4, <1>5, <2>1 DEF LatchOK
  <2>2. CASE Only(p, 1)
    <3>1. ~Live(1, k) /\ ~OnlyV2 /\ Readers(1) # {}
      BY <1>3, <1>4, <2>2 DEF Only
    <3> QED
      BY <1>5, <3>1 DEF LatchOK, Era
  <2>3. CASE Only(p, 2)
    <3>1. ~Live(2, k) /\ Single(2) # {}
      BY <1>3, <1>4, <2>3
    <3> QED
      BY <1>5, <3>1 DEF LatchOK
  <2> QED
    BY <1>3, <2>1, <2>2, <2>3
<1>7. \A s \in Shapes : ~Live(s, k)
  BY <1>5, <1>6 DEF LatchOK
<1>8. ASSUME NEW j \in Keys, j # k
      PROVE  LatchOK(j)'
  <2>1. charged'[j] = charged[j] /\ \A s \in Shapes : latch'[s][j] = latch[s][j]
    BY <1>8 DEF TypeOK
  <2>2. LatchOK(j)
    BY DEF Latches
  <2>3. /\ \A s \in Shapes : Live(s, j)' = Live(s, j)
        /\ Live(1, j)' = Live(1, j) /\ Live(2, j)' = Live(2, j)
    BY <2>1 DEF Live, Shapes
  <2> QED
    BY <1>2, <2>1, <2>2, <2>3 DEF LatchOK
<1>9. LatchOK(k)'
  <2>1. charged'[k].at = now /\ charged'[k].times = 1
    BY <1>1, <1>6 DEF TypeOK
  <2>2. \A s \in Shapes : latch'[s][k] = IF s \in Written(ks[p]) THEN now + LatchTTL ELSE latch[s][k]
    BY DEF TypeOK
  <2>3. \A s \in Shapes : Live(s, k)' <=> s \in Written(ks[p])
    BY <1>1, <1>7, <2>2 DEF Live, Never
  <2>4. (Live(1, k)' <=> 1 \in Written(ks[p])) /\ (Live(2, k)' <=> 2 \in Written(ks[p]))
    BY <2>3 DEF Shapes
  <2>5. now < now + LatchTTL
    BY <1>1
  <2>6. \A s \in Shapes : Live(s, k)' => latch'[s][k] = now + LatchTTL
    BY <2>2, <2>3
  <2>7. ~Live(1, k)' => Final \/ (Alone2' /\ OnlyV2)
    <3> SUFFICES ASSUME Only(p, 2), ~Final PROVE Alone2' /\ OnlyV2
      BY <1>3, <2>4
    <3>1. counter[1] = Absent /\ OnlyV2
      BY DEF Script, V1KeysExist
    <3>2. counter'[2] # Absent /\ counter'[1] = counter[1]
      BY <1>i, WrittenValues
    <3> QED
      BY <3>1, <3>2 DEF Alone2
  <2>8. ~Live(2, k)' => marker.phase = "none" /\ Single(2) = {}
    <3> SUFFICES ASSUME Only(p, 1) PROVE marker.phase = "none" /\ Single(2) = {}
      BY <1>3, <2>4
    <3>1. Readers(2) = {} /\ marker.phase \notin {"dual", "flipped", "reaped"}
      BY DEF Script, Flipped
    <3> QED
      BY <3>1 DEF Single, TypeOK, Phases
  <2>9. Live(1, k)' \/ Live(2, k)'
    BY <1>3, <2>4
  <2> QED
    BY <1>1, <1>2, <2>1, <2>5, <2>6, <2>7, <2>8, <2>9 DEF LatchOK
<1> QED
  BY <1>8, <1>9 DEF Latches

\* The boot guards, and the procedure, keep out a pod that would not see the latch of a
\* charge: v2 alone waits for the v1 latches, and v1 does not come back after v2.
LEMMA BootLatches ==
    ASSUME TypeOK, InProgress, Latches, NEW p \in Pods, NEW k \in Keyspaces, Boot(p, k),
           BootLeaves(k) \subseteq {"late", "stale"}
    PROVE  Latches'
<1> SUFFICES ASSUME NEW j \in Keys PROVE LatchOK(j)'
  BY DEF Latches
<1>0. LatchOK(j)
  BY DEF Latches
<1>1. /\ (k.version = 2 /\ ~k.dual) => Final \/ ~V1KeysExist
      /\ ~(k.version = 2 /\ ~k.dual) => Single(2)' \subseteq Single(2)
      /\ Final \/ Alone2 => (OnlyV2 => OnlyV2')
      /\ UNCHANGED <<counter, latch, marker, now, charged>>
  BY BootFleet
<1>2. Alone2' = Alone2 /\ Final' = Final
  BY <1>1 DEF Alone2, Final
<1>3. /\ \A s \in Shapes : Live(s, j)' = Live(s, j)
      /\ Live(1, j)' = Live(1, j) /\ Live(2, j)' = Live(2, j)
  BY <1>1 DEF Live
<1>4. (charged[j].times > 0 /\ ~Live(2, j)) => Single(2)' = {}
  <2> SUFFICES ASSUME charged[j].times > 0, ~Live(2, j) PROVE Single(2)' = {}
    OBVIOUS
  <2>1. Live(1, j) /\ Single(2) = {} /\ ~Final
    BY <1>0 DEF LatchOK, Final
  <2>2. ~(k.version = 2 /\ ~k.dual)
    BY <1>1, <2>1 DEF V1KeysExist
  <2> QED
    BY <1>1, <2>1, <2>2
<1> QED
  BY <1>0, <1>1, <1>2, <1>3, <1>4 DEF LatchOK

-----------------------------------------------------------------------------
(* Steps of the pods *)

\* What a step keeps, as long as the fleet has left the procedure in no way that breaks it.
Keeps ==
    /\ left' \subseteq {"late", "stale"} => Era'
    /\ left' \subseteq {"late"} => Usage'
    /\ left' \subseteq {"stale"} => Latches'

LEMMA WriteKeeps ==
    ASSUME KInv, NEW p \in Running, NEW f \in [Nat -> Nat], Wrote2(p, f), Wrote(p),
           UNCHANGED <<latch, charged, now>>
    PROVE  Keeps
<1>1. TypeOK /\ left' = left \cup WriteLeaves(p) /\ Passed(p)
  BY DEF KInv, Wrote
<1>2. SUFFICES ASSUME left' \subseteq {"late", "stale"} PROVE Keeps
  BY DEF Keeps
<1>3. Era /\ Script(p)
  BY <1>1, <1>2, ScriptFacts DEF KInv
<1>4. Era' /\ (Alone2 /\ OnlyV2 => Alone2')
  BY <1>1, <1>3, WriteEra
<1>5. left' \subseteq {"late"} => Usage'
  BY <1>1, <1>3, WriteUsage DEF KInv
<1>6. marker' = marker /\ Single(2)' = Single(2) /\ OnlyV2' = OnlyV2
  BY FleetFrame DEF Wrote2
<1>7. left' \subseteq {"stale"} => Latches'
  BY <1>1, <1>4, <1>6, LatchFrame DEF KInv
<1> QED
  BY <1>4, <1>5, <1>7 DEF Keeps

LEMMA AcquireKeeps ==
    ASSUME KInv, NEW p \in Pods, NEW k \in Keys, Acquire(p, k)
    PROVE  Keeps
<1>0. /\ TypeOK /\ InProgress /\ counter \in Counters /\ level \in Nat /\ p \in Running
      /\ UNCHANGED <<ks, marker, migrator, force, now>>
  BY DEF KInv, TypeOK, Counters, Acquire
<1> DEFINE sc == Seeded(counter, ks[p])
<1>1. sc \in Counters /\ sc[1] = counter[1]
      /\ (sc[2] = counter[2] \/ (counter[2] = Absent /\ sc[2] = counter[1]))
  BY <1>0, SeededValues
<1>2. CASE /\ counter' = sc /\ level' = level
           /\ UNCHANGED <<latch, charged, fresh, behind, left>>
  <2>1. Seeds
    <3> HIDE DEF sc
    <3> QED
      BY <1>0, <1>1, <1>2 DEF Seeds
  <2>2. left' = left /\ marker' = marker /\ Single(2)' = Single(2) /\ OnlyV2' = OnlyV2
    BY <1>0, <1>2, FleetFrame
  <2>3. left \subseteq {"late", "stale"} => Era' /\ Alone2' = Alone2
    BY <1>0, <2>1, SeedEra DEF KInv
  <2>4. left \subseteq {"late"} => Usage'
    BY <1>0, <1>2, <2>1, SeedUsage DEF KInv
  <2>5. left \subseteq {"stale"} => Latches'
    BY <1>0, <1>2, <2>2, <2>3, LatchFrame DEF KInv
  <2> QED
    BY <2>2, <2>3, <2>4, <2>5 DEF Keeps
<1>3. CASE /\ counter' = IncrBoth(sc, ks[p], 1) /\ level' = level + 1 /\ ~IdemDup(p, k)
           /\ Passed(p)
           /\ left' = left \cup WriteLeaves(p)
                           \cup {d \in {"late"} : Only(p, 1) /\ marker.phase = "dual"}
           /\ latch' = [s \in Shapes |-> IF s \in Written(ks[p])
                                          THEN [latch[s] EXCEPT ![k] = now + LatchTTL]
                                          ELSE latch[s]]
           /\ charged' = [charged EXCEPT ![k] = [at |-> now, times |-> charged[k].times + 1]]
  <2>1. Incr \in [Nat -> Nat] /\ Wrote2(p, Incr)
    <3>1. level' = Incr[level]
      BY <1>0, <1>3 DEF Incr
    <3>2. /\ Incr \in [Nat -> Nat] /\ counter' \in Counters
          /\ \A s \in Shapes : counter'[s] = IF s \in Written(ks[p]) THEN Incr[Value(sc, s)] ELSE sc[s]
      <4> HIDE DEF sc
      <4> QED
        BY <1>1, <1>3, IncrValues
    <3> QED
      BY <1>0, <3>1, <3>2 DEF Wrote2
  <2> SUFFICES ASSUME left' \subseteq {"late", "stale"} PROVE Keeps
    BY DEF Keeps
  <2>2. left \subseteq left' /\ WriteLeaves(p) \subseteq {"late", "stale"}
    BY <1>3
  <2>3. Era /\ Script(p)
    BY <2>2, ScriptFacts DEF KInv
  <2>4. Era'
    BY <1>0, <2>1, <2>3, WriteEra
  <2>5. left' \subseteq {"late"} => Usage'
    BY <1>0, <1>3, <2>1, <2>2, <2>3, WriteUsage DEF KInv
  <2>6. left' \subseteq {"stale"} => Latches'
    <3> SUFFICES ASSUME left' \subseteq {"stale"} PROVE Latches'
      OBVIOUS
    <3>1. Latches /\ "late" \notin left'
      BY <2>2 DEF KInv
    <3>2. ~(Only(p, 1) /\ marker.phase = "dual")
      BY <1>3, <3>1
    <3> QED
      BY <1>0, <1>3, <2>1, <2>3, <3>1, <3>2, ChargeLatches
  <2> QED
    BY <2>4, <2>5, <2>6 DEF Keeps
<1> QED
  BY <1>2, <1>3 DEF Acquire

LEMMA ForceSetKeeps ==
    ASSUME KInv, NEW p \in Pods, NEW t \in 0..MaxLevel, ForceSet(p, t)
    PROVE  Keeps
<1>0. /\ TypeOK /\ counter \in Counters /\ p \in Running /\ t \in Nat
      /\ Wrote(p) /\ UNCHANGED <<ks, latch, marker, migrator, now, charged>>
  BY BoundsAreNaturals DEF KInv, TypeOK, Counters, ForceSet
<1>1. CASE ks[p].dual
  <2> SUFFICES ASSUME left' \subseteq {"late", "stale"} PROVE Keeps
    BY DEF Keeps
  <2>1. left \subseteq left' /\ WriteLeaves(p) \subseteq {"late", "stale"}
    BY <1>0 DEF Wrote
  <2>2. Era /\ Script(p)
    BY <2>1, ScriptFacts DEF KInv
  <2>3. Era' /\ ~Settled' /\ ~OnlyV2
    BY <1>0, <1>1, <2>2, ForceSetEra
  <2>4. Single(2)' = Single(2)
    BY <1>0 DEF Single, Readers, Running
  <2>5. left' \subseteq {"stale"} => Latches'
    BY <1>0, <2>1, <2>3, <2>4, LatchFrame DEF KInv
  <2> QED
    BY <2>3, <2>5 DEF Keeps, Usage
<1>2. CASE ~ks[p].dual
  <2> DEFINE f == [n \in Nat |-> t]
  <2>1. /\ \A s \in Shapes : counter'[s] = IF s = ks[p].version THEN t ELSE counter[s]
        /\ level' = t /\ force' = force /\ counter' \in Counters
    <3>1. ks[p].version \in Shapes
      BY <1>0, RunningKeyspace
    <3> QED
      BY <1>0, <1>2, <3>1 DEF ForceSet, Counters
  <2>2. Seeded(counter, ks[p]) = counter /\ Written(ks[p]) = {ks[p].version}
    BY <1>2 DEF Seeded, Written
  <2>3. f \in [Nat -> Nat] /\ level' = f[level] /\ \A s \in Shapes : f[Value(counter, s)] = t
    BY <1>0, <2>1, ValueType DEF TypeOK
  <2> HIDE DEF f
  <2>4. Wrote2(p, f)
    BY <1>0, <2>1, <2>2, <2>3 DEF Wrote2
  <2> QED
    BY <1>0, <2>3, <2>4, WriteKeeps
<1> QED
  BY <1>1, <1>2

LEMMA PodKeeps ==
    ASSUME KInv, NEW p \in Pods, PodStep(p)
    PROVE  Keeps
<1>0. TypeOK /\ InProgress /\ counter \in Counters /\ level \in Nat
  BY DEF KInv, TypeOK, Counters
<1> DEFINE sc == Seeded(counter, ks[p])
<1>s. sc \in Counters
  BY <1>0, SeededValues
<1>1. CASE Spend(p)
  <2>1. p \in Running /\ Wrote(p) /\ UNCHANGED <<ks, latch, marker, migrator, force, now, charged>>
    BY <1>1 DEF Spend
  <2>2. Incr \in [Nat -> Nat] /\ counter' \in Counters /\ level' = Incr[level]
        /\ \A s \in Shapes : counter'[s] = IF s \in Written(ks[p]) THEN Incr[Value(sc, s)] ELSE sc[s]
    <3>1. counter' = IncrBoth(sc, ks[p], 1) /\ level' = level + 1
      BY <1>1 DEF Spend
    <3>2. level' = Incr[level]
      BY <1>0, <3>1 DEF Incr
    <3> HIDE DEF sc
    <3> QED
      BY <1>s, <3>1, <3>2, IncrValues
  <2>3. Wrote2(p, Incr)
    BY <2>1, <2>2 DEF Wrote2
  <2> QED
    BY <2>1, <2>2, <2>3, WriteKeeps
<1>2. CASE Release(p)
  <2>1. p \in Running /\ Wrote(p) /\ UNCHANGED <<ks, latch, marker, migrator, force, now, charged>>
    BY <1>2 DEF Release
  <2>2. Decr \in [Nat -> Nat] /\ counter' \in Counters /\ level' = Decr[level]
        /\ \A s \in Shapes : counter'[s] = IF s \in Written(ks[p]) THEN Decr[Value(sc, s)] ELSE sc[s]
    <3>1. counter' = DecrFloor(sc, ks[p]) /\ level' = IF level = 0 THEN 0 ELSE level - 1
      BY <1>2 DEF Release
    <3>2. level' = Decr[level]
      BY <1>0, <3>1 DEF Decr
    <3> HIDE DEF sc
    <3> QED
      BY <1>s, <3>1, <3>2, DecrValues
  <2>3. Wrote2(p, Decr)
    BY <2>1, <2>2 DEF Wrote2
  <2> QED
    BY <2>1, <2>2, <2>3, WriteKeeps
<1>3. ASSUME NEW k \in Keys, Acquire(p, k)
      PROVE  Keeps
  BY <1>3, AcquireKeeps
<1>4. ASSUME NEW t \in 0..MaxLevel, ForceSet(p, t)
      PROVE  Keeps
  BY <1>4, ForceSetKeeps
<1>5. CASE ForceSetTwin(p)
  <2>0. UNCHANGED <<ks, latch, marker, now, charged, left>>
    BY <1>5 DEF ForceSetTwin
  <2> SUFFICES ASSUME left \subseteq {"late", "stale"} PROVE Keeps
    BY <2>0 DEF Keeps
  <2>1. Era' /\ counter'[1] = level' /\ counter'[2] = level' /\ level' # Absent /\ ~OnlyV2
    BY <1>0, <1>5, ForceSetTwinEra DEF KInv
  <2>2. Usage'
    BY <2>1, BothFull
  <2>3. Single(2)' = Single(2)
    BY <2>0 DEF Single, Readers, Running
  <2>4. left \subseteq {"stale"} => Latches'
    BY <2>0, <2>1, <2>3, LatchFrame DEF KInv
  <2> QED
    BY <2>0, <2>1, <2>2, <2>4 DEF Keeps
<1>6. CASE ForceSetTorn(p)
  <2>1. "torn" \in left'
    BY <1>6 DEF ForceSetTorn
  <2> QED
    BY <2>1 DEF Keeps
<1>7. CASE Stop(p)
  <2> SUFFICES ASSUME left' \subseteq {"late", "stale"} PROVE Keeps
    BY DEF Keeps
  <2>1. left \subseteq left' /\ force[p] = Absent
    BY <1>7 DEF Stop
  <2>2. Era' /\ (left' \subseteq {"late"} => Usage')
    BY <1>0, <1>7, <2>1, StopEra, StopUsage DEF KInv
  <2>3. /\ Single(2)' \subseteq Single(2) /\ (OnlyV2 => OnlyV2')
        /\ UNCHANGED <<counter, marker, latch, charged, now>>
    BY <1>0, <1>7, <2>1, StopFleet
  <2>4. left' \subseteq {"stale"} => Latches'
    BY <2>1, <2>3, LatchFrame DEF KInv, Alone2
  <2> QED
    BY <2>2, <2>4 DEF Keeps
<1>8. ASSUME NEW k \in Keyspaces, Boot(p, k)
      PROVE  Keeps
  <2> SUFFICES ASSUME left' \subseteq {"late", "stale"} PROVE Keeps
    BY DEF Keeps
  <2>1. left \subseteq left' /\ BootLeaves(k) \subseteq {"late", "stale"}
    BY <1>8 DEF Boot
  <2>2. Era' /\ (left' \subseteq {"late"} => Usage') /\ (left' \subseteq {"stale"} => Latches')
    BY <1>0, <1>8, <2>1, BootEra, BootUsage, BootLatches DEF KInv
  <2> QED
    BY <2>2 DEF Keeps
<1> QED
  BY <1>1, <1>2, <1>3, <1>4, <1>5, <1>6, <1>7, <1>8 DEF PodStep

-----------------------------------------------------------------------------
(* Steps of the migrator, and of time *)

\* Before reap nothing about the fleet changes with the phase.
LEMMA FrameEra ==
    ASSUME Era, UNCHANGED <<ks, counter, force, level>>, Final' = Final
    PROVE  Era'
BY DEF Era, HalfSet, Readers, Running, OnlyV2, Only, Written, Settled, Alone2

LEMMA FrameUsage ==
    ASSUME Usage, UNCHANGED <<ks, counter, force, level, behind>>,
           Flipped' => Flipped, Final => Final',
           Settled => Trusted'
    PROVE  Usage'
<1>1. /\ Settled' = Settled /\ Readers(2)' = Readers(2) /\ Alone2' = Alone2
      /\ Value(counter, 1)' = Value(counter, 1)
  BY DEF Settled, Readers, Running, Alone2, Value
<1> QED
  BY <1>1 DEF Usage, Full1, Full2, InStep

\* The flip gate outwaits the latches of before dual-on.
LEMMA FlipLatches ==
    ASSUME TypeOK, Latches, Flip, NEW k \in Keys, charged[k].times > 0
    PROVE  Live(2, k)
<1> SUFFICES ASSUME ~Live(2, k) PROVE FALSE
  OBVIOUS
<1>1. /\ marker.phase \in {"none", "dual"} /\ (marker.phase = "dual" => charged[k].at <= marker.since)
      /\ now < charged[k].at + LatchTTL
  BY DEF Latches, LatchOK
<1>2. marker.phase \in {"dual", "flipped"} /\ now - marker.since >= LatchTTL
  BY DEF Flip, FlipGate
<1>3. charged[k].at \in Nat /\ marker.since \in Nat /\ now \in Nat /\ LatchTTL \in Nat
  BY BoundsAreNaturals DEF TypeOK
<1> QED
  BY <1>1, <1>2, <1>3

\* The latches when the phase moves on.
LEMMA PhaseLatches ==
    ASSUME TypeOK, Latches, DualOn \/ Flip \/ Reap
    PROVE  Latches'
<1> SUFFICES ASSUME NEW k \in Keys PROVE LatchOK(k)'
  BY DEF Latches
<1>1. UNCHANGED <<ks, counter, latch, charged, now>> /\ LatchOK(k)
  BY DEF DualOn, Flip, Reap, Latches
<1>2. Single(2)' = Single(2) /\ OnlyV2' = OnlyV2 /\ Alone2' = Alone2
  BY <1>1 DEF Single, Readers, Running, OnlyV2, Only, Written, Alone2
<1>3. /\ \A s \in Shapes : Live(s, k)' = Live(s, k)
      /\ Live(1, k)' = Live(1, k) /\ Live(2, k)' = Live(2, k)
  BY <1>1 DEF Live
<1>4. Final => Final'
  BY DEF DualOn, Flip, FlipGate, Reap, Final, TypeOK
<1>5. (charged[k].times > 0 /\ ~Live(2, k)) =>
          /\ marker'.phase \in {"none", "dual"}
          /\ marker'.phase = "dual" => charged[k].at <= marker'.since
  <2>1. CASE DualOn
    BY <1>1, <2>1 DEF DualOn, LatchOK
  <2>2. CASE Flip
    BY <2>2, FlipLatches
  <2>3. CASE Reap
    BY <1>1, <2>3 DEF Reap, LatchOK
  <2> QED
    BY <2>1, <2>2, <2>3
<1> QED
  BY <1>1, <1>2, <1>3, <1>4, <1>5 DEF LatchOK

\* A flip on a fresh verdict finds the usage on v2.
LEMMA FlipUsage ==
    ASSUME TypeOK, Usage, Flip, fresh
    PROVE  Usage'
<1> SUFFICES ASSUME Settled' PROVE Full1' /\ Full2' /\ InStep' /\ Trusted'
  BY DEF Usage
<1>1. /\ UNCHANGED <<ks, counter, migrator, force, level, fresh, behind>>
      /\ migrator.verified /\ ~Final /\ ~Final'
  BY DEF Flip, FlipGate, Final, TypeOK
<1>2. /\ Settled /\ Alone2' = Alone2 /\ Value(counter, 1)' = Value(counter, 1)
  BY <1>1 DEF Settled, Alone2, Value
<1>3. Full1 /\ Full2 /\ InStep /\ Trusted
  BY <1>2 DEF Usage
<1>4. counter[1] = counter[2] \/ Alone2
  BY <1>1, <1>3 DEF Trusted
<1>5. counter[2] = level \/ (counter[1] = Absent /\ counter[2] = Absent /\ level = 0)
  BY <1>1, <1>3, <1>4 DEF Full1, Full2, Alone2, Value
<1> QED
  BY <1>1, <1>2, <1>3, <1>5 DEF Full1, Full2, InStep, Trusted

\* Reap and its deletions: v2 has held the usage since the flip.
LEMMA ReapUsage ==
    ASSUME TypeOK, Usage, Flipped, Final',
           counter' = counter \/ (counter'[2] = counter[2] /\ counter'[1] = Absent /\ counter[1] # Absent),
           UNCHANGED <<ks, force, level, behind>>
    PROVE  Usage'
<1> SUFFICES ASSUME Settled' PROVE Full1' /\ Full2' /\ InStep' /\ Trusted'
  BY DEF Usage
<1>1. Full2 /\ InStep
  BY DEF Usage, Settled
<1>2. counter'[2] = level \/ (counter'[1] = Absent /\ counter'[2] = Absent /\ level = 0)
  BY <1>1 DEF Full2
<1>3. counter'[2] = counter[2]
  OBVIOUS
<1> QED
  BY <1>1, <1>2, <1>3 DEF Full1, Full2, InStep, Trusted

LEMMA MigratorKeeps ==
    ASSUME KInv, MigratorStep
    PROVE  Keeps
<1>0. TypeOK /\ InProgress /\ counter \in Counters /\ level \in Nat
  BY DEF KInv, TypeOK, Counters
<1>1. CASE VerifyFirst \/ VerifySecond \/ VerifyNothing \/ MigratorEnds
  <2>1. UNCHANGED <<ks, counter, latch, marker, force, now, level, charged, behind, left>>
    BY <1>1 DEF VerifyFirst, VerifySecond, VerifyNothing, MigratorEnds
  <2>2. /\ Final' = Final /\ Flipped' = Flipped /\ Single(2)' = Single(2) /\ OnlyV2' = OnlyV2
        /\ Alone2' = Alone2
    BY <2>1, FleetFrame DEF Alone2
  <2>3. left \subseteq {"late", "stale"} => Era'
    BY <2>1, <2>2, FrameEra DEF KInv
  <2>4. left \subseteq {"stale"} => Latches'
    BY <2>1, <2>2, LatchFrame DEF KInv
  <2>5. (migrator'.verified /\ fresh') =>
            (migrator.verified /\ fresh) \/ counter[1] = counter[2] \/ Alone2
    <3>1. CASE VerifyFirst
      BY <1>0, <3>1 DEF VerifyFirst, TypeOK
    <3>2. CASE VerifySecond
      BY <3>2 DEF VerifySecond, Verdict
    <3>3. CASE VerifyNothing
      BY <3>3 DEF VerifyNothing, Alone2
    <3>4. CASE MigratorEnds
      BY <3>4 DEF MigratorEnds
    <3> QED
      BY <1>1, <3>1, <3>2, <3>3, <3>4
  <2>6. left \subseteq {"late"} => Usage'
    <3> SUFFICES ASSUME left \subseteq {"late"} PROVE Usage'
      OBVIOUS
    <3>1. Usage
      BY DEF KInv
    <3>2. Settled => Trusted'
      BY <2>1, <2>2, <2>5, <3>1 DEF Usage, Trusted
    <3> QED
      BY <2>1, <2>2, <3>1, <3>2, FrameUsage
  <2> QED
    BY <2>1, <2>3, <2>4, <2>6 DEF Keeps
<1>2. CASE DualOn
  <2>1. UNCHANGED <<ks, counter, latch, migrator, force, now, level, charged, fresh, behind, left>>
    BY <1>2 DEF DualOn
  <2>2. ~Final /\ ~Final' /\ ~Flipped /\ ~Flipped' /\ Final' = Final
    BY <1>2 DEF DualOn, Final, Flipped
  <2>3. left \subseteq {"late", "stale"} => Era'
    BY <2>1, <2>2, FrameEra DEF KInv
  <2>4. left \subseteq {"late"} => Usage'
    BY <2>1, <2>2, FrameUsage DEF KInv, Usage, Trusted, Alone2
  <2>5. left \subseteq {"stale"} => Latches'
    BY <1>0, <1>2, PhaseLatches DEF KInv
  <2> QED
    BY <2>1, <2>3, <2>4, <2>5 DEF Keeps
<1>3. CASE Backfill
  <2>1. Seeds /\ UNCHANGED <<latch, charged, now, marker, migrator, fresh, behind, left>>
    BY <1>0, <1>3 DEF Backfill, Counters, Shapes, Seeds
  <2>2. Single(2)' = Single(2) /\ OnlyV2' = OnlyV2
    BY <2>1, FleetFrame DEF Seeds
  <2>3. left \subseteq {"late", "stale"} => Era' /\ Alone2' = Alone2
    BY <1>0, <2>1, SeedEra DEF KInv
  <2>4. left \subseteq {"late"} => Usage'
    BY <1>0, <2>1, SeedUsage DEF KInv
  <2>5. left \subseteq {"stale"} => Latches'
    BY <2>1, <2>2, <2>3, LatchFrame DEF KInv
  <2> QED
    BY <2>1, <2>3, <2>4, <2>5 DEF Keeps
<1>4. CASE Flip
  <2>1. /\ UNCHANGED <<ks, counter, force, level>> /\ left \subseteq left'
        /\ ~fresh => "stale" \in left'
    BY <1>4 DEF Flip
  <2>2. Final' = Final
    BY <1>0, <1>4 DEF Flip, FlipGate, Final, TypeOK
  <2>3. left' \subseteq {"late", "stale"} => Era'
    BY <2>1, <2>2, FrameEra DEF KInv
  <2>4. left' \subseteq {"late"} => Usage'
    BY <1>0, <1>4, <2>1, FlipUsage DEF KInv
  <2>5. left' \subseteq {"stale"} => Latches'
    BY <1>0, <1>4, <2>1, PhaseLatches DEF KInv
  <2> QED
    BY <2>3, <2>4, <2>5 DEF Keeps
<1>5. CASE Reap
  <2>1. /\ UNCHANGED <<ks, counter, force, level, behind>> /\ left \subseteq left'
        /\ Readers(1) # {} => "reader" \in left'
        /\ Flipped
    BY <1>5 DEF Reap, Readers, Flipped
  <2>2. Final'
    BY <1>0, <1>5 DEF Reap, Final, TypeOK
  <2>3. left' \subseteq {"late", "stale"} => Era'
    BY <2>1, <2>2 DEF KInv, Era, HalfSet, Readers, Running
  <2>4. left' \subseteq {"late"} => Usage'
    BY <1>0, <2>1, <2>2, ReapUsage DEF KInv
  <2>5. left' \subseteq {"stale"} => Latches'
    BY <1>0, <1>5, <2>1, PhaseLatches DEF KInv
  <2> QED
    BY <2>3, <2>4, <2>5 DEF Keeps
<1>6. CASE ReapValue
  <2>1. /\ UNCHANGED <<ks, latch, marker, migrator, force, now, level, charged, behind, left>>
        /\ Final /\ Final' /\ Flipped
    BY <1>0, <1>6 DEF ReapValue, InProgress, Verb, Final, Flipped
  <2>2. counter'[1] = Absent /\ counter'[2] = counter[2] /\ counter[1] # Absent
    BY <1>0, <1>6 DEF ReapValue, Counters, Shapes
  <2>3. ASSUME left \subseteq {"late", "stale"} PROVE Era'
    <3>1. Readers(1) = {} /\ HalfSet
      BY <2>1, <2>3 DEF KInv, Era
    <3>2. HalfSet'
      <4> SUFFICES ASSUME NEW q \in Pods, force[q] # Absent PROVE counter'[ks[q].version] = level
        BY <2>1, <3>1 DEF HalfSet
      <4>1. q \in Running
        BY <1>0 DEF InProgress
      <4>2. ks[q].version = 2
        BY <1>0, <3>1, <4>1, RunningKeyspace DEF Shapes
      <4> QED
        BY <2>2, <3>1, <4>2 DEF HalfSet
    <3>3. Readers(1)' = Readers(1)
      BY <2>1 DEF Readers, Running
    <3> QED
      BY <2>1, <3>1, <3>2, <3>3 DEF Era
  <2>4. left \subseteq {"late"} => Usage'
    BY <1>0, <2>1, <2>2, ReapUsage DEF KInv
  <2>5. Single(2)' = Single(2) /\ OnlyV2' = OnlyV2
    BY <2>1, FleetFrame
  <2>6. left \subseteq {"stale"} => Latches'
    BY <2>1, <2>2, <2>5, LatchFrame DEF KInv, Alone2
  <2> QED
    BY <2>1, <2>3, <2>4, <2>6 DEF Keeps
<1>7. ASSUME NEW k \in Keys, ReapLatch(k)
      PROVE  Keeps
  <2>1. /\ UNCHANGED <<ks, counter, marker, migrator, force, now, level, charged, fresh, behind, left>>
        /\ Final /\ Final' /\ Flipped /\ Final' = Final
    BY <1>0, <1>7 DEF ReapLatch, InProgress, Verb, Final, Flipped
  <2>2. left \subseteq {"late", "stale"} => Era'
    BY <2>1, FrameEra DEF KInv
  <2>3. left \subseteq {"late"} => Usage'
    BY <1>0, <2>1, ReapUsage DEF KInv
  <2>4. ASSUME left \subseteq {"stale"}, NEW j \in Keys PROVE LatchOK(j)'
    <3>1. LatchOK(j)
      BY <2>4 DEF KInv, Latches
    <3>2. /\ latch'[2][j] = latch[2][j]
          /\ latch'[1][j] = IF j = k THEN Never ELSE latch[1][j]
      BY <1>0, <1>7 DEF ReapLatch, TypeOK, Shapes
    <3>3. charged[j].times > 0 => Live(2, j)
      BY <2>1, <3>1 DEF LatchOK, Final
    <3>4. Live(2, j)' = Live(2, j) /\ (Live(1, j)' => Live(1, j) /\ latch'[1][j] = latch[1][j])
      BY <3>2 DEF Live
    <3>5. \A s \in Shapes : Live(s, j)' => Live(s, j) /\ latch'[s][j] = latch[s][j]
      BY <3>2, <3>4 DEF Shapes
    <3> QED
      BY <2>1, <3>1, <3>3, <3>4, <3>5 DEF LatchOK
  <2> QED
    BY <2>1, <2>2, <2>3, <2>4 DEF Keeps, Latches
<1> QED
  BY <1>1, <1>2, <1>3, <1>4, <1>5, <1>6, <1>7 DEF MigratorStep

\* The latches of a charge and its history expire together.
LEMMA TickLatches ==
    ASSUME TypeOK, Latches, Tick
    PROVE  Latches'
<1> SUFFICES ASSUME NEW k \in Keys PROVE LatchOK(k)'
  BY DEF Latches
<1>0. LatchOK(k)
  BY DEF Latches
<1>1. /\ now \in Nat /\ now' = now + 1 /\ LatchTTL \in Nat
      /\ charged[k].at \in Nat /\ charged[k].times \in Nat
  BY BoundsAreNaturals DEF Tick, TypeOK
<1>2. \A s \in Shapes : latch'[s][k] = IF latch[s][k] <= now' THEN Never ELSE latch[s][k]
  BY DEF Tick
<1>3. charged'[k] = IF charged[k].at + LatchTTL <= now' THEN NotCharged ELSE charged[k]
  BY DEF Tick
<1>4. /\ marker' = marker /\ Single(2)' = Single(2) /\ Final' = Final
      /\ (Alone2 /\ OnlyV2 => Alone2' /\ OnlyV2')
  BY FleetFrame DEF Tick, Alone2
<1>5. 1 \in Shapes /\ 2 \in Shapes
  BY DEF Shapes
<1>6. CASE charged[k].at + LatchTTL <= now'
  <2>1. charged'[k].times = 0
    BY <1>3, <1>6 DEF NotCharged
  <2>2. \A s \in Shapes : ~Live(s, k)'
    BY <1>0, <1>2, <1>6 DEF LatchOK, Live
  <2> QED
    BY <2>1, <2>2 DEF LatchOK
<1>7. CASE ~(charged[k].at + LatchTTL <= now')
  <2>1. charged'[k] = charged[k]
    BY <1>3, <1>7
  <2>2. ASSUME NEW s \in Shapes
        PROVE  /\ Live(s, k)' <=> Live(s, k)
               /\ Live(s, k) => latch'[s][k] = latch[s][k]
    <3>1. CASE Live(s, k)
      <4>1. latch[s][k] = charged[k].at + LatchTTL
        BY <1>0, <3>1 DEF LatchOK
      <4>2. latch'[s][k] = latch[s][k]
        BY <1>2, <1>7, <4>1
      <4> QED
        BY <3>1, <4>2 DEF Live
    <3>2. CASE ~Live(s, k)
      <4>1. latch[s][k] = Never
        BY <3>2 DEF Live
      <4>2. latch'[s][k] = Never
        BY <1>2, <4>1
      <4> QED
        BY <3>2, <4>2 DEF Live
    <3> QED
      BY <3>1, <3>2
  <2>3. (Live(1, k)' <=> Live(1, k)) /\ (Live(2, k)' <=> Live(2, k))
    BY <1>5, <2>2
  <2>4. charged[k].times > 0 => charged[k].at <= now' /\ now' < charged[k].at + LatchTTL
    BY <1>0, <1>1, <1>7 DEF LatchOK
  <2> QED
    BY <1>0, <1>4, <2>1, <2>2, <2>3, <2>4 DEF LatchOK
<1> QED
  BY <1>6, <1>7

-----------------------------------------------------------------------------
(* Theorems *)

LEMMA NextKInv == KInv /\ [Next]_vars => KInv'
<1> SUFFICES ASSUME KInv, [Next]_vars PROVE KInv'
  OBVIOUS
<1>0. TypeOK /\ InProgress
  BY DEF KInv
<1>1. ASSUME NEW p \in Pods, PodStep(p)
      PROVE  KInv'
  BY <1>0, <1>1, PodTypeOK, PodKeeps DEF KInv, Keeps
<1>2. CASE MigratorStep
  BY <1>0, <1>2, MigratorTypeOK, MigratorKeeps DEF KInv, Keeps
<1>3. CASE Tick
  <2>1. UNCHANGED <<ks, counter, marker, migrator, force, level, fresh, behind, left>>
    BY <1>3 DEF Tick
  <2>2. Final' = Final /\ Flipped' = Flipped /\ Alone2' = Alone2
    BY <2>1 DEF Final, Flipped, Alone2
  <2>3. left \subseteq {"late", "stale"} => Era'
    BY <2>1, <2>2, FrameEra DEF KInv
  <2>4. left \subseteq {"late"} => Usage'
    BY <2>1, <2>2, FrameUsage DEF KInv, Usage, Trusted
  <2>5. left \subseteq {"stale"} => Latches'
    BY <1>0, <1>3, TickLatches DEF KInv
  <2> QED
    BY <1>0, <1>3, <2>1, <2>3, <2>4, <2>5, TickTypeOK DEF KInv
<1>4. CASE UNCHANGED vars
  <2>1. UNCHANGED <<ks, counter, latch, marker, migrator, force, now, level, charged, fresh, behind, left>>
    BY <1>4 DEF vars
  <2>2. /\ Final' = Final /\ Flipped' = Flipped /\ Alone2' = Alone2
        /\ Single(2)' = Single(2) /\ OnlyV2' = OnlyV2
    BY <2>1, FleetFrame DEF Alone2
  <2>3. left \subseteq {"late", "stale"} => Era'
    BY <2>1, <2>2, FrameEra DEF KInv
  <2>4. left \subseteq {"late"} => Usage'
    BY <2>1, <2>2, FrameUsage DEF KInv, Usage, Trusted
  <2>5. left \subseteq {"stale"} => Latches'
    BY <2>1, <2>2, LatchFrame DEF KInv
  <2>6. TypeOK' /\ InProgress'
    BY <1>0, <2>1 DEF TypeOK, InProgress, Running, Final
  <2> QED
    BY <2>1, <2>3, <2>4, <2>5, <2>6 DEF KInv
<1> QED
  BY <1>1, <1>2, <1>3, <1>4 DEF Next

\* The inductive invariant of the migration holds in every reachable state.
THEOREM MigrationInductive == Spec => []KInv
<1> QED
  BY InitKInv, NextKInv, PTL DEF Spec

\* Type correctness of the fleet, the counter and the migrator.
THEOREM MigrationTypeCorrect == Spec => []TypeOK
<1>1. KInv => TypeOK
  BY DEF KInv
<1> QED
  BY <1>1, MigrationInductive, PTL

\* Every running pod reads the whole recorded usage, for any number of pods, in every
\* order of roll-outs, verbs, restarts and traffic, with pods that write v1 alone beside
\* dual ones: until the flip, which a fresh verdict lets through only when v2 holds it too.
THEOREM UsageIsKept == Spec => []UsageSurvives
<1>1. KInv => UsageSurvives
  <2> SUFFICES ASSUME KInv, left \subseteq {"late"}, Settled
               PROVE  /\ \A p \in Running : GetFloatDual(ks[p]) = level
                      /\ (counter[2] # Absent /\ ~behind) => counter[2] = level
    BY DEF UsageSurvives
  <2>0. TypeOK /\ Era /\ Full1 /\ Full2 /\ InStep
    BY DEF KInv, Usage
  <2>1. ASSUME NEW p \in Running PROVE GetFloatDual(ks[p]) = level
    <3>1. ks[p] \in Keyspaces /\ ks[p].version \in {1, 2} /\ p \in Readers(ks[p].version)
      BY <2>0, RunningKeyspace DEF Shapes
    <3>2. CASE ks[p].version = 1
      <4>1. ~Final
        BY <2>0, <3>1, <3>2 DEF Era
      <4>2. ~OnlyV2
        BY <2>0, <3>2, WriterShapes, RunningKeyspace DEF OnlyV2, Only, Readers
      <4>3. ~Alone2 /\ Value(counter, 1) = level
        BY <2>0, <4>1, <4>2 DEF Era, Full1
      <4> QED
        BY <3>1, <3>2, <4>3, WrittenShapes DEF GetFloatDual, Alone2, Value
    <3>3. CASE ks[p].version = 2
      <4>1. counter[2] = level \/ (counter[1] = Absent /\ counter[2] = Absent /\ level = 0)
        BY <2>0, <3>1, <3>3 DEF Full2
      <4>2. level # Absent
        BY <2>0, AbsentIsNoNat DEF TypeOK
      <4> QED
        BY <3>1, <3>3, <4>1, <4>2, WrittenShapes DEF GetFloatDual, Value
    <3> QED
      BY <3>1, <3>2, <3>3
  <2> QED
    BY <2>0, <2>1 DEF InStep
<1> QED
  BY <1>1, MigrationInductive, PTL

\* When reap has been confirmed after a flip on a fresh verdict, v2 carries the recorded
\* usage, whatever traffic to v1 alone ran before the verdict.
THEOREM ReapLosesNothing == Spec => []ReapedIsCarried
<1>1. KInv => ReapedIsCarried
  <2> SUFFICES ASSUME KInv, Final, left \subseteq {"late"}, Settled
               PROVE  Value(counter, 2) = level
    BY DEF ReapedIsCarried
  <2>1. Full2 /\ Flipped /\ TypeOK
    BY DEF KInv, Usage, Final, Flipped
  <2>2. level # Absent
    BY <2>1, AbsentIsNoNat DEF TypeOK
  <2> QED
    BY <2>1, <2>2 DEF Full2, Value
<1> QED
  BY <1>1, MigrationInductive, PTL

\* A key is charged at most once in the life of its latch, on whatever shapes the first
\* call and the retry ran, also when the flip used a stale verdict.
THEOREM RetriesChargeOnce == Spec => []ChargedOnce
<1>1. KInv => ChargedOnce
  BY DEF KInv, Latches, LatchOK, ChargedOnce
<1> QED
  BY <1>1, MigrationInductive, PTL

=============================================================================

------------------------- MODULE KeyspaceMigration -------------------------
(***************************************************************************)
(* The versioned counter keyspace (counters/keyspace.go), the dual-shape   *)
(* operations on it (counters/dual.go, counters/keys_python.go), the       *)
(* migration verbs dual-on, backfill, verify, flip and reap, and the boot  *)
(* guards QUOTA-CFG-011 and 012 (counters/keyspace_migration.go).          *)
(*                                                                         *)
(* A fleet of pods works on one counter of one organization, in the v1 or  *)
(* the v2 key shape or in both, while one migrator runs its verbs and pods *)
(* are restarted with whatever keyspace the operator declares.  Each       *)
(* script and each store call is one action.  Per-user partitions and the  *)
(* create generation follow the same law, each on keys of its own.         *)
(***************************************************************************)
EXTENDS Integers, FiniteSets

CONSTANTS
    Pods,
    Keys,       \* idempotency keys of Acquire calls
    Absent,     \* the value of a key that is not in Redis
    Down,       \* the keyspace of a pod that is not running
    OrgLimit,   \* the limit Acquire enforces
    LatchTTL,   \* IdemTTLSeconds, in ticks
    RateWindow, \* MaxRateWindowSeconds, in ticks
    MaxLevel,   \* bound on the counter
    MaxTime     \* bound on the clock

ASSUME FleetIsFinite == IsFiniteSet(Pods) /\ IsFiniteSet(Keys)
ASSUME BoundsAreNaturals ==
    {OrgLimit, RateWindow, MaxLevel, MaxTime} \subseteq Nat /\ LatchTTL \in Nat \ {0}
ASSUME AbsentIsNoNumber == Absent \notin Int

VARIABLES
    ks,        \* the keyspace each running pod was booted with
    counter,   \* the counter's value under each shape
    latch,     \* when each idempotency latch expires, under each shape
    marker,    \* quota:keyspace:meta, with the time dual-on was recorded
    migrator,  \* the verb in progress, and this instance's verify verdict
    force,     \* the target of a pod's force-set whose second key is not set yet
    now,
    level,     \* history: the usage the fleet has recorded
    charged,   \* history: how often each key was charged in the life of a latch
    fresh,     \* history: no write to v1 alone since the verdict's pass, which was not torn
    behind,    \* history: a write to v1 alone has passed the v2 twin by
    left       \* history: how the fleet has left the procedure, see Deviations

vars == <<ks, counter, latch, marker, migrator, force, now, level, charged, fresh, behind, left>>

Shapes == {1, 2}

\* The four legal states of NewKeyspace (the shape reads and single writes use, and
\* whether the other shape is kept up), and the unscoped v1 that Setup keeps for a
\* service_name no key can carry.
Keyspaces == {k \in [version : Shapes, dual : BOOLEAN, scoped : BOOLEAN] :
                 k.scoped \/ (k.version = 1 /\ ~k.dual)}

Phases == {"none", "dual", "flipped", "reaped"}

Never == 0

\* What no guard of the code prevents and the procedure leaves out, see WriteLeaves,
\* BootLeaves, Flip and Reap.
Deviations == {"torn", "mixed", "late", "early", "back", "stale", "reader"}

NotCharged == [at |-> Never, times |-> 0]

TypeOK ==
    /\ ks \in [Pods -> Keyspaces \cup {Down}]
    /\ counter \in [Shapes -> Nat \cup {Absent}]
    /\ latch \in [Shapes -> [Keys -> Nat]]
    /\ marker \in [phase : Phases, since : Nat]
    /\ migrator \in [pc : {"idle", "verify", "reap"}, read : Nat, verified : BOOLEAN]
    /\ force \in [Pods -> Nat \cup {Absent}]
    /\ now \in Nat \ {0}
    /\ level \in Nat
    /\ charged \in [Keys -> [at : Nat, times : Nat]]
    /\ fresh \in BOOLEAN /\ behind \in BOOLEAN
    /\ left \subseteq Deviations

Init ==
    /\ ks = [p \in Pods |-> [version |-> 1, dual |-> FALSE, scoped |-> TRUE]]
    /\ counter = [s \in Shapes |-> Absent]
    /\ latch = [s \in Shapes |-> [k \in Keys |-> Never]]
    /\ marker = [phase |-> "none", since |-> Never]
    /\ migrator = [pc |-> "idle", read |-> 0, verified |-> FALSE]
    /\ force = [p \in Pods |-> Absent]
    /\ now = 1 /\ level = 0
    /\ charged = [k \in Keys |-> NotCharged]
    /\ fresh = FALSE /\ behind = FALSE /\ left = {}

-----------------------------------------------------------------------------
(* Key shapes *)

Running == {p \in Pods : ks[p] # Down}

SecondaryVersion(v) == 3 - v

\* DualPair: the shapes an operation of a pod writes.
Written(k) == IF k.dual THEN Shapes ELSE {k.version}

Value(c, s) == IF c[s] = Absent THEN 0 ELSE c[s]

\* GetFloatDual: the authoritative shape, and in dual the other when it is absent.
GetFloatDual(k) ==
    IF counter[k.version] = Absent /\ k.dual THEN Value(counter, SecondaryVersion(k.version))
    ELSE Value(counter, k.version)

\* The latch is set: Redis drops it when it expires, see Tick.
Live(s, k) == latch[s][k] # Never

\* ClassifyV1CounterKey finds a key of the counter: its value, or a latch.
V1KeysExist == counter[1] # Absent \/ \E k \in Keys : Live(1, k)

-----------------------------------------------------------------------------
(* The procedure *)

Final == marker.phase = "reaped"   \* high_water = v2-final

Flipped == marker.phase \in {"flipped", "reaped"}

\* The pod writes shape s and no other.
Only(p, s) == Written(ks[p]) = {s}

\* The counter lives on v2 and was never on v1: a fleet that began with v2.
Alone2 == counter[1] = Absent /\ counter[2] # Absent

\* torn: a write between the two halves of a force-set of both shapes.
\* mixed: a writer of v1 alone beside a reader of v2 or after the flip (a straggler),
\* or, before the end, one of v2 alone over v1 keys or beside a pod that writes them.
\* A writer of v1 alone before the flip is the roll-out to dual: no deviation.
WriteLeaves(p) ==
    {d \in {"torn", "mixed"} :
        \/ d = "torn" /\ \E q \in Pods : force[q] # Absent
        \/ d = "mixed" /\ Only(p, 1) /\ (Flipped \/ \E q \in Running : ks[q].version = 2)
        \/ d = "mixed" /\ Only(p, 2) /\ ~Final /\ (V1KeysExist \/ \E q \in Running : ~Only(q, 2))}

\* The histories after a write of a pod.
Passed(p) ==
    /\ fresh' = (fresh /\ ~Only(p, 1))
    /\ behind' = (behind \/ (Only(p, 1) /\ counter[2] # Absent))

Wrote(p) == left' = left \cup WriteLeaves(p) /\ Passed(p)

\* early: a reader of v2 over v1 keys before the flip is recorded.
\* back: a writer of v1 once only v2 holds the counter; after reap QUOTA-CFG-011 keeps out
\* all of them but the unscoped ones.
BootLeaves(k) ==
    {d \in {"early", "back"} :
        \/ d = "early" /\ k.version = 2 /\ ~Flipped /\ V1KeysExist
        \/ d = "back" /\ 1 \in Written(k) /\ (Final \/ Alone2)}

-----------------------------------------------------------------------------
(* The pods' operations on the counter *)

\* Mutant: the v2 twin is born from zero.
SeededFromZero(c, k) == c

\* seedv2: in dual an absent v2 key starts from the live v1 value.
Seeded(c, k) == IF k.dual /\ c[2] = Absent THEN [c EXCEPT ![2] = c[1]] ELSE c

\* incrboth: every shape the pod writes.
IncrBoth(c, k, d) == [s \in Shapes |-> IF s \in Written(k) THEN Value(c, s) + d ELSE c[s]]

\* incrfloorboth, DecrByFloorZero: each shape is floored at zero by itself.
DecrFloor(c, k) ==
    [s \in Shapes |-> IF s \in Written(k) THEN IF Value(c, s) = 0 THEN 0 ELSE c[s] - 1 ELSE c[s]]

\* Bound: there is room in both shapes, stale or not.
Bounded(c) == \A s \in Shapes : Value(c, s) < MaxLevel

\* Spend, and an accumulator's AddOrg.
Spend(p) ==
    /\ p \in Running
    /\ level < MaxLevel
    /\ Bounded(counter)
    /\ counter' = IncrBoth(Seeded(counter, ks[p]), ks[p], 1)
    /\ level' = level + 1
    /\ Wrote(p)
    /\ UNCHANGED <<ks, latch, marker, migrator, force, now, charged>>

Release(p) ==
    /\ p \in Running
    /\ counter' = DecrFloor(Seeded(counter, ks[p]), ks[p])
    /\ level' = IF level = 0 THEN 0 ELSE level - 1
    /\ Wrote(p)
    /\ UNCHANGED <<ks, latch, marker, migrator, force, now, charged>>

\* idem_dup: a latch of either written shape stops the charge.
IdemDup(p, k) == \E s \in Written(ks[p]) : Live(s, k)

\* AtomicAcquire and DualAtomicAcquire in one script: seed, look at the latches,
\* then at the limit on the authoritative shape, then claim and charge.  The
\* seeding stays when the answer is dup or denied.  Late: a latch of v1 alone after
\* dual-on is recorded, from where the flip gate counts its wait.
Acquire(p, k) ==
    LET c == Seeded(counter, ks[p])
        admitted == ~IdemDup(p, k) /\ Value(c, ks[p].version) + 1 <= OrgLimit
    IN  /\ p \in Running
        /\ counter' = IF admitted THEN IncrBoth(c, ks[p], 1) ELSE c
        /\ latch' = IF ~admitted THEN latch
                    ELSE [s \in Shapes |-> IF s \in Written(ks[p])
                                           THEN [latch[s] EXCEPT ![k] = now + LatchTTL]
                                           ELSE latch[s]]
        /\ level' = IF admitted THEN level + 1 ELSE level
        /\ charged' = IF admitted
                      THEN [charged EXCEPT ![k] = [at |-> now, times |-> @.times + 1]] ELSE charged
        /\ IF admitted
           THEN /\ left' = left \cup WriteLeaves(p)
                                \cup {d \in {"late"} : Only(p, 1) /\ marker.phase = "dual"}
                /\ Passed(p)
           ELSE UNCHANGED <<fresh, behind, left>>
        /\ admitted => level < MaxLevel /\ Bounded(counter)
        /\ UNCHANGED <<ks, marker, migrator, force, now>>

\* repairCounterToTruth and the reconciler: Set of the authoritative key, to a
\* truth t that differs from the value read.  In dual the other key follows.
ForceSet(p, t) ==
    /\ p \in Running
    /\ force[p] = Absent
    /\ t # GetFloatDual(ks[p])
    /\ counter' = [counter EXCEPT ![ks[p].version] = t]
    /\ force' = IF ks[p].dual THEN [force EXCEPT ![p] = t] ELSE force
    /\ level' = t
    /\ Wrote(p)
    /\ UNCHANGED <<ks, latch, marker, migrator, now, charged>>

ForceSetTwin(p) ==
    /\ force[p] # Absent
    /\ counter' = [counter EXCEPT ![SecondaryVersion(ks[p].version)] = force[p]]
    /\ force' = [force EXCEPT ![p] = Absent]
    /\ behind' = FALSE
    /\ UNCHANGED <<ks, latch, marker, migrator, now, level, charged, fresh, left>>

\* The second Set fails, and is not retried.
ForceSetTorn(p) ==
    /\ force[p] # Absent
    /\ force' = [force EXCEPT ![p] = Absent]
    /\ left' = left \cup {"torn"}
    /\ UNCHANGED <<ks, counter, latch, marker, migrator, now, level, charged, fresh, behind>>

-----------------------------------------------------------------------------
(* Deployment *)

Stop(p) ==
    /\ p \in Running
    /\ ks' = [ks EXCEPT ![p] = Down]
    /\ force' = [force EXCEPT ![p] = Absent]
    /\ left' = left \cup {d \in {"torn"} : force[p] # Absent}
    /\ UNCHANGED <<counter, latch, marker, migrator, now, level, charged, fresh, behind>>

\* CheckBootKeyspace: no v1 shape after a completed migration (QUOTA-CFG-011), no
\* v2 alone over live v1 keys before one (QUOTA-CFG-012).  Without a scope there is
\* no marker to look at.
CheckBootKeyspace(k) ==
    k.scoped =>
        /\ ~ (Final /\ (k.version = 1 \/ k.dual))
        /\ ~ (k.version = 2 /\ ~k.dual /\ ~Final /\ V1KeysExist)

\* Setup with the keyspace k of the pod's configuration.
Boot(p, k) ==
    /\ ks[p] = Down
    /\ CheckBootKeyspace(k)
    /\ ks' = [ks EXCEPT ![p] = k]
    /\ left' = left \cup BootLeaves(k)
    /\ UNCHANGED <<counter, latch, marker, migrator, force, now, level, charged, fresh, behind>>

-----------------------------------------------------------------------------
(* The migrator *)

Verb(pc) == migrator.pc = pc

\* DualOn: the window starts once, and never again after reap.
DualOn ==
    /\ Verb("idle")
    /\ marker.phase = "none"
    /\ marker' = [phase |-> "dual", since |-> now]
    /\ UNCHANGED <<ks, counter, latch, migrator, force, now, level, charged, fresh, behind, left>>

\* Backfill: the seed-if-absent script on the v1 key.
Backfill ==
    /\ Verb("idle")
    /\ marker.phase \in {"dual", "flipped"}
    /\ counter[1] # Absent /\ counter[2] = Absent
    /\ counter' = [counter EXCEPT ![2] = counter[1]]
    /\ UNCHANGED <<ks, latch, marker, migrator, force, now, level, charged, fresh, behind, left>>

\* Verify: the scan finds the v1 key, and GETs it.
VerifyFirst ==
    /\ Verb("idle")
    /\ counter[1] # Absent
    /\ migrator' = [migrator EXCEPT !.pc = "verify", !.read = counter[1]]
    /\ UNCHANGED <<ks, counter, latch, marker, force, now, level, charged, fresh, behind, left>>

\* Mutant: any twin will do.
VerdictPresent(read, twin) == twin # Absent

\* Mutant: a twin that is missing is not compared.
VerdictSkipsMissing(read, twin) == twin = Absent \/ twin = read

\* A missing twin diverges, and so does one of another value.
Verdict(read, twin) == twin # Absent /\ twin = read

\* Verify: the GET of its v2 twin, and the verdict of the pass.  It speaks of two
\* moments: of one only if the value read first still stands.
VerifySecond ==
    /\ Verb("verify")
    /\ migrator' = [pc |-> "idle", read |-> 0, verified |-> Verdict(migrator.read, counter[2])]
    /\ fresh' = (counter[1] = migrator.read)
    /\ UNCHANGED <<ks, counter, latch, marker, force, now, level, charged, behind, left>>

\* Verify with no v1 key to compare.
VerifyNothing ==
    /\ Verb("idle")
    /\ counter[1] = Absent
    /\ migrator' = [migrator EXCEPT !.verified = TRUE]
    /\ fresh' = TRUE
    /\ UNCHANGED <<ks, counter, latch, marker, force, now, level, charged, behind, left>>

\* Mutant: the gate does not wait for the latches.
FlipGateNoWait == marker.phase \in {"dual", "flipped"} /\ migrator.verified

\* FlipGate: the dual window outlasts the latches and the rate windows, and
\* verify has passed in this instance.
FlipGate ==
    /\ marker.phase \in {"dual", "flipped"}
    /\ now - marker.since >= LatchTTL /\ now - marker.since >= RateWindow
    /\ migrator.verified

\* stale: the verdict is this instance's, whatever was written since it was given.
Flip ==
    /\ Verb("idle")
    /\ FlipGate
    /\ marker' = [marker EXCEPT !.phase = "flipped"]
    /\ left' = left \cup {d \in {"stale"} : ~fresh}
    /\ UNCHANGED <<ks, counter, latch, migrator, force, now, level, charged, fresh, behind>>

\* Reap, confirmed by the operator: v2-final is recorded first.  reader: the code does
\* not look whether a pod of its own scope still reads v1.
Reap ==
    /\ Verb("idle")
    /\ marker.phase \in {"flipped", "reaped"}
    /\ migrator.verified
    /\ marker' = [marker EXCEPT !.phase = "reaped"]
    /\ migrator' = [migrator EXCEPT !.pc = "reap"]
    /\ left' = left \cup {d \in {"reader"} : \E p \in Running : ks[p].version = 1}
    /\ UNCHANGED <<ks, counter, latch, force, now, level, charged, fresh, behind>>

\* Reap deletes the v1 keys one by one, in the order of the scan.
ReapValue ==
    /\ Verb("reap")
    /\ counter[1] # Absent
    /\ counter' = [counter EXCEPT ![1] = Absent]
    /\ UNCHANGED <<ks, latch, marker, migrator, force, now, level, charged, fresh, behind, left>>

ReapLatch(k) ==
    /\ Verb("reap")
    /\ Live(1, k)
    /\ latch' = [latch EXCEPT ![1][k] = Never]
    /\ UNCHANGED <<ks, counter, marker, migrator, force, now, level, charged, fresh, behind, left>>

\* The migrator's process ends, done or not: verbs start over from the marker, and
\* the next instance has verified nothing.
MigratorEnds ==
    /\ migrator' = [pc |-> "idle", read |-> 0, verified |-> FALSE]
    /\ UNCHANGED <<ks, counter, latch, marker, force, now, level, charged, fresh, behind, left>>

\* Time passes, and the latches that are due expire.
Tick ==
    /\ now < MaxTime
    /\ now' = now + 1
    /\ latch' = [s \in Shapes |-> [k \in Keys |->
                     IF latch[s][k] <= now' THEN Never ELSE latch[s][k]]]
    /\ charged' = [k \in Keys |->
                     IF charged[k].at + LatchTTL <= now' THEN NotCharged ELSE charged[k]]
    /\ UNCHANGED <<ks, counter, marker, migrator, force, level, fresh, behind, left>>

-----------------------------------------------------------------------------

PodStep(p) ==
    \/ Spend(p) \/ Release(p) \/ \E k \in Keys : Acquire(p, k)
    \/ \E t \in 0..MaxLevel : ForceSet(p, t)
    \/ ForceSetTwin(p) \/ ForceSetTorn(p)
    \/ Stop(p) \/ \E k \in Keyspaces : Boot(p, k)

MigratorStep ==
    \/ DualOn \/ Backfill \/ VerifyFirst \/ VerifySecond \/ VerifyNothing
    \/ Flip \/ Reap \/ ReapValue \/ (\E k \in Keys : ReapLatch(k)) \/ MigratorEnds

Next ==
    \/ \E p \in Pods : PodStep(p)
    \/ MigratorStep
    \/ Tick

Spec == Init /\ [][Next]_vars

-----------------------------------------------------------------------------

Settled == \A p \in Pods : force[p] = Absent

\* Whatever the order of roll-outs, verbs and traffic, every running pod reads the whole
\* recorded usage, also while pods that write v1 alone run beside dual ones and leave the
\* v2 twin behind: verify finds such a twin and keeps the flip shut, reap takes no count
\* with it, and the boot guards keep out the shape that would read zero.  And a twin that
\* no such write has passed by carries the whole usage from the moment it is seeded.
\* Not claimed off the procedure, nor for a flip on a verdict that was no longer fresh.
UsageSurvives ==
    (left \subseteq {"late"} /\ Settled) =>
        /\ \A p \in Running : GetFloatDual(ks[p]) = level
        /\ counter[2] # Absent /\ ~behind => counter[2] = level

\* A retry within the latch's lifetime is never charged a second time, on whatever
\* shapes the first call and the retry ran: the latches are claimed and looked at
\* on both shapes, and the flip gate outwaits those of before dual-on.
ChargedOnce == left \subseteq {"stale"} => \A k \in Keys : charged[k].times <= 1

\* Reap takes nothing that only v1 holds: when it has been confirmed after a flip on a
\* fresh verdict, v2 carries the recorded usage, whatever v1-only traffic ran before.
ReapedIsCarried == (Final /\ left \subseteq {"late"} /\ Settled) => Value(counter, 2) = level

\* What Migrator says of its verdict ("reap/flip never run on a stale verdict", and Reap's
\* refusal: "reap deletes state; it never runs on a stale verdict"): in a fleet that follows
\* the procedure, the value reap has deleted is on v2.  It fails: nothing takes a verdict
\* back when v1-only traffic goes on after it.
NeverOnStaleVerdict ==
    (Final /\ left \subseteq {"stale"} /\ Settled /\ counter[1] = Absent)
        => Value(counter, 2) = level
=============================================================================

-------------------------- MODULE Decisions_proofs --------------------------
(***************************************************************************)
(* Proofs about Check, Spend and Release, for every number of callers and  *)
(* users, every limit and cost, and every configuration.                   *)
(*                                                                         *)
(* The overshoot of the limit is the argument to read: every caller that   *)
(* has been let through, or will be on what it has read already, has a     *)
(* reservation that is still to be spent (Committed).  The caller that was *)
(* let through last saw everything spent before it, so what all of them    *)
(* can still add is one request each of the others (Reserved).             *)
(*                                                                         *)
(* What the counters add up to is a second induction (SInv): a counter is  *)
(* the sum of what each caller has put on it and not yet taken off, and so *)
(* is a user's over that user's callers.  The facts about sums come from   *)
(* smallest counterexamples, of sets or of numbers.                        *)
(***************************************************************************)
EXTENDS Decisions, FiniteSetTheorems, TLAPS

-----------------------------------------------------------------------------
(* The inductive invariant *)

CallRecord ==
    [pc : {"idle", "read", "user", "recount", "repair", "spend", "record", "count", "holding",
           "return", "refused"},
     cost : Nat, used : Int, seen : Int, period : 0..MaxPeriod, crossed : BOOLEAN]

\* DecTypeOK without the bounds that rest on sums over the callers.
DType ==
    /\ cfg \in Configs
    /\ counter \in [0..MaxPeriod -> Int] /\ truth \in [0..MaxPeriod -> Int]
    /\ user \in [Users -> Nat]
    /\ period \in 0..MaxPeriod
    /\ call \in [Callers -> CallRecord]
    /\ recalc \in [pc : {"idle", "read", "set"}, seen : Int]
    /\ emitted \in BOOLEAN
    /\ AlertsTypeOK

\* Only an accumulator has periods, no cost exceeds the greatest, and a call was made in a
\* period that has begun.
Bookkept ==
    /\ cfg.kind # "accumulator" => period = 0
    /\ \A c \in Callers : /\ call[c].cost <= MaxCost /\ call[c].period <= period
                          /\ call[c].pc # "idle" => call[c].cost > 0

\* Without a truth source that answers nothing overwrites a counter.
NoOverwrites ==
    "value" \notin cfg.answers =>
        recalc.pc = "idle" /\ \A c \in Callers : call[c].pc # "repair"

\* Nor does a call reach the recount without a source.
NoRecounts == cfg.answers = {} => \A c \in Callers : call[c].pc # "recount"

\* The gauge is over its limit: the event is on its way, or it was emitted and heard.
Observed ==
    (counter[0] > Limit /\ cfg.tiers = {"resolved"} /\ cfg.faults = {} /\ cfg.answers = {} /\ IsGauge) =>
        \/ \E c \in Callers : call[c].pc = "count" /\ call[c].crossed
        \/ emitted /\ (cfg.alerts => heard[Gauge] # Quiet)

CoolingHeard == <<"admitted", Gauge>> \in cooling => heard[Gauge] # Quiet

\* The callers that have been let through, or will be on what they have read, or may be because
\* they read the counter of a period that is over.
Committed ==
    {c \in Callers : /\ call[c].cost <= Hard
                     /\ \/ call[c].pc = "spend"
                        \/ call[c].pc = "user" /\ call[c].used + call[c].cost <= Hard
                        \/ call[c].pc = "read" /\ call[c].period < period}

Ceiling == Hard + MaxCost * (Cardinality(Callers) - 1)

\* What the committed callers can still add to the counter of the period.
Reserved ==
    Committed # {} =>
        \E c \in Committed :
            counter[period] + call[c].cost + MaxCost * (Cardinality(Committed) - 1) <= Ceiling

Bounded == \A p \in 0..MaxPeriod : 0 <= counter[p] /\ counter[p] <= Ceiling

FutureEmpty == \A p \in 0..MaxPeriod : p > period => counter[p] = 0

CallsOver(c) ==
    /\ call[c].pc = "spend" => call[c].cost <= Hard
    /\ call[c].pc \in {"user", "recount"} => 0 <= call[c].used

EnforcedHolds == IsGauge /\ cfg.enforce /\ cfg.tiers = {"resolved"} => counter[0] <= Limit

OverParts == Bounded /\ FutureEmpty /\ (\A c \in Callers : CallsOver(c)) /\ Reserved /\ EnforcedHolds

Overshoots == Gated /\ cfg.kind # "rate" => OverParts

DInv == DType /\ Bookkept /\ NoOverwrites /\ NoRecounts /\ NeverUndercounts /\ Observed /\ CoolingHeard /\ Overshoots

-----------------------------------------------------------------------------
(* What the counters add up to *)

Sum(f, S) == FoldFunctionOnSet(+, 0, f, S)

\* What a caller has on the organization's counter, and on the partition of user u; what it has
\* still to give back to the partition, or, below zero, to put there; what it may still record.
Charge(c)        == IF call[c].pc \in {"count", "holding"} THEN call[c].cost ELSE 0
UserCharge(c, u) == IF call[c].pc \in {"holding", "return"} /\ UserOf(c) = u THEN call[c].cost ELSE 0
Owing(c)         == IF call[c].pc = "return" THEN call[c].cost
                    ELSE IF call[c].pc = "count" THEN -call[c].cost ELSE 0
Pending(c, u)    == IF call[c].pc = "count" /\ UserOf(c) = u THEN call[c].cost ELSE 0
Left(c)          == IF call[c].pc \in {"spend", "record"} THEN call[c].cost ELSE 0

Charges        == [c \in Callers |-> Charge(c)]
UserCharges(u) == [c \in Callers |-> UserCharge(c, u)]
Owings         == [c \in Callers |-> Owing(c)]
Pendings(u)    == [c \in Callers |-> Pending(c, u)]
Lefts          == [c \in Callers |-> Left(c)]

\* What exists of a gauge is what its holders have.
TruthIsHeld == IsGauge => truth[0] = Sum(Charges, Callers)

\* No call fails and nothing overwrites a counter.
Exact == IsGauge /\ cfg.faults = {} /\ cfg.answers = {}

AllHaveUsers == \A c \in Callers : UserOf(c) # None

\* Each partition is what its callers have on it, and the two differ by what is under way.
Partitioned ==
    Exact => /\ counter[0] = Sum(Charges, Callers)
             /\ \A u \in Users : user[u] = Sum(UserCharges(u), Callers)
             /\ AllHaveUsers => counter[0] + Sum(Owings, Callers) = Sum(user, Users)

\* The members of a rate's window and those that will still be recorded.
RateBound ==
    Gated /\ cfg.kind = "rate" => Sum(entries, 0..Window) + Sum(Lefts, Callers) <= Ceiling

\* The model's bound on a partition holds for what is on its way to it as well.
UserBound ==
    IsGauge => \A u \in Users : user[u] + Sum(Pendings(u), Callers) <= MaxUsage * Cardinality(Callers)

\* Only a gauge has partitions and is given back.
OnlyGaugesHeld ==
    ~IsGauge => \A c \in Callers : call[c].pc \notin {"user", "count", "holding", "return"}

SInv == OnlyGaugesHeld /\ TruthIsHeld /\ Partitioned /\ RateBound /\ UserBound /\ DecTypeOK

-----------------------------------------------------------------------------
(* Numbers *)

LEMMA ConfigFacts ==
    ASSUME cfg \in Configs
    PROVE  /\ cfg.kind \in {"gauge", "accumulator", "rate"}
           /\ cfg.mode \in {"kill", "disabled", "shadow", "on"}
           /\ cfg.costs \subseteq Nat \ {0}
           /\ cfg.userOf \in [Callers -> Users \cup {None}]
           /\ MaxCost \in cfg.costs /\ MaxCost \in Nat
           /\ \A m \in cfg.costs : m <= MaxCost
<1>1. cfg \in Config
  BY ConfigsAreConfigs
<1>2. \E n \in cfg.costs : \A m \in cfg.costs : m <= n
  BY CostsHaveAMax
<1>3. MaxCost \in cfg.costs /\ \A m \in cfg.costs : m <= MaxCost
  BY <1>2 DEF MaxCost
<1>4. cfg.costs \subseteq Nat \ {0}
  BY <1>1, DecisionNumbers DEF Config
<1> QED
  BY <1>1, <1>3, <1>4 DEF Config

LEMMA HardIsNat == Hard \in Nat /\ Limit \in Nat /\ Limit <= Hard
BY DecisionNumbers DEF Hard

\* A resource that is not a rate keeps its usage in the counter.
LEMMA UsageIsCounter ==
    ASSUME cfg.kind # "rate", NEW p
    PROVE  CurrentUsage(p) = counter[p]
BY DEF CurrentUsage

-----------------------------------------------------------------------------
(* Sums over finite sets *)

Pick(s) == CHOOSE x \in s : TRUE

\* g is the sum of f over each subset of S.
IsSum(g, f, S) ==
    g = [s \in SUBSET S |-> IF s = {} THEN 0 ELSE f[Pick(s)] + g[s \ {Pick(s)}]]

LEMMA PickIn == ASSUME NEW s, s # {} PROVE Pick(s) \in s
BY DEF Pick

\* Every property of the finite sets that fails somewhere fails at a smallest subset: this is how
\* induction over a finite set is done here.
LEMMA SmallestSubset ==
    ASSUME NEW S, IsFiniteSet(S), NEW T \in SUBSET (SUBSET S), T # {}
    PROVE  \E s \in T : \A u \in T : u \subseteq s => u = s
<1>1. IsWellFoundedOn(StrictSubsetOrdering(S), SUBSET S)
  BY FS_StrictSubsetOrderingWellFounded, FS_FiniteSubsetsOfFinite
<1>2. PICK s \in T : \A u \in T : <<u, s>> \notin StrictSubsetOrdering(S)
  BY <1>1, WFMin
<1>3. ASSUME NEW u \in T, u \subseteq s PROVE u = s
  BY <1>2, <1>3 DEF StrictSubsetOrdering
<1> QED
  BY <1>3

\* Two sums agree on a set on which their functions do.
LEMMA SumsAgree ==
    ASSUME NEW S, IsFiniteSet(S), NEW T, NEW f, NEW h, NEW g, NEW k, IsSum(g, f, S), IsSum(k, h, T),
           NEW s \in SUBSET S, s \subseteq T, \A x \in s : f[x] = h[x]
    PROVE  g[s] = k[s]
<1> DEFINE Bad == {u \in SUBSET s : g[u] # k[u]}
<1> SUFFICES ASSUME Bad # {} PROVE FALSE
  OBVIOUS
<1>1. Bad \in SUBSET (SUBSET S)
  OBVIOUS
<1> HIDE DEF Bad
<1>2. PICK u \in Bad : \A v \in Bad : v \subseteq u => v = u
  BY <1>1, SmallestSubset
<1> USE DEF Bad
<1>3. /\ g[u] = IF u = {} THEN 0 ELSE f[Pick(u)] + g[u \ {Pick(u)}]
      /\ k[u] = IF u = {} THEN 0 ELSE h[Pick(u)] + k[u \ {Pick(u)}]
  BY <1>2 DEF IsSum
<1>4. u # {}
  BY <1>2, <1>3
<1>5. Pick(u) \in u
  BY <1>4, PickIn
<1>6. u \ {Pick(u)} \notin Bad
  BY <1>2, <1>5
<1>7. g[u \ {Pick(u)}] = k[u \ {Pick(u)}]
  BY <1>6, <1>2
<1>8. f[Pick(u)] = h[Pick(u)]
  BY <1>5, <1>2
<1> QED
  BY <1>2, <1>3, <1>4, <1>7, <1>8

\* The equation that FoldFunctionOnSet chooses a solution of has one.
LEMMA SumExists ==
    ASSUME NEW S, IsFiniteSet(S), NEW f
    PROVE  \E g : IsSum(g, f, S)
<1> DEFINE Bad == {u \in SUBSET S : ~ \E g : IsSum(g, f, u)}
<1> SUFFICES ASSUME Bad # {} PROVE FALSE
  OBVIOUS
<1>a. Bad \in SUBSET (SUBSET S)
  OBVIOUS
<1> HIDE DEF Bad
<1>2. PICK u \in Bad : \A v \in Bad : v \subseteq u => v = u
  BY <1>a, SmallestSubset
<1> USE DEF Bad
<1> DEFINE G(v) == CHOOSE g : IsSum(g, f, v)
           r == [s \in SUBSET u |->
                   IF s = {} THEN 0 ELSE f[Pick(s)] + G(s \ {Pick(s)})[s \ {Pick(s)}]]
<1>3. ASSUME NEW v \in SUBSET u, v # u
      PROVE  IsSum(G(v), f, v) /\ IsFiniteSet(v)
  <2>1. v \notin Bad
    BY <1>2, <1>3
  <2>2. \E g : IsSum(g, f, v)
    BY <1>2, <2>1
  <2> QED
    BY <2>2, FS_Subset, <1>2
<1>4. ASSUME NEW s \in SUBSET u, s # {}
      PROVE  r[s \ {Pick(s)}] = G(s \ {Pick(s)})[s \ {Pick(s)}]
  <2> DEFINE v == s \ {Pick(s)}
  <2>1. v \in SUBSET u /\ v # u /\ Pick(s) \in s
    BY <1>4, PickIn
  <2>2. IsSum(G(v), f, v) /\ IsFiniteSet(v)
    BY <1>3, <2>1
  <2> HIDE DEF v
  <2> HIDE DEF G
  <2>3. G(v)[v] = IF v = {} THEN 0 ELSE f[Pick(v)] + G(v)[v \ {Pick(v)}]
    BY <2>2 DEF IsSum
  <2>4. CASE v = {}
    BY <2>1, <2>3, <2>4 DEF v
  <2>5. CASE v # {}
    <3> DEFINE w == v \ {Pick(v)}
    <3>1. Pick(v) \in v /\ w \in SUBSET u /\ w # u /\ w \in SUBSET v
      BY <2>5, <2>1, PickIn
    <3>2. IsSum(G(w), f, w) /\ IsFiniteSet(w)
      BY <1>3, <3>1
    <3>3. G(w)[w] = G(v)[w]
      BY <3>1, <3>2, <2>2, SumsAgree
    <3> QED
      BY <2>1, <2>3, <2>5, <3>3 DEF v
  <2> QED
    BY <2>4, <2>5
<1>5. IsSum(r, f, u)
  <2>1. ASSUME NEW s \in SUBSET u
        PROVE  r[s] = IF s = {} THEN 0 ELSE f[Pick(s)] + r[s \ {Pick(s)}]
    <3>1. r[s] = IF s = {} THEN 0 ELSE f[Pick(s)] + G(s \ {Pick(s)})[s \ {Pick(s)}]
      OBVIOUS
    <3> HIDE DEF r
    <3> HIDE DEF G
    <3> QED
      BY <3>1, <1>4
  <2>2. r = [s \in SUBSET u |-> r[s]]
    OBVIOUS
  <2> HIDE DEF r
  <2> QED
    BY <2>1, <2>2 DEF IsSum
<1> QED
  BY <1>2, <1>5

LEMMA SumOf ==
    ASSUME NEW f, NEW S, IsFiniteSet(S)
    PROVE  \E g : IsSum(g, f, S) /\ Sum(f, S) = g[S]
<1> DEFINE g == CHOOSE k : IsSum(k, f, S)
<1>1. IsSum(g, f, S)
  BY SumExists
<1>2. Sum(f, S) = (CHOOSE k : k = [s \in SUBSET S |-> IF s = {} THEN 0 ELSE f[Pick(s)] + k[s \ {Pick(s)}]])[S]
  BY DEF Sum, FoldFunctionOnSet, MapThenFoldSet, Pick
<1>3. Sum(f, S) = g[S]
  BY <1>2 DEF IsSum
<1> QED
  BY <1>1, <1>3

LEMMA SumSame ==
    ASSUME NEW f, NEW h, NEW S, IsFiniteSet(S), \A x \in S : f[x] = h[x]
    PROVE  Sum(f, S) = Sum(h, S)
<1>1. PICK g : IsSum(g, f, S) /\ Sum(f, S) = g[S]
  BY SumOf
<1>2. PICK k : IsSum(k, h, S) /\ Sum(h, S) = k[S]
  BY SumOf
<1> QED
  BY <1>1, <1>2, SumsAgree

LEMMA SumPick ==
    ASSUME NEW f, NEW S, IsFiniteSet(S), S # {}
    PROVE  Sum(f, S) = f[Pick(S)] + Sum(f, S \ {Pick(S)})
<1> DEFINE T == S \ {Pick(S)}
<1>1. PICK g : IsSum(g, f, S) /\ Sum(f, S) = g[S]
  BY SumOf
<1>2. IsFiniteSet(T) /\ T \in SUBSET S
  BY FS_Subset
<1>3. PICK k : IsSum(k, f, T) /\ Sum(f, T) = k[T]
  BY <1>2, SumOf
<1>4. g[T] = k[T]
  BY <1>1, <1>2, <1>3, SumsAgree
<1>5. g[S] = f[Pick(S)] + g[T]
  BY <1>1 DEF IsSum
<1> QED
  BY <1>1, <1>3, <1>4, <1>5

LEMMA SumEmpty ==
    ASSUME NEW f
    PROVE  Sum(f, {}) = 0
<1>1. PICK g : IsSum(g, f, {}) /\ Sum(f, {}) = g[{}]
  BY SumOf, FS_EmptySet
<1> QED
  BY <1>1 DEF IsSum

LEMMA SumIsInt ==
    ASSUME NEW f, NEW S, IsFiniteSet(S), \A x \in S : f[x] \in Int
    PROVE  Sum(f, S) \in Int
<1> DEFINE Bad == {u \in SUBSET S : Sum(f, u) \notin Int}
<1> SUFFICES ASSUME Bad # {} PROVE FALSE
  OBVIOUS
<1>a. Bad \in SUBSET (SUBSET S)
  OBVIOUS
<1> HIDE DEF Bad
<1>1. PICK u \in Bad : \A v \in Bad : v \subseteq u => v = u
  BY <1>a, SmallestSubset
<1> USE DEF Bad
<1>2. u # {} /\ IsFiniteSet(u)
  <2>1. u \subseteq S /\ Sum(f, u) \notin Int
    BY <1>1
  <2>2. IsFiniteSet(u)
    BY <2>1, FS_Subset
  <2> QED
    BY <2>1, <2>2, SumEmpty
<1>3. Pick(u) \in u
  BY <1>2, PickIn
<1>4. Sum(f, u \ {Pick(u)}) \in Int
  BY <1>1, <1>3
<1> QED
  BY <1>1, <1>2, <1>3, <1>4, SumPick

\* Any element may be taken out first: addition does not depend on the order.
LEMMA SumTake ==
    ASSUME NEW f, NEW S, IsFiniteSet(S), \A x \in S : f[x] \in Int, NEW x \in S
    PROVE  Sum(f, S) = f[x] + Sum(f, S \ {x})
<1> DEFINE Bad == {u \in SUBSET S : \E y \in u : Sum(f, u) # f[y] + Sum(f, u \ {y})}
<1> SUFFICES ASSUME Bad # {} PROVE FALSE
  OBVIOUS
<1>a. Bad \in SUBSET (SUBSET S)
  OBVIOUS
<1> HIDE DEF Bad
<1>1. PICK u \in Bad : \A v \in Bad : v \subseteq u => v = u
  BY <1>a, SmallestSubset
<1> USE DEF Bad
<1>2. PICK y \in u : Sum(f, u) # f[y] + Sum(f, u \ {y})
  BY <1>1
<1> DEFINE z == Pick(u)
<1>3. u # {} /\ IsFiniteSet(u) /\ z \in u /\ u \subseteq S
  BY <1>1, <1>2, PickIn, FS_Subset
<1>4. Sum(f, u) = f[z] + Sum(f, u \ {z})
  BY <1>3, SumPick
<1> HIDE DEF z
<1>5. y # z
  BY <1>2, <1>4
<1>6. u \ {z} \notin Bad /\ u \ {y} \notin Bad
  BY <1>1, <1>2, <1>3
<1>7. Sum(f, u \ {z}) = f[y] + Sum(f, (u \ {z}) \ {y})
  BY <1>3, <1>5, <1>6
<1>8. Sum(f, u \ {y}) = f[z] + Sum(f, (u \ {y}) \ {z})
  BY <1>3, <1>5, <1>6
<1>9. Sum(f, (u \ {z}) \ {y}) = Sum(f, (u \ {y}) \ {z})
  <2>1. (u \ {z}) \ {y} = (u \ {y}) \ {z}
    OBVIOUS
  <2> QED
    BY <2>1
<1> HIDE DEF Bad
<1>10. Sum(f, (u \ {z}) \ {y}) \in Int /\ f[y] \in Int /\ f[z] \in Int
  BY <1>3, SumIsInt, FS_Subset
<1> QED
  BY <1>2, <1>4, <1>7, <1>8, <1>9, <1>10

\* A sum moves by what changes in its one term that does.
LEMMA SumChange ==
    ASSUME NEW S, IsFiniteSet(S), NEW f, NEW h, \A y \in S : f[y] \in Int /\ h[y] \in Int,
           NEW x \in S, \A y \in S \ {x} : h[y] = f[y]
    PROVE  Sum(h, S) = Sum(f, S) + h[x] - f[x]
<1>1. IsFiniteSet(S \ {x}) /\ \A y \in S \ {x} : f[y] \in Int
  BY FS_Subset
<1>2. Sum(f, S) = f[x] + Sum(f, S \ {x}) /\ Sum(h, S) = h[x] + Sum(h, S \ {x})
  BY SumTake
<1>3. Sum(h, S \ {x}) = Sum(f, S \ {x}) /\ Sum(f, S \ {x}) \in Int
  BY <1>1, SumSame, SumIsInt
<1> QED
  BY <1>2, <1>3

LEMMA SumIsNat ==
    ASSUME NEW f, NEW S, IsFiniteSet(S), \A x \in S : f[x] \in Nat
    PROVE  Sum(f, S) \in Nat
<1> DEFINE Bad == {u \in SUBSET S : Sum(f, u) \notin Nat}
<1> SUFFICES ASSUME Bad # {} PROVE FALSE
  OBVIOUS
<1>a. Bad \in SUBSET (SUBSET S)
  OBVIOUS
<1> HIDE DEF Bad
<1>1. PICK u \in Bad : \A v \in Bad : v \subseteq u => v = u
  BY <1>a, SmallestSubset
<1>2. u \subseteq S /\ Sum(f, u) \notin Nat
  BY DEF Bad
<1>3. u # {} /\ IsFiniteSet(u)
  <2>1. IsFiniteSet(u)
    BY <1>2, FS_Subset
  <2> QED
    BY <1>2, <2>1, SumEmpty
<1>4. Pick(u) \in u
  BY <1>3, PickIn
<1>5. Sum(f, u \ {Pick(u)}) \in Nat
  BY <1>1, <1>2, <1>4 DEF Bad
<1> QED
  BY <1>2, <1>3, <1>4, <1>5, SumPick

LEMMA SumAtLeast ==
    ASSUME NEW f, NEW S, IsFiniteSet(S), \A x \in S : f[x] \in Nat, NEW x \in S
    PROVE  f[x] <= Sum(f, S)
<1>1. Sum(f, S) = f[x] + Sum(f, S \ {x})
  BY SumTake
<1>2. Sum(f, S \ {x}) \in Nat
  BY SumIsNat, FS_Subset
<1> QED
  BY <1>1, <1>2

LEMMA SumZero ==
    ASSUME NEW f, NEW S, IsFiniteSet(S), \A x \in S : f[x] = 0
    PROVE  Sum(f, S) = 0
<1> DEFINE Bad == {u \in SUBSET S : Sum(f, u) # 0}
<1> SUFFICES ASSUME Bad # {} PROVE FALSE
  OBVIOUS
<1>a. Bad \in SUBSET (SUBSET S)
  OBVIOUS
<1> HIDE DEF Bad
<1>1. PICK u \in Bad : \A v \in Bad : v \subseteq u => v = u
  BY <1>a, SmallestSubset
<1>2. u \subseteq S /\ Sum(f, u) # 0
  BY DEF Bad
<1>3. u # {} /\ IsFiniteSet(u)
  <2>1. IsFiniteSet(u)
    BY <1>2, FS_Subset
  <2> QED
    BY <1>2, <2>1, SumEmpty
<1>4. Pick(u) \in u
  BY <1>3, PickIn
<1>5. Sum(f, u \ {Pick(u)}) = 0
  BY <1>1, <1>2, <1>4 DEF Bad
<1> QED
  BY <1>2, <1>3, <1>4, <1>5, SumPick

LEMMA SumAtMost ==
    ASSUME NEW f, NEW S, IsFiniteSet(S), NEW m \in Nat, \A x \in S : f[x] \in 0..m
    PROVE  Sum(f, S) <= m * Cardinality(S)
<1> DEFINE Bad == {u \in SUBSET S : ~(Sum(f, u) <= m * Cardinality(u))}
<1> SUFFICES ASSUME Bad # {} PROVE FALSE
  OBVIOUS
<1>a. Bad \in SUBSET (SUBSET S)
  OBVIOUS
<1> HIDE DEF Bad
<1>1. PICK u \in Bad : \A v \in Bad : v \subseteq u => v = u
  BY <1>a, SmallestSubset
<1>2. u \subseteq S /\ ~(Sum(f, u) <= m * Cardinality(u))
  BY DEF Bad
<1>3. u # {} /\ IsFiniteSet(u)
  <2>1. Sum(f, {}) <= m * Cardinality({})
    <3>1. Sum(f, {}) = 0 /\ Cardinality({}) = 0 /\ m * 0 = 0
      BY SumEmpty, FS_EmptySet
    <3> QED
      BY <3>1
  <2>2. IsFiniteSet(u)
    BY <1>2, FS_Subset
  <2> QED
    BY <1>2, <2>1, <2>2
<1> DEFINE v == u \ {Pick(u)}
<1>4. Pick(u) \in u /\ v \subseteq S
  BY <1>2, <1>3, PickIn
<1>5. Sum(f, v) <= m * Cardinality(v)
  BY <1>1, <1>4 DEF Bad
<1>6. Cardinality(v) = Cardinality(u) - 1 /\ Cardinality(u) \in Nat /\ IsFiniteSet(v)
  BY <1>3, <1>4, FS_RemoveElement, FS_CardinalityType
<1>7. Sum(f, u) = f[Pick(u)] + Sum(f, v) /\ Sum(f, v) \in Int /\ f[Pick(u)] \in 0..m
  BY <1>2, <1>3, <1>4, <1>6, SumPick, SumIsInt
<1>8. m * Cardinality(u) = m * Cardinality(v) + m
  BY <1>6
<1>9. m * Cardinality(v) \in Int /\ m * Cardinality(u) \in Int
  BY <1>6
<1> HIDE DEF v
<1> QED
  BY <1>2, <1>5, <1>7, <1>8, <1>9

LEMMA SumAtMostOthers ==
    ASSUME NEW f, NEW S, IsFiniteSet(S), NEW m \in Nat, \A x \in S : f[x] \in 0..m,
           NEW x \in S, f[x] = 0
    PROVE  Sum(f, S) <= m * (Cardinality(S) - 1)
<1>1. IsFiniteSet(S \ {x}) /\ Cardinality(S \ {x}) = Cardinality(S) - 1
  BY FS_RemoveElement
<1>2. Sum(f, S \ {x}) <= m * Cardinality(S \ {x}) /\ Sum(f, S \ {x}) \in Int
  BY <1>1, SumAtMost, SumIsInt
<1>3. Sum(f, S) = f[x] + Sum(f, S \ {x})
  BY SumTake
<1> QED
  BY <1>1, <1>2, <1>3

LEMMA SmallestNumber ==
    ASSUME NEW T \in SUBSET Nat, T # {}
    PROVE  \E n \in T : \A m \in T : n <= m
<1>1. PICK n \in T : \A m \in T : <<m, n>> \notin OpToRel(<, Nat)
  BY NatLessThanWellFounded, WFMin
<1>2. ASSUME NEW m \in T, m < n PROVE FALSE
  <2>1. <<m, n>> \in Nat \X Nat
    OBVIOUS
  <2> DEFINE p == <<m, n>>
  <2>2. p \in Nat \X Nat /\ p[1] < p[2]
    BY <1>2, <2>1
  <2> HIDE DEF p
  <2>3. p \in OpToRel(<, Nat)
    BY <2>2 DEF OpToRel
  <2> QED
    BY <1>1, <2>3 DEF p
<1> QED
  BY <1>2

LEMMA SumUpTo ==
    ASSUME NEW n \in Nat, NEW e, \A a \in 0..n : e[a] \in Nat
    PROVE  /\ Sum(e, 0..n) \in Nat
           /\ Sum(e, 0..n) = IF n = 0 THEN e[0] ELSE e[n] + Sum(e, 0..(n - 1))
<1> DEFINE I == 0..n
<1>1. IsFiniteSet(I) /\ n \in I /\ I \ {n} = IF n = 0 THEN {} ELSE 0..(n - 1)
  BY FS_Interval
<1>2. \A a \in I : e[a] \in Nat
  OBVIOUS
<1>3. \A a \in I : e[a] \in Int
  BY <1>2
<1> HIDE DEF I
<1>4. Sum(e, I) = e[n] + Sum(e, I \ {n})
  BY <1>1, <1>3, SumTake
<1>5. Sum(e, I) \in Nat
  BY <1>1, <1>2, SumIsNat
<1>6. CASE n = 0
  <2>1. Sum(e, I) = e[0] + 0 /\ e[0] \in Nat
    BY <1>1, <1>2, <1>4, <1>6, SumEmpty
  <2> QED
    BY <1>5, <1>6, <2>1 DEF I
<1>7. CASE n # 0
  BY <1>1, <1>4, <1>5, <1>7 DEF I
<1> QED
  BY <1>6, <1>7

LEMMA SumRaise ==
    ASSUME NEW W \in Nat, NEW e, NEW h, \A a \in 0..W : e[a] \in Nat,
           \A a \in 0..W : h[a] = IF a = 0 THEN e[a] + 1 ELSE e[a]
    PROVE  Sum(h, 0..W) = Sum(e, 0..W) + 1
<1> DEFINE I == 0..W
<1>1. IsFiniteSet(I)
  BY FS_Interval
<1>2. PICK z \in I : z = 0
  OBVIOUS
<1>3. \A a \in I : e[a] \in Int /\ h[a] \in Int
  OBVIOUS
<1>4. h[z] = e[z] + 1 /\ \A a \in I \ {z} : h[a] = e[a]
  BY <1>2
<1>5. z \in I
  BY <1>2
<1> HIDE DEF I
<1>6. Sum(h, I) = Sum(e, I) + h[z] - e[z]
  BY <1>1, <1>3, <1>4, <1>5, SumChange
<1>7. Sum(e, I) \in Int
  BY <1>1, <1>3, SumIsInt
<1> QED
  BY <1>3, <1>4, <1>5, <1>6, <1>7 DEF I

\* A window that moves on by a tick drops its oldest term.
LEMMA SumShift ==
    ASSUME NEW W \in Nat, NEW e, NEW h, \A a \in 0..W : e[a] \in Nat,
           \A a \in 0..W : h[a] = IF a = 0 THEN 0 ELSE e[a - 1]
    PROVE  Sum(h, 0..W) <= Sum(e, 0..W)
<1>0. \A a \in 0..W : h[a] \in Nat
  OBVIOUS
<1> DEFINE Bad == {n \in Nat : n <= W /\ Sum(e, 0..n) # Sum(h, 0..n) + e[n]}
<1>1. Bad = {}
  <2> SUFFICES ASSUME Bad # {} PROVE FALSE
    OBVIOUS
  <2>1. Bad \in SUBSET Nat
    OBVIOUS
  <2> HIDE DEF Bad
  <2>2. PICK n \in Bad : \A m \in Bad : n <= m
    BY <2>1, SmallestNumber
  <2>3. n \in Nat /\ n <= W /\ Sum(e, 0..n) # Sum(h, 0..n) + e[n]
    BY DEF Bad
  <2>4. \A a \in 0..n : e[a] \in Nat /\ h[a] \in Nat
    BY <1>0, <2>3
  <2>5. /\ Sum(e, 0..n) = IF n = 0 THEN e[0] ELSE e[n] + Sum(e, 0..(n - 1))
        /\ Sum(h, 0..n) = IF n = 0 THEN h[0] ELSE h[n] + Sum(h, 0..(n - 1))
        /\ e[n] \in Nat
    BY <2>3, <2>4, SumUpTo
  <2>6. n # 0
    <3>1. h[0] = 0
      OBVIOUS
    <3> QED
      BY <2>3, <2>5, <3>1
  <2> DEFINE k == n - 1
  <2>7. k \in Nat /\ k <= W /\ k < n /\ h[n] = e[k] /\ e[k] \in Nat
    BY <2>3, <2>4, <2>6
  <2>8. k \notin Bad
    BY <2>2, <2>3, <2>7
  <2>9. Sum(e, 0..k) = Sum(h, 0..k) + e[k]
    BY <2>7, <2>8 DEF Bad
  <2>10. Sum(h, 0..k) \in Nat
    <3>1. \A a \in 0..k : h[a] \in Nat
      BY <1>0, <2>7
    <3> QED
      BY <2>7, <3>1, SumUpTo
  <2>11. Sum(e, 0..n) = e[n] + Sum(e, 0..k) /\ Sum(h, 0..n) = e[k] + Sum(h, 0..k)
    BY <2>5, <2>6, <2>7
  <2> HIDE DEF k
  <2> QED
    BY <2>3, <2>5, <2>7, <2>9, <2>10, <2>11
<1>2. Sum(e, 0..W) = Sum(h, 0..W) + e[W]
  BY <1>1
<1>3. Sum(h, 0..W) \in Nat /\ Sum(e, 0..W) \in Nat
  BY <1>0, SumUpTo
<1> QED
  BY <1>2, <1>3
-----------------------------------------------------------------------------
(* Calls *)

\* Only the call of c moves.
Moves(c) == call' \in [Callers -> CallRecord] /\ \A d \in Callers \ {c} : call'[d] = call[d]

PCs == {"idle", "read", "user", "recount", "repair", "spend", "record", "count", "holding",
        "return", "refused"}

LEMMA IdleCall ==
    /\ Idle \in CallRecord /\ Idle.pc = "idle" /\ Idle.cost = 0 /\ Idle.used = 0
    /\ Idle.period = 0 /\ Idle.crossed = FALSE
BY DecisionNumbers DEF Idle, CallRecord

LEMMA GotoCall ==
    ASSUME DType, NEW c \in Callers, NEW to \in PCs, Goto(c, to)
    PROVE  Moves(c) /\ call'[c] = [call[c] EXCEPT !.pc = to]
BY DEF DType, Goto, Moves, CallRecord, PCs

LEMMA ReturnCall ==
    ASSUME DType, NEW c \in Callers, Return(c)
    PROVE  Moves(c) /\ call'[c] = Idle
BY IdleCall DEF DType, Return, Moves

LEMMA ConcludeCall ==
    ASSUME DType, NEW c \in Callers, NEW to \in PCs, Conclude(c, to)
    PROVE  /\ Moves(c)
           /\ call'[c].pc = to /\ call'[c].cost = call[c].cost /\ call'[c].used = 0
           /\ call'[c].period = 0 /\ call'[c].crossed = FALSE
<1> DEFINE r == [Idle EXCEPT !.pc = to, !.cost = call[c].cost]
<1>1. r \in CallRecord
  BY IdleCall DEF DType, CallRecord, PCs
<1>2. r.pc = to /\ r.cost = call[c].cost /\ r.used = 0 /\ r.period = 0 /\ r.crossed = FALSE
  BY DEF Idle
<1>3. call' = [call EXCEPT ![c] = r]
  BY DEF Conclude
<1> HIDE DEF r
<1> QED
  BY <1>1, <1>2, <1>3 DEF DType, Moves

-----------------------------------------------------------------------------
(* What each decision step does to its call *)

LEMMA CheckCall ==
    ASSUME DType, NEW c \in Callers, NEW cost \in cfg.costs, NEW t \in cfg.tiers, Check(c, cost, t)
    PROVE  /\ Moves(c) /\ UNCHANGED state /\ call[c].pc = "idle"
           /\ call'[c].pc \in {"refused", "spend", "read"} /\ call'[c].cost = cost
           /\ call'[c].period = period /\ call'[c].crossed = FALSE
           /\ Gated => call'[c].pc # "spend"
<1> DEFINE to == IF cfg.mode = "kill" THEN "refused" ELSE IF cfg.mode = "disabled" THEN "spend"
                 ELSE CASE t = "unknown" -> "refused"
                        [] t \in {"unresolved", "unlimited"} -> "spend"
                        [] t = "resolved" -> "read"
           r  == [Idle EXCEPT !.cost = cost, !.period = period, !.pc = to]
<1>1. t \in {"resolved", "unresolved", "unknown", "unlimited"}
  BY ConfigsAreConfigs DEF DType, Config
<1>2. to \in {"refused", "spend", "read"}
  BY <1>1
<1>3. Gated => to # "spend"
  <2> SUFFICES ASSUME Gated PROVE to # "spend"
    OBVIOUS
  <2>1. cfg.mode = "on" /\ t \in {"resolved", "unknown"}
    BY DEF Gated
  <2>2. CASE t = "resolved"
    BY <2>1, <2>2
  <2>3. CASE t = "unknown"
    BY <2>1, <2>3
  <2> QED
    BY <2>1, <2>2, <2>3
<1> HIDE DEF to
<1>4. r \in CallRecord /\ r.pc = to /\ r.cost = cost /\ r.period = period /\ r.crossed = FALSE
  <2>1. period \in 0..MaxPeriod /\ cost \in Nat
    BY ConfigFacts DEF DType
  <2>2. r \in CallRecord
    BY <1>2, <2>1, IdleCall DEF CallRecord
  <2>3. r.pc = to /\ r.cost = cost /\ r.period = period /\ r.crossed = FALSE
    BY DEF Idle
  <2> QED
    BY <2>2, <2>3
<1>5. call[c].pc = "idle" /\ call' = [call EXCEPT ![c] = r] /\ UNCHANGED state
  BY DEF Check, to
<1> HIDE DEF r
<1> QED
  BY <1>2, <1>3, <1>4, <1>5 DEF DType, Moves

\* What AfterDecision answers.
LEMMA Answers ==
    ASSUME NEW used, NEW cost
    PROVE  /\ AfterDecision(used, cost) \in {"spend", "recount", "refused"}
           /\ AfterDecision(used, cost) = "recount" => cfg.answers # {} /\ cfg.kind # "rate"
           /\ Gated => (AfterDecision(used, cost) = "spend" <=> Decide(used, cost) = "allow")
<1>1. Refused \in {"spend", "refused"} /\ (Gated => Refused = "refused")
  BY DEF Refused, Gated
<1>2. Recountable => cfg.answers # {} /\ cfg.kind # "rate"
  BY DEF Recountable
<1> QED
  BY <1>1, <1>2 DEF AfterDecision

LEMMA Allowed ==
    ASSUME NEW used \in Int, NEW cost \in Nat
    PROVE  Decide(used, cost) = "allow" <=> used + cost <= Hard
BY HardIsNat DEF Decide

LEMMA ReadUsageCall ==
    ASSUME DType, NEW c \in Callers, ReadUsage(c)
    PROVE  /\ Moves(c) /\ UNCHANGED state /\ call[c].pc = "read"
           /\ call'[c].pc \in {"user", "recount", "spend", "refused"} /\ call'[c].cost = call[c].cost
           /\ call'[c].period \in {call[c].period, 0}
           /\ call'[c].pc = "recount" => cfg.answers # {}
           /\ Gated /\ cfg.kind # "rate" =>
                 /\ call'[c].pc = "spend" => counter[call[c].period] + call[c].cost <= Hard
                 /\ call'[c].pc \in {"user", "recount"} => call'[c].used = counter[call[c].period]
<1> DEFINE used == CurrentUsage(call[c].period)
           to   == IF IsGauge /\ UserOf(c) # None /\ UserLimit # None THEN "user"
                   ELSE AfterDecision(used, call[c].cost)
<1>1. /\ call[c].pc = "read" /\ UNCHANGED state
      /\ IF to \in {"user", "recount"} THEN call' = [call EXCEPT ![c].used = used, ![c].pc = to]
         ELSE Conclude(c, to)
  BY DEF ReadUsage
<1>2. to \in {"user", "recount", "spend", "refused"} /\ (to = "recount" => cfg.answers # {})
  BY Answers
<1>3. to \in {"user", "recount"} => cfg.kind # "rate"
  BY Answers DEF IsGauge
<1>4. cfg.kind # "rate" => used = counter[call[c].period] /\ used \in Int
  BY UsageIsCounter DEF DType, CallRecord
<1>5. Gated /\ cfg.kind # "rate" /\ to = "spend" => used + call[c].cost <= Hard
  BY <1>4, Answers, Allowed DEF DType, CallRecord
<1> HIDE DEF used, to
<1>6. CASE to \in {"user", "recount"}
  <2> DEFINE r == [call[c] EXCEPT !.used = used, !.pc = to]
  <2>1. /\ r \in CallRecord /\ r.pc = to /\ r.cost = call[c].cost /\ r.period = call[c].period
        /\ r.used = used
    BY <1>2, <1>3, <1>4, <1>6 DEF DType, CallRecord
  <2>2. call' = [call EXCEPT ![c] = r]
    BY <1>1, <1>6 DEF DType, CallRecord
  <2> HIDE DEF r
  <2>3. Moves(c) /\ call'[c] = r
    BY <2>1, <2>2 DEF DType, Moves
  <2> QED
    BY <1>1, <1>2, <1>3, <1>4, <1>6, <2>1, <2>3
<1>7. CASE to \notin {"user", "recount"}
  <2>1. /\ Moves(c) /\ call'[c].pc = to /\ call'[c].cost = call[c].cost /\ call'[c].period = 0
    BY <1>1, <1>2, <1>7, ConcludeCall DEF PCs
  <2> QED
    BY <1>1, <1>2, <1>4, <1>5, <1>7, <2>1
<1> QED
  BY <1>6, <1>7

LEMMA ReadUserCall ==
    ASSUME DType, NEW c \in Callers, ReadUser(c)
    PROVE  /\ Moves(c) /\ UNCHANGED state /\ call[c].pc = "user"
           /\ call'[c].pc \in {"recount", "spend", "refused"} /\ call'[c].cost = call[c].cost
           /\ call'[c].period \in {call[c].period, 0}
           /\ call'[c].pc = "recount" => cfg.answers # {} /\ call'[c].used = call[c].used
           /\ Gated /\ call'[c].pc = "spend" => call[c].used + call[c].cost <= Hard
<1> DEFINE full == user[UserOf(c)] + call[c].cost > UserLimit
           to   == IF full THEN Refused ELSE AfterDecision(call[c].used, call[c].cost)
<1>1. /\ call[c].pc = "user" /\ UNCHANGED state
      /\ IF to = "recount" THEN Goto(c, to) ELSE Conclude(c, to)
  BY DEF ReadUser
<1> HIDE DEF full
<1>2. to \in {"recount", "spend", "refused"} /\ (to = "recount" => cfg.answers # {})
  BY Answers DEF Refused
<1>3. Gated /\ to = "spend" => call[c].used + call[c].cost <= Hard
  BY Answers, Allowed DEF DType, CallRecord, Refused, Gated
<1> HIDE DEF to
<1>4. CASE to = "recount"
  <2>1. Moves(c) /\ call'[c] = [call[c] EXCEPT !.pc = "recount"]
    BY <1>1, <1>4, GotoCall DEF PCs
  <2>2. call'[c].pc = "recount" /\ call'[c].cost = call[c].cost /\ call'[c].period = call[c].period
        /\ call'[c].used = call[c].used
    BY <2>1 DEF DType, CallRecord
  <2> QED
    BY <1>1, <1>2, <1>4, <2>1, <2>2
<1>5. CASE to # "recount"
  <2>1. Moves(c) /\ call'[c].pc = to /\ call'[c].cost = call[c].cost /\ call'[c].period = 0
    BY <1>1, <1>2, <1>5, ConcludeCall DEF PCs
  <2> QED
    BY <1>1, <1>2, <1>3, <1>5, <2>1
<1> QED
  BY <1>4, <1>5

\* The steps of Check that conclude: a failed read, the recount and the repair.
LEMMA ReadFailsCall ==
    ASSUME DType, NEW c \in Callers, ReadFails(c)
    PROVE  /\ Moves(c) /\ UNCHANGED state /\ call[c].pc \in {"read", "user"}
           /\ call'[c].pc \in {"spend", "refused"} /\ call'[c].cost = call[c].cost /\ call'[c].period = 0
           /\ Gated => call'[c].pc = "refused"
<1> DEFINE to == IF cfg.failOpen THEN "spend" ELSE "refused"
<1>1. "read" \in cfg.faults /\ call[c].pc \in {"read", "user"} /\ Conclude(c, to) /\ UNCHANGED state
  BY DEF ReadFails
<1>2. to \in {"spend", "refused"} /\ (Gated => to = "refused")
  BY <1>1 DEF Gated
<1> QED
  BY <1>1, <1>2, ConcludeCall DEF PCs

LEMMA RecountCall ==
    ASSUME DType, NEW c \in Callers, Recount(c)
    PROVE  /\ Moves(c) /\ UNCHANGED state /\ call[c].pc = "recount"
           /\ call'[c].pc \in {"spend", "refused", "repair"} /\ call'[c].cost = call[c].cost
           /\ call'[c].period \in {call[c].period, 0}
           /\ call'[c].pc = "repair" => "value" \in cfg.answers
           /\ Gated => call'[c].pc = "refused"
<1>0. call[c].pc = "recount" /\ UNCHANGED state
  BY DEF Recount
<1>1. Refused \in {"spend", "refused"} /\ (Gated => Refused = "refused")
  BY DEF Refused, Gated
<1>2. CASE "error" \in cfg.answers /\ Conclude(c, FailDirection)
  <2>1. FailDirection \in {"spend", "refused"} /\ (Gated => FailDirection = "refused")
    BY <1>1, <1>2 DEF FailDirection, Gated
  <2> QED
    BY <1>0, <1>2, <2>1, ConcludeCall DEF PCs
<1>3. CASE "absent" \in cfg.answers /\ Conclude(c, Refused)
  BY <1>0, <1>1, <1>3, ConcludeCall DEF PCs
<1>4. CASE /\ "value" \in cfg.answers
           /\ truth[period] # call[c].used
           /\ call' = [call EXCEPT ![c].seen = truth[period], ![c].pc = "repair"]
  <2> DEFINE r == [call[c] EXCEPT !.seen = truth[period], !.pc = "repair"]
  <2>1. r \in CallRecord /\ r.pc = "repair" /\ r.cost = call[c].cost /\ r.period = call[c].period
    BY DEF DType, CallRecord
  <2>2. call' = [call EXCEPT ![c] = r]
    BY <1>4 DEF DType, CallRecord
  <2> HIDE DEF r
  <2>3. Moves(c) /\ call'[c] = r
    BY <2>1, <2>2 DEF DType, Moves
  <2>4. ~Gated
    BY <1>4 DEF Gated
  <2> QED
    BY <1>0, <1>4, <2>1, <2>3, <2>4
<1>5. CASE "value" \in cfg.answers /\ Conclude(c, Redecided(truth[period], call[c].cost))
  <2>1. Redecided(truth[period], call[c].cost) \in {"spend", "refused"} /\ ~Gated
    BY <1>1, <1>5 DEF Redecided, Gated
  <2> QED
    BY <1>0, <1>5, <2>1, ConcludeCall DEF PCs
<1> QED
  BY <1>2, <1>3, <1>4, <1>5 DEF Recount

LEMMA RepairCall ==
    ASSUME DType, NEW c \in Callers, Repair(c)
    PROVE  /\ Moves(c) /\ call[c].pc = "repair"
           /\ call'[c].pc \in {"spend", "refused"} /\ call'[c].cost = call[c].cost /\ call'[c].period = 0
           /\ counter' \in {counter, [counter EXCEPT ![period] = call[c].seen]}
           /\ UNCHANGED <<cfg, user, entries, truth, period, recalc, emitted, alertVars>>
<1>1. Redecided(call[c].seen, call[c].cost) \in {"spend", "refused"}
  BY DEF Redecided, Refused
<1> QED
  BY <1>1, ConcludeCall DEF Repair, PCs

-----------------------------------------------------------------------------
(* What the steps of Spend and Release do *)

LEMMA SpendEnforcedCall ==
    ASSUME DType, NEW c \in Callers, NEW t, SpendEnforced(c, t)
    PROVE  /\ Moves(c) /\ call[c].pc = "spend" /\ IsGauge
           /\ UNCHANGED <<cfg, entries, period, recalc, emitted, alertVars>>
           /\ \/ call'[c] = Idle /\ UNCHANGED <<counter, truth, user>>
              \/ /\ call'[c].pc = "holding" /\ call'[c].cost = call[c].cost
                 /\ call'[c].period = call[c].period
                 /\ counter[0] + call[c].cost <= Limit
                 /\ Rises(c) /\ Exists(c) /\ UserRises(c)
<1>1. CASE counter[0] + call[c].cost <= Limit
  <2>1. Goto(c, "holding") /\ Rises(c) /\ Exists(c) /\ UserRises(c)
    BY <1>1 DEF SpendEnforced
  <2>2. Moves(c) /\ call'[c] = [call[c] EXCEPT !.pc = "holding"]
    BY <2>1, GotoCall DEF PCs
  <2>3. call'[c].pc = "holding" /\ call'[c].cost = call[c].cost /\ call'[c].period = call[c].period
    BY <2>2 DEF DType, CallRecord
  <2> QED
    BY <1>1, <2>1, <2>2, <2>3 DEF SpendEnforced
<1>2. CASE ~(counter[0] + call[c].cost <= Limit)
  <2>1. Return(c) /\ UNCHANGED <<counter, truth, user>>
    BY <1>2 DEF SpendEnforced
  <2> QED
    BY <2>1, ReturnCall DEF SpendEnforced
<1> QED
  BY <1>1, <1>2

LEMMA SpendOrgCall ==
    ASSUME DType, NEW c \in Callers, NEW t, SpendOrg(c, t)
    PROVE  /\ Moves(c) /\ call[c].pc = "spend" /\ IsGauge
           /\ t \in cfg.tiers /\ ~(cfg.enforce /\ t = "resolved")
           /\ call'[c].pc = "count" /\ call'[c].cost = call[c].cost /\ call'[c].period = call[c].period
           /\ t = "resolved" => (call'[c].crossed <=> CrossedUp(counter'[0], call[c].cost, Limit))
           /\ Rises(c) /\ Exists(c)
           /\ emitted' \in BOOLEAN
           /\ ~(counter[0] <= Limit /\ counter'[0] > Limit) => emitted' = emitted
           /\ UNCHANGED <<cfg, user, entries, period, recalc, alertVars>>
<1> DEFINE x == HasLimit(t) /\ CrossedUp(counter'[0], call[c].cost, Limit)
           r == [call[c] EXCEPT !.pc = "count", !.crossed = x]
<1>1. call' = [call EXCEPT ![c].pc = "count", ![c].crossed = x]
  BY DEF SpendOrg
<1>2. x \in BOOLEAN /\ (t = "resolved" => (x <=> CrossedUp(counter'[0], call[c].cost, Limit)))
  BY DEF HasLimit
<1> HIDE DEF x
<1>3. /\ r \in CallRecord /\ r.pc = "count" /\ r.cost = call[c].cost /\ r.period = call[c].period
      /\ r.crossed = x
  BY <1>2 DEF DType, CallRecord
<1>4. call' = [call EXCEPT ![c] = r]
  BY <1>1 DEF DType, CallRecord
<1> HIDE DEF r
<1>5. Moves(c) /\ call'[c] = r
  BY <1>3, <1>4 DEF DType, Moves
<1>6. /\ emitted' \in BOOLEAN
      /\ ~(counter[0] <= Limit /\ counter'[0] > Limit) => emitted' = emitted
  BY DEF SpendOrg, DType
<1>7. t \in cfg.tiers /\ ~(cfg.enforce /\ t = "resolved") /\ call[c].pc = "spend" /\ IsGauge
  BY DEF SpendOrg, HasLimit
<1>8. Rises(c) /\ Exists(c) /\ UNCHANGED <<cfg, user, entries, period, recalc, alertVars>>
  BY DEF SpendOrg
<1> QED
  BY <1>2, <1>3, <1>5, <1>6, <1>7, <1>8

\* The second half of a Spend, whether the partition was written or not.
LEMMA HoldingCall ==
    ASSUME DType, NEW c \in Callers, SpendUser(c) \/ SpendUserFails(c)
    PROVE  /\ Moves(c) /\ call[c].pc = "count"
           /\ call'[c].pc = "holding" /\ call'[c].cost = call[c].cost /\ call'[c].period = call[c].period
           /\ UNCHANGED <<cfg, counter, entries, truth, period, recalc>>
<1> DEFINE r == [call[c] EXCEPT !.pc = "holding", !.crossed = FALSE]
<1>1. r \in CallRecord /\ r.pc = "holding" /\ r.cost = call[c].cost /\ r.period = call[c].period
  BY DEF DType, CallRecord
<1>2. call' = [call EXCEPT ![c] = r]
  BY DEF DType, CallRecord, SpendUser, SpendUserFails
<1> HIDE DEF r
<1>3. Moves(c) /\ call'[c] = r
  BY <1>1, <1>2 DEF DType, Moves
<1> QED
  BY <1>1, <1>3 DEF SpendUser, SpendUserFails, state

LEMMA SpendRateCall ==
    ASSUME DType, Bookkept, NEW c \in Callers, SpendRate(c)
    PROVE  /\ Moves(c) /\ cfg.kind = "rate" /\ call'[c].pc \in {"idle", "record"}
           /\ call[c].pc \in {"spend", "record"} /\ call'[c].cost = call[c].cost - 1
           /\ call'[c].cost <= call[c].cost /\ call'[c].period <= call[c].period
           /\ call'[c].pc # "idle" => call'[c].cost > 0
           /\ UNCHANGED <<cfg, counter, user, truth, period, recalc, emitted, alertVars>>
<1> DEFINE k == call[c].cost - 1
           m == [call[c] EXCEPT !.cost = k, !.pc = "record"]
           r == IF call[c].cost = 1 THEN Idle ELSE m
<1>1. call[c].cost \in Nat /\ call[c].cost > 0 /\ call[c].period \in Nat
  BY DEF SpendRate, DType, CallRecord, Bookkept
<1>3. call' = [call EXCEPT ![c] = r]
  BY DEF SpendRate
<1>4. k \in Int /\ k = call[c].cost - 1 /\ k < call[c].cost /\ (call[c].cost # 1 => k \in Nat /\ k > 0)
  BY <1>1
<1> HIDE DEF k
<1>5. call[c].cost # 1 => m \in CallRecord
  BY <1>4 DEF DType, CallRecord
<1>6. m.pc = "record" /\ m.cost = k /\ m.period = call[c].period
  BY DEF DType, CallRecord
<1> HIDE DEF m
<1>7. /\ r \in CallRecord /\ r.pc \in {"idle", "record"} /\ r.cost <= call[c].cost
      /\ r.cost = call[c].cost - 1 /\ r.period <= call[c].period /\ (r.pc # "idle" => r.cost > 0)
  <2>1. CASE call[c].cost = 1
    BY <1>1, <2>1, IdleCall
  <2>2. CASE call[c].cost # 1
    BY <1>1, <1>4, <1>5, <1>6, <2>2
  <2> QED
    BY <2>1, <2>2
<1> HIDE DEF r
<1>8. Moves(c) /\ call'[c] = r
  BY <1>3, <1>7 DEF DType, Moves
<1> QED
  BY <1>7, <1>8 DEF SpendRate

LEMMA ReleaseOrgCall ==
    ASSUME DType, NEW c \in Callers, NEW t, ReleaseOrg(c, t)
    PROVE  /\ Moves(c) /\ call[c].pc = "holding"
           /\ call'[c].pc = "return" /\ call'[c].cost = call[c].cost /\ call'[c].period = call[c].period
           /\ Gone(c) /\ counter' = [counter EXCEPT ![0] = DecrByFloorZero(@, call[c].cost)]
           /\ UNCHANGED <<cfg, user, entries, period, recalc, emitted, alertVars>>
<1> DEFINE x == HasLimit(t) /\ CrossedDown(counter'[0], call[c].cost, Limit)
           r == [call[c] EXCEPT !.pc = "return", !.crossed = x]
<1>1. call' = [call EXCEPT ![c].pc = "return", ![c].crossed = x]
  BY DEF ReleaseOrg
<1>2. x \in BOOLEAN
  OBVIOUS
<1> HIDE DEF x
<1>3. r \in CallRecord /\ r.pc = "return" /\ r.cost = call[c].cost /\ r.period = call[c].period
  BY <1>2 DEF DType, CallRecord
<1>4. call' = [call EXCEPT ![c] = r]
  BY <1>1 DEF DType, CallRecord
<1> HIDE DEF r
<1>5. Moves(c) /\ call'[c] = r
  BY <1>3, <1>4 DEF DType, Moves
<1>6. /\ call[c].pc = "holding" /\ Gone(c)
      /\ counter' = [counter EXCEPT ![0] = DecrByFloorZero(@, call[c].cost)]
      /\ UNCHANGED <<cfg, user, entries, period, recalc, emitted, alertVars>>
  BY DEF ReleaseOrg
<1> QED
  BY <1>3, <1>5, <1>6

\* The steps after which the caller has nothing in hand.
Leaves(c) ==
    \/ GiveUp(c) \/ SpendFails(c) \/ SpendAccumulator(c) \/ ReleaseUser(c) \/ ReleaseFails(c)

LEMMA LeavesCall ==
    ASSUME DType, NEW c \in Callers, Leaves(c)
    PROVE  Moves(c) /\ call'[c] = Idle /\ UNCHANGED <<cfg, period, recalc, emitted>>
<1>1. Return(c) /\ UNCHANGED <<cfg, period, recalc, emitted>>
  BY DEF Leaves, GiveUp, SpendFails, SpendAccumulator, ReleaseUser, ReleaseFails, state
<1> QED
  BY <1>1, ReturnCall

-----------------------------------------------------------------------------
(* Types, costs and periods, and who may overwrite a counter *)

Base == DType /\ Bookkept /\ NoOverwrites /\ NoRecounts

LEMMA BaseFacts ==
    ASSUME Base
    PROVE  /\ DType /\ 0 \in 0..MaxPeriod /\ period \in 0..MaxPeriod /\ MaxPeriod \in Nat
           /\ \A p \in 0..MaxPeriod : counter[p] \in Int /\ truth[p] \in Int
           /\ \A c \in Callers : /\ call[c].cost \in Nat /\ call[c].period \in 0..MaxPeriod
                                 /\ call[c].used \in Int
           /\ IsGauge => period = 0
<1>1. DType /\ 0 \in 0..MaxPeriod /\ MaxPeriod \in Nat
  BY DecisionNumbers DEF Base
<1>2. period \in 0..MaxPeriod /\ \A p \in 0..MaxPeriod : counter[p] \in Int /\ truth[p] \in Int
  BY <1>1 DEF DType
<1>3. \A c \in Callers : call[c] \in CallRecord
  BY <1>1 DEF DType
<1>4. IsGauge => period = 0
  BY DEF Base, Bookkept, IsGauge
<1> QED
  BY <1>1, <1>2, <1>3, <1>4 DEF CallRecord

LEMMA CallKept ==
    ASSUME Base, NEW c \in Callers, Moves(c), UNCHANGED <<cfg, period, recalc>>,
           call'[c].cost <= MaxCost, call'[c].period <= period,
           call'[c].pc # "idle" => call'[c].cost > 0,
           call'[c].pc = "repair" => "value" \in cfg.answers,
           call'[c].pc = "recount" => cfg.answers # {}
    PROVE  Bookkept' /\ NoOverwrites' /\ NoRecounts'
<1>1. MaxCost' = MaxCost
  BY DEF MaxCost
<1>2. \A d \in Callers : d = c \/ call'[d] = call[d]
  BY DEF Moves
<1>3. Bookkept'
  BY <1>1, <1>2 DEF Base, Bookkept
<1>4. NoOverwrites' /\ NoRecounts'
  BY <1>2 DEF Base, NoOverwrites, NoRecounts
<1> QED
  BY <1>3, <1>4

LEMMA StoreType ==
    ASSUME DType, NEW c \in Callers
    PROVE  /\ Rises(c) => counter' \in [0..MaxPeriod -> Int]
           /\ Exists(c) => truth' \in [0..MaxPeriod -> Int]
           /\ Gone(c) => truth' \in [0..MaxPeriod -> Int]
           /\ UserRises(c) => user' \in [Users -> Nat]
<1>1. call[c].cost \in Nat
  BY DEF DType, CallRecord
<1> QED
  BY <1>1 DEF DType, Rises, Exists, Gone, UserRises

LEMMA NotifyType ==
    ASSUME AlertsTypeOK, NEW k \in Kinds, Notify(k, Gauge)
    PROVE  AlertsTypeOK'
BY GaugeIsASubject DEF AlertsTypeOK, Notify, Hear, alertVars

LEMMA StepBase ==
    ASSUME Base, NEW c \in Callers, Step(c) \/ Fault(c)
    PROVE  Base'
<1>0. /\ DType /\ Bookkept /\ call[c].cost \in Nat /\ call[c].cost <= MaxCost
      /\ call[c].period \in Nat /\ call[c].period <= period /\ period \in Nat
      /\ call[c].pc # "idle" => call[c].cost > 0
      /\ MaxCost \in Nat
  BY ConfigFacts DEF Base, DType, CallRecord, Bookkept
<1>00. Idle.cost <= MaxCost /\ Idle.period <= period /\ Idle.pc = "idle"
  BY <1>0, IdleCall
<1>1. ASSUME Moves(c), UNCHANGED state
      PROVE  DType' /\ UNCHANGED <<cfg, period, recalc>>
  BY <1>0, <1>1 DEF DType, state, alertVars, Moves, AlertsTypeOK
<1>2. CASE ReadUsage(c)
  BY <1>0, <1>1, <1>2, ReadUsageCall, CallKept DEF Base
<1>3. CASE ReadUser(c)
  BY <1>0, <1>1, <1>3, ReadUserCall, CallKept DEF Base
<1>4. CASE ReadFails(c)
  BY <1>0, <1>1, <1>4, ReadFailsCall, CallKept DEF Base
<1>5. CASE Recount(c)
  BY <1>0, <1>1, <1>5, RecountCall, CallKept DEF Base
<1>6. CASE Repair(c)
  <2>1. counter' \in [0..MaxPeriod -> Int]
    BY <1>0, <1>6, RepairCall DEF DType, CallRecord
  <2>2. DType'
    BY <1>0, <1>6, <2>1, RepairCall DEF DType, Moves, AlertsTypeOK, alertVars
  <2> QED
    BY <1>0, <1>6, <2>2, RepairCall, CallKept DEF Base
<1>7. CASE SpendUserFails(c)
  BY <1>0, <1>1, <1>7, HoldingCall, CallKept DEF Base, SpendUserFails
<1>8. CASE SpendUser(c)
  <2>1. AlertsTypeOK'
    BY <1>0, <1>8, NotifyType DEF SpendUser, DType, Kinds, AlertsTypeOK, alertVars
  <2>2. user' \in [Users -> Nat] /\ emitted' \in BOOLEAN
    BY <1>0, <1>8, StoreType DEF SpendUser, DType
  <2>3. DType'
    BY <1>0, <1>8, <2>1, <2>2, HoldingCall DEF DType, Moves
  <2> QED
    BY <1>0, <1>8, <2>3, HoldingCall, CallKept DEF Base
<1>9. CASE SpendRate(c)
  <2>1. DType'
    BY <1>0, <1>9, SpendRateCall DEF DType, Moves, AlertsTypeOK, alertVars
  <2>2. call'[c].cost <= MaxCost /\ call'[c].period <= period
    <3>1. call'[c].cost \in Nat /\ call'[c].period \in Nat
      BY <2>1 DEF DType, CallRecord
    <3> QED
      BY <1>0, <1>9, <3>1, SpendRateCall
  <2> QED
    BY <1>0, <1>9, <2>1, <2>2, SpendRateCall, CallKept DEF Base
<1>10. CASE \E t \in cfg.tiers : SpendEnforced(c, t)
  <2>1. DType'
    BY <1>0, <1>10, SpendEnforcedCall, StoreType DEF DType, Moves, AlertsTypeOK, alertVars
  <2> QED
    BY <1>0, <1>00, <1>10, <2>1, SpendEnforcedCall, CallKept DEF Base
<1>11. CASE \E t \in cfg.tiers : SpendOrg(c, t)
  <2>1. DType'
    BY <1>0, <1>11, SpendOrgCall, StoreType DEF DType, Moves, AlertsTypeOK, alertVars
  <2> QED
    BY <1>0, <1>11, <2>1, SpendOrgCall, CallKept DEF Base
<1>12. CASE Leaves(c)
  <2>1. Moves(c) /\ call'[c] = Idle /\ UNCHANGED <<cfg, period, recalc, emitted>>
    BY <1>0, <1>12, LeavesCall
  <2>2. counter' \in [0..MaxPeriod -> Int] /\ truth' \in [0..MaxPeriod -> Int]
    BY <1>0, <1>12, StoreType DEF Leaves, GiveUp, SpendFails, SpendAccumulator, ReleaseUser, ReleaseFails,
           state, DType
  <2>3. user' \in [Users -> Nat]
    BY <1>0, <1>12 DEF Leaves, GiveUp, SpendFails, SpendAccumulator, ReleaseUser, ReleaseFails, state, DType,
           DecrByFloorZero
  <2>4. AlertsTypeOK'
    BY <1>0, <1>12, NotifyType DEF Leaves, GiveUp, SpendFails, SpendAccumulator, ReleaseUser, ReleaseFails,
           state, DType, AlertsTypeOK, alertVars, Kinds
  <2>5. DType'
    BY <1>0, <2>1, <2>2, <2>3, <2>4 DEF DType, Moves
  <2> QED
    BY <1>0, <1>00, <2>1, <2>5, CallKept DEF Base
<1> QED
  BY <1>2, <1>3, <1>4, <1>5, <1>6, <1>7, <1>8, <1>9, <1>10, <1>11, <1>12 DEF Step, Fault, Leaves

\* Recalculate, the end of a period, and time.
LEMMA TimeBase ==
    ASSUME Base,
           \/ RecalcFetch \/ RecalcRead \/ RecalcSet \/ NewPeriod \/ Tick
           \/ CooldownEnds /\ UNCHANGED <<cfg, counter, user, entries, truth, period, call, recalc, emitted>>
           \/ UNCHANGED vars
    PROVE  Base'
<1>0. cfg' = cfg /\ call' = call
  BY DEF RecalcFetch, RecalcRead, RecalcSet, NewPeriod, Tick, vars, state
<1>1. MaxCost' = MaxCost
  BY <1>0 DEF MaxCost
<1>2. AlertsTypeOK'
  BY DEF Base, DType, RecalcFetch, RecalcRead, RecalcSet, NewPeriod, Tick, vars, state, alertVars, AlertsTypeOK,
         CooldownEnds
<1>3. period' \in 0..MaxPeriod /\ period' >= period /\ (cfg.kind # "accumulator" => period' = period)
  BY DecisionNumbers DEF Base, DType, RecalcFetch, RecalcRead, RecalcSet, NewPeriod, Tick, vars, state
<1>4. counter' \in [0..MaxPeriod -> Int]
  BY DEF Base, DType, RecalcFetch, RecalcRead, RecalcSet, NewPeriod, Tick, vars, state
<1>5. /\ recalc' \in [pc : {"idle", "read", "set"}, seen : Int]
      /\ "value" \notin cfg.answers => recalc'.pc = "idle"
  <2>1. CASE RecalcFetch
    BY <2>1 DEF Base, DType, RecalcFetch
  <2>2. CASE RecalcRead \/ RecalcSet
    BY <2>2 DEF Base, DType, NoOverwrites, RecalcRead, RecalcSet
  <2>3. CASE recalc' = recalc
    BY <2>3 DEF Base, DType, NoOverwrites
  <2> QED
    BY <2>1, <2>2, <2>3 DEF NewPeriod, Tick, vars, state
<1>6. UNCHANGED <<user, truth, emitted>>
  BY DEF RecalcFetch, RecalcRead, RecalcSet, NewPeriod, Tick, vars, state
<1>7. DType'
  BY <1>0, <1>2, <1>3, <1>4, <1>5, <1>6 DEF Base, DType
<1>8. Bookkept'
  BY <1>0, <1>1, <1>3 DEF Base, Bookkept, DType, CallRecord
<1>9. NoOverwrites' /\ NoRecounts'
  BY <1>0, <1>5 DEF Base, NoOverwrites, NoRecounts
<1> QED
  BY <1>7, <1>8, <1>9 DEF Base

LEMMA NextBase ==
    ASSUME Base, [Next]_vars
    PROVE  Base'
<1>1. ASSUME NEW c \in Callers, NEW t \in cfg.tiers, ReleaseOrg(c, t)
      PROVE  Base'
  <2>0. DType
    BY DEF Base
  <2>1. counter' \in [0..MaxPeriod -> Int] /\ truth' \in [0..MaxPeriod -> Int]
    <3>1. counter[0] \in Int /\ call[c].cost \in Nat
      BY <2>0, DecisionNumbers DEF DType, CallRecord
    <3>2. DecrByFloorZero(counter[0], call[c].cost) \in Int
      BY <3>1 DEF DecrByFloorZero
    <3> QED
      BY <1>1, <2>0, <3>2, ReleaseOrgCall, StoreType DEF DType
  <2>2. DType'
    BY <1>1, <2>0, <2>1, ReleaseOrgCall DEF DType, Moves, AlertsTypeOK, alertVars
  <2> QED
    BY <1>1, <2>0, <2>2, ReleaseOrgCall, CallKept DEF Base, Bookkept
<1>2. ASSUME NEW c \in Callers, NEW t \in cfg.tiers, NEW cost \in cfg.costs, Check(c, cost, t)
      PROVE  Base'
  <2>0. DType /\ cost \in Nat /\ cost > 0 /\ cost <= MaxCost /\ period \in Nat
    BY ConfigFacts DEF Base, DType
  <2>1. DType' /\ UNCHANGED <<cfg, period, recalc>>
    BY <1>2, <2>0, CheckCall DEF DType, Moves, AlertsTypeOK, alertVars, state
  <2> QED
    <3>1. /\ Moves(c) /\ call'[c].cost = cost /\ call'[c].period = period
          /\ call'[c].pc \in {"refused", "spend", "read"}
      BY <1>2, <2>0, CheckCall
    <3>2. Bookkept' /\ NoOverwrites' /\ NoRecounts'
      BY <2>0, <2>1, <3>1, CallKept
    <3> QED
      BY <2>1, <3>2 DEF Base
<1> QED
  BY <1>1, <1>2, StepBase, TimeBase DEF Next

LEMMA ConfigKept ==
    ASSUME [Next]_vars
    PROVE  cfg' = cfg
BY DEF Next, Step, Fault, Check, ReadUsage, ReadUser, ReadFails, Recount, Repair, GiveUp, SpendEnforced,
       SpendOrg, SpendUser, SpendUserFails, SpendFails, SpendAccumulator, SpendRate, ReleaseOrg, ReleaseUser,
       ReleaseFails, RecalcFetch, RecalcRead, RecalcSet, NewPeriod, Tick, vars, state

-----------------------------------------------------------------------------
(* The counter never falls below what exists *)

LEMMA NextNeverUndercounts ==
    ASSUME Base, NeverUndercounts, [Next]_vars
    PROVE  NeverUndercounts'
<1>0. cfg' = cfg
  BY ConfigKept
<1> SUFFICES ASSUME cfg.answers = {}, cfg.kind # "rate"
             PROVE  \A p \in 0..MaxPeriod : truth'[p] <= counter'[p]
  BY <1>0 DEF NeverUndercounts
<1>1. /\ DType /\ 0 \in 0..MaxPeriod
      /\ \A p \in 0..MaxPeriod : truth[p] <= counter[p] /\ truth[p] \in Int /\ counter[p] \in Int
      /\ \A c \in Callers : call[c].cost \in Nat
      /\ \A c \in Callers : call[c].pc \notin {"recount", "repair"}
      /\ recalc.pc = "idle"
      /\ IsGauge => period = 0
  <2>1. \A p \in 0..MaxPeriod : truth[p] <= counter[p]
    BY DEF NeverUndercounts
  <2>2. recalc.pc = "idle" /\ \A c \in Callers : call[c].pc \notin {"recount", "repair"}
    BY DEF Base, NoOverwrites, NoRecounts
  <2> QED
    BY <2>1, <2>2, BaseFacts
<1>2. CASE UNCHANGED <<counter, truth>>
  BY <1>1, <1>2
<1>3. ASSUME NEW c \in Callers, Rises(c), Exists(c), IsGauge
      PROVE  \A p \in 0..MaxPeriod : truth'[p] <= counter'[p]
  BY <1>1, <1>3 DEF DType, Rises, Exists
<1>4. ASSUME NEW c \in Callers, SpendAccumulator(c)
      PROVE  \A p \in 0..MaxPeriod : truth'[p] <= counter'[p]
  BY <1>1, <1>4 DEF DType, SpendAccumulator, Exists
<1>5. ASSUME NEW c \in Callers, Gone(c), \/ counter' = counter
                                         \/ counter' = [counter EXCEPT ![0] = DecrByFloorZero(@, call[c].cost)]
      PROVE  \A p \in 0..MaxPeriod : truth'[p] <= counter'[p]
  <2>1. \A p \in 0..MaxPeriod : truth'[p] = IF p = 0 THEN truth[p] - call[c].cost ELSE truth[p]
    BY <1>1, <1>5 DEF DType, Gone
  <2>2. CASE counter' = counter
    BY <1>1, <2>1, <2>2
  <2>3. CASE counter' = [counter EXCEPT ![0] = DecrByFloorZero(@, call[c].cost)]
    BY <1>1, <2>1, <2>3 DEF DType, DecrByFloorZero
  <2> QED
    BY <1>5, <2>2, <2>3
<1>6. ASSUME NEW c \in Callers, Step(c) \/ Fault(c)
      PROVE  \A p \in 0..MaxPeriod : truth'[p] <= counter'[p]
  <2>1. CASE ReadUsage(c) \/ ReadUser(c) \/ ReadFails(c) \/ GiveUp(c) \/ SpendUser(c) \/ SpendUserFails(c)
             \/ SpendFails(c) \/ SpendRate(c) \/ ReleaseUser(c)
    <3>1. UNCHANGED <<counter, truth>>
      BY <2>1 DEF ReadUsage, ReadUser, ReadFails, GiveUp, SpendUser, SpendUserFails, SpendFails, SpendRate,
             ReleaseUser, state
    <3> QED
      BY <1>2, <3>1
  <2>2. ~Recount(c) /\ ~Repair(c)
    BY <1>1 DEF Recount, Repair
  <2>3. CASE \E t \in cfg.tiers : SpendEnforced(c, t) \/ SpendOrg(c, t)
    BY <1>1, <1>2, <1>3, <2>3, SpendEnforcedCall, SpendOrgCall
  <2>4. CASE ReleaseFails(c)
    BY <1>5, <2>4 DEF ReleaseFails
  <2> QED
    BY <1>4, <1>6, <2>1, <2>2, <2>3, <2>4 DEF Step, Fault
<1>7. ASSUME NEW c \in Callers, NEW t \in cfg.tiers, ReleaseOrg(c, t) \/ \E cost \in cfg.costs : Check(c, cost, t)
      PROVE  \A p \in 0..MaxPeriod : truth'[p] <= counter'[p]
  BY <1>1, <1>2, <1>5, <1>7, ReleaseOrgCall DEF Check, state
<1>8. ~RecalcRead /\ ~RecalcSet
  BY <1>1 DEF RecalcRead, RecalcSet
<1>9. CASE RecalcFetch \/ NewPeriod \/ Tick \/ UNCHANGED vars
  BY <1>2, <1>9 DEF RecalcFetch, NewPeriod, Tick, vars, state
<1> QED
  BY <1>2, <1>6, <1>7, <1>8, <1>9 DEF Next

-----------------------------------------------------------------------------
(* An over-admission is observed *)

\* Nothing takes back what was heard of the gauge.
LEMMA NotifyHears ==
    ASSUME AlertsTypeOK, CoolingHeard, NEW k \in Kinds, Notify(k, Gauge)
    PROVE  /\ CoolingHeard'
           /\ heard[Gauge] # Quiet => heard'[Gauge] # Quiet
           /\ k = "admitted" => heard'[Gauge] # Quiet
<1>1. CASE <<k, Gauge>> \in cooling
  BY <1>1 DEF Notify, alertVars, CoolingHeard
<1>2. CASE <<k, Gauge>> \notin cooling
  <2>1. heard'[Gauge] = k /\ k # Quiet
    BY <1>2, GaugeIsASubject DEF Notify, Hear, AlertsTypeOK, Kinds, Quiet
  <2> QED
    BY <2>1 DEF CoolingHeard
<1> QED
  BY <1>1, <1>2

LEMMA NextHeard ==
    ASSUME Base, CoolingHeard, [Next]_vars
    PROVE  CoolingHeard' /\ (heard[Gauge] # Quiet => heard'[Gauge] # Quiet)
<1>0. AlertsTypeOK
  BY DEF Base, DType
<1>1. CASE UNCHANGED alertVars
  BY <1>1 DEF alertVars, CoolingHeard
<1>2. ASSUME NEW c \in Callers, SpendUser(c) \/ ReleaseUser(c)
      PROVE  CoolingHeard' /\ (heard[Gauge] # Quiet => heard'[Gauge] # Quiet)
  <2>1. Notify("admitted", Gauge) \/ Notify("resolved", Gauge) \/ UNCHANGED alertVars
    BY <1>2 DEF SpendUser, ReleaseUser
  <2> QED
    BY <1>0, <1>1, <2>1, NotifyHears DEF Kinds
<1>3. CASE CooldownEnds
  BY <1>3 DEF CooldownEnds, CoolingHeard
<1>4. ASSUME NEW c \in Callers, Step(c) \/ Fault(c), ~SpendUser(c), ~ReleaseUser(c)
      PROVE  UNCHANGED alertVars
  BY <1>4 DEF Step, Fault, ReadUsage, ReadUser, ReadFails, Recount, Repair, GiveUp, SpendEnforced, SpendOrg,
         SpendUserFails, SpendFails, SpendAccumulator, SpendRate, ReleaseFails, state
<1>5. ASSUME NEW c \in Callers, NEW t \in cfg.tiers, ReleaseOrg(c, t) \/ \E cost \in cfg.costs : Check(c, cost, t)
      PROVE  UNCHANGED alertVars
  BY <1>5 DEF ReleaseOrg, Check, state
<1>6. CASE RecalcFetch \/ RecalcRead \/ RecalcSet \/ NewPeriod \/ Tick \/ UNCHANGED vars
  <2>1. UNCHANGED alertVars
    BY <1>6 DEF RecalcFetch, RecalcRead, RecalcSet, NewPeriod, Tick, vars, state
  <2> QED
    BY <1>1, <2>1
<1> QED
  BY <1>1, <1>2, <1>3, <1>4, <1>5, <1>6 DEF Next

LEMMA NextObserved ==
    ASSUME Base, CoolingHeard, Observed, [Next]_vars
    PROVE  Observed'
<1> DEFINE Coming == \E c \in Callers : call[c].pc = "count" /\ call[c].crossed
           Told   == emitted /\ (cfg.alerts => heard[Gauge] # Quiet)
<1>0. cfg' = cfg
  BY ConfigKept
<1> SUFFICES ASSUME cfg.tiers = {"resolved"}, cfg.faults = {}, cfg.answers = {}, IsGauge, counter'[0] > Limit
             PROVE  Coming' \/ Told'
  BY <1>0 DEF Observed, IsGauge
<1>1. counter[0] > Limit => Coming \/ Told
  BY DEF Observed
<1>2. /\ DType /\ 0 \in 0..MaxPeriod /\ counter[0] \in Int /\ Limit \in Nat
      /\ \A c \in Callers : call[c].cost \in Nat
  BY BaseFacts, HardIsNat
<1>3. (heard[Gauge] # Quiet => heard'[Gauge] # Quiet)
  BY NextHeard
<1>4. recalc.pc = "idle" /\ \A c \in Callers : call[c].pc \notin {"recount", "repair"}
  BY DEF Base, NoOverwrites, NoRecounts
<1>5. ASSUME emitted' = emitted, counter'[0] <= counter[0], counter'[0] \in Int,
             \A c \in Callers : call[c].pc = "count" => call'[c] = call[c]
      PROVE  Coming' \/ Told'
  <2>1. Coming \/ Told
    BY <1>1, <1>2, <1>5
  <2>2. Coming => Coming'
    BY <1>5
  <2>3. Told => Told'
    BY <1>0, <1>3, <1>5
  <2> QED
    BY <2>1, <2>2, <2>3
<1>6. ASSUME NEW c \in Callers, Moves(c), call[c].pc # "count", emitted' = emitted, counter' = counter
      PROVE  Coming' \/ Told'
  <2>1. \A d \in Callers : call[d].pc = "count" => call'[d] = call[d]
    BY <1>6 DEF Moves
  <2> QED
    BY <1>2, <1>5, <1>6, <2>1
<1>7. ASSUME NEW c \in Callers, Step(c) \/ Fault(c)
      PROVE  Coming' \/ Told'
  <2>1. CASE ReadUsage(c) \/ ReadUser(c)
    BY <1>2, <1>6, <2>1, ReadUsageCall, ReadUserCall DEF state
  <2>2. ~Recount(c) /\ ~Repair(c) /\ ~Fault(c)
    BY <1>4 DEF Recount, Repair, Fault, ReadFails, SpendUserFails, SpendFails, ReleaseFails
  <2>3. CASE GiveUp(c) \/ ReleaseUser(c)
    <3>1. Leaves(c) /\ call[c].pc # "count" /\ counter' = counter
      BY <2>3 DEF Leaves, GiveUp, ReleaseUser, state
    <3> QED
      BY <1>2, <1>6, <3>1, LeavesCall
  <2>4. ~SpendAccumulator(c) /\ ~SpendRate(c)
    BY DEF SpendAccumulator, SpendRate, IsGauge
  <2>5. CASE SpendUser(c)
    <3>1. Moves(c) /\ counter' = counter
      BY <1>2, <2>5, HoldingCall DEF Moves
    <3>2. CASE call[c].crossed
      <4>1. emitted'
        BY <2>5, <3>2 DEF SpendUser
      <4>2. cfg.alerts => heard'[Gauge] # Quiet
        BY <1>2, <2>5, <3>2, NotifyHears DEF SpendUser, Kinds, DType
      <4> QED
        BY <1>0, <4>1, <4>2
    <3>3. CASE ~call[c].crossed
      <4>1. emitted' = emitted
        BY <1>2, <2>5, <3>3 DEF SpendUser, DType
      <4>2. Coming => Coming'
        BY <3>1, <3>3 DEF Moves
      <4>3. Told => Told'
        BY <1>0, <1>3, <4>1
      <4> QED
        BY <1>1, <3>1, <4>2, <4>3
    <3> QED
      BY <3>2, <3>3
  <2>6. ASSUME NEW t \in cfg.tiers, SpendEnforced(c, t)
        PROVE  Coming' \/ Told'
    <3>1. Moves(c) /\ call[c].pc # "count" /\ emitted' = emitted
      BY <1>2, <2>6, SpendEnforcedCall
    <3>2. counter' = counter
      <4>1. CASE Rises(c) /\ counter[0] + call[c].cost <= Limit
        BY <1>2, <4>1 DEF DType, Rises
      <4> QED
        BY <1>2, <2>6, <4>1, SpendEnforcedCall
    <3> QED
      BY <1>6, <3>1, <3>2
  <2>7. ASSUME NEW t \in cfg.tiers, SpendOrg(c, t)
        PROVE  Coming' \/ Told'
    <3>1. /\ Moves(c) /\ call[c].pc = "spend" /\ Rises(c) /\ call'[c].pc = "count"
          /\ call'[c].crossed <=> CrossedUp(counter'[0], call[c].cost, Limit)
          /\ ~(counter[0] <= Limit /\ counter'[0] > Limit) => emitted' = emitted
      BY <1>2, <2>7, SpendOrgCall
    <3>2. counter'[0] = counter[0] + call[c].cost
      BY <1>2, <3>1 DEF DType, Rises
    <3>3. CASE counter[0] <= Limit
      <4>1. CrossedUp(counter'[0], call[c].cost, Limit)
        BY <1>2, <3>2, <3>3 DEF CrossedUp
      <4> QED
        BY <3>1, <4>1
    <3>4. CASE ~(counter[0] <= Limit)
      <4>1. counter[0] > Limit /\ emitted' = emitted
        BY <1>2, <3>1, <3>4
      <4>2. Coming => Coming'
        BY <3>1 DEF Moves
      <4>3. Told => Told'
        BY <1>0, <1>3, <4>1
      <4> QED
        BY <1>1, <4>1, <4>2, <4>3
    <3> QED
      BY <3>3, <3>4
  <2> QED
    BY <1>7, <2>1, <2>2, <2>3, <2>4, <2>5, <2>6, <2>7 DEF Step
<1>8. ASSUME NEW c \in Callers, NEW t \in cfg.tiers, ReleaseOrg(c, t)
      PROVE  Coming' \/ Told'
  <2>1. /\ Moves(c) /\ call[c].pc = "holding" /\ emitted' = emitted
        /\ counter' = [counter EXCEPT ![0] = DecrByFloorZero(@, call[c].cost)]
    BY <1>2, <1>8, ReleaseOrgCall
  <2>2. counter'[0] = DecrByFloorZero(counter[0], call[c].cost)
    BY <1>2, <2>1 DEF DType
  <2>3. counter'[0] \in Int /\ counter'[0] <= counter[0]
    BY <1>2, <2>2 DEF DecrByFloorZero
  <2>4. \A d \in Callers : call[d].pc = "count" => call'[d] = call[d]
    BY <2>1 DEF Moves
  <2> QED
    BY <1>5, <2>1, <2>3, <2>4
<1>9. ASSUME NEW c \in Callers, NEW t \in cfg.tiers, NEW cost \in cfg.costs, Check(c, cost, t)
      PROVE  Coming' \/ Told'
  BY <1>2, <1>6, <1>9, CheckCall DEF state
<1>10. CASE \/ RecalcFetch \/ NewPeriod \/ Tick \/ UNCHANGED vars
            \/ CooldownEnds /\ UNCHANGED <<cfg, counter, user, entries, truth, period, call, recalc, emitted>>
  <2>1. UNCHANGED <<counter, call, emitted>>
    BY <1>10 DEF RecalcFetch, NewPeriod, Tick, vars, state
  <2> QED
    BY <1>2, <1>5, <2>1
<1>11. ~RecalcRead /\ ~RecalcSet
  BY <1>4 DEF RecalcRead, RecalcSet
<1> QED
  BY <1>7, <1>8, <1>9, <1>10, <1>11 DEF Next

-----------------------------------------------------------------------------
(* The overshoot *)

LEMMA Products ==
    ASSUME NEW m \in Nat, NEW j \in Int, NEW k \in Int, j <= k
    PROVE  m * j <= m * k /\ m * k = m * (k - 1) + m /\ m * j \in Int /\ m * k \in Int
<1>1. k - j \in Nat
  OBVIOUS
<1>2. m * (k - j) \in Nat /\ m * k = m * j + m * (k - j)
  BY <1>1
<1> QED
  BY <1>2

LEMMA CommittedIsFinite ==
    /\ IsFiniteSet(Committed) /\ Cardinality(Committed) \in Nat
    /\ Cardinality(Committed) <= Cardinality(Callers) /\ Cardinality(Callers) \in Nat \ {0}
    /\ Committed # {} => Cardinality(Committed) >= 1
<1>1. Committed \subseteq Callers
  BY DEF Committed
<1>2. IsFiniteSet(Committed) /\ Cardinality(Committed) <= Cardinality(Callers)
  BY <1>1, FS_Subset, CallersAreFinite
<1>3. Cardinality(Committed) \in Nat /\ Cardinality(Callers) \in Nat
  BY <1>2, FS_CardinalityType, CallersAreFinite
<1>4. Cardinality(Callers) # 0 /\ (Committed # {} => Cardinality(Committed) # 0)
  BY <1>2, FS_EmptySet, CallersAreFinite
<1> QED
  BY <1>2, <1>3, <1>4

\* Numbers that only depend on the configuration.
LEMMA CeilingFacts ==
    ASSUME Base
    PROVE  /\ MaxCost \in Nat /\ Ceiling \in Int /\ Hard <= Ceiling
           /\ cfg' = cfg => MaxCost' = MaxCost /\ Ceiling' = Ceiling
<1>1. MaxCost \in Nat
  BY ConfigFacts DEF Base, DType
<1>2. MaxCost * (Cardinality(Callers) - 1) \in Nat
  BY <1>1, CommittedIsFinite
<1>3. cfg' = cfg => MaxCost' = MaxCost
  BY DEF MaxCost
<1> QED
  BY <1>1, <1>2, <1>3, HardIsNat DEF Ceiling

\* The caller that joins saw everything that was spent before.
LEMMA ReservedByJoining ==
    ASSUME Base, Base', cfg' = cfg, NEW c \in Committed', counter'[period'] + call'[c].cost <= Hard
    PROVE  Reserved'
<1> DEFINE n == Cardinality(Committed')
           v == counter'[period'] + call'[c].cost
<1>1. v \in Int
  <2>1. c \in Callers
    BY DEF Committed
  <2>2. counter'[period'] \in Int /\ call'[c] \in CallRecord
    BY <2>1 DEF Base, DType
  <2> QED
    BY <2>2 DEF CallRecord
<1>2. n \in Nat /\ n <= Cardinality(Callers) /\ Cardinality(Callers) \in Nat
  <2>1. (Cardinality(Committed) \in Nat /\ Cardinality(Committed) <= Cardinality(Callers)
          /\ Cardinality(Callers) \in Nat \ {0})'
    BY CommittedIsFinite, PTL
  <2> QED
    BY <2>1
<1> HIDE DEF n, v
<1>3. MaxCost * (n - 1) <= MaxCost * (Cardinality(Callers) - 1)
  BY <1>2, CeilingFacts, Products
<1>4. v + MaxCost * (n - 1) <= Ceiling
  BY <1>1, <1>2, <1>3, CeilingFacts, HardIsNat, Products DEF Ceiling, v
<1> QED
  BY <1>4, CeilingFacts DEF Reserved, n, v

\* A caller that leaves spends no more than was reserved for it.
LEMMA ReservedByLeaving ==
    ASSUME Base, Base', UNCHANGED <<cfg, period>>, Reserved,
           NEW c \in Committed, Moves(c), Committed' = Committed \ {c},
           counter'[period] <= counter[period] + call[c].cost
    PROVE  counter'[period] <= Ceiling /\ Reserved'
<1> DEFINE n == Cardinality(Committed)
           k == counter[period]
           l == counter'[period]
<1>1. PICK w \in Committed : k + call[w].cost + MaxCost * (n - 1) <= Ceiling
  BY DEF Reserved
<1>2. /\ n \in Nat /\ n >= 1 /\ k \in Int /\ l \in Int /\ MaxCost \in Nat /\ Ceiling \in Int
      /\ \A d \in Committed : d \in Callers /\ call[d].cost \in Nat /\ call[d].cost <= MaxCost
  <2>1. n \in Nat /\ n >= 1
    BY CommittedIsFinite
  <2>2. k \in Int /\ l \in Int
    BY DEF Base, DType
  <2>3. \A d \in Committed : d \in Callers /\ call[d].cost \in Nat /\ call[d].cost <= MaxCost
    BY BaseFacts DEF Committed, Base, Bookkept
  <2> QED
    BY <2>1, <2>2, <2>3, CeilingFacts
<1>3. Cardinality(Committed') = n - 1
  BY CommittedIsFinite, FS_RemoveElement
<1> HIDE DEF n, k, l
<1>4. l <= k + call[c].cost
  BY DEF k, l
<1>5. MaxCost * (n - 1) \in Nat /\ (n >= 2 => MaxCost * (n - 1) = MaxCost * (n - 2) + MaxCost)
  <2>1. n - 1 \in Nat /\ (n - 1) - 1 = n - 2
    BY <1>2
  <2> QED
    BY <1>2, <2>1, Products
<1>6. w # c => n >= 2
  <2> SUFFICES ASSUME w # c PROVE n >= 2
    OBVIOUS
  <2>1. Committed \ {c} # {}
    OBVIOUS
  <2>2. IsFiniteSet(Committed \ {c}) /\ Cardinality(Committed \ {c}) = n - 1
    BY <1>3, CommittedIsFinite, FS_RemoveElement
  <2>3. n - 1 # 0
    BY <2>1, <2>2, FS_EmptySet
  <2> QED
    BY <1>2, <2>3
<1>7. l <= Ceiling
  BY <1>1, <1>2, <1>4, <1>5, <1>6
<1>8. Reserved'
  <2> SUFFICES ASSUME Committed' # {}
               PROVE  \E d \in Committed' : l + call'[d].cost + MaxCost * (Cardinality(Committed') - 1) <= Ceiling
    BY CeilingFacts DEF Reserved, l
  <2>1. PICK d \in Committed' : w # c => d = w
    OBVIOUS
  <2>2. d \in Committed /\ d # c /\ call'[d] = call[d]
    BY <1>2, <2>1 DEF Moves
  <2>3. n >= 2 /\ Cardinality(Committed') - 1 = n - 2
    <3>1. IsFiniteSet(Committed') /\ Cardinality(Committed') # 0
      BY CommittedIsFinite, FS_RemoveElement, FS_EmptySet
    <3> QED
      BY <1>2, <1>3, <3>1
  <2>4. l + call[d].cost + MaxCost * (n - 2) <= Ceiling
    <3>1. CASE w = c
      BY <1>1, <1>2, <1>4, <1>5, <2>2, <2>3, <3>1
    <3>2. CASE w # c
      BY <1>1, <1>2, <1>4, <1>5, <2>1, <2>2, <2>3, <3>2
    <3> QED
      BY <3>1, <3>2
  <2> QED
    BY <2>2, <2>3, <2>4
<1> QED
  BY <1>7, <1>8 DEF l

LEMMA ReservedByStaying ==
    ASSUME Base, Base', UNCHANGED <<cfg, period>>, Reserved, Committed' = Committed,
           \A d \in Committed : call'[d].cost = call[d].cost, counter'[period] <= counter[period]
    PROVE  Reserved'
<1> SUFFICES ASSUME Committed # {}
             PROVE  \E d \in Committed : counter'[period] + call[d].cost + MaxCost * (Cardinality(Committed) - 1)
                                         <= Ceiling
  BY CeilingFacts DEF Reserved
<1>1. PICK w \in Committed : counter[period] + call[w].cost + MaxCost * (Cardinality(Committed) - 1) <= Ceiling
  BY DEF Reserved
<1>2. /\ counter[period] \in Int /\ counter'[period] \in Int /\ call[w].cost \in Nat /\ Ceiling \in Int
      /\ MaxCost * (Cardinality(Committed) - 1) \in Int
  <2>1. counter'[period] \in Int
    BY DEF Base, DType
  <2>2. counter[period] \in Int /\ call[w].cost \in Nat
    BY BaseFacts DEF Committed
  <2> QED
    BY <2>1, <2>2, CeilingFacts, CommittedIsFinite
<1> QED
  BY <1>1, <1>2

\* The step of one caller changes nobody else's commitment.
CommitsLater(c) ==
    /\ call'[c].cost <= Hard
    /\ \/ call'[c].pc = "spend"
       \/ call'[c].pc = "user" /\ call'[c].used + call'[c].cost <= Hard
       \/ call'[c].pc = "read" /\ call'[c].period < period'

LEMMA OthersStayCommitted ==
    ASSUME NEW c \in Callers, Moves(c), period' = period
    PROVE  Committed' = IF CommitsLater(c) THEN Committed \cup {c} ELSE Committed \ {c}
<1>1. \A d \in Callers : d # c => (d \in Committed' <=> d \in Committed)
  BY DEF Committed, Moves
<1>2. c \in Committed' <=> CommitsLater(c)
  BY DEF Committed, CommitsLater
<1>3. Committed \subseteq Callers /\ Committed' \subseteq Callers
  BY DEF Committed
<1> QED
  BY <1>1, <1>2, <1>3

\* A step that spends nothing: its caller is not committed afterwards, or was committed before,
\* or has just read that there is room.
LEMMA ReservedByMoving ==
    ASSUME Base, Base', UNCHANGED <<cfg, period>>, Reserved,
           NEW c \in Callers, Moves(c), counter'[period] <= counter[period],
           CommitsLater(c) => /\ call'[c].cost = call[c].cost
                              /\ c \in Committed \/ counter'[period] + call[c].cost <= Hard
    PROVE  Reserved'
<1>0. /\ counter'[period] \in Int /\ counter[period] \in Int /\ call[c].cost \in Nat
      /\ \A d \in Committed : d \in Callers
  BY BaseFacts DEF Base, DType, Committed
<1>1. Committed' = IF CommitsLater(c) THEN Committed \cup {c} ELSE Committed \ {c}
  BY OthersStayCommitted
<1>2. CASE ~CommitsLater(c) /\ c \in Committed
  <2>1. Committed' = Committed \ {c} /\ counter'[period] <= counter[period] + call[c].cost
    BY <1>0, <1>1, <1>2
  <2> QED
    BY <1>2, <2>1, ReservedByLeaving
<1>3. CASE Committed' = Committed /\ (CommitsLater(c) \/ c \notin Committed)
  <2>1. \A d \in Committed : call'[d].cost = call[d].cost
    BY <1>0, <1>3 DEF Moves
  <2> QED
    BY <1>3, <2>1, ReservedByStaying
<1>4. CASE CommitsLater(c) /\ c \notin Committed
  <2>1. c \in Committed' /\ counter'[period'] + call'[c].cost <= Hard
    BY <1>1, <1>4
  <2> QED
    BY <2>1, ReservedByJoining
<1> QED
  BY <1>1, <1>2, <1>3, <1>4

\* A step of one caller that leaves the counters alone.
LEMMA MoveKeepsOver ==
    ASSUME Base, Base', UNCHANGED <<cfg, period, counter>>, OverParts, NEW c \in Callers, Moves(c), CallsOver(c)',
           CommitsLater(c) => /\ call'[c].cost = call[c].cost
                              /\ c \in Committed \/ counter[period] + call[c].cost <= Hard
    PROVE  OverParts'
<1>1. Bounded' /\ FutureEmpty' /\ EnforcedHolds'
  BY CeilingFacts DEF OverParts, Bounded, FutureEmpty, EnforcedHolds, IsGauge
<1>2. \A d \in Callers : CallsOver(d)'
  BY DEF OverParts, CallsOver, Moves
<1>3. counter'[period] <= counter[period]
  BY BaseFacts
<1>4. Reserved'
  BY <1>3, ReservedByMoving DEF OverParts
<1> QED
  BY <1>1, <1>2, <1>4 DEF OverParts

\* A step that spends the reservation of its caller.
LEMMA SpendKeepsOver ==
    ASSUME Base, Base', UNCHANGED <<cfg, period>>, OverParts, NEW c \in Callers, Moves(c),
           call[c].pc = "spend", call'[c].pc \notin {"spend", "user", "read", "recount"},
           counter' = [counter EXCEPT ![period] = @ + call[c].cost], EnforcedHolds'
    PROVE  OverParts'
<1>0. /\ period \in 0..MaxPeriod /\ call[c].cost \in Nat /\ DType
      /\ \A p \in 0..MaxPeriod : counter[p] \in Int
  BY BaseFacts
<1>1. \A p \in 0..MaxPeriod : counter'[p] = IF p = period THEN counter[p] + call[c].cost ELSE counter[p]
  BY <1>0 DEF DType
<1>2. c \in Committed
  BY DEF Committed, OverParts, CallsOver
<1>3. Committed' = Committed \ {c}
  BY OthersStayCommitted DEF CommitsLater
<1>4. counter'[period] <= counter[period] + call[c].cost
  BY <1>0, <1>1
<1>5. counter'[period] <= Ceiling /\ Reserved'
  BY <1>2, <1>3, <1>4, ReservedByLeaving DEF OverParts
<1>6. Bounded'
  BY <1>0, <1>1, <1>5, CeilingFacts DEF OverParts, Bounded
<1>7. FutureEmpty'
  BY <1>0, <1>1 DEF OverParts, FutureEmpty
<1>8. \A d \in Callers : CallsOver(d)'
  BY DEF OverParts, CallsOver, Moves
<1> QED
  BY <1>5, <1>6, <1>7, <1>8 DEF OverParts

LEMMA StepKeepsOver ==
    ASSUME Base, Base', cfg' = cfg, OverParts, Gated, cfg.kind # "rate", NEW c \in Callers, Step(c) \/ Fault(c)
    PROVE  OverParts'
<1>0. /\ DType /\ period \in 0..MaxPeriod /\ call[c].cost \in Nat /\ call[c].period \in 0..MaxPeriod
      /\ call[c].used \in Int /\ MaxPeriod \in Nat /\ Hard \in Nat
      /\ call[c].period <= period /\ 0 <= counter[call[c].period] /\ counter[call[c].period] \in Int
      /\ CallsOver(c)
  BY BaseFacts, HardIsNat DEF Base, Bookkept, OverParts, Bounded
<1>00. Idle.pc = "idle"
  BY IdleCall
<1>1. ASSUME Moves(c), UNCHANGED <<period, counter>>, call'[c].pc \notin {"spend", "user", "read", "recount"}
      PROVE  OverParts'
  BY <1>1, MoveKeepsOver DEF CommitsLater, CallsOver
<1>2. CASE ReadUsage(c)
  <2>1. /\ Moves(c) /\ UNCHANGED <<period, counter>> /\ call[c].pc = "read"
        /\ call'[c].pc \in {"user", "recount", "spend", "refused"} /\ call'[c].cost = call[c].cost
        /\ call'[c].pc = "spend" => counter[call[c].period] + call[c].cost <= Hard
        /\ call'[c].pc \in {"user", "recount"} => call'[c].used = counter[call[c].period]
    BY <1>0, <1>2, ReadUsageCall DEF state
  <2>2. CommitsLater(c) => counter[call[c].period] + call[c].cost <= Hard
    BY <2>1 DEF CommitsLater
  <2>3. CommitsLater(c) => c \in Committed \/ counter[period] + call[c].cost <= Hard
    <3>1. CASE call[c].period = period
      BY <2>2, <3>1
    <3>2. CASE call[c].period < period
      <4>1. CommitsLater(c) => call[c].cost <= Hard
        BY <1>0, <2>2
      <4> QED
        BY <2>1, <3>2, <4>1 DEF Committed
    <3> QED
      BY <1>0, <3>1, <3>2
  <2>4. CallsOver(c)'
    BY <1>0, <2>1 DEF CallsOver, Hard
  <2> QED
    BY <2>1, <2>3, <2>4, MoveKeepsOver
<1>3. CASE ReadUser(c)
  <2>1. /\ Moves(c) /\ UNCHANGED <<period, counter>> /\ call[c].pc = "user"
        /\ call'[c].pc \in {"recount", "spend", "refused"} /\ call'[c].cost = call[c].cost
        /\ call'[c].pc = "recount" => call'[c].used = call[c].used
        /\ call'[c].pc = "spend" => call[c].used + call[c].cost <= Hard
    BY <1>0, <1>3, ReadUserCall DEF state
  <2>2. CommitsLater(c) => call[c].used + call[c].cost <= Hard /\ call[c].cost <= Hard
    BY <2>1 DEF CommitsLater
  <2>3. CommitsLater(c) => c \in Committed
    BY <2>1, <2>2 DEF Committed
  <2>4. CallsOver(c)'
    BY <1>0, <2>1 DEF CallsOver, Hard
  <2> QED
    BY <2>1, <2>3, <2>4, MoveKeepsOver
<1>4. CASE ReadFails(c) \/ Recount(c)
  <2>1. Moves(c) /\ UNCHANGED <<period, counter>> /\ call'[c].pc = "refused"
    BY <1>0, <1>4, ReadFailsCall, RecountCall DEF state
  <2> QED
    BY <1>1, <2>1
<1>5. ~Repair(c)
  BY DEF Base, NoOverwrites, Gated, Repair
<1>6. CASE SpendUser(c) \/ SpendUserFails(c)
  BY <1>0, <1>1, <1>6, HoldingCall
<1>7. ~SpendRate(c)
  BY DEF SpendRate
<1>8. CASE GiveUp(c) \/ SpendFails(c) \/ ReleaseUser(c) \/ ReleaseFails(c)
  <2>1. Leaves(c) /\ counter' = counter
    BY <1>8 DEF Leaves, GiveUp, SpendFails, ReleaseUser, ReleaseFails, state
  <2> QED
    BY <1>0, <1>00, <1>1, <2>1, LeavesCall
<1>9. CASE SpendAccumulator(c)
  <2>1. Leaves(c) /\ call[c].pc = "spend" /\ counter' = [counter EXCEPT ![period] = @ + call[c].cost]
    BY <1>9 DEF Leaves, SpendAccumulator
  <2>2. EnforcedHolds'
    BY <1>9 DEF EnforcedHolds, IsGauge, SpendAccumulator
  <2> QED
    BY <1>0, <1>00, <2>1, <2>2, LeavesCall, SpendKeepsOver
<1>10. ASSUME IsGauge, Rises(c)
       PROVE  /\ period = 0 /\ counter' = [counter EXCEPT ![period] = @ + call[c].cost]
              /\ counter'[0] = counter[0] + call[c].cost
  <2>1. period = 0
    BY <1>10, BaseFacts
  <2> QED
    BY <1>0, <1>10, <2>1 DEF Rises, DType
<1>11. ASSUME NEW t \in cfg.tiers, SpendEnforced(c, t)
       PROVE  OverParts'
  <2>1. Moves(c) /\ call[c].pc = "spend" /\ IsGauge /\ period' = period
    BY <1>0, <1>11, SpendEnforcedCall
  <2>2. CASE call'[c] = Idle /\ counter' = counter
    BY <1>00, <1>1, <2>1, <2>2
  <2>3. CASE call'[c].pc = "holding" /\ counter[0] + call[c].cost <= Limit /\ Rises(c)
    <3>1. EnforcedHolds'
      BY <1>10, <2>1, <2>3 DEF EnforcedHolds
    <3> QED
      BY <1>10, <2>1, <2>3, <3>1, SpendKeepsOver
  <2> QED
    BY <1>0, <1>11, <2>2, <2>3, SpendEnforcedCall
<1>12. ASSUME NEW t \in cfg.tiers, SpendOrg(c, t)
       PROVE  OverParts'
  <2>1. /\ Moves(c) /\ call[c].pc = "spend" /\ IsGauge /\ period' = period /\ Rises(c)
        /\ call'[c].pc = "count" /\ ~(cfg.enforce /\ t = "resolved")
    BY <1>0, <1>12, SpendOrgCall
  <2>2. EnforcedHolds'
    BY <1>12, <2>1 DEF EnforcedHolds
  <2> QED
    BY <1>10, <2>1, <2>2, SpendKeepsOver
<1> QED
  BY <1>2, <1>3, <1>4, <1>5, <1>6, <1>7, <1>8, <1>9, <1>11, <1>12 DEF Step, Fault

LEMMA NextOvershoots ==
    ASSUME Base, Base', Overshoots, [Next]_vars
    PROVE  Overshoots'
<1>0. cfg' = cfg
  BY ConfigKept
<1>1. Gated' = Gated /\ (cfg.kind # "rate" <=> cfg'.kind # "rate")
  BY <1>0 DEF Gated, IsGauge
<1> SUFFICES ASSUME Gated, cfg.kind # "rate"
             PROVE  OverParts'
  BY <1>1 DEF Overshoots
<1>2. OverParts
  BY DEF Overshoots
<1>3. /\ DType /\ period \in 0..MaxPeriod /\ 0 \in 0..MaxPeriod /\ MaxPeriod \in Nat
      /\ \A p \in 0..MaxPeriod : counter[p] \in Int
      /\ \A c \in Callers : call[c].cost \in Nat /\ call[c].period \in 0..MaxPeriod
  BY BaseFacts
<1>4. ASSUME NEW c \in Callers, NEW t \in cfg.tiers, NEW cost \in cfg.costs, Check(c, cost, t)
      PROVE  OverParts'
  <2>1. /\ Moves(c) /\ UNCHANGED <<period, counter>> /\ call'[c].pc \in {"refused", "read"}
        /\ call'[c].period = period
    BY <1>3, <1>4, CheckCall DEF state
  <2>2. ~CommitsLater(c) /\ CallsOver(c)'
    BY <1>3, <2>1 DEF CommitsLater, CallsOver
  <2> QED
    BY <1>0, <1>2, <2>1, <2>2, MoveKeepsOver
<1>5. ASSUME NEW c \in Callers, NEW t \in cfg.tiers, ReleaseOrg(c, t)
      PROVE  OverParts'
  <2>1. /\ Moves(c) /\ period' = period /\ call'[c].pc = "return"
        /\ counter' = [counter EXCEPT ![0] = DecrByFloorZero(@, call[c].cost)]
    BY <1>3, <1>5, ReleaseOrgCall
  <2>2. \A p \in 0..MaxPeriod : counter'[p] = IF p = 0 THEN DecrByFloorZero(counter[p], call[c].cost)
                                               ELSE counter[p]
    BY <1>3, <2>1 DEF DType
  <2>3. \A p \in 0..MaxPeriod : /\ counter'[p] \in Int /\ counter'[p] <= counter[p]
                                /\ 0 <= counter[p] /\ 0 <= counter'[p]
    <3>1. \A p \in 0..MaxPeriod : 0 <= counter[p]
      BY <1>2 DEF OverParts, Bounded
    <3> QED
      BY <1>3, <2>2, <3>1 DEF DecrByFloorZero
  <2>4. Bounded'
    BY <1>0, <1>2, <1>3, <2>3, CeilingFacts DEF OverParts, Bounded
  <2>5. FutureEmpty'
    BY <1>2, <1>3, <2>1, <2>3 DEF OverParts, Bounded, FutureEmpty
  <2>6. EnforcedHolds'
    BY <1>0, <1>2, <1>3, <2>3, HardIsNat DEF OverParts, EnforcedHolds, IsGauge
  <2>7. \A d \in Callers : CallsOver(d)'
    BY <1>2, <2>1 DEF OverParts, CallsOver, Moves
  <2>8. Reserved'
    BY <1>0, <1>2, <1>3, <2>1, <2>3, ReservedByMoving DEF OverParts, CommitsLater
  <2> QED
    BY <2>4, <2>5, <2>6, <2>7, <2>8 DEF OverParts
<1>6. CASE NewPeriod
  <2>1. UNCHANGED <<counter, call>> /\ period' = period + 1 /\ period' \in 0..MaxPeriod
    BY <1>3, <1>6 DEF NewPeriod
  <2>2. Bounded' /\ EnforcedHolds' /\ \A d \in Callers : CallsOver(d)'
    BY <1>0, <1>2, <2>1, CeilingFacts DEF OverParts, Bounded, EnforcedHolds, IsGauge, CallsOver
  <2>3. FutureEmpty'
    BY <1>2, <1>3, <2>1 DEF OverParts, FutureEmpty
  <2>4. counter'[period'] = 0
    BY <1>2, <1>3, <2>1 DEF OverParts, FutureEmpty
  <2>5. Reserved'
    <3>1. CASE Committed' = {}
      BY <3>1 DEF Reserved
    <3>2. ASSUME NEW c \in Committed'
          PROVE  Reserved'
      <4>1. c \in Callers /\ call'[c].cost <= Hard /\ call'[c].cost \in Nat
        BY <1>3, <2>1, <3>2 DEF Committed, Hard
      <4>2. counter'[period'] + call'[c].cost <= Hard
        BY <2>4, <4>1
      <4> QED
        BY <1>0, <4>2, ReservedByJoining
    <3> QED
      BY <3>1, <3>2
  <2> QED
    BY <2>2, <2>3, <2>5 DEF OverParts
<1>7. CASE UNCHANGED <<counter, call, period>>
  <2>1. Ceiling' = Ceiling /\ Committed' = Committed /\ MaxCost' = MaxCost
    BY <1>0, <1>7, CeilingFacts DEF Committed
  <2> QED
    BY <1>0, <1>2, <1>7, <2>1 DEF OverParts, Bounded, FutureEmpty, CallsOver, EnforcedHolds, IsGauge, Reserved
<1>8. ~RecalcRead /\ ~RecalcSet
  BY DEF Base, NoOverwrites, Gated, RecalcRead, RecalcSet
<1>9. CASE \/ RecalcFetch \/ Tick \/ UNCHANGED vars
           \/ CooldownEnds /\ UNCHANGED <<cfg, counter, user, entries, truth, period, call, recalc, emitted>>
  <2>1. UNCHANGED <<counter, call, period>>
    BY <1>9 DEF RecalcFetch, Tick, vars, state
  <2> QED
    BY <1>7, <2>1
<1> QED
  BY <1>0, <1>2, <1>4, <1>5, <1>6, <1>8, <1>9, StepKeepsOver DEF Next

-----------------------------------------------------------------------------
(* What a step does to the sums *)

Outside(c) == call[c].pc \notin {"count", "holding", "return"}

TermsAreNumbers == \A c \in Callers :
    /\ Charge(c) \in Nat /\ Owing(c) \in Int /\ Left(c) \in 0..MaxCost
    /\ \A u \in Users : UserCharge(c, u) \in Nat /\ Pending(c, u) \in 0..MaxCost

LEMMA TermTypes == Base => TermsAreNumbers
<1> SUFFICES ASSUME Base, NEW c \in Callers
             PROVE  /\ Charge(c) \in Nat /\ Owing(c) \in Int /\ Left(c) \in 0..MaxCost
                    /\ \A u \in Users : UserCharge(c, u) \in Nat /\ Pending(c, u) \in 0..MaxCost
  BY DEF TermsAreNumbers
<1>1. call[c].cost \in 0..MaxCost /\ 0 \in 0..MaxCost /\ MaxCost \in Nat
  BY BaseFacts, CeilingFacts DEF Base, Bookkept
<1>2. call[c].cost \in Nat /\ -call[c].cost \in Int
  BY <1>1
<1> QED
  BY <1>1, <1>2 DEF Charge, Owing, Left, UserCharge, Pending

SumsAreNumbers ==
    /\ Sum(Charges, Callers) \in Nat /\ Sum(Owings, Callers) \in Int /\ Sum(Lefts, Callers) \in Nat
    /\ \A u \in Users : Sum(UserCharges(u), Callers) \in Nat /\ Sum(Pendings(u), Callers) \in Nat

LEMMA SumTypes == Base => SumsAreNumbers
<1> SUFFICES ASSUME Base PROVE SumsAreNumbers
  OBVIOUS
<1>1. \A c \in Callers : Charges[c] \in Nat /\ Owings[c] \in Int /\ Lefts[c] \in Nat
  BY TermTypes DEF TermsAreNumbers, Charges, Owings, Lefts
<1>2. Sum(Charges, Callers) \in Nat /\ Sum(Owings, Callers) \in Int /\ Sum(Lefts, Callers) \in Nat
  BY <1>1, CallersAreFinite, SumIsNat, SumIsInt
<1>3. ASSUME NEW u \in Users
      PROVE  Sum(UserCharges(u), Callers) \in Nat /\ Sum(Pendings(u), Callers) \in Nat
  <2>1. \A c \in Callers : UserCharges(u)[c] \in Nat /\ Pendings(u)[c] \in Nat
    BY TermTypes DEF TermsAreNumbers, UserCharges, Pendings
  <2> QED
    BY <2>1, CallersAreFinite, SumIsNat
<1> QED
  BY <1>2, <1>3 DEF SumsAreNumbers

\* When only the call of c moves, each sum moves by the term of c.
LEMMA SumsMove ==
    ASSUME Base, Base', cfg' = cfg, NEW c \in Callers, Moves(c)
    PROVE  /\ Sum(Charges, Callers)' = Sum(Charges, Callers) + Charge(c)' - Charge(c)
           /\ Sum(Owings, Callers)' = Sum(Owings, Callers) + Owing(c)' - Owing(c)
           /\ Sum(Lefts, Callers)' = Sum(Lefts, Callers) + Left(c)' - Left(c)
<1>1. \A d \in Callers : /\ Charge(d) \in Int /\ Owing(d) \in Int /\ Left(d) \in Int
                         /\ Charge(d)' \in Int /\ Owing(d)' \in Int /\ Left(d)' \in Int
  <2>1. TermsAreNumbers'
    BY TermTypes, PTL
  <2> QED
    BY <2>1, TermTypes DEF TermsAreNumbers
<1>2. \A d \in Callers \ {c} : Charge(d)' = Charge(d) /\ Owing(d)' = Owing(d) /\ Left(d)' = Left(d)
  BY DEF Charge, Owing, Left, Moves
<1>3. \A d \in Callers : /\ Charges[d] = Charge(d) /\ Charges'[d] = Charge(d)'
                         /\ Owings[d] = Owing(d) /\ Owings'[d] = Owing(d)'
                         /\ Lefts[d] = Left(d) /\ Lefts'[d] = Left(d)'
  BY DEF Charges, Owings, Lefts
<1>4. Sum(Charges', Callers) = Sum(Charges, Callers) + Charges'[c] - Charges[c]
  BY <1>1, <1>2, <1>3, CallersAreFinite, SumChange
<1>5. Sum(Owings', Callers) = Sum(Owings, Callers) + Owings'[c] - Owings[c]
  BY <1>1, <1>2, <1>3, CallersAreFinite, SumChange
<1>6. Sum(Lefts', Callers) = Sum(Lefts, Callers) + Lefts'[c] - Lefts[c]
  BY <1>1, <1>2, <1>3, CallersAreFinite, SumChange
<1> QED
  BY <1>3, <1>4, <1>5, <1>6

LEMMA UserSumsMove ==
    ASSUME Base, Base', cfg' = cfg, NEW c \in Callers, Moves(c), NEW u \in Users
    PROVE  /\ Sum(UserCharges(u), Callers)' = Sum(UserCharges(u), Callers) + UserCharge(c, u)' - UserCharge(c, u)
           /\ Sum(Pendings(u), Callers)' = Sum(Pendings(u), Callers) + Pending(c, u)' - Pending(c, u)
<1>1. \A d \in Callers : /\ UserCharge(d, u) \in Int /\ Pending(d, u) \in Int
                         /\ UserCharge(d, u)' \in Int /\ Pending(d, u)' \in Int
  <2>1. TermsAreNumbers'
    BY TermTypes, PTL
  <2> QED
    BY <2>1, TermTypes DEF TermsAreNumbers
<1>2. \A d \in Callers \ {c} : UserCharge(d, u)' = UserCharge(d, u) /\ Pending(d, u)' = Pending(d, u)
  BY DEF UserCharge, Pending, Moves, UserOf
<1>3. \A d \in Callers : /\ UserCharges(u)[d] = UserCharge(d, u) /\ UserCharges(u)'[d] = UserCharge(d, u)'
                         /\ Pendings(u)[d] = Pending(d, u) /\ Pendings(u)'[d] = Pending(d, u)'
  BY DEF UserCharges, Pendings
<1>4. Sum(UserCharges(u)', Callers) = Sum(UserCharges(u), Callers) + UserCharges(u)'[c] - UserCharges(u)[c]
  BY <1>1, <1>2, <1>3, CallersAreFinite, SumChange
<1>5. Sum(Pendings(u)', Callers) = Sum(Pendings(u), Callers) + Pendings(u)'[c] - Pendings(u)[c]
  BY <1>1, <1>2, <1>3, CallersAreFinite, SumChange
<1> QED
  BY <1>3, <1>4, <1>5

\* No term exceeds its sum.
LEMMA TermsInSums ==
    ASSUME Base, NEW c \in Callers
    PROVE  /\ Charge(c) <= Sum(Charges, Callers)
           /\ \A u \in Users : UserCharge(c, u) <= Sum(UserCharges(u), Callers)
<1>1. \A d \in Callers : Charges[d] = Charge(d) /\ Charges[d] \in Nat
  BY TermTypes DEF TermsAreNumbers, Charges
<1>2. Charges[c] <= Sum(Charges, Callers)
  BY <1>1, CallersAreFinite, SumAtLeast
<1>3. ASSUME NEW u \in Users
      PROVE  UserCharge(c, u) <= Sum(UserCharges(u), Callers)
  <2>1. \A d \in Callers : UserCharges(u)[d] = UserCharge(d, u) /\ UserCharges(u)[d] \in Nat
    BY TermTypes DEF TermsAreNumbers, UserCharges
  <2>2. UserCharges(u)[c] <= Sum(UserCharges(u), Callers)
    BY <2>1, CallersAreFinite, SumAtLeast
  <2> QED
    BY <2>1, <2>2
<1> QED
  BY <1>1, <1>2, <1>3

\* The steps of a gauge, by what they do to the two partitions and to what exists.
Goes(c, from, to) == call[c].pc = from /\ call'[c].pc = to /\ call'[c].cost = call[c].cost

Overwritten == counter' = counter \/ "value" \in cfg.answers

Talks(c) == Outside(c) /\ Outside(c)' /\ UNCHANGED <<user, truth>> /\ Overwritten

SpendsWhole(c) == Goes(c, "spend", "holding") /\ CanRise(c) /\ Rises(c) /\ Exists(c) /\ UserRises(c)

SpendsOrg(c) == Goes(c, "spend", "count") /\ CanRise(c) /\ Rises(c) /\ Exists(c) /\ user' = user

SpendsUser(c) ==
    /\ Goes(c, "count", "holding") /\ UNCHANGED <<counter, truth>>
    /\ UserRises(c) \/ ("write" \in cfg.faults /\ user' = user)

GivesOrg(c) ==
    /\ Goes(c, "holding", "return") /\ Gone(c) /\ user' = user
    /\ counter' = [counter EXCEPT ![0] = DecrByFloorZero(@, call[c].cost)]

UserFalls(c) ==
    user' = [u \in Users |-> IF u = UserOf(c) THEN DecrByFloorZero(user[u], call[c].cost) ELSE user[u]]

GivesUser(c) ==
    /\ call[c].pc = "return" /\ call'[c] = Idle /\ UNCHANGED <<counter, truth>>
    /\ UserFalls(c) \/ ("write" \in cfg.faults /\ user' = user)

Drops(c) ==
    /\ call[c].pc = "holding" /\ call'[c] = Idle /\ Gone(c) /\ UNCHANGED <<counter, user>>
    /\ "write" \in cfg.faults

GaugeSteps(c) ==
    \/ Talks(c) \/ SpendsWhole(c) \/ SpendsOrg(c) \/ SpendsUser(c)
    \/ GivesOrg(c) \/ GivesUser(c) \/ Drops(c)

Rests == UNCHANGED <<call, user, truth>> /\ Overwritten

LEMMA GaugeStep ==
    ASSUME Base, IsGauge, [Next]_vars
    PROVE  Rests \/ \E c \in Callers : Moves(c) /\ GaugeSteps(c)
<1>0. DType /\ Idle.pc = "idle"
  BY IdleCall DEF Base
<1>1. ASSUME NEW c \in Callers, Moves(c), call[c].pc \in {"idle", "read", "user", "recount"},
             call'[c].pc \in {"idle", "read", "user", "recount", "repair", "spend", "refused"}, UNCHANGED state
      PROVE  Talks(c)
  BY <1>1 DEF Talks, Outside, Overwritten, state
<1>2. ASSUME NEW c \in Callers, Step(c) \/ Fault(c)
      PROVE  Moves(c) /\ GaugeSteps(c)
  <2>1. CASE ReadUsage(c)
    BY <1>0, <1>1, <2>1, ReadUsageCall DEF GaugeSteps
  <2>2. CASE ReadUser(c)
    BY <1>0, <1>1, <2>2, ReadUserCall DEF GaugeSteps
  <2>3. CASE ReadFails(c)
    BY <1>0, <1>1, <2>3, ReadFailsCall DEF GaugeSteps
  <2>4. CASE Recount(c)
    BY <1>0, <1>1, <2>4, RecountCall DEF GaugeSteps
  <2>5. CASE Repair(c)
    <3>1. "value" \in cfg.answers
      BY <2>5 DEF Base, NoOverwrites, Repair
    <3> QED
      BY <1>0, <2>5, <3>1, RepairCall DEF GaugeSteps, Talks, Outside, Overwritten
  <2>6. CASE GiveUp(c) \/ SpendFails(c)
    <3>1. Leaves(c) /\ UNCHANGED state /\ call[c].pc \in {"refused", "spend", "record"}
      BY <2>6 DEF Leaves, GiveUp, SpendFails
    <3>2. Moves(c) /\ call'[c] = Idle
      BY <1>0, <3>1, LeavesCall
    <3> QED
      BY <1>0, <3>1, <3>2 DEF GaugeSteps, Talks, Outside, Overwritten, state
  <2>7. CASE SpendUser(c) \/ SpendUserFails(c)
    <3>1. Moves(c) /\ Goes(c, "count", "holding") /\ UNCHANGED <<counter, truth>>
      BY <1>0, <2>7, HoldingCall DEF Goes
    <3>2. SpendUser(c) => UserRises(c)
      BY DEF SpendUser
    <3>3. SpendUserFails(c) => "write" \in cfg.faults /\ user' = user
      BY DEF SpendUserFails, state
    <3> QED
      BY <2>7, <3>1, <3>2, <3>3 DEF GaugeSteps, SpendsUser
  <2>8. ~SpendAccumulator(c) /\ ~SpendRate(c)
    BY DEF SpendAccumulator, SpendRate, IsGauge
  <2>9. CASE ReleaseUser(c)
    <3>1. Moves(c) /\ call'[c] = Idle
      BY <1>0, <2>9, LeavesCall DEF Leaves
    <3>2. call[c].pc = "return" /\ UNCHANGED <<counter, truth>>
      BY <2>9 DEF ReleaseUser
    <3>3. UserFalls(c) \/ ("write" \in cfg.faults /\ user' = user)
      BY <2>9, Zenon DEF ReleaseUser, UserFalls
    <3> QED
      BY <3>1, <3>2, <3>3 DEF GaugeSteps, GivesUser
  <2>10. CASE ReleaseFails(c)
    <3>1. Moves(c) /\ call'[c] = Idle
      BY <1>0, <2>10, LeavesCall DEF Leaves
    <3> QED
      BY <2>10, <3>1 DEF GaugeSteps, Drops, ReleaseFails
  <2>11. ASSUME NEW t \in cfg.tiers, SpendEnforced(c, t)
         PROVE  Moves(c) /\ GaugeSteps(c)
    <3>1. Moves(c) /\ call[c].pc = "spend"
      BY <1>0, <2>11, SpendEnforcedCall
    <3>2. CASE call'[c] = Idle /\ UNCHANGED <<counter, truth, user>>
      BY <1>0, <3>1, <3>2 DEF GaugeSteps, Talks, Outside, Overwritten
    <3>3. CASE /\ call'[c].pc = "holding" /\ call'[c].cost = call[c].cost /\ counter[0] + call[c].cost <= Limit
               /\ Rises(c) /\ Exists(c) /\ UserRises(c)
      <4>1. CanRise(c)
        BY <2>11, <3>3 DEF SpendEnforced
      <4> QED
        BY <3>1, <3>3, <4>1 DEF GaugeSteps, SpendsWhole, Goes
    <3> QED
      BY <1>0, <2>11, <3>2, <3>3, SpendEnforcedCall
  <2>12. ASSUME NEW t \in cfg.tiers, SpendOrg(c, t)
         PROVE  Moves(c) /\ GaugeSteps(c)
    <3>1. CanRise(c)
      BY <2>12 DEF SpendOrg
    <3> QED
      BY <1>0, <2>12, <3>1, SpendOrgCall DEF GaugeSteps, SpendsOrg, Goes
  <2> QED
    BY <1>2, <2>1, <2>2, <2>3, <2>4, <2>5, <2>6, <2>7, <2>8, <2>9, <2>10, <2>11, <2>12 DEF Step, Fault
<1>3. ASSUME NEW c \in Callers, NEW t \in cfg.tiers, ReleaseOrg(c, t)
      PROVE  Moves(c) /\ GaugeSteps(c)
  BY <1>0, <1>3, ReleaseOrgCall DEF GaugeSteps, GivesOrg, Goes
<1>4. ASSUME NEW c \in Callers, NEW t \in cfg.tiers, NEW cost \in cfg.costs, Check(c, cost, t)
      PROVE  Moves(c) /\ GaugeSteps(c)
  BY <1>0, <1>1, <1>4, CheckCall DEF GaugeSteps
<1>5. CASE \/ RecalcFetch \/ RecalcRead \/ NewPeriod \/ Tick \/ UNCHANGED vars
           \/ CooldownEnds /\ UNCHANGED <<cfg, counter, user, entries, truth, period, call, recalc, emitted>>
  BY <1>5 DEF RecalcFetch, RecalcRead, NewPeriod, Tick, vars, state, Rests, Overwritten
<1>6. CASE RecalcSet
  <2>1. "value" \in cfg.answers
    BY <1>6 DEF Base, NoOverwrites, RecalcSet
  <2> QED
    BY <1>6, <2>1 DEF RecalcSet, Rests, Overwritten
<1> QED
  BY <1>2, <1>3, <1>4, <1>5, <1>6 DEF Next

LEMMA OutsideTerms ==
    ASSUME NEW c \in Callers, Outside(c)
    PROVE  Charge(c) = 0 /\ Owing(c) = 0 /\ \A u : UserCharge(c, u) = 0 /\ Pending(c, u) = 0
BY DEF Outside, Charge, Owing, UserCharge, Pending

LEMMA OutsideTermsNext ==
    ASSUME NEW c \in Callers, Outside(c)'
    PROVE  Charge(c)' = 0 /\ Owing(c)' = 0 /\ \A u : UserCharge(c, u)' = 0 /\ Pending(c, u)' = 0
BY DEF Outside, Charge, Owing, UserCharge, Pending

\* What exists rises and falls with the charge of the caller that moves.
LEMMA TruthMoves ==
    ASSUME Base, Base', IsGauge, NEW c \in Callers, GaugeSteps(c)
    PROVE  truth'[0] = truth[0] + Charge(c)' - Charge(c)
<1>1. DType /\ truth[0] \in Int /\ call[c].cost \in Nat /\ period = 0 /\ 0 \in 0..MaxPeriod /\ Idle.pc = "idle"
  BY BaseFacts, IdleCall
<1>2. Exists(c) => truth'[0] = truth[0] + call[c].cost
  BY <1>1 DEF DType, Exists
<1>3. Gone(c) => truth'[0] = truth[0] - call[c].cost
  BY <1>1 DEF DType, Gone
<1>4. CASE Talks(c)
  BY <1>1, <1>4, OutsideTerms, OutsideTermsNext DEF Talks
<1>5. CASE SpendsWhole(c) \/ SpendsOrg(c)
  BY <1>1, <1>2, <1>5 DEF SpendsWhole, SpendsOrg, Goes, Charge
<1>6. CASE SpendsUser(c)
  BY <1>1, <1>6 DEF SpendsUser, Goes, Charge
<1>7. CASE GivesOrg(c) \/ Drops(c)
  BY <1>1, <1>3, <1>7 DEF GivesOrg, Drops, Goes, Charge
<1>8. CASE GivesUser(c)
  BY <1>1, <1>8 DEF GivesUser, Charge
<1> QED
  BY <1>4, <1>5, <1>6, <1>7, <1>8 DEF GaugeSteps

LEMMA NextTruthIsHeld ==
    ASSUME Base, Base', TruthIsHeld, [Next]_vars
    PROVE  TruthIsHeld'
<1>0. cfg' = cfg
  BY ConfigKept
<1> SUFFICES ASSUME IsGauge
             PROVE  truth'[0] = Sum(Charges, Callers)'
  BY <1>0 DEF TruthIsHeld, IsGauge
<1>1. truth[0] = Sum(Charges, Callers)
  BY DEF TruthIsHeld
<1>2. CASE Rests
  <2>1. Charges' = Charges /\ truth' = truth
    BY <1>2 DEF Rests, Charges, Charge
  <2> QED
    BY <1>1, <2>1
<1>3. ASSUME NEW c \in Callers, Moves(c), GaugeSteps(c)
      PROVE  truth'[0] = Sum(Charges, Callers)'
  BY <1>0, <1>1, <1>3, TruthMoves, SumsMove
<1> QED
  BY <1>2, <1>3, GaugeStep

\* When nothing fails, so does the organization's counter: its floor is not reached.
LEMMA CounterMoves ==
    ASSUME Base, Base', Exact, NEW c \in Callers, GaugeSteps(c), Charge(c) <= counter[0]
    PROVE  counter'[0] = counter[0] + Charge(c)' - Charge(c)
<1>1. /\ DType /\ counter[0] \in Int /\ call[c].cost \in Nat /\ 0 \in 0..MaxPeriod /\ Idle.pc = "idle"
      /\ IsGauge /\ "value" \notin cfg.answers /\ "write" \notin cfg.faults
  BY BaseFacts, IdleCall DEF Exact
<1>2. Rises(c) => counter'[0] = counter[0] + call[c].cost
  BY <1>1 DEF DType, Rises
<1>3. CASE Talks(c)
  BY <1>1, <1>3, OutsideTerms, OutsideTermsNext DEF Talks, Overwritten
<1>4. CASE SpendsWhole(c) \/ SpendsOrg(c)
  BY <1>1, <1>2, <1>4 DEF SpendsWhole, SpendsOrg, Goes, Charge
<1>5. CASE SpendsUser(c)
  BY <1>1, <1>5 DEF SpendsUser, Goes, Charge
<1>6. CASE GivesOrg(c)
  <2>1. counter'[0] = DecrByFloorZero(counter[0], call[c].cost)
    BY <1>1, <1>6 DEF GivesOrg, DType
  <2>2. Charge(c) = call[c].cost /\ Charge(c)' = 0
    BY <1>6 DEF GivesOrg, Goes, Charge
  <2> QED
    BY <1>1, <2>1, <2>2 DEF DecrByFloorZero
<1>7. CASE GivesUser(c)
  BY <1>1, <1>7 DEF GivesUser, Charge
<1>8. ~Drops(c)
  BY <1>1 DEF Drops
<1> QED
  BY <1>3, <1>4, <1>5, <1>6, <1>7, <1>8 DEF GaugeSteps

\* And so does the partition of its user, and no other.
LEMMA PartitionMoves ==
    ASSUME Base, Base', cfg' = cfg, Exact, NEW c \in Callers, GaugeSteps(c), NEW u \in Users,
           UserCharge(c, u) <= user[u]
    PROVE  user'[u] = user[u] + UserCharge(c, u)' - UserCharge(c, u)
<1>1. /\ DType /\ user[u] \in Nat /\ call[c].cost \in Nat /\ Idle.pc = "idle"
      /\ IsGauge /\ "value" \notin cfg.answers /\ "write" \notin cfg.faults
  BY BaseFacts, IdleCall DEF Exact, DType
<1>2. UserRises(c) => user'[u] = IF u = UserOf(c) THEN user[u] + call[c].cost ELSE user[u]
  BY DEF UserRises
<1>3. UserFalls(c) => user'[u] = IF u = UserOf(c) THEN DecrByFloorZero(user[u], call[c].cost) ELSE user[u]
  BY DEF UserFalls
<1>4. UserOf(c)' = UserOf(c)
  BY DEF UserOf
<1>5. CASE Talks(c)
  BY <1>1, <1>5, OutsideTerms, OutsideTermsNext DEF Talks
<1>6. CASE SpendsWhole(c)
  <2>1. /\ UserCharge(c, u) = 0
        /\ UserCharge(c, u)' = IF UserOf(c) = u THEN call[c].cost ELSE 0
    BY <1>4, <1>6 DEF SpendsWhole, Goes, UserCharge
  <2>2. UserRises(c)
    BY <1>6 DEF SpendsWhole
  <2> QED
    BY <1>1, <1>2, <2>1, <2>2
<1>7. CASE SpendsOrg(c)
  <2>1. UserCharge(c, u) = 0 /\ UserCharge(c, u)' = 0 /\ user' = user
    BY <1>7 DEF SpendsOrg, Goes, UserCharge
  <2> QED
    BY <1>1, <2>1
<1>8. CASE SpendsUser(c)
  <2>1. /\ UserCharge(c, u) = 0
        /\ UserCharge(c, u)' = IF UserOf(c) = u THEN call[c].cost ELSE 0
    BY <1>4, <1>8 DEF SpendsUser, Goes, UserCharge
  <2>2. UserRises(c)
    BY <1>1, <1>8 DEF SpendsUser
  <2> QED
    BY <1>1, <1>2, <2>1, <2>2
<1>9. CASE GivesOrg(c)
  <2>1. UserCharge(c, u)' = UserCharge(c, u) /\ user' = user /\ UserCharge(c, u) \in Int
    BY <1>1, <1>4, <1>9 DEF GivesOrg, Goes, UserCharge
  <2> QED
    BY <1>1, <2>1
<1>10. CASE GivesUser(c)
  <2>1. /\ UserCharge(c, u) = IF UserOf(c) = u THEN call[c].cost ELSE 0
        /\ UserCharge(c, u)' = 0
    BY <1>1, <1>10 DEF GivesUser, UserCharge
  <2>2. UserFalls(c)
    BY <1>1, <1>10 DEF GivesUser
  <2> QED
    BY <1>1, <1>3, <2>1, <2>2 DEF DecrByFloorZero
<1>11. ~Drops(c)
  BY <1>1 DEF Drops
<1> QED
  BY <1>5, <1>6, <1>7, <1>8, <1>9, <1>10, <1>11 DEF GaugeSteps

\* A caller's charge on its partition is its charge on the counter and what is under way.
LEMMA TermsAgree ==
    ASSUME Base, NEW c \in Callers
    PROVE  UserCharge(c, UserOf(c)) = Charge(c) + Owing(c)
BY BaseFacts DEF UserCharge, Charge, Owing

LEMMA NextPartitioned ==
    ASSUME Base, Base', Partitioned, [Next]_vars
    PROVE  Partitioned'
<1>0. cfg' = cfg
  BY ConfigKept
<1>1. Exact' = Exact /\ AllHaveUsers' = AllHaveUsers
  BY <1>0 DEF Exact, IsGauge, AllHaveUsers, UserOf
<1> SUFFICES ASSUME Exact
             PROVE  /\ counter'[0] = Sum(Charges, Callers)'
                    /\ \A u \in Users : user'[u] = Sum(UserCharges(u), Callers)'
                    /\ AllHaveUsers => counter'[0] + Sum(Owings, Callers)' = Sum(user', Users)
  BY <1>1 DEF Partitioned
<1>2. /\ counter[0] = Sum(Charges, Callers)
      /\ \A u \in Users : user[u] = Sum(UserCharges(u), Callers)
      /\ AllHaveUsers => counter[0] + Sum(Owings, Callers) = Sum(user, Users)
  BY DEF Partitioned
<1>3. IsGauge /\ "value" \notin cfg.answers
  BY DEF Exact
<1>4. CASE Rests
  <2>1. Charges' = Charges /\ Owings' = Owings /\ counter' = counter /\ user' = user
    BY <1>3, <1>4 DEF Rests, Overwritten, Charges, Charge, Owings, Owing
  <2>2. \A u \in Users : UserCharges(u)' = UserCharges(u)
    BY <1>0, <1>4 DEF Rests, UserCharges, UserCharge, UserOf
  <2> QED
    BY <1>2, <2>1, <2>2
<1>5. ASSUME NEW c \in Callers, Moves(c), GaugeSteps(c)
      PROVE  /\ counter'[0] = Sum(Charges, Callers)'
             /\ \A u \in Users : user'[u] = Sum(UserCharges(u), Callers)'
             /\ AllHaveUsers => counter'[0] + Sum(Owings, Callers)' = Sum(user', Users)
  <2>1. counter'[0] = counter[0] + Charge(c)' - Charge(c)
    BY <1>2, <1>5, TermsInSums, CounterMoves
  <2>2. ASSUME NEW u \in Users
        PROVE  user'[u] = user[u] + UserCharge(c, u)' - UserCharge(c, u)
    <3>1. UserCharge(c, u) <= user[u]
      BY <1>2, TermsInSums
    <3> QED
      BY <1>0, <1>5, <3>1, PartitionMoves
  <2>3. ASSUME NEW u \in Users
        PROVE  user'[u] = Sum(UserCharges(u), Callers)'
    BY <1>0, <1>2, <1>5, <2>2, UserSumsMove
  <2>4. ASSUME AllHaveUsers
        PROVE  counter'[0] + Sum(Owings, Callers)' = Sum(user', Users)
    <3>1. PICK v \in Users : v = UserOf(c)
      BY <2>4, ConfigFacts DEF AllHaveUsers, UserOf, Base, DType
    <3>2. \A u \in Users \ {v} : UserCharge(c, u) = 0 /\ UserCharge(c, u)' = 0
      BY <1>0, <3>1 DEF UserCharge, UserOf
    <3>3. \A u \in Users : user[u] \in Int /\ user'[u] \in Int
      BY DEF Base, DType
    <3>4. \A u \in Users \ {v} : user'[u] = user[u]
      BY <2>2, <3>2, <3>3
    <3>5. Sum(user', Users) = Sum(user, Users) + user'[v] - user[v]
      BY <3>1, <3>3, <3>4, UsersAreFinite, SumChange
    <3>6. user'[v] - user[v] = UserCharge(c, v)' - UserCharge(c, v)
      <4>1. UserCharge(c, v) \in Int /\ UserCharge(c, v)' \in Int
        <5>1. TermsAreNumbers'
          BY TermTypes, PTL
        <5> QED
          BY <3>1, <5>1, TermTypes DEF TermsAreNumbers
      <4> QED
        BY <2>2, <3>1, <3>3, <4>1
    <3>7. UserCharge(c, v) = Charge(c) + Owing(c)
      BY <3>1, TermsAgree
    <3>8. UserCharge(c, v)' = Charge(c)' + Owing(c)'
      <4>1. UserOf(c)' = v /\ call'[c].cost \in Int
        BY <1>0, <3>1 DEF UserOf, Base, DType, CallRecord
      <4> QED
        BY <4>1 DEF UserCharge, Charge, Owing
    <3>9. Sum(Owings, Callers)' = Sum(Owings, Callers) + Owing(c)' - Owing(c)
      BY <1>0, <1>5, SumsMove
    <3>10. /\ Charge(c) \in Int /\ Charge(c)' \in Int /\ Owing(c) \in Int /\ Owing(c)' \in Int
           /\ Sum(Owings, Callers) \in Int /\ Sum(user, Users) \in Int /\ counter[0] \in Int
      <4>1. TermsAreNumbers'
        BY TermTypes, PTL
      <4>2. Sum(user, Users) \in Int
        BY <3>3, UsersAreFinite, SumIsInt
      <4> QED
        BY <4>1, <4>2, TermTypes, SumTypes, BaseFacts DEF TermsAreNumbers, SumsAreNumbers
    <3> QED
      BY <1>2, <2>1, <2>4, <3>1, <3>3, <3>5, <3>6, <3>7, <3>8, <3>9, <3>10
  <2> QED
    BY <1>0, <1>2, <1>5, <2>1, <2>3, <2>4, SumsMove
<1> QED
  BY <1>3, <1>4, <1>5, GaugeStep

-----------------------------------------------------------------------------
(* The window of a rate *)

LEMMA NextOnlyGauges ==
    ASSUME Base, OnlyGaugesHeld, [Next]_vars
    PROVE  OnlyGaugesHeld'
<1> DEFINE Held == {"user", "count", "holding", "return"}
<1>0. cfg' = cfg /\ DType /\ Bookkept /\ Idle.pc = "idle"
  BY ConfigKept, IdleCall DEF Base
<1> SUFFICES ASSUME ~IsGauge, NEW d \in Callers
             PROVE  call'[d].pc \notin Held
  BY <1>0 DEF OnlyGaugesHeld, IsGauge
<1>1. \A c \in Callers : call[c].pc \notin Held
  BY DEF OnlyGaugesHeld
<1>2. ASSUME NEW c \in Callers, Moves(c), call'[c].pc \notin Held
      PROVE  call'[d].pc \notin Held
  BY <1>1, <1>2 DEF Moves
<1>3. ASSUME NEW c \in Callers, Step(c) \/ Fault(c)
      PROVE  call'[d].pc \notin Held
  <2>1. CASE ReadUsage(c)
    <3>1. Moves(c)
      BY <1>0, <2>1, ReadUsageCall
    <3>2. call'[c].pc # "user"
      <4>1. AfterDecision(CurrentUsage(call[c].period), call[c].cost) \in {"spend", "recount", "refused"}
        BY Answers
      <4> DEFINE to == AfterDecision(CurrentUsage(call[c].period), call[c].cost)
      <4>2. IF to \in {"user", "recount"}
            THEN call' = [call EXCEPT ![c].used = CurrentUsage(call[c].period), ![c].pc = to]
            ELSE Conclude(c, to)
        BY <2>1 DEF ReadUsage
      <4> HIDE DEF to
      <4>3. CASE to = "recount"
        BY <1>0, <4>2, <4>3 DEF DType, CallRecord
      <4>4. CASE to \in {"spend", "refused"}
        BY <1>0, <4>2, <4>4, ConcludeCall DEF PCs
      <4> QED
        BY <4>1, <4>3, <4>4 DEF to
    <3>3. call'[c].pc \in {"user", "recount", "spend", "refused"}
      BY <1>0, <2>1, ReadUsageCall
    <3> QED
      BY <1>2, <3>1, <3>2, <3>3
  <2>2. ~ReadUser(c) /\ ~SpendUser(c) /\ ~SpendUserFails(c) /\ ~ReleaseUser(c) /\ ~ReleaseFails(c)
    BY <1>1 DEF ReadUser, SpendUser, SpendUserFails, ReleaseUser, ReleaseFails
  <2>3. CASE ReadFails(c)
    BY <1>0, <1>2, <2>3, ReadFailsCall
  <2>4. CASE Recount(c)
    BY <1>0, <1>2, <2>4, RecountCall
  <2>5. CASE Repair(c)
    BY <1>0, <1>2, <2>5, RepairCall
  <2>6. CASE GiveUp(c) \/ SpendFails(c) \/ SpendAccumulator(c)
    BY <1>0, <1>2, <2>6, LeavesCall DEF Leaves
  <2>7. CASE SpendRate(c)
    BY <1>0, <1>2, <2>7, SpendRateCall
  <2>8. \A t \in cfg.tiers : ~SpendEnforced(c, t) /\ ~SpendOrg(c, t)
    BY DEF SpendEnforced, SpendOrg
  <2> QED
    BY <1>3, <2>1, <2>2, <2>3, <2>4, <2>5, <2>6, <2>7, <2>8 DEF Step, Fault
<1>4. ASSUME NEW c \in Callers, NEW t \in cfg.tiers, ReleaseOrg(c, t)
      PROVE  call'[d].pc \notin Held
  BY <1>1, <1>4 DEF ReleaseOrg
<1>5. ASSUME NEW c \in Callers, NEW t \in cfg.tiers, NEW cost \in cfg.costs, Check(c, cost, t)
      PROVE  call'[d].pc \notin Held
  BY <1>0, <1>2, <1>5, CheckCall
<1>6. CASE \/ RecalcFetch \/ RecalcRead \/ RecalcSet \/ NewPeriod \/ Tick \/ UNCHANGED vars
           \/ CooldownEnds /\ UNCHANGED <<cfg, counter, user, entries, truth, period, call, recalc, emitted>>
  BY <1>1, <1>6 DEF RecalcFetch, RecalcRead, RecalcSet, NewPeriod, Tick, vars
<1> QED
  BY <1>3, <1>4, <1>5, <1>6 DEF Next

\* What Check reads of a rate is the sum over its window.
LEMMA UsageIsSum ==
    ASSUME cfg.kind = "rate", entries \in [0..Window -> Nat], NEW p
    PROVE  CurrentUsage(p) = Sum(entries, 0..Window) /\ CurrentUsage(p) \in Nat
<1>1. CurrentUsage(p) = FoldFunctionOnSet(+, 0, entries, DOMAIN entries)
  BY DEF CurrentUsage, FoldFunction
<1>2. DOMAIN entries = 0..Window /\ Window \in Nat /\ \A a \in 0..Window : entries[a] \in Nat
  BY DecisionNumbers
<1>3. Sum(entries, 0..Window) \in Nat
  BY <1>2, SumUpTo
<1> QED
  BY <1>1, <1>2, <1>3 DEF Sum

LEMMA RateRead ==
    ASSUME DType, cfg.kind = "rate", entries \in [0..Window -> Nat], Gated, NEW c \in Callers, ReadUsage(c),
           call'[c].pc = "spend"
    PROVE  Sum(entries, 0..Window) + call[c].cost <= Hard
<1> DEFINE used == CurrentUsage(call[c].period)
           to   == AfterDecision(used, call[c].cost)
<1>1. IF to \in {"user", "recount"}
      THEN call' = [call EXCEPT ![c].used = used, ![c].pc = to]
      ELSE Conclude(c, to)
  BY DEF ReadUsage, IsGauge
<1>2. used = Sum(entries, 0..Window) /\ used \in Nat /\ call[c].cost \in Nat
  BY UsageIsSum DEF DType, CallRecord
<1> HIDE DEF used
<1>3. to \in {"spend", "refused"} /\ (to = "spend" => Decide(used, call[c].cost) = "allow")
  BY Answers
<1> HIDE DEF to
<1>4. call'[c].pc = to
  BY <1>1, <1>3, ConcludeCall DEF PCs
<1>5. Decide(used, call[c].cost) = "allow" /\ used \in Int
  BY <1>2, <1>3, <1>4
<1>6. used + call[c].cost <= Hard
  BY <1>2, <1>5, Allowed
<1> QED
  BY <1>2, <1>6

LEMMA NextRateBound ==
    ASSUME Base, Base', OnlyGaugesHeld, RateBound, entries \in [0..Window -> Nat], [Next]_vars
    PROVE  RateBound'
<1>0. cfg' = cfg /\ DType /\ Bookkept /\ Idle.pc = "idle"
  BY ConfigKept, IdleCall DEF Base
<1>1. Gated' = Gated
  BY <1>0 DEF Gated, IsGauge
<1>2. Ceiling' = Ceiling /\ Ceiling \in Int /\ MaxCost \in Nat
  BY <1>0, CeilingFacts
<1> SUFFICES ASSUME Gated, cfg.kind = "rate"
             PROVE  Sum(entries', 0..Window) + Sum(Lefts, Callers)' <= Ceiling
  BY <1>0, <1>1, <1>2 DEF RateBound
<1> DEFINE E == Sum(entries, 0..Window)
           L == Sum(Lefts, Callers)
<1>3. E + L <= Ceiling /\ E \in Nat /\ L \in Nat
  <2>1. E + L <= Ceiling
    BY DEF RateBound
  <2>2. E \in Nat
    BY DecisionNumbers, SumUpTo
  <2> QED
    BY <2>1, <2>2, SumTypes DEF SumsAreNumbers
<1>4. \A c \in Callers : /\ call[c].pc \notin {"user", "count", "holding", "return", "repair"}
                         /\ call[c].cost \in Nat /\ Left(c) \in Nat /\ Left(c)' \in Nat
  <2>1. TermsAreNumbers'
    BY TermTypes, PTL
  <2>2. \A c \in Callers : Left(c) \in Nat /\ Left(c)' \in Nat
    BY <2>1, TermTypes DEF TermsAreNumbers
  <2>3. \A c \in Callers : call[c].pc \notin {"user", "count", "holding", "return"}
    BY DEF OnlyGaugesHeld, IsGauge
  <2>4. \A c \in Callers : call[c].pc # "repair"
    BY DEF Base, NoOverwrites, Gated
  <2> QED
    BY <2>2, <2>3, <2>4, BaseFacts
<1>5. ASSUME NEW c \in Callers, Moves(c)
      PROVE  Sum(Lefts, Callers)' = L + Left(c)' - Left(c)
  BY <1>0, <1>5, SumsMove
<1> HIDE DEF E, L
<1>6. ASSUME NEW c \in Callers, Moves(c), entries' = entries, call'[c].pc \notin {"spend", "record"}
      PROVE  Sum(entries', 0..Window) + Sum(Lefts, Callers)' <= Ceiling
  <2>1. Left(c)' = 0
    BY <1>6 DEF Left
  <2>2. Sum(Lefts, Callers)' = L - Left(c) /\ Left(c) \in Nat
    BY <1>3, <1>4, <1>5, <1>6, <2>1
  <2> QED
    BY <1>2, <1>3, <1>6, <2>2 DEF E
<1>7. ASSUME NEW c \in Callers, ReadUsage(c)
      PROVE  Sum(entries', 0..Window) + Sum(Lefts, Callers)' <= Ceiling
  <2>1. /\ Moves(c) /\ entries' = entries /\ call[c].pc = "read" /\ call'[c].cost = call[c].cost
        /\ call'[c].pc \in {"user", "recount", "spend", "refused"}
    BY <1>0, <1>7, ReadUsageCall DEF state
  <2>2. CASE call'[c].pc # "spend"
    BY <1>6, <2>1, <2>2
  <2>3. CASE call'[c].pc = "spend"
    <3>1. E + call[c].cost <= Hard
      BY <1>0, <1>7, <2>3, RateRead DEF E
    <3>2. Left(c)' = call[c].cost /\ Left(c) = 0
      BY <2>1, <2>3 DEF Left
    <3>3. L <= MaxCost * (Cardinality(Callers) - 1)
      <4>1. Lefts[c] = 0 /\ \A d \in Callers : Lefts[d] \in 0..MaxCost
        BY <3>2, TermTypes DEF TermsAreNumbers, Lefts
      <4> QED
        BY <1>2, <4>1, CallersAreFinite, SumAtMostOthers DEF L
    <3>4. Sum(Lefts, Callers)' = L + call[c].cost /\ entries' = entries
      BY <1>3, <1>4, <1>5, <2>1, <3>2
    <3>5. MaxCost * (Cardinality(Callers) - 1) \in Int
      BY <1>2, CommittedIsFinite
    <3> QED
      BY <1>2, <1>3, <1>4, <3>1, <3>3, <3>4, <3>5, HardIsNat DEF E, Ceiling
  <2> QED
    BY <2>2, <2>3
<1>8. ASSUME NEW c \in Callers, SpendRate(c)
      PROVE  Sum(entries', 0..Window) + Sum(Lefts, Callers)' <= Ceiling
  <2>1. /\ Moves(c) /\ call[c].pc \in {"spend", "record"} /\ call'[c].pc \in {"idle", "record"}
        /\ call'[c].cost = call[c].cost - 1
    BY <1>0, <1>8, SpendRateCall
  <2>2. Left(c) = call[c].cost /\ Left(c)' <= call[c].cost - 1
    <3>1. call[c].cost > 0
      BY <1>0, <2>1 DEF Bookkept
    <3>2. Left(c) = call[c].cost
      BY <2>1 DEF Left
    <3>3. CASE call'[c].pc = "record"
      <4>1. Left(c)' = call[c].cost - 1
        BY <2>1, <3>3 DEF Left
      <4> QED
        BY <1>4, <3>2, <4>1
    <3>4. CASE call'[c].pc = "idle"
      <4>1. Left(c)' = 0
        BY <3>4 DEF Left
      <4> QED
        BY <1>4, <3>1, <3>2, <4>1
    <3> QED
      BY <2>1, <3>3, <3>4
  <2>3. Sum(entries', 0..Window) = E + 1
    <3>1. /\ \A a \in 0..Window : entries[a] \in Nat
          /\ \A a \in 0..Window : entries'[a] = IF a = 0 THEN entries[a] + 1 ELSE entries[a]
      BY <1>8, DecisionNumbers DEF SpendRate
    <3> QED
      BY <3>1, DecisionNumbers, SumRaise DEF E
  <2>4. Sum(Lefts, Callers)' = L + Left(c)' - Left(c)
    BY <1>5, <2>1
  <2> QED
    BY <1>2, <1>3, <1>4, <2>2, <2>3, <2>4
<1>9. ASSUME NEW c \in Callers, Step(c) \/ Fault(c)
      PROVE  Sum(entries', 0..Window) + Sum(Lefts, Callers)' <= Ceiling
  <2>1. /\ ~ReadUser(c) /\ ~SpendUser(c) /\ ~SpendUserFails(c) /\ ~ReleaseUser(c) /\ ~ReleaseFails(c) /\ ~Repair(c)
        /\ ~SpendAccumulator(c) /\ \A t \in cfg.tiers : ~SpendEnforced(c, t) /\ ~SpendOrg(c, t)
    BY <1>4 DEF ReadUser, SpendUser, SpendUserFails, ReleaseUser, ReleaseFails, Repair, SpendAccumulator,
           SpendEnforced, SpendOrg, IsGauge
  <2>2. CASE ReadFails(c)
    BY <1>0, <1>6, <2>2, ReadFailsCall DEF state
  <2>3. CASE Recount(c)
    BY <1>0, <1>6, <2>3, RecountCall DEF state
  <2>4. CASE GiveUp(c) \/ SpendFails(c)
    <3>1. Leaves(c) /\ entries' = entries
      BY <2>4 DEF Leaves, GiveUp, SpendFails, state
    <3> QED
      BY <1>0, <1>6, <3>1, LeavesCall
  <2> QED
    BY <1>7, <1>8, <1>9, <2>1, <2>2, <2>3, <2>4 DEF Step, Fault
<1>10. ASSUME NEW c \in Callers, NEW t \in cfg.tiers, ReleaseOrg(c, t) \/ \E cost \in cfg.costs : Check(c, cost, t)
       PROVE  Sum(entries', 0..Window) + Sum(Lefts, Callers)' <= Ceiling
  <2>1. ~ReleaseOrg(c, t)
    BY <1>4 DEF ReleaseOrg
  <2>2. ASSUME NEW cost \in cfg.costs, Check(c, cost, t)
        PROVE  Moves(c) /\ entries' = entries /\ call'[c].pc \notin {"spend", "record"}
    BY <1>0, <2>2, CheckCall DEF state
  <2> QED
    BY <1>6, <1>10, <2>1, <2>2
<1>11. ASSUME call' = call
       PROVE  Sum(Lefts, Callers)' = L
  <2>1. Lefts' = Lefts
    BY <1>11 DEF Lefts, Left
  <2> QED
    BY <2>1 DEF L
<1>12. CASE Tick
  <2>1. /\ \A a \in 0..Window : entries[a] \in Nat /\ Window \in Nat
        /\ \A a \in 0..Window : entries'[a] = IF a = 0 THEN 0 ELSE entries[a - 1]
    BY <1>12, DecisionNumbers DEF Tick
  <2>2. Sum(entries', 0..Window) <= E /\ Sum(entries', 0..Window) \in Nat
    <3>1. \A a \in 0..Window : entries'[a] \in Nat
      BY <2>1
    <3> QED
      BY <2>1, <3>1, DecisionNumbers, SumShift, SumUpTo DEF E
  <2>3. Sum(Lefts, Callers)' = L
    BY <1>11, <1>12 DEF Tick
  <2> QED
    BY <1>2, <1>3, <2>2, <2>3
<1>13. CASE \/ RecalcFetch \/ RecalcRead \/ RecalcSet \/ NewPeriod \/ UNCHANGED vars
            \/ CooldownEnds /\ UNCHANGED <<cfg, counter, user, entries, truth, period, call, recalc, emitted>>
  <2>1. call' = call /\ entries' = entries
    BY <1>13 DEF RecalcFetch, RecalcRead, RecalcSet, NewPeriod, vars, state
  <2> QED
    BY <1>3, <1>11, <2>1 DEF E
<1> QED
  BY <1>9, <1>10, <1>12, <1>13 DEF Next

-----------------------------------------------------------------------------
(* The bounds of the model are never reached by what is not counted *)

LEMMA MaxUsageFacts ==
    ASSUME Base
    PROVE  /\ MaxUsage \in Nat /\ MaxCost <= MaxUsage /\ MaxUsage * Cardinality(Callers) \in Nat
           /\ cfg' = cfg => MaxUsage' = MaxUsage /\ MaxCost' = MaxCost
<1> DEFINE n == Cardinality(Callers)
<1>1. n \in Nat \ {0} /\ MaxCost \in Nat /\ Hard \in Nat
  BY CommittedIsFinite, CeilingFacts, HardIsNat
<1>2. cfg' = cfg => MaxCost' = MaxCost
  BY DEF MaxCost
<1> HIDE DEF n
<1>3. MaxCost * n = MaxCost * (n - 1) + MaxCost /\ MaxCost * (n - 1) \in Nat /\ MaxCost * n \in Nat
  BY <1>1
<1>4. MaxUsage = Hard + MaxCost * n
  BY DEF MaxUsage, n
<1>5. MaxUsage \in Nat /\ MaxCost <= MaxUsage
  BY <1>1, <1>3, <1>4
<1>6. MaxUsage * n \in Nat
  BY <1>1, <1>5
<1> QED
  BY <1>2, <1>5, <1>6 DEF n, MaxUsage

\* A step raises what a partition has and will have only to where CanRise lets it.
LEMMA UserMoves ==
    ASSUME Base, Base', cfg' = cfg, IsGauge, NEW c \in Callers, GaugeSteps(c), NEW u \in Users
    PROVE  \/ user'[u] + Pending(c, u)' <= user[u] + Pending(c, u)
           \/ Pending(c, u) = 0 /\ user'[u] + Pending(c, u)' <= MaxUsage
<1>1. /\ DType /\ user[u] \in Nat /\ call[c].cost \in Nat /\ Idle.pc = "idle"
  BY BaseFacts, IdleCall DEF DType
<1>2. UserRises(c) => user'[u] = IF u = UserOf(c) THEN user[u] + call[c].cost ELSE user[u]
  BY DEF UserRises
<1>3. UserFalls(c) => user'[u] = IF u = UserOf(c) THEN DecrByFloorZero(user[u], call[c].cost) ELSE user[u]
  BY DEF UserFalls
<1>4. UserOf(c)' = UserOf(c)
  BY DEF UserOf
<1>5. CanRise(c) /\ u = UserOf(c) => user[u] + call[c].cost <= MaxUsage
  BY DEF CanRise, Fits
<1>6. CASE Talks(c)
  BY <1>1, <1>6, OutsideTerms, OutsideTermsNext DEF Talks
<1>7. CASE SpendsWhole(c)
  <2>1. Pending(c, u) = 0 /\ Pending(c, u)' = 0 /\ UserRises(c) /\ CanRise(c)
    BY <1>7 DEF SpendsWhole, Goes, Pending
  <2> QED
    BY <1>1, <1>2, <1>5, <2>1
<1>8. CASE SpendsOrg(c)
  <2>1. /\ Pending(c, u) = 0 /\ user' = user /\ CanRise(c)
        /\ Pending(c, u)' = IF UserOf(c) = u THEN call[c].cost ELSE 0
    BY <1>4, <1>8 DEF SpendsOrg, Goes, Pending
  <2> QED
    BY <1>1, <1>5, <2>1
<1>9. CASE SpendsUser(c)
  <2>1. /\ Pending(c, u) = IF UserOf(c) = u THEN call[c].cost ELSE 0
        /\ Pending(c, u)' = 0 /\ (UserRises(c) \/ user' = user)
    BY <1>9 DEF SpendsUser, Goes, Pending
  <2> QED
    BY <1>1, <1>2, <2>1
<1>10. CASE GivesOrg(c)
  <2>1. Pending(c, u) = 0 /\ Pending(c, u)' = 0 /\ user' = user
    BY <1>10 DEF GivesOrg, Goes, Pending
  <2> QED
    BY <1>1, <2>1
<1>11. CASE GivesUser(c)
  <2>1. Pending(c, u) = 0 /\ Pending(c, u)' = 0 /\ (UserFalls(c) \/ user' = user)
    BY <1>1, <1>11 DEF GivesUser, Pending
  <2> QED
    BY <1>1, <1>3, <2>1 DEF DecrByFloorZero
<1>12. CASE Drops(c)
  <2>1. Pending(c, u) = 0 /\ Pending(c, u)' = 0 /\ user' = user
    BY <1>1, <1>12 DEF Drops, Pending
  <2> QED
    BY <1>1, <2>1
<1> QED
  BY <1>6, <1>7, <1>8, <1>9, <1>10, <1>11, <1>12 DEF GaugeSteps

LEMMA NextUserBound ==
    ASSUME Base, Base', UserBound, [Next]_vars
    PROVE  UserBound'
<1> DEFINE n == Cardinality(Callers)
<1>0. cfg' = cfg
  BY ConfigKept
<1>1. MaxUsage' = MaxUsage /\ MaxUsage \in Nat /\ MaxCost <= MaxUsage /\ MaxCost \in Nat /\ n \in Nat \ {0}
  BY <1>0, MaxUsageFacts, CeilingFacts, CommittedIsFinite
<1> SUFFICES ASSUME IsGauge, NEW u \in Users
             PROVE  user'[u] + Sum(Pendings(u), Callers)' <= MaxUsage * n
  BY <1>0, <1>1 DEF UserBound, IsGauge
<1> DEFINE P == Sum(Pendings(u), Callers)
<1>2. user[u] + P <= MaxUsage * n
  BY DEF UserBound
<1>3. user[u] \in Nat /\ user'[u] \in Nat /\ P \in Nat
  BY SumTypes DEF SumsAreNumbers, Base, DType
<1>4. CASE Rests
  <2>1. Pendings(u)' = Pendings(u) /\ user' = user
    BY <1>0, <1>4 DEF Rests, Pendings, Pending, UserOf
  <2> QED
    BY <1>2, <2>1
<1>5. ASSUME NEW c \in Callers, Moves(c), GaugeSteps(c)
      PROVE  user'[u] + Sum(Pendings(u), Callers)' <= MaxUsage * n
  <2>1. Sum(Pendings(u), Callers)' = P + Pending(c, u)' - Pending(c, u)
    BY <1>0, <1>5, UserSumsMove
  <2>2. Pending(c, u) \in Nat /\ Pending(c, u)' \in Nat
    <3>1. TermsAreNumbers'
      BY TermTypes, PTL
    <3> QED
      BY <3>1, TermTypes DEF TermsAreNumbers
  <2>3. CASE user'[u] + Pending(c, u)' <= user[u] + Pending(c, u)
    <3>1. user'[u] + (P + Pending(c, u)' - Pending(c, u)) <= user[u] + P
      BY <1>3, <2>2, <2>3
    <3>2. MaxUsage * n \in Int
      BY <1>1
    <3> HIDE DEF n, P
    <3> QED
      BY <1>2, <1>3, <2>1, <2>2, <3>1, <3>2
  <2>4. CASE Pending(c, u) = 0 /\ user'[u] + Pending(c, u)' <= MaxUsage
    <3>1. P <= MaxCost * (n - 1)
      <4>1. Pendings(u)[c] = 0 /\ \A d \in Callers : Pendings(u)[d] \in 0..MaxCost
        BY <2>4, TermTypes DEF TermsAreNumbers, Pendings
      <4> QED
        BY <1>1, <4>1, CallersAreFinite, SumAtMostOthers
    <3> HIDE DEF n, P
    <3>2. MaxCost * (n - 1) <= MaxUsage * (n - 1) /\ MaxUsage * n = MaxUsage * (n - 1) + MaxUsage
      <4>1. n - 1 \in Nat /\ MaxUsage - MaxCost \in Nat
        BY <1>1
      <4>2. (MaxUsage - MaxCost) * (n - 1) \in Nat
        BY <4>1
      <4>3. MaxUsage * (n - 1) = MaxCost * (n - 1) + (MaxUsage - MaxCost) * (n - 1)
        BY <1>1
      <4>4. MaxUsage * n = MaxUsage * (n - 1) + MaxUsage
        BY <1>1
      <4>5. MaxCost * (n - 1) \in Int /\ MaxUsage * (n - 1) \in Int
        BY <1>1
      <4> QED
        BY <4>2, <4>3, <4>4, <4>5
    <3>3. MaxCost * (n - 1) \in Int /\ MaxUsage * (n - 1) \in Int
      BY <1>1
    <3>4. user'[u] + (P + Pending(c, u)' - Pending(c, u)) <= MaxUsage + P
      BY <1>1, <1>3, <2>2, <2>4
    <3> QED
      BY <1>1, <1>3, <2>1, <2>2, <3>1, <3>2, <3>3, <3>4
  <2> QED
    BY <1>0, <1>5, <2>3, <2>4, UserMoves
<1> QED
  BY <1>4, <1>5, GaugeStep

\* The ranges of the stores, of what a call remembers, and of the Recalculate.
StoresType == /\ counter \in [0..MaxPeriod -> 0..MaxUsage] /\ truth \in [0..MaxPeriod -> 0..MaxUsage]
              /\ entries \in [0..Window -> 0..MaxUsage]

Remembers(c) == call[c].used \in 0..MaxUsage /\ call[c].seen \in 0..MaxUsage

MemoryType == (\A c \in Callers : Remembers(c)) /\ recalc.seen \in 0..MaxUsage

LEMMA TypeParts == Base /\ DecTypeOK => StoresType /\ MemoryType
<1> SUFFICES ASSUME Base, DecTypeOK PROVE StoresType /\ MemoryType
  OBVIOUS
<1>1. StoresType
  BY DEF DecTypeOK, StoresType
<1>2. \A c \in Callers : Remembers(c)
  BY DEF DecTypeOK, Remembers
<1>3. recalc.seen \in 0..MaxUsage
  BY DEF DecTypeOK
<1> QED
  BY <1>1, <1>2, <1>3 DEF MemoryType

LEMMA ConcludeForgets ==
    ASSUME DType, NEW c \in Callers, NEW to, Conclude(c, to)
    PROVE  call'[c].used = 0 /\ call'[c].seen = 0
<1> DEFINE r == [Idle EXCEPT !.pc = to, !.cost = call[c].cost]
<1>1. r.used = 0 /\ r.seen = 0
  BY DEF Idle
<1>2. call' = [call EXCEPT ![c] = r]
  BY DEF Conclude
<1> HIDE DEF r
<1> QED
  BY <1>1, <1>2 DEF DType

LEMMA ReturnForgets ==
    ASSUME DType, NEW c \in Callers, Return(c)
    PROVE  call'[c].used = 0 /\ call'[c].seen = 0
<1>1. call'[c] = Idle
  BY DEF DType, Return
<1> QED
  BY <1>1 DEF Idle

\* A call remembers nothing but what it has read.
LEMMA StepRemembers ==
    ASSUME Base, StoresType, MemoryType, NEW c \in Callers, Step(c) \/ Fault(c)
    PROVE  call'[c].used \in 0..MaxUsage /\ call'[c].seen \in 0..MaxUsage
<1> DEFINE U == 0..MaxUsage
<1>0. DType /\ call \in [Callers -> CallRecord] /\ call[c] \in CallRecord /\ call[c].period \in 0..MaxPeriod /\ period \in 0..MaxPeriod
  BY BaseFacts DEF DType
<1>1. call[c].used \in U /\ call[c].seen \in U
  BY DEF MemoryType, Remembers
<1>2. 0 \in U
  BY MaxUsageFacts
<1>3. \A p \in 0..MaxPeriod : counter[p] \in U /\ truth[p] \in U
  BY DEF StoresType
<1> SUFFICES call'[c].used \in U /\ call'[c].seen \in U
  OBVIOUS
<1> HIDE DEF U
<1>4. ASSUME call'[c].used = 0, call'[c].seen = 0
      PROVE  call'[c].used \in U /\ call'[c].seen \in U
  BY <1>2, <1>4
<1>5. ASSUME call'[c].used = call[c].used, call'[c].seen = call[c].seen
      PROVE  call'[c].used \in U /\ call'[c].seen \in U
  BY <1>1, <1>5
<1>6. ASSUME NEW to, Conclude(c, to)
      PROVE  call'[c].used \in U /\ call'[c].seen \in U
  BY <1>0, <1>4, <1>6, ConcludeForgets
<1>7. ASSUME Return(c)
      PROVE  call'[c].used \in U /\ call'[c].seen \in U
  BY <1>0, <1>4, <1>7, ReturnForgets
<1>8. ASSUME NEW to, Goto(c, to)
      PROVE  call'[c].used \in U /\ call'[c].seen \in U
  <2>1. call'[c].used = call[c].used /\ call'[c].seen = call[c].seen
    BY <1>0, <1>8 DEF Goto, CallRecord
  <2> QED
    BY <1>5, <2>1
<1>9. CASE ReadUsage(c)
  <2> DEFINE used == CurrentUsage(call[c].period)
             to   == IF IsGauge /\ UserOf(c) # None /\ UserLimit # None THEN "user"
                     ELSE AfterDecision(used, call[c].cost)
  <2>1. IF to \in {"user", "recount"} THEN call' = [call EXCEPT ![c].used = used, ![c].pc = to]
        ELSE Conclude(c, to)
    BY <1>9 DEF ReadUsage
  <2>2. to \in {"user", "recount"} => cfg.kind # "rate"
    BY Answers DEF IsGauge
  <2>3. cfg.kind # "rate" => used \in U
    BY <1>0, <1>3, UsageIsCounter
  <2> HIDE DEF used, to
  <2>4. CASE to \in {"user", "recount"}
    <3>1. call' = [call EXCEPT ![c].used = used, ![c].pc = to]
      BY <2>1, <2>4
    <3>2. call'[c].used = used /\ call'[c].seen = call[c].seen
      BY <1>0, <3>1 DEF CallRecord
    <3> QED
      BY <1>1, <2>2, <2>3, <2>4, <3>2
  <2> QED
    BY <1>6, <2>1, <2>4
<1>10. CASE ReadUser(c)
  <2>1. PICK to : Goto(c, to) \/ Conclude(c, to)
    BY <1>10 DEF ReadUser
  <2> QED
    BY <1>6, <1>8, <2>1
<1>11. CASE ReadFails(c)
  BY <1>6, <1>11 DEF ReadFails
<1>12. CASE Recount(c)
  <2>1. CASE call' = [call EXCEPT ![c].seen = truth[period], ![c].pc = "repair"]
    <3>1. call'[c].used = call[c].used /\ call'[c].seen = truth[period]
      BY <1>0, <2>1 DEF CallRecord
    <3> QED
      BY <1>0, <1>1, <1>3, <3>1
  <2>2. \/ \E to : Conclude(c, to)
        \/ call' = [call EXCEPT ![c].seen = truth[period], ![c].pc = "repair"]
    BY <1>12 DEF Recount
  <2> QED
    BY <1>6, <2>1, <2>2
<1>13. CASE Repair(c)
  BY <1>6, <1>13 DEF Repair
<1>14. CASE Leaves(c)
  <2>1. Return(c)
    BY <1>14 DEF Leaves, GiveUp, SpendFails, SpendAccumulator, ReleaseUser, ReleaseFails
  <2> QED
    BY <1>7, <2>1
<1>15. CASE SpendUser(c) \/ SpendUserFails(c)
  <2>1. call' = [call EXCEPT ![c].pc = "holding", ![c].crossed = FALSE]
    BY <1>15 DEF SpendUser, SpendUserFails
  <2>2. call'[c].used = call[c].used /\ call'[c].seen = call[c].seen
    BY <1>0, <2>1 DEF CallRecord
  <2> QED
    BY <1>5, <2>2
<1>16. CASE SpendRate(c)
  <2> DEFINE k == call[c].cost - 1
             m == [call[c] EXCEPT !.cost = k, !.pc = "record"]
  <2>1. call' = [call EXCEPT ![c] = IF call[c].cost = 1 THEN Idle ELSE m]
    BY <1>16 DEF SpendRate
  <2> HIDE DEF k
  <2>2. m.used = call[c].used /\ m.seen = call[c].seen
    BY <1>0 DEF CallRecord
  <2> HIDE DEF m
  <2>3. call'[c] = IF call[c].cost = 1 THEN Idle ELSE m
    BY <1>0, <2>1
  <2>4. Idle.used = 0 /\ Idle.seen = 0
    BY DEF Idle
  <2> QED
    BY <1>1, <1>2, <2>2, <2>3, <2>4
<1>17. ASSUME NEW t \in cfg.tiers, SpendEnforced(c, t)
       PROVE  call'[c].used \in U /\ call'[c].seen \in U
  <2>1. Return(c) \/ Goto(c, "holding")
    BY <1>17 DEF SpendEnforced
  <2> QED
    BY <1>7, <1>8, <2>1
<1>18. ASSUME NEW t \in cfg.tiers, SpendOrg(c, t)
       PROVE  call'[c].used \in U /\ call'[c].seen \in U
  <2> DEFINE x == HasLimit(t) /\ CrossedUp(counter'[0], call[c].cost, Limit)
  <2>1. call' = [call EXCEPT ![c].pc = "count", ![c].crossed = x]
    BY <1>18 DEF SpendOrg
  <2> HIDE DEF x
  <2>2. call'[c].used = call[c].used /\ call'[c].seen = call[c].seen
    BY <1>0, <2>1 DEF CallRecord
  <2> QED
    BY <1>5, <2>2
<1> QED
  BY <1>9, <1>10, <1>11, <1>12, <1>13, <1>14, <1>15, <1>16, <1>17, <1>18 DEF Step, Fault, Leaves

LEMMA NextMemory ==
    ASSUME Base, Base', StoresType, MemoryType, [Next]_vars
    PROVE  MemoryType'
<1>0. cfg' = cfg /\ DType /\ call \in [Callers -> CallRecord] /\ period \in 0..MaxPeriod
  BY ConfigKept DEF Base, DType
<1>1. MaxUsage' = MaxUsage /\ 0 \in 0..MaxUsage
  BY <1>0, MaxUsageFacts
<1>2. /\ \A d \in Callers : call[d].used \in 0..MaxUsage /\ call[d].seen \in 0..MaxUsage
      /\ recalc.seen \in 0..MaxUsage
  BY DEF MemoryType, Remembers
<1>3. ASSUME NEW c \in Callers, \A d \in Callers \ {c} : call'[d] = call[d], recalc' = recalc,
             call'[c].used \in 0..MaxUsage, call'[c].seen \in 0..MaxUsage
      PROVE  MemoryType'
  BY <1>1, <1>2, <1>3 DEF MemoryType, Remembers
<1>4. ASSUME NEW c \in Callers, Step(c) \/ Fault(c)
      PROVE  MemoryType'
  <2>1. recalc' = recalc
    BY <1>4 DEF Step, Fault, ReadUsage, ReadUser, ReadFails, Recount, Repair, GiveUp, SpendEnforced, SpendOrg,
           SpendUser, SpendUserFails, SpendFails, SpendAccumulator, SpendRate, ReleaseUser, ReleaseFails, state
  <2>2. \A d \in Callers \ {c} : call'[d] = call[d]
    <3>1. Bookkept
      BY DEF Base
    <3>2. Moves(c)
      BY <1>0, <1>4, <3>1, ReadUsageCall, ReadUserCall, ReadFailsCall, RecountCall, RepairCall, SpendEnforcedCall,
         SpendOrgCall, HoldingCall, SpendRateCall, LeavesCall DEF Step, Fault, Leaves
    <3> QED
      BY <3>2 DEF Moves
  <2> QED
    BY <1>3, <1>4, <2>1, <2>2, StepRemembers
<1>5. ASSUME NEW c \in Callers, NEW t \in cfg.tiers, ReleaseOrg(c, t)
      PROVE  MemoryType'
  <2> DEFINE x == HasLimit(t) /\ CrossedDown(counter'[0], call[c].cost, Limit)
  <2>1. call' = [call EXCEPT ![c].pc = "return", ![c].crossed = x] /\ recalc' = recalc
    BY <1>5 DEF ReleaseOrg
  <2> HIDE DEF x
  <2>2. /\ call'[c].used = call[c].used /\ call'[c].seen = call[c].seen
        /\ \A d \in Callers \ {c} : call'[d] = call[d]
    BY <1>0, <2>1 DEF CallRecord
  <2> QED
    BY <1>2, <1>3, <2>1, <2>2
<1>6. ASSUME NEW c \in Callers, NEW t \in cfg.tiers, NEW cost \in cfg.costs, Check(c, cost, t)
      PROVE  MemoryType'
  <2> DEFINE to == IF cfg.mode = "kill" THEN "refused" ELSE IF cfg.mode = "disabled" THEN "spend"
                   ELSE CASE t = "unknown" -> "refused"
                          [] t \in {"unresolved", "unlimited"} -> "spend"
                          [] t = "resolved" -> "read"
             r  == [Idle EXCEPT !.cost = cost, !.period = period, !.pc = to]
  <2>1. call' = [call EXCEPT ![c] = r] /\ recalc' = recalc
    BY <1>6 DEF Check, state
  <2> HIDE DEF to
  <2>2. r.used = 0 /\ r.seen = 0
    BY DEF Idle
  <2> HIDE DEF r
  <2>3. call'[c].used = 0 /\ call'[c].seen = 0 /\ \A d \in Callers \ {c} : call'[d] = call[d]
    BY <1>0, <2>1, <2>2
  <2> QED
    BY <1>1, <1>3, <2>1, <2>3
<1>7. ASSUME call' = call, recalc'.seen \in 0..MaxUsage
      PROVE  MemoryType'
  BY <1>1, <1>2, <1>7 DEF MemoryType, Remembers
<1>8. CASE RecalcFetch
  <2>1. recalc'.seen = truth[period] /\ call' = call
    BY <1>8 DEF RecalcFetch
  <2>2. truth[period] \in 0..MaxUsage
    BY <1>0 DEF StoresType
  <2> QED
    BY <1>7, <2>1, <2>2
<1>9. CASE RecalcRead
  <2>1. recalc'.seen \in {0, recalc.seen} /\ call' = call
    BY <1>0, <1>9 DEF RecalcRead, DType
  <2> QED
    BY <1>1, <1>2, <1>7, <2>1
<1>10. CASE RecalcSet
  <2>1. recalc'.seen = 0 /\ call' = call
    BY <1>10 DEF RecalcSet
  <2> QED
    BY <1>1, <1>7, <2>1
<1>11. CASE \/ NewPeriod \/ Tick \/ UNCHANGED vars
            \/ CooldownEnds /\ UNCHANGED <<cfg, counter, user, entries, truth, period, call, recalc, emitted>>
  <2>1. recalc' = recalc /\ call' = call
    BY <1>11 DEF NewPeriod, Tick, vars, state
  <2> QED
    BY <1>2, <1>7, <2>1
<1> QED
  BY <1>4, <1>5, <1>6, <1>8, <1>9, <1>10, <1>11 DEF Next

\* A charge is given back by its holder only, so what exists does not fall below zero.
LEMMA GoneFits ==
    ASSUME Base, OnlyGaugesHeld, TruthIsHeld, StoresType, NEW c \in Callers, call[c].pc = "holding", Gone(c)
    PROVE  truth' \in [0..MaxPeriod -> 0..MaxUsage]
<1>0. DType /\ 0 \in 0..MaxPeriod /\ MaxUsage \in Nat /\ call[c].cost \in Nat
  BY BaseFacts, MaxUsageFacts
<1>1. truth \in [0..MaxPeriod -> 0..MaxUsage]
  BY DEF StoresType
<1>2. Charge(c) <= truth[0]
  BY TermsInSums DEF TruthIsHeld, OnlyGaugesHeld
<1>3. Charge(c) = call[c].cost
  BY DEF Charge
<1>4. truth[0] \in 0..MaxUsage
  BY <1>0, <1>1
<1>5. truth[0] - call[c].cost \in 0..MaxUsage
  BY <1>0, <1>2, <1>3, <1>4
<1> QED
  BY <1>0, <1>1, <1>5 DEF Gone

LEMMA NextStores ==
    ASSUME Base, Base', OnlyGaugesHeld, TruthIsHeld, StoresType, MemoryType, [Next]_vars
    PROVE  StoresType'
<1>0. /\ cfg' = cfg /\ DType /\ 0 \in 0..MaxPeriod /\ period \in 0..MaxPeriod /\ MaxPeriod \in Nat
      /\ IsGauge => period = 0
  BY ConfigKept, BaseFacts
<1>1. MaxUsage' = MaxUsage /\ MaxUsage \in Nat /\ 0 \in 0..MaxUsage
  BY <1>0, MaxUsageFacts
<1> DEFINE U == 0..MaxUsage
           C == [0..MaxPeriod -> U]
           W == [0..Window -> U]
<1>2. counter \in C /\ truth \in C /\ entries \in W
  BY DEF StoresType
<1> SUFFICES counter' \in C /\ truth' \in C /\ entries' \in W
  BY <1>1 DEF StoresType
<1>3. \A c \in Callers : call[c].seen \in U /\ call[c].cost \in Nat
  BY BaseFacts DEF MemoryType, Remembers
<1>4. recalc.seen \in U
  BY DEF MemoryType
<1>5. ASSUME NEW c \in Callers, NEW p \in 0..MaxPeriod, Fits(counter[p] + call[c].cost), Fits(truth[p] + call[c].cost)
      PROVE  /\ [counter EXCEPT ![p] = @ + call[c].cost] \in C
             /\ [truth EXCEPT ![p] = @ + call[c].cost] \in C
  <2>1. counter[p] \in U /\ truth[p] \in U
    BY <1>2
  <2>2. counter[p] + call[c].cost \in U /\ truth[p] + call[c].cost \in U
    BY <1>1, <1>3, <1>5, <2>1 DEF Fits
  <2> HIDE DEF U
  <2> QED
    BY <1>2, <2>2
<1>6. ASSUME NEW c \in Callers, Step(c) \/ Fault(c)
      PROVE  counter' \in C /\ truth' \in C /\ entries' \in W
  <2>1. CASE ReadUsage(c) \/ ReadUser(c) \/ ReadFails(c) \/ Recount(c) \/ GiveUp(c) \/ SpendUser(c)
             \/ SpendUserFails(c) \/ SpendFails(c) \/ ReleaseUser(c)
    <3>1. UNCHANGED <<counter, truth, entries>>
      BY <2>1 DEF ReadUsage, ReadUser, ReadFails, Recount, GiveUp, SpendUser, SpendUserFails, SpendFails,
             ReleaseUser, state
    <3> QED
      BY <1>2, <3>1
  <2>2. CASE Repair(c)
    <3>1. /\ counter' \in {counter, [counter EXCEPT ![period] = call[c].seen]}
          /\ UNCHANGED <<truth, entries>>
      BY <1>0, <2>2, RepairCall
    <3> HIDE DEF U
    <3>2. [counter EXCEPT ![period] = call[c].seen] \in C
      BY <1>0, <1>2, <1>3
    <3> QED
      BY <1>2, <3>1, <3>2
  <2>3. ASSUME NEW t \in cfg.tiers, SpendEnforced(c, t) \/ SpendOrg(c, t)
        PROVE  counter' \in C /\ truth' \in C /\ entries' \in W
    <3>1. entries' = entries /\ IsGauge
      BY <2>3 DEF SpendEnforced, SpendOrg
    <3>2. CASE UNCHANGED <<counter, truth>>
      BY <1>2, <3>1, <3>2
    <3>3. CASE CanRise(c) /\ Rises(c) /\ Exists(c)
      <4>1. Fits(counter[0] + call[c].cost) /\ Fits(truth[0] + call[c].cost)
        BY <3>3 DEF CanRise
      <4>2. /\ counter' = [counter EXCEPT ![0] = @ + call[c].cost]
            /\ truth' = [truth EXCEPT ![0] = @ + call[c].cost]
        BY <1>0, <3>1, <3>3 DEF Rises, Exists
      <4> HIDE DEF C, W
      <4> QED
        BY <1>0, <1>2, <1>5, <3>1, <4>1, <4>2
    <3>4. (CanRise(c) /\ Rises(c) /\ Exists(c)) \/ UNCHANGED <<counter, truth>>
      BY <2>3 DEF SpendEnforced, SpendOrg
    <3> QED
      BY <3>2, <3>3, <3>4
  <2>4. CASE SpendAccumulator(c)
    <3>1. /\ Fits(counter[period] + call[c].cost) /\ Fits(truth[period] + call[c].cost)
          /\ counter' = [counter EXCEPT ![period] = @ + call[c].cost]
          /\ truth' = [truth EXCEPT ![period] = @ + call[c].cost] /\ entries' = entries
      BY <2>4 DEF SpendAccumulator, Exists
    <3> HIDE DEF C, W
    <3> QED
      BY <1>0, <1>2, <1>5, <3>1
  <2>5. CASE SpendRate(c)
    <3>1. /\ entries' = [entries EXCEPT ![0] = @ + 1] /\ Fits(entries[0] + 1) /\ UNCHANGED <<counter, truth>>
      BY <2>5 DEF SpendRate
    <3>2. 0 \in 0..Window
      BY DecisionNumbers
    <3>3. entries[0] \in U
      BY <1>2, <3>2
    <3>4. entries[0] + 1 \in U
      BY <1>1, <3>1, <3>3 DEF Fits
    <3> HIDE DEF U
    <3>5. entries' \in W
      BY <1>2, <3>1, <3>4
    <3> QED
      BY <1>2, <3>1, <3>5
  <2>6. CASE ReleaseFails(c)
    <3>1. call[c].pc = "holding" /\ Gone(c) /\ UNCHANGED <<counter, entries>>
      BY <2>6 DEF ReleaseFails
    <3> QED
      BY <1>2, <3>1, GoneFits
  <2> QED
    BY <1>6, <2>1, <2>2, <2>3, <2>4, <2>5, <2>6 DEF Step, Fault
<1>7. ASSUME NEW c \in Callers, NEW t \in cfg.tiers, ReleaseOrg(c, t)
      PROVE  counter' \in C /\ truth' \in C /\ entries' \in W
  <2>1. /\ call[c].pc = "holding" /\ Gone(c) /\ entries' = entries
        /\ counter' = [counter EXCEPT ![0] = DecrByFloorZero(@, call[c].cost)]
    BY <1>0, <1>7, ReleaseOrgCall
  <2>2. counter[0] \in U
    BY <1>0, <1>2
  <2>3. DecrByFloorZero(counter[0], call[c].cost) \in U
    BY <1>1, <1>3, <2>2 DEF DecrByFloorZero
  <2>4. truth' \in C
    BY <2>1, GoneFits
  <2> HIDE DEF U
  <2>5. counter' \in C
    BY <1>0, <1>2, <2>1, <2>3
  <2> QED
    BY <1>2, <2>1, <2>4, <2>5
<1>8. CASE RecalcSet
  <2>1. counter' = [counter EXCEPT ![period] = recalc.seen] /\ UNCHANGED <<truth, entries>>
    BY <1>8 DEF RecalcSet
  <2> HIDE DEF U
  <2> QED
    BY <1>0, <1>2, <1>4, <2>1
<1>9. CASE Tick
  <2>1. /\ entries' = [a \in 0..Window |-> IF a = 0 THEN 0 ELSE entries[a - 1]]
        /\ UNCHANGED <<counter, truth>>
    BY <1>9 DEF Tick
  <2>2. \A a \in 0..Window : a = 0 \/ entries[a - 1] \in U
    BY <1>2, DecisionNumbers
  <2>3. 0 \in U
    BY <1>1
  <2> HIDE DEF U
  <2>4. entries' \in W
    BY <2>1, <2>2, <2>3
  <2> QED
    BY <1>2, <2>1, <2>4
<1>10. CASE \/ RecalcFetch \/ RecalcRead \/ NewPeriod \/ UNCHANGED vars
            \/ CooldownEnds /\ UNCHANGED <<cfg, counter, user, entries, truth, period, call, recalc, emitted>>
            \/ \E c \in Callers : \E t \in cfg.tiers : \E cost \in cfg.costs : Check(c, cost, t)
  <2>1. UNCHANGED <<counter, truth, entries>>
    BY <1>10 DEF RecalcFetch, RecalcRead, NewPeriod, Check, vars, state
  <2> QED
    BY <1>2, <2>1
<1> HIDE DEF U, C, W
<1> QED
  BY <1>6, <1>7, <1>8, <1>9, <1>10 DEF Next

\* The partitions of a resource that is no gauge are never written.
LEMMA NextUserType ==
    ASSUME Base, Base', OnlyGaugesHeld, UserBound', [Next]_vars,
           user \in [Users -> 0..(MaxUsage * Cardinality(Callers))]
    PROVE  user' \in [Users -> 0..(MaxUsage * Cardinality(Callers))]
<1> DEFINE m == MaxUsage * Cardinality(Callers)
<1>0. cfg' = cfg /\ m \in Nat /\ MaxUsage' = MaxUsage
  BY ConfigKept, MaxUsageFacts
<1>1. CASE IsGauge
  <2>1. SumsAreNumbers'
    BY SumTypes, PTL
  <2>2. \A u \in Users : user'[u] + Sum(Pendings(u), Callers)' <= m
    BY <1>0, <1>1 DEF UserBound, IsGauge
  <2>3. user' \in [Users -> Nat]
    BY DEF Base, DType
  <2>4. \A u \in Users : Sum(Pendings(u), Callers)' \in Nat
    BY <2>1 DEF SumsAreNumbers
  <2> HIDE DEF m
  <2>5. \A u \in Users : user'[u] \in 0..m
    BY <1>0, <2>2, <2>3, <2>4
  <2> QED
    BY <2>3, <2>5 DEF m
<1>2. CASE ~IsGauge
  <2>1. \A c \in Callers : call[c].pc \notin {"count", "holding", "return"}
    BY <1>2 DEF OnlyGaugesHeld
  <2>2. \A c \in Callers : ~SpendUser(c) /\ ~ReleaseUser(c) /\ \A t \in cfg.tiers : ~SpendEnforced(c, t)
    BY <1>2, <2>1 DEF SpendUser, ReleaseUser, SpendEnforced
  <2>3. user' = user
    BY <2>2 DEF Next, Step, Fault, Check, ReadUsage, ReadUser, ReadFails, Recount, Repair, GiveUp, SpendOrg,
           SpendUserFails, SpendFails, SpendAccumulator, SpendRate, ReleaseOrg, ReleaseFails,
           RecalcFetch, RecalcRead, RecalcSet, NewPeriod, Tick, vars, state
  <2> QED
    BY <2>3
<1> QED
  BY <1>1, <1>2

\* DecTypeOK is the type of Base with these ranges.
LEMMA TypesJoin ==
    Base /\ StoresType /\ MemoryType /\ user \in [Users -> 0..(MaxUsage * Cardinality(Callers))] => DecTypeOK
<1> SUFFICES ASSUME Base, StoresType, MemoryType, user \in [Users -> 0..(MaxUsage * Cardinality(Callers))]
             PROVE  DecTypeOK
  OBVIOUS
<1>1. /\ cfg \in Configs /\ period \in 0..MaxPeriod /\ emitted \in BOOLEAN /\ AlertsTypeOK
  BY DEF Base, DType
<1>2. /\ counter \in [0..MaxPeriod -> 0..MaxUsage] /\ truth \in [0..MaxPeriod -> 0..MaxUsage]
      /\ entries \in [0..Window -> 0..MaxUsage]
  BY DEF StoresType
<1> DEFINE U == 0..MaxUsage
           K == 0..MaxCost
<1>3. \A c \in Callers : call[c].cost \in K /\ call[c].used \in U /\ call[c].seen \in U
  <2>1. \A c \in Callers : call[c].cost \in K
    BY BaseFacts, CeilingFacts DEF Base, Bookkept
  <2> QED
    BY <2>1 DEF MemoryType, Remembers
<1>4. recalc.seen \in U /\ recalc \in [pc : {"idle", "read", "set"}, seen : Int]
  BY DEF MemoryType, Base, DType
<1> HIDE DEF U, K
<1>5. recalc \in [pc : {"idle", "read", "set"}, seen : U]
  BY <1>4
<1>6. call \in [Callers -> CallRecord]
  BY DEF Base, DType
<1>7. call \in [Callers ->
          [pc : {"idle", "read", "user", "recount", "repair", "spend", "record", "count", "holding",
                 "return", "refused"},
           cost : K, used : U, seen : U, period : 0..MaxPeriod, crossed : BOOLEAN]]
  BY <1>3, <1>6 DEF CallRecord
<1> QED
  BY <1>1, <1>2, <1>5, <1>7 DEF DecTypeOK, U, K

LEMMA NextTypes ==
    ASSUME Base, Base', OnlyGaugesHeld, TruthIsHeld, UserBound', DecTypeOK, [Next]_vars
    PROVE  DecTypeOK'
<1>1. StoresType /\ MemoryType /\ user \in [Users -> 0..(MaxUsage * Cardinality(Callers))]
  BY TypeParts DEF DecTypeOK
<1>2. StoresType' /\ MemoryType'
  BY <1>1, NextStores, NextMemory
<1>3. (user \in [Users -> 0..(MaxUsage * Cardinality(Callers))])'
  <2>1. MaxUsage' = MaxUsage
    BY ConfigKept, MaxUsageFacts
  <2> QED
    BY <1>1, <2>1, NextUserType
<1> QED
  BY <1>2, <1>3, TypesJoin, PTL

-----------------------------------------------------------------------------
(* Theorems *)

LEMMA InitInv == Init => DInv
<1> SUFFICES ASSUME Init PROVE DInv
  OBVIOUS
<1>1. DType
  <2>1. AlertsTypeOK
    BY DEF Init, AlertsInit, AlertsTypeOK
  <2>2. call \in [Callers -> CallRecord]
    BY IdleCall DEF Init
  <2>3. /\ counter \in [0..MaxPeriod -> Int] /\ truth \in [0..MaxPeriod -> Int] /\ user \in [Users -> Nat]
        /\ period \in 0..MaxPeriod /\ cfg \in Configs
    BY DecisionNumbers DEF Init
  <2>4. recalc \in [pc : {"idle", "read", "set"}, seen : Int] /\ emitted \in BOOLEAN
    BY DEF Init
  <2> QED
    BY <2>1, <2>2, <2>3, <2>4 DEF DType
<1>2. /\ \A c \in Callers : call[c] = Idle
      /\ \A p \in 0..MaxPeriod : counter[p] = 0 /\ truth[p] = 0
      /\ period = 0 /\ recalc.pc = "idle" /\ 0 \in 0..MaxPeriod
  BY DecisionNumbers DEF Init
<1>3. Bookkept /\ NoOverwrites /\ NoRecounts
  BY <1>1, <1>2, IdleCall, ConfigFacts DEF DType, Bookkept, NoOverwrites, NoRecounts
<1>4. NeverUndercounts
  BY <1>2 DEF NeverUndercounts
<1>5. Observed /\ CoolingHeard
  BY <1>2, HardIsNat DEF Init, AlertsInit, Observed, CoolingHeard
<1>6. Committed = {}
  BY <1>2, IdleCall DEF Committed
<1>7. OverParts
  <2>1. Ceiling \in Int /\ Hard <= Ceiling
    BY <1>1, <1>3, CeilingFacts DEF Base
  <2> QED
    BY <1>2, <1>6, <2>1, IdleCall, HardIsNat
       DEF OverParts, Bounded, FutureEmpty, CallsOver, Reserved, EnforcedHolds
<1> QED
  BY <1>1, <1>3, <1>4, <1>5, <1>7 DEF DInv, Overshoots

\* The strengthened invariant is inductive.
THEOREM DecisionsInductive == Spec => []DInv
<1>1. Init => DInv
  BY InitInv
<1>2. DInv /\ [Next]_vars => DInv'
  <2> SUFFICES ASSUME DInv, [Next]_vars PROVE DInv'
    OBVIOUS
  <2>1. Base
    BY DEF DInv, Base
  <2>2. Base'
    BY <2>1, NextBase
  <2>3. NeverUndercounts' /\ Observed' /\ CoolingHeard' /\ Overshoots'
    BY <2>1, <2>2, NextNeverUndercounts, NextHeard, NextObserved, NextOvershoots DEF DInv
  <2> QED
    BY <2>2, <2>3 DEF DInv, Base
<1> QED
  BY <1>1, <1>2, PTL DEF Spec

\* Without a truth source the counter is never below what exists or was spent: Release's floor,
\* the failed writes and the periods take off no more than their own charge.
THEOREM CountersNeverUndercount == Spec => []NeverUndercounts
<1>1. DInv => NeverUndercounts
  BY DEF DInv
<1> QED
  BY <1>1, DecisionsInductive, PTL

\* Every rise of a gauge over its limit is announced, by over_limit_admitted and by the alert,
\* however the increments of concurrent Spends interleave (CrossedUp).
THEOREM OverAdmissionIsObserved == Spec => []OverLimitObserved
<1>1. DInv => OverLimitObserved
  BY DEF DInv, Observed, OverLimitObserved
<1> QED
  BY <1>1, DecisionsInductive, PTL

\* What the counters add up to is inductive as well.
THEOREM SumsInductive == Spec => []SInv
<1>1. Init => SInv
  <2> SUFFICES ASSUME Init, DInv PROVE SInv
    BY InitInv
  <2>1. Base
    BY DEF DInv, Base
  <2>2. /\ \A c \in Callers : call[c] = Idle
        /\ \A p \in 0..MaxPeriod : counter[p] = 0 /\ truth[p] = 0
        /\ \A u \in Users : user[u] = 0
        /\ \A a \in 0..Window : entries[a] = 0
        /\ 0 \in 0..MaxPeriod
    BY DecisionNumbers DEF Init
  <2>3. \A c \in Callers : Charges[c] = 0 /\ Owings[c] = 0 /\ Lefts[c] = 0
    BY <2>2, IdleCall DEF Charges, Charge, Owings, Owing, Lefts, Left
  <2>4. Sum(Charges, Callers) = 0 /\ Sum(Owings, Callers) = 0 /\ Sum(Lefts, Callers) = 0
    BY <2>3, CallersAreFinite, SumZero
  <2>5. ASSUME NEW u \in Users
        PROVE  Sum(UserCharges(u), Callers) = 0 /\ Sum(Pendings(u), Callers) = 0
    <3>1. \A c \in Callers : UserCharges(u)[c] = 0 /\ Pendings(u)[c] = 0
      BY <2>2, IdleCall DEF UserCharges, UserCharge, Pendings, Pending
    <3> QED
      BY <3>1, CallersAreFinite, SumZero
  <2>6. Sum(user, Users) = 0
    BY <2>2, UsersAreFinite, SumZero
  <2>7. Sum(entries, 0..Window) = 0
    <3>1. IsFiniteSet(0..Window)
      BY DecisionNumbers, FS_Interval
    <3> QED
      BY <2>2, <3>1, SumZero
  <2>8. OnlyGaugesHeld /\ TruthIsHeld
    BY <2>2, <2>4, IdleCall DEF OnlyGaugesHeld, TruthIsHeld
  <2>9. Partitioned
    BY <2>2, <2>4, <2>5, <2>6 DEF Partitioned
  <2>10. RateBound
    BY <2>1, <2>4, <2>7, CeilingFacts, HardIsNat DEF RateBound
  <2>11. MaxUsage \in Nat /\ MaxUsage * Cardinality(Callers) \in Nat
    BY <2>1, MaxUsageFacts
  <2>12. UserBound
    BY <2>2, <2>5, <2>11 DEF UserBound
  <2>13. StoresType
    <3>1. 0 \in 0..MaxUsage
      BY <2>11
    <3> QED
      BY <3>1 DEF Init, StoresType
  <2>14. MemoryType
    <3>1. 0 \in 0..MaxUsage /\ Idle.used = 0 /\ Idle.seen = 0 /\ recalc.seen = 0
      BY <2>11 DEF Idle, Init
    <3> QED
      BY <2>2, <3>1 DEF MemoryType, Remembers
  <2>15. user \in [Users -> 0..(MaxUsage * Cardinality(Callers))]
    BY <2>11 DEF Init
  <2> QED
    BY <2>1, <2>8, <2>9, <2>10, <2>12, <2>13, <2>14, <2>15, TypesJoin DEF SInv
<1>2. SInv /\ DInv /\ DInv' /\ [Next]_vars => SInv'
  <2> SUFFICES ASSUME SInv, DInv, DInv', [Next]_vars PROVE SInv'
    OBVIOUS
  <2>1. Base /\ Base'
    BY DEF DInv, Base
  <2>2. OnlyGaugesHeld' /\ TruthIsHeld' /\ Partitioned' /\ UserBound'
    BY <2>1, NextOnlyGauges, NextTruthIsHeld, NextPartitioned, NextUserBound DEF SInv
  <2>3. entries \in [0..Window -> Nat]
    <3>1. entries \in [0..Window -> 0..MaxUsage]
      BY DEF SInv, DecTypeOK
    <3> QED
      BY <3>1
  <2>4. RateBound'
    BY <2>1, <2>3, NextRateBound DEF SInv
  <2>5. DecTypeOK'
    BY <2>1, <2>2, NextTypes DEF SInv
  <2> QED
    BY <2>2, <2>4, <2>5 DEF SInv
<1> QED
  BY <1>1, <1>2, DecisionsInductive, PTL DEF Spec

\* Every variable stays within its range: no charge is given back twice, so what exists never
\* falls below zero, and the partitions stay below the bound that CanRise keeps the counters to.
THEOREM DecisionsTypeCorrect == Spec => []DecTypeOK
<1>1. SInv => DecTypeOK
  BY DEF SInv
<1> QED
  BY <1>1, SumsInductive, PTL

\* Between calls the partitions of a gauge add up to its counter, for any number of users and
\* callers, however their Spends and Releases interleave: both are written once, by the same amount,
\* and neither floor (DecrByFloorZero) is reached.
THEOREM PartitionsAlwaysAgree == Spec => []PartitionsAgree
<1>1. SInv /\ DInv => PartitionsAgree
  <2> SUFFICES ASSUME SInv, DInv,
                      \A c \in Callers : call[c].pc \notin {"count", "return"} /\ UserOf(c) # None,
                      cfg.faults = {}, cfg.answers = {}, IsGauge
               PROVE  counter[0] = FoldFunction(+, 0, user)
    BY DEF PartitionsAgree
  <2>1. counter[0] + Sum(Owings, Callers) = Sum(user, Users)
    BY DEF SInv, Partitioned, Exact, AllHaveUsers
  <2>2. \A c \in Callers : Owings[c] = 0
    BY DEF Owings, Owing
  <2>3. Sum(Owings, Callers) = 0
    BY <2>2, CallersAreFinite, SumZero
  <2>4. counter[0] \in Int
    BY BaseFacts DEF DInv, Base
  <2>5. DOMAIN user = Users
    BY DEF DInv, DType
  <2>6. FoldFunction(+, 0, user) = Sum(user, Users)
    <3>1. FoldFunction(+, 0, user) = FoldFunctionOnSet(+, 0, user, DOMAIN user)
      BY DEF FoldFunction
    <3> QED
      BY <2>5, <3>1 DEF Sum
  <2>7. counter[0] = Sum(user, Users)
    BY <2>1, <2>3, <2>4
  <2> QED
    BY <2>6, <2>7
<1> QED
  BY <1>1, DecisionsInductive, SumsInductive, PTL

\* Concurrent callers overshoot the hard limit by no more than one request of each of the
\* others, for gauges, accumulators and the windows of rates, and "enforce" does not overshoot
\* at all.
THEOREM OvershootIsBounded == Spec => []OvershootBounded
<1>1. DInv /\ SInv => OvershootBounded
  <2> SUFFICES ASSUME DInv, SInv, Gated
               PROVE  /\ \A p \in 0..MaxPeriod : CurrentUsage(p) <= Ceiling
                      /\ IsGauge /\ cfg.enforce /\ cfg.tiers = {"resolved"} => counter[0] <= Limit
    BY DEF OvershootBounded, Ceiling
  <2>1. CASE cfg.kind # "rate"
    <3>1. OverParts
      BY <2>1 DEF DInv, Overshoots
    <3> QED
      BY <2>1, <3>1, UsageIsCounter DEF OverParts, Bounded, EnforcedHolds
  <2>2. CASE cfg.kind = "rate"
    <3>1. Base
      BY DEF DInv, Base
    <3>2. Sum(entries, 0..Window) + Sum(Lefts, Callers) <= Ceiling
      BY <2>2 DEF SInv, RateBound
    <3>3. entries \in [0..Window -> Nat]
      <4>1. entries \in [0..Window -> 0..MaxUsage]
        BY DEF SInv, DecTypeOK
      <4> QED
        BY <4>1
    <3>4. Sum(Lefts, Callers) \in Nat /\ Ceiling \in Int
      BY <3>1, SumTypes, CeilingFacts DEF SumsAreNumbers
    <3>5. \A p \in 0..MaxPeriod : CurrentUsage(p) <= Ceiling
      <4> SUFFICES ASSUME NEW p \in 0..MaxPeriod PROVE CurrentUsage(p) <= Ceiling
        OBVIOUS
      <4>1. CurrentUsage(p) = Sum(entries, 0..Window) /\ CurrentUsage(p) \in Nat
        BY <2>2, <3>3, UsageIsSum
      <4> QED
        BY <3>2, <3>4, <4>1
    <3> QED
      BY <2>2, <3>5 DEF IsGauge
  <2> QED
    BY <2>1, <2>2
<1> QED
  BY <1>1, DecisionsInductive, SumsInductive, PTL
=============================================================================

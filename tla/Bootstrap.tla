------------------------------ MODULE Bootstrap ------------------------------
(***************************************************************************)
(* Starting, watching and stopping one service process (quota/setup.go,    *)
(* quota/topology.go, redisguard, ddbguard): Setup's gates and wiring in   *)
(* the order they run, the re-verification that rides the reconciler loop, *)
(* Healthy, and Close.  Composed with the alert manager and with the       *)
(* subscription Setup may start.                                           *)
(*                                                                         *)
(* Redis and DynamoDB change under the process: every probe is one action, *)
(* and Setup, the reconciler goroutine it starts and Close interleave.     *)
(* The world is the set of the conditions that hold of the two servers.    *)
(***************************************************************************)
EXTENDS Alerts, Subscription, Sequences, FiniteSets

CONSTANTS
    Configs,          \* the configurations Setup may be called with
    Conditions,       \* the conditions that may hold when the first process starts
    Drifting,         \* those among them that may come and go afterwards
    MaxBroken,        \* how many hold when the first process starts
    MaxChanges,       \* how many times a condition comes or goes
    MaxTries,         \* connection attempts in the retry budget
    MaxBoots          \* processes started one after the other

VARIABLES
    cfg,              \* the configuration
    world,            \* external: the conditions that hold now
    changes,          \* how often the world has changed
    calm,             \* history: it has not changed since this process started
    boots,            \* processes started
    pc,               \* where Setup is, and what became of it
    tries,            \* connection attempts made
    cap,              \* Setup's Capabilities, not published yet
    capability,       \* q.capability, which Healthy reads
    unsafe,           \* q.unsafeInvariants
    outboxOnRedis,    \* q.outboxOnRedis
    durable,          \* the activation store is on DynamoDB
    live,             \* what runs or is open: client, loops, handlers
    ending,           \* the loops whose context is cancelled
    closeFns,         \* what Close will end, in the order it was appended
    spawned,          \* the goroutine of SubscribeOnStartup has not begun yet
    pass              \* the reconciler's current preflight

setupVars == <<cfg, boots, pc, tries, cap, durable, closeFns, spawned>>
worldVars == <<world, changes, calm>>
runVars   == <<capability, unsafe, outboxOnRedis, live, ending, pass>>
vars == <<setupVars, worldVars, runVars, alertVars, subVars>>

RedisConditions ==
    {"unreachable", "badAuth", "cluster", "proxied", "infoHidden", "configHidden", "evicting",
     "unpersisted", "persistFails", "noScript", "oldVersion", "evicted", "lowMemory",
     "keyspaceConflict"}

DDBConditions == {"ddbDown", "ddbUnsafe", "pitrOff"}

Invariants == {"redis_topology", "counter_eviction_policy", "redis_scripting", "redis_version",
               "counter_evictions_observed", "redis_persist_status", "memory_headroom"}

ASSUME ConditionsDeclared ==
    Drifting \subseteq Conditions /\ Conditions \subseteq RedisConditions \cup DDBConditions
ASSUME SubjectsAreInvariants == Subjects = Invariants
ASSUME BootBounds == {MaxBroken, MaxChanges, MaxTries} \subseteq Nat /\ MaxBoots \in Nat \ {0}

\* What Options and the environment leave Setup to decide: the declared store, the
\* assertions on the record, what is wired and what is asked for.
Config ==
    [store : {"undeclared", "memory", "redis"}, clusterConfirmed : BOOLEAN,
     durabilityConfirmed : BOOLEAN, outboxConfirmed : BOOLEAN, retry : BOOLEAN,
     orgs : BOOLEAN, table : BOOLEAN, pitrConfirmed : BOOLEAN,
     outbox : {"auto", "redis", "ddb", "off"}, billing : BOOLEAN,
     paid : {"derived", "yes", "no"}, publisher : BOOLEAN, ephemeral : BOOLEAN,
     smoke : BOOLEAN, alerts : BOOLEAN, granter : {"none", "own", "billing"}, autoSubscribe : BOOLEAN]

ASSUME ConfigsAreConfigs == Configs \subseteq Config

Verdicts == {"", "n/a", "single-node", "unknown", "ok", "on", "heals", "probe failed", "cluster",
             "EVICTING", "OFF", "below_floor", "evictions_observed", "FAILING", "low_headroom"}

Capabilities ==
    [verdicts : [Invariants -> Verdicts], reconciler : {"", "ON", "OFF", "not requested"},
     reverified : {"", "n/a", "on", "OFF"}, billing : {"", "ON", "OFF", "paid disabled"}]

NoVerdicts == [i \in Invariants |-> ""]

NoCapabilities == [verdicts |-> NoVerdicts, reconciler |-> "", reverified |-> "", billing |-> ""]

NoPass == [at |-> "idle", money |-> FALSE, verdicts |-> NoVerdicts]

Relevant(c, w) ==
    \A x \in w : IF x \in RedisConditions THEN c.store = "redis" ELSE c.table \/ c.outbox = "ddb"

Init ==
    /\ cfg \in Configs
    /\ world \in {w \in SUBSET Conditions : Cardinality(w) <= MaxBroken /\ Relevant(cfg, w)}
    /\ changes = 0 /\ calm = TRUE /\ boots = 1
    /\ pc = "config" /\ tries = 0 /\ cap = NoCapabilities /\ capability = NoCapabilities
    /\ unsafe = {} /\ outboxOnRedis = FALSE /\ durable = FALSE
    /\ live = {} /\ ending = {} /\ closeFns = <<>> /\ spawned = FALSE /\ pass = NoPass
    /\ AlertsInit /\ SubInit
    /\ ~cfg.autoSubscribe => subs = {}

(***************************************************************************)
(* The probes of redisguard and topology.go, on the world w they see.  A   *)
(* closed client, or a cancelled context, answers with an error that       *)
(* ClassifyRedisError does not know: an absent signal.                     *)
(***************************************************************************)
Reachable(w) == w \cap {"unreachable", "badAuth"} = {}

Closed == {"closed"}

InfoRead(w) == Reachable(w) /\ w \cap {"infoHidden", "closed"} = {}

ConfigRead(w) == Reachable(w) /\ w \cap {"configHidden", "closed"} = {}

\* Mutant of EvaluateTopology: the operator's assertion comes first.
EvaluateTopologyTrusting(enabled, found, confirmed) ==
    IF confirmed THEN "single-node" ELSE IF found /\ enabled THEN "cluster"
    ELSE IF found THEN "single-node" ELSE "unknown"

\* The assertion speaks for an absent signal only.
EvaluateTopology(enabled, found, confirmed) ==
    IF found /\ enabled THEN "cluster"
    ELSE IF found \/ confirmed THEN "single-node" ELSE "unknown"

\* CROSSSLOT on the data plane is definitive; then INFO cluster and CLUSTER INFO.
CheckRedisClusterTopology(w) ==
    IF ~Reachable(w) THEN "probe failed"
    ELSE IF "cluster" \in w /\ "proxied" \notin w THEN EvaluateTopology(TRUE, TRUE, FALSE)
    ELSE EvaluateTopology("cluster" \in w, InfoRead(w), cfg.clusterConfirmed)

EvaluateEviction(w, confirmed) == IF ConfigRead(w) THEN "evicting" \notin w ELSE confirmed

CheckCounterEviction(w) == IF EvaluateEviction(w, cfg.durabilityConfirmed) THEN "ok" ELSE "EVICTING"

CheckScriptCapability(w) ==
    IF Reachable(w) /\ w \cap {"noScript", "closed"} = {} THEN "on" ELSE "OFF"

Fact(w, c, bad) == IF ~InfoRead(w) THEN "unknown" ELSE IF c \in w THEN bad ELSE "ok"

CheckVersion(w) == Fact(w, "oldVersion", "below_floor")

CheckMemoryHeadroom(w) == Fact(w, "lowMemory", "low_headroom")

EvaluatePersistFacts(w) == Fact(w, "persistFails", "persist_failing")

\* The outbox: a policy that does not evict, persistence configured, and working.
CheckDurability(w, confirmed) ==
    /\ EvaluateEviction(w, confirmed)
    /\ ConfigRead(w) => "unpersisted" \notin w \/ confirmed
    /\ EvaluatePersistFacts(w) # "persist_failing"

\* ddbguard: ACTIVE table and indexes, TTL on the right attribute, PITR on or waived.
VerifyTable(w) == w \cap {"ddbDown", "ddbUnsafe"} = {} /\ ("pitrOff" \in w => cfg.pitrConfirmed)

\* Failing persistence is graded by what lives on this Redis.
PersistVerdict(w, money) ==
    IF EvaluatePersistFacts(w) = "persist_failing" THEN IF money THEN "FAILING" ELSE "heals"
    ELSE EvaluatePersistFacts(w)

VerifyRedisInvariants(w, money) ==
    [i \in Invariants |->
        CASE i = "redis_topology"             -> CheckRedisClusterTopology(w)
          [] i = "counter_eviction_policy"    -> CheckCounterEviction(w)
          [] i = "redis_scripting"            -> CheckScriptCapability(w)
          [] i = "redis_version"              -> CheckVersion(w)
          [] i = "counter_evictions_observed" -> Fact(w, "evicted", "evictions_observed")
          [] i = "redis_persist_status"       -> PersistVerdict(w, money)
          [] i = "memory_headroom"            -> CheckMemoryHeadroom(w)]

Bad == {"probe failed", "cluster", "EVICTING", "OFF", "below_floor", "evictions_observed",
        "FAILING", "low_headroom"}

Unsafe(v) == {i \in Invariants : v[i] \in Bad \/ (i = "redis_topology" /\ v[i] = "unknown")}

(***************************************************************************)
(* Setup: the Redis gates.  A refusal here closes the client.              *)
(***************************************************************************)
SetupStep(at) ==
    pc = at /\ UNCHANGED <<cfg, boots, worldVars, ending, pass, unsafe, capability, alertVars>>

Refuse == pc' = "refused" /\ UNCHANGED <<live, closeFns>>

RefuseClosing == pc' = "refused" /\ live' = live \ {"redis"} /\ UNCHANGED closeFns

Proceed(to) == pc' = to /\ UNCHANGED <<live, closeFns>>

Start(x) ==
    /\ live' = live \cup {x}
    /\ closeFns' = Append(closeFns, x)

Noted(i, v) == cap' = [cap EXCEPT !.verdicts[i] = v]

\* The store must be declared; memory:// needs no gate.
ResolveConfig ==
    /\ SetupStep("config")
    /\ \/ cfg.store = "undeclared" /\ Refuse /\ UNCHANGED cap
       \/ cfg.store = "memory" /\ Proceed("mesh") /\ Noted("redis_topology", "n/a")
       \/ cfg.store = "redis" /\ Proceed("connect") /\ UNCHANGED cap
    /\ UNCHANGED <<tries, durable, spawned, outboxOnRedis, subVars>>

\* connectDeclaredRedis: only "unreachable" is retried, within the budget.
ConnectDeclaredRedis ==
    /\ SetupStep("connect")
    /\ \/ /\ Reachable(world)
          /\ pc' = "topology" /\ live' = live \cup {"redis"}
          /\ UNCHANGED <<tries, closeFns>>
       \/ /\ ~Reachable(world) /\ "badAuth" \notin world /\ cfg.retry /\ tries < MaxTries
          /\ tries' = tries + 1 /\ Proceed("connect")
       \/ /\ ~Reachable(world)
          /\ "badAuth" \in world \/ ~cfg.retry \/ tries = MaxTries
          /\ Refuse /\ UNCHANGED tries
    /\ UNCHANGED <<cap, durable, spawned, outboxOnRedis, subVars>>

Gate(at, i, verdict, ok, next) ==
    /\ SetupStep(at)
    /\ Noted(i, verdict)
    /\ IF ok THEN Proceed(next) ELSE RefuseClosing
    /\ UNCHANGED <<tries, durable, spawned, outboxOnRedis, subVars>>

GateTopology == LET v == CheckRedisClusterTopology(world)
                IN  Gate("topology", "redis_topology", v, v = "single-node", "eviction")

GateEviction == LET v == CheckCounterEviction(world)
                IN  Gate("eviction", "counter_eviction_policy", v, v = "ok", "scripting")

GateScripting == LET v == CheckScriptCapability(world)
                 IN  Gate("scripting", "redis_scripting", v, v = "on", "version")

\* A version that cannot be read is not refused.
GateVersion == LET v == CheckVersion(world)
               IN  Gate("version", "redis_version", v, v # "below_floor", "headroom")

\* Low headroom never refuses.
GateHeadroom == Gate("headroom", "memory_headroom", CheckMemoryHeadroom(world), TRUE, "keyspace")

\* CheckBootKeyspace reads the migration marker.
GateKeyspace ==
    /\ SetupStep("keyspace")
    /\ IF Reachable(world) /\ "keyspaceConflict" \notin world THEN Proceed("mesh") ELSE RefuseClosing
    /\ UNCHANGED <<tries, cap, durable, spawned, outboxOnRedis, subVars>>

(***************************************************************************)
(* Setup: wiring.  A refusal from here on ends nothing.                    *)
(***************************************************************************)
\* The engine, the clients and the heartbeat, which Close stops by itself.
WireMesh ==
    /\ SetupStep("mesh")
    /\ pc' = "ledger"
    /\ live' = live \cup (IF cfg.billing /\ ~cfg.smoke THEN {"heartbeat"} ELSE {})
    /\ closeFns' = IF cfg.store = "redis" THEN Append(closeFns, "redis") ELSE closeFns
    /\ UNCHANGED <<tries, cap, durable, spawned, outboxOnRedis, subVars>>

\* AutoSelectStore, and the preflight of the ledger's table.
WireLedger ==
    /\ SetupStep("ledger")
    /\ IF cfg.table => VerifyTable(world) THEN Proceed("grants") ELSE Refuse
    /\ UNCHANGED <<tries, cap, durable, spawned, outboxOnRedis, subVars>>

\* Mutant of WireGrants: Close leaves the handler registered.
WireGrantsForgotten ==
    /\ SetupStep("grants")
    /\ \/ cfg.granter = "billing" /\ ~cfg.billing /\ Refuse /\ UNCHANGED spawned
       \/ /\ cfg.granter = "billing" => cfg.billing
          /\ pc' = "activations" /\ spawned' = cfg.autoSubscribe
          /\ live' = IF cfg.granter = "none" THEN live ELSE live \cup {"handler"}
          /\ UNCHANGED closeFns
    /\ UNCHANGED <<tries, cap, durable, outboxOnRedis, subVars>>

\* The credit-grant handler goes to the package registry; then auto-subscribe.
WireGrants ==
    /\ SetupStep("grants")
    /\ \/ cfg.granter = "billing" /\ ~cfg.billing /\ Refuse /\ UNCHANGED spawned
       \/ /\ cfg.granter = "billing" => cfg.billing
          /\ pc' = "activations" /\ spawned' = cfg.autoSubscribe
          /\ IF cfg.granter = "none" THEN UNCHANGED <<live, closeFns>> ELSE Start("handler")
    /\ UNCHANGED <<tries, cap, durable, outboxOnRedis, subVars>>

DDBSignalPresent == cfg.table \/ cfg.outbox = "ddb"

\* The activation table is created, not verified; without it the engine keeps its ledger in
\* memory.
WireActivations ==
    /\ SetupStep("activations")
    /\ durable' = (DDBSignalPresent /\ "ddbDown" \notin world)
    /\ Proceed("reconciler")
    /\ UNCHANGED <<tries, cap, spawned, outboxOnRedis, subVars>>

\* Mutant of Reverification: a loop nobody asked for is not missed.
ReverificationIfAsked(on) ==
    IF cfg.store # "redis" THEN "n/a" ELSE IF on \/ ~cfg.orgs THEN "on" ELSE "OFF"

\* D-79: a Redis counter needs the loop that re-verifies it.
Reverification(on) == IF cfg.store # "redis" THEN "n/a" ELSE IF on THEN "on" ELSE "OFF"

\* wireReconciler starts the loop only over a durable ledger.
WireReconciler ==
    LET on == cfg.orgs /\ durable IN
    /\ SetupStep("reconciler")
    /\ pc' = "billing"
    /\ IF on THEN Start("reconciler") ELSE UNCHANGED <<live, closeFns>>
    /\ cap' = [cap EXCEPT !.reconciler = IF on THEN "ON" ELSE IF cfg.orgs THEN "OFF" ELSE "not requested",
                          !.reverified = Reverification(on)]
    /\ UNCHANGED <<tries, durable, spawned, outboxOnRedis, subVars>>

EnablePaid == IF cfg.paid = "derived" THEN cfg.billing ELSE cfg.paid = "yes"

\* resolveDurableOutbox: DynamoDB first; an unsafe table ends the search, an absent one does not.
OutboxOn ==
    CASE cfg.outbox = "off" -> "none"
      [] cfg.outbox # "off" /\ cfg.outbox # "redis" /\ DDBSignalPresent /\ "ddbDown" \notin world -> "ddb"
      [] OTHER -> IF cfg.store = "redis" THEN "redis" ELSE "none"

OutboxDurable ==
    CASE OutboxOn = "ddb"   -> VerifyTable(world)
      [] OutboxOn = "redis" -> CheckDurability(world, cfg.outboxConfirmed)
      [] OutboxOn = "none"  -> FALSE

\* gateBillingChain: the whole chain or nothing.
GateBillingChain ==
    LET whole == OutboxDurable /\ cfg.publisher /\ cfg.billing IN
    /\ SetupStep("billing")
    /\ outboxOnRedis' = (OutboxOn = "redis")
    /\ \/ /\ whole
          /\ cap' = [cap EXCEPT !.billing = "ON"]
          /\ pc' = "publish"
          /\ IF cfg.smoke THEN UNCHANGED <<live, closeFns>> ELSE Start("drain")
       \/ /\ ~whole /\ (~EnablePaid \/ cfg.ephemeral)
          /\ cap' = [cap EXCEPT !.billing = IF EnablePaid THEN "OFF" ELSE "paid disabled"]
          /\ Proceed("publish")
       \/ /\ ~whole /\ EnablePaid /\ ~cfg.ephemeral
          /\ Refuse /\ UNCHANGED cap
    /\ UNCHANGED <<tries, durable, spawned, subVars>>

\* q.capability = cap, over whatever the reconciler goroutine has written meanwhile.
PublishCapabilities ==
    /\ pc = "publish"
    /\ pc' = "running"
    /\ capability' = cap
    /\ UNCHANGED <<cfg, boots, tries, cap, durable, closeFns, spawned, worldVars, unsafe,
                   outboxOnRedis, live, ending, pass, alertVars, subVars>>

Setup ==
    \/ ResolveConfig \/ ConnectDeclaredRedis
    \/ GateTopology \/ GateEviction \/ GateScripting \/ GateVersion \/ GateHeadroom \/ GateKeyspace
    \/ WireMesh \/ WireLedger \/ WireGrants \/ WireActivations \/ WireReconciler
    \/ GateBillingChain \/ PublishCapabilities

\* The goroutine takes its event types from the registered handlers.
BeginSubscribe ==
    /\ spawned /\ spawned' = FALSE
    /\ SubscribeOnStartup("handler" \in live)
    /\ UNCHANGED <<cfg, boots, pc, tries, cap, durable, closeFns, worldVars, runVars, alertVars>>

(***************************************************************************)
(* The re-verification of makeRevalidator                                  *)
(***************************************************************************)
PassStep(from) ==
    /\ pass.at = from
    /\ UNCHANGED <<setupVars, worldVars, outboxOnRedis, live, ending, subVars>>

\* A tick of the loop, also of one that is cancelled: select picks either when both are ready.
PassStart ==
    /\ "reconciler" \in live /\ cfg.store = "redis"
    /\ PassStep("idle")
    /\ pass' = [pass EXCEPT !.at = "started", !.money = outboxOnRedis]
    /\ UNCHANGED <<capability, unsafe, alertVars>>

\* The probes; Close may have closed the client or cancelled the context.
PassRead ==
    LET view == IF "redis" \in live /\ "reconciler" \notin ending THEN world ELSE Closed IN
    /\ PassStep("started")
    /\ pass' = [pass EXCEPT !.at = "read", !.verdicts = VerifyRedisInvariants(view, pass.money)]
    /\ UNCHANGED <<capability, unsafe, alertVars>>

\* Nothing is sent where there is no alert manager, or it is off.
Announce(violated, restored) ==
    IF cfg.alerts THEN NotifyInvariants(violated, restored) ELSE UNCHANGED alertVars

\* Mutant of PassPublish: the capabilities are written on a change of verdict only.
PassPublishOnChange ==
    LET now == Unsafe(pass.verdicts) IN
    /\ PassStep("read")
    /\ capability' = IF now = unsafe THEN capability ELSE [capability EXCEPT !.verdicts = pass.verdicts]
    /\ unsafe' = now
    /\ Announce(now, unsafe \ now)
    /\ pass' = NoPass

PassPublish ==
    LET now == Unsafe(pass.verdicts) IN
    /\ PassStep("read")
    /\ capability' = [capability EXCEPT !.verdicts = pass.verdicts]
    /\ unsafe' = now
    /\ Announce(now, unsafe \ now)
    /\ pass' = NoPass

(***************************************************************************)
(* Healthy and Close                                                       *)
(***************************************************************************)
OnRedis == cfg.store = "redis"

\* A verdict nobody has given yet ("") passes for the facts, not for the gates.
Healthy(c) ==
    /\ c.billing \in {"ON", "paid disabled"}
    /\ c.reconciler \in {"ON", "not requested"}
    /\ c.verdicts["redis_topology"] \in {"single-node", "n/a"}
    /\ OnRedis => /\ c.verdicts["counter_eviction_policy"] = "ok"
                  /\ c.verdicts["redis_scripting"] = "on"
                  /\ c.verdicts["counter_evictions_observed"] # "evictions_observed"
                  /\ c.reverified = "on"
    /\ c.verdicts["memory_headroom"] # "low_headroom"
    /\ c.verdicts["redis_persist_status"] # "FAILING"

\* Close stops the heartbeat, then runs closeFns in the order they were appended.
Close ==
    /\ pc = "running" /\ pc' = "closing"
    /\ live' = live \ {"heartbeat"}
    /\ UNCHANGED <<cfg, boots, tries, cap, durable, closeFns, spawned, worldVars, capability,
                   unsafe, outboxOnRedis, ending, pass, alertVars, subVars>>

\* The functions that cancel the context of a loop; they do not wait for it.
Loops == {"reconciler", "drain"}

CloseNext ==
    /\ pc = "closing"
    /\ IF closeFns = <<>> THEN pc' = "closed" /\ UNCHANGED <<live, ending, closeFns>>
       ELSE /\ closeFns' = Tail(closeFns) /\ UNCHANGED pc
            /\ IF Head(closeFns) \in Loops
               THEN ending' = ending \cup {Head(closeFns)} /\ UNCHANGED live
               ELSE live' = live \ {Head(closeFns)} /\ UNCHANGED ending
    /\ UNCHANGED <<cfg, boots, tries, cap, durable, spawned, worldVars, capability, unsafe,
                   outboxOnRedis, pass, alertVars, subVars>>

\* RunLoop and RunDrainLoop return from their select, between two passes.
LoopExits(x) ==
    /\ x \in live \cap ending
    /\ x = "reconciler" => pass.at = "idle"
    /\ live' = live \ {x}
    /\ UNCHANGED <<setupVars, worldVars, capability, unsafe, outboxOnRedis, ending, pass, alertVars, subVars>>

(***************************************************************************)
(* The world                                                               *)
(***************************************************************************)
\* External: a condition comes or goes.
WorldChanges ==
    /\ changes < MaxChanges /\ changes' = changes + 1
    /\ \E c \in Drifting :
          /\ Relevant(cfg, {c})
          /\ world' = IF c \in world THEN world \ {c} ELSE world \cup {c}
    /\ calm' = FALSE
    /\ UNCHANGED <<setupVars, runVars, alertVars, subVars>>

\* External: the process exits or dies at any point, and a new one starts.
Restart ==
    /\ boots < MaxBoots /\ boots' = boots + 1
    /\ pc # "config"
    /\ calm' = TRUE
    /\ pc' = "config" /\ tries' = 0 /\ cap' = NoCapabilities /\ capability' = NoCapabilities
    /\ unsafe' = {} /\ outboxOnRedis' = FALSE /\ durable' = FALSE
    /\ live' = {} /\ ending' = {} /\ closeFns' = <<>> /\ spawned' = FALSE /\ pass' = NoPass
    /\ cooling' = {} /\ heard' = [s \in Subjects |-> Quiet]
    /\ call' = [call EXCEPT ![Starter] = NoCall]
    /\ UNCHANGED <<cfg, world, changes, subs, lastId, answer, authFaults>>

\* An operator looks after the subscription of a service that uses it.
OperatorSubscribes(o) == cfg.autoSubscribe /\ Subscribe(o)

Next ==
    \/ Setup \/ BeginSubscribe
    \/ PassStart \/ PassRead \/ PassPublish
    \/ Close \/ CloseNext \/ \E x \in Loops : LoopExits(x)
    \/ WorldChanges \/ Restart
    \/ CooldownEnds /\ UNCHANGED <<setupVars, worldVars, runVars, subVars>>
    \/ /\ \/ \E o \in Operators : OperatorSubscribes(o)
          \/ \E c \in SubCallers : CallStep(c)
       /\ UNCHANGED <<setupVars, worldVars, runVars, alertVars>>

Spec == Init /\ [][Next]_vars

\* Setup and Close run to their end and the goroutine of Setup begins, the ticker of the
\* reconciler loop keeps firing, the pass it starts ends, and a select that finds its context
\* cancelled time and again picks that case in the end.  Auth answers in the end (or the
\* client's timeout does), and an operator who keeps running the command does at some point
\* what its errors say, and rotates.  Redis, DynamoDB, restarts and Close owe nothing.
FairSpec ==
    /\ Spec
    /\ WF_vars(Setup) /\ WF_vars(CloseNext) /\ WF_vars(BeginSubscribe)
    /\ WF_vars(PassStart) /\ WF_vars(PassRead) /\ WF_vars(PassPublish)
    /\ \A x \in Loops : SF_vars(LoopExits(x))
    /\ \A c \in SubCallers : WF_subVars(AuthAnswers(c))
    /\ \A o \in Operators : SF_subVars(OperatorSubscribes(o) /\ call'[o].rotate)

(***************************************************************************)
(* Properties                                                              *)
(***************************************************************************)
Served == {"mesh", "ledger", "grants", "activations", "reconciler", "billing", "publish", "running"}

BootTypeOK ==
    /\ cfg \in Configs /\ world \subseteq Conditions
    /\ changes \in 0..MaxChanges /\ boots \in 1..MaxBoots /\ tries \in 0..MaxTries
    /\ pc \in Served \cup {"config", "connect", "topology", "eviction", "scripting", "version",
                           "headroom", "keyspace", "closing", "closed", "refused"}
    /\ live \subseteq {"redis", "heartbeat", "handler", "reconciler", "drain"}
    /\ ending \subseteq Loops
    /\ closeFns \in Seq({"redis", "handler", "reconciler", "drain"})
    /\ unsafe \subseteq Invariants
    /\ {cap, capability} \subseteq Capabilities
    /\ pass \in [at : {"idle", "started", "read"}, money : BOOLEAN, verdicts : [Invariants -> Verdicts]]
    /\ {calm, outboxOnRedis, durable, spawned} \subseteq BOOLEAN
    /\ AlertsTypeOK /\ SubTypeOK

\* On a world that stood still, Setup passes its Redis gates only on a Redis the counter can
\* live on: a cluster or an evicting policy gets through only where the server hid it and the
\* operator had asserted the contrary on the record, never over what the server said.
GatesHold ==
    (calm /\ OnRedis /\ pc \in Served) =>
        /\ Reachable(world) /\ world \cap {"noScript", "keyspaceConflict"} = {}
        /\ "cluster" \in world => {"proxied", "infoHidden"} \subseteq world /\ cfg.clusterConfirmed
        /\ "evicting" \in world => "configHidden" \in world /\ cfg.durabilityConfirmed
        /\ "oldVersion" \in world => "infoHidden" \in world

\* A process that reports healthy runs what its health vouches for: the loop that re-verifies
\* a Redis counter (D-79), and the drain that carries a paid service's money events (D-56);
\* paid mode without a drain is never healthy.
HealthyIsBacked ==
    (pc = "running" /\ Healthy(capability)) =>
        /\ OnRedis => "reconciler" \in live
        /\ EnablePaid /\ ~cfg.smoke => "drain" \in live

\* Where alerts are on, the operator has heard from this process exactly what its last pass found: an unsafe
\* invariant was reported and not taken back, and what is safe again was announced, through
\* every cooldown (NotifyInvariantRestored: the on-call engineer "must also see the heal").
OperatorKnows ==
    cfg.alerts => \A i \in Invariants : (heard[i] = "violated") <=> (i \in unsafe)

\* What runs or is open, the goroutine of SubscribeOnStartup included: no closeFn ends it.
StillRunning ==
    live \cup {x \in {"subscribe"} : spawned \/ call[Starter].at # "idle"}

\* Close returns before the loops it cancels have ended, and does not know the subscription
\* goroutine at all: but all of it comes to an end, a pass in flight and one that the select
\* still starts included, and a handler left on the package registry would not (C-09).
CloseEndsAll == (pc = "closed") ~> (StillRunning = {} \/ pc # "closed")

Sound == Unsafe(VerifyRedisInvariants(world, outboxOnRedis)) \subseteq {"redis_version"}

\* D-75: while a service stays up with its reconciler, its health comes to agree with its
\* Redis and stays so, both ways, even when Setup's own report overwrites the verdict of a
\* pass that ran before it.
HealthTracksWorld ==
    <>[](pc = "running" /\ OnRedis /\ "reconciler" \in live) =>
        <>[](Healthy(capability) <=> (Sound /\ capability.billing # "OFF"))
=============================================================================

-------------------------- MODULE Bootstrap_proofs --------------------------
(***************************************************************************)
(* Proofs about starting, watching and stopping a process, for every set   *)
(* of configurations, every set of conditions that may hold of the servers *)
(* or come and go, any number of them at once, of changes, of restarts and *)
(* of operators.                                                           *)
(*                                                                         *)
(* Each property is about where Setup has got to, so each is strengthened  *)
(* to say what holds at every stage on the way there.                      *)
(***************************************************************************)
EXTENDS Bootstrap, TLAPS

-----------------------------------------------------------------------------
(* The inductive invariant *)

\* The stages from a gate on, in the order Setup goes through them.
PastKeyspace  == Served
PastVersion   == Served \cup {"headroom", "keyspace"}
PastScripting == PastVersion \cup {"version"}
PastEviction  == PastScripting \cup {"scripting"}
PastTopology  == PastEviction \cup {"eviction"}
PastConnect   == PastTopology \cup {"topology"}

\* What each Redis gate has established, as long as the world stands still.
GatesSoFar ==
    (calm /\ OnRedis) =>
        /\ pc \in PastConnect => Reachable(world)
        /\ pc \in PastTopology =>
              ("cluster" \in world => {"proxied", "infoHidden"} \subseteq world /\ cfg.clusterConfirmed)
        /\ pc \in PastEviction =>
              ("evicting" \in world => "configHidden" \in world /\ cfg.durabilityConfirmed)
        /\ pc \in PastScripting => "noScript" \notin world
        /\ pc \in PastVersion => ("oldVersion" \in world => "infoHidden" \in world)
        /\ pc \in PastKeyspace => "keyspaceConflict" \notin world

Wired == Served \ {"mesh"}

\* Close will end x.
Ended(x) == \E k \in 1..Len(closeFns) : closeFns[k] = x

\* What runs is what Close will end or has told to end, stage by stage.
NothingLeaks ==
    /\ pc \notin {"closing", "closed"} => ending = {}
    /\ pc \in {"config", "connect"} => live = {} /\ closeFns = <<>>
    /\ pc \in PastConnect \ Served => live \subseteq {"redis"} /\ closeFns = <<>>
    /\ pc \in {"connect"} \cup (PastConnect \ Served) => OnRedis
    /\ pc = "mesh" => live \subseteq (IF OnRedis THEN {"redis"} ELSE {}) /\ closeFns = <<>>
    /\ pc \in Wired => /\ \A x \in live : x = "heartbeat" \/ Ended(x)
                       /\ OnRedis => closeFns # <<>>
    /\ pc = "closing" => \A x \in live : Ended(x) \/ x \in ending
    /\ pc = "closed" => live \subseteq ending
    /\ pc = "refused" /\ closeFns = <<>> /\ OnRedis => live = {}

\* A pass in flight is the loop's: there is none where the loop has ended.
PassHasLoop == pass.at # "idle" => "reconciler" \in live

\* When Close has returned, what still runs is a loop whose context is cancelled: no client is
\* open, no handler is on the package registry, no heartbeat beats, and once the reconciler is
\* gone no pass of it will write this process's health any more.  A refusal at the Redis gates
\* leaves nothing at all.
CloseReachesAll ==
    /\ pc = "closed" => live \subseteq ending /\ ending \subseteq Loops
    /\ pass.at # "idle" => "reconciler" \in live
    /\ (pc = "refused" /\ closeFns = <<>> /\ OnRedis) => live = {}

\* What a capability report says, and what runs behind it.
Backed(c) ==
    /\ OnRedis /\ c.reverified = "on" => "reconciler" \in live
    /\ c.billing = "ON" /\ ~cfg.smoke => "drain" \in live
    /\ c.billing = "paid disabled" => ~EnablePaid

ReportsBacked ==
    /\ pc \in {"config", "connect"} \cup (PastConnect \ {"billing", "publish", "running"})
          => cap.reverified = "" /\ cap.billing = ""
    /\ pc = "billing" => cap.billing = ""
    /\ pc \in {"billing", "publish", "running"} => Backed(cap)
    /\ pc = "running" => Backed(capability)

\* A violation that cools down is the last thing the operator heard.
CoolingWasHeard == \A i \in Invariants : <<"violated", i>> \in cooling => heard[i] = "violated"

\* The goroutine of Setup deletes nothing.
StarterKeeps == call[Starter].at # "delete"

BInv ==
    /\ BootTypeOK
    /\ GatesSoFar /\ NothingLeaks /\ PassHasLoop /\ ReportsBacked
    /\ CoolingWasHeard /\ OperatorKnows
    /\ StarterKeeps /\ GapIsLoud

-----------------------------------------------------------------------------
(* Types *)

\* Every probe answers with a verdict, whatever it finds.
LEMMA ProbesAnswer ==
    ASSUME cfg \in Configs, NEW w
    PROVE  /\ CheckRedisClusterTopology(w) \in Verdicts
           /\ CheckCounterEviction(w) \in Verdicts
           /\ CheckScriptCapability(w) \in Verdicts
           /\ CheckVersion(w) \in Verdicts
           /\ CheckMemoryHeadroom(w) \in Verdicts
           /\ Fact(w, "evicted", "evictions_observed") \in Verdicts
           /\ \A money \in BOOLEAN : PersistVerdict(w, money) \in Verdicts
BY DEF CheckRedisClusterTopology, EvaluateTopology, CheckCounterEviction, CheckScriptCapability,
       CheckVersion, CheckMemoryHeadroom, Fact, PersistVerdict, EvaluatePersistFacts, Verdicts

LEMMA PassesAnswer ==
    ASSUME cfg \in Configs, NEW w, NEW money \in BOOLEAN
    PROVE  VerifyRedisInvariants(w, money) \in [Invariants -> Verdicts]
<1> SUFFICES ASSUME NEW i \in Invariants
             PROVE  VerifyRedisInvariants(w, money)[i] \in Verdicts
  BY DEF VerifyRedisInvariants
<1> QED
  BY ProbesAnswer DEF VerifyRedisInvariants, Invariants

LEMMA NotedType ==
    ASSUME cap \in Capabilities, NEW i \in Invariants, NEW v \in Verdicts, Noted(i, v)
    PROVE  cap' \in Capabilities
BY DEF Noted, Capabilities

LEMMA StartType ==
    ASSUME live \subseteq {"redis", "heartbeat", "handler", "reconciler", "drain"},
           closeFns \in Seq({"redis", "handler", "reconciler", "drain"}),
           NEW x \in {"redis", "handler", "reconciler", "drain"}, Start(x)
    PROVE  /\ live' \subseteq {"redis", "heartbeat", "handler", "reconciler", "drain"}
           /\ closeFns' \in Seq({"redis", "handler", "reconciler", "drain"})
BY DEF Start

\* Types of the alerts and of the subscription.
LEMMA AlertsStay ==
    ASSUME AlertsTypeOK, UNCHANGED alertVars
    PROVE  AlertsTypeOK'
BY DEF AlertsTypeOK, alertVars

LEMMA SubsStay ==
    ASSUME SubTypeOK, UNCHANGED subVars
    PROVE  SubTypeOK'
BY DEF SubTypeOK, subVars

LEMMA InitType == Init => BootTypeOK
<1> SUFFICES ASSUME Init PROVE BootTypeOK
  OBVIOUS
<1>1. AlertsTypeOK
  BY DEF Init, AlertsInit, AlertsTypeOK
<1>2. SubTypeOK
  <2>1. subs \subseteq SubscriptionRecord /\ lastId \in Nat
    BY DEF Init, SubInit, SubscriptionRecord
  <2>2. call \in [SubCallers -> [at : {"idle", "list", "delete", "create"}, rotate : BOOLEAN,
                                 found : Nat, replaced : BOOLEAN]]
    BY DEF Init, SubInit, NoCall
  <2> QED
    BY <2>1, <2>2, StarterIsNoOperator DEF Init, SubInit, SubTypeOK, Answers
<1>3. NoVerdicts \in [Invariants -> Verdicts]
  BY DEF NoVerdicts, Verdicts
<1>4. NoCapabilities \in Capabilities
  BY <1>3 DEF NoCapabilities, Capabilities
<1>5. pass \in [at : {"idle", "started", "read"}, money : BOOLEAN, verdicts : [Invariants -> Verdicts]]
  BY <1>3 DEF Init, NoPass
<1>6. world \subseteq Conditions /\ changes \in 0..MaxChanges /\ boots \in 1..MaxBoots /\ tries \in 0..MaxTries
  BY BootBounds DEF Init
<1>7. {calm, outboxOnRedis, durable, spawned} \subseteq BOOLEAN
  BY DEF Init
<1>8. pc \in {"config"} /\ live = {} /\ ending = {} /\ closeFns \in Seq({"redis", "handler", "reconciler", "drain"})
  BY DEF Init
<1>9. cap \in Capabilities /\ capability \in Capabilities /\ unsafe \subseteq Invariants /\ cfg \in Configs
  BY <1>4 DEF Init
<1> QED
  BY <1>1, <1>2, <1>5, <1>6, <1>7, <1>8, <1>9 DEF BootTypeOK

LEMMA SetupType ==
    ASSUME BootTypeOK, Setup
    PROVE  BootTypeOK'
<1> USE AlertsStay, SubsStay DEF BootTypeOK
<1>1. CASE ResolveConfig
  <2>1. cap' \in Capabilities
    BY <1>1, NotedType DEF ResolveConfig, Invariants, Verdicts
  <2> QED
    BY <1>1, <2>1 DEF ResolveConfig, SetupStep, Refuse, Proceed, worldVars, Served
<1>2. CASE ConnectDeclaredRedis
  <2>1. tries' \in 0..MaxTries
    BY <1>2, BootBounds DEF ConnectDeclaredRedis
  <2>2. /\ live' \subseteq {"redis", "heartbeat", "handler", "reconciler", "drain"}
        /\ closeFns' = closeFns /\ pc' \in {"topology", "connect", "refused"}
    BY <1>2 DEF ConnectDeclaredRedis, Refuse, Proceed
  <2> QED
    BY <1>2, <2>1, <2>2 DEF ConnectDeclaredRedis, SetupStep, worldVars
<1>3. ASSUME NEW at, NEW i \in Invariants, NEW v \in Verdicts, NEW ok, NEW next \in Served \cup
                {"eviction", "scripting", "version", "headroom", "keyspace"}, Gate(at, i, v, ok, next)
      PROVE  BootTypeOK'
  <2>1. cap' \in Capabilities
    BY <1>3, NotedType DEF Gate
  <2> QED
    BY <1>3, <2>1 DEF Gate, SetupStep, RefuseClosing, Proceed, worldVars, Served
<1>4. CASE GateTopology
  BY <1>3, <1>4, ProbesAnswer DEF GateTopology, Invariants
<1>5. CASE GateEviction
  BY <1>3, <1>5, ProbesAnswer DEF GateEviction, Invariants
<1>6. CASE GateScripting
  BY <1>3, <1>6, ProbesAnswer DEF GateScripting, Invariants
<1>7. CASE GateVersion
  BY <1>3, <1>7, ProbesAnswer DEF GateVersion, Invariants
<1>8. CASE GateHeadroom
  BY <1>3, <1>8, ProbesAnswer DEF GateHeadroom, Invariants
<1>9. CASE GateKeyspace
  BY <1>9 DEF GateKeyspace, SetupStep, RefuseClosing, Proceed, worldVars, Served
<1>10. CASE WireMesh
  BY <1>10 DEF WireMesh, SetupStep, worldVars, Served
<1>11. CASE WireLedger
  BY <1>11 DEF WireLedger, SetupStep, Refuse, Proceed, worldVars, Served
<1>12. CASE WireGrants
  <2>1. spawned' \in BOOLEAN
    BY <1>12, ConfigsAreConfigs DEF WireGrants, Config
  <2>2. /\ live' \subseteq {"redis", "heartbeat", "handler", "reconciler", "drain"}
        /\ closeFns' \in Seq({"redis", "handler", "reconciler", "drain"})
    BY <1>12, StartType DEF WireGrants, Refuse
  <2> QED
    BY <1>12, <2>1, <2>2 DEF WireGrants, SetupStep, Refuse, worldVars, Served
<1>13. CASE WireActivations
  BY <1>13 DEF WireActivations, SetupStep, Proceed, worldVars, Served
<1>14. CASE WireReconciler
  <2>1. /\ live' \subseteq {"redis", "heartbeat", "handler", "reconciler", "drain"}
        /\ closeFns' \in Seq({"redis", "handler", "reconciler", "drain"})
    BY <1>14, StartType DEF WireReconciler
  <2>2. cap' \in Capabilities
    BY <1>14 DEF WireReconciler, Reverification, Capabilities
  <2> QED
    BY <1>14, <2>1, <2>2 DEF WireReconciler, SetupStep, worldVars, Served
<1>15. CASE GateBillingChain
  <2>1. /\ live' \subseteq {"redis", "heartbeat", "handler", "reconciler", "drain"}
        /\ closeFns' \in Seq({"redis", "handler", "reconciler", "drain"})
    BY <1>15, StartType DEF GateBillingChain, Refuse, Proceed
  <2>2. cap' \in Capabilities
    BY <1>15 DEF GateBillingChain, Capabilities
  <2>3. outboxOnRedis' \in BOOLEAN
    BY <1>15 DEF GateBillingChain
  <2>4. pc' \in {"publish", "refused"}
    BY <1>15 DEF GateBillingChain, Refuse, Proceed
  <2> QED
    BY <1>15, <2>1, <2>2, <2>3, <2>4 DEF GateBillingChain, SetupStep, worldVars, Served
<1>16. CASE PublishCapabilities
  BY <1>16 DEF PublishCapabilities, worldVars, Served
<1> QED
  BY <1>1, <1>2, <1>4, <1>5, <1>6, <1>7, <1>8, <1>9, <1>10, <1>11, <1>12, <1>13, <1>14, <1>15, <1>16
     DEF Setup

\* A pass of the reconciler, and what it tells the operator.
LEMMA PassType ==
    ASSUME BootTypeOK, PassStart \/ PassRead \/ PassPublish
    PROVE  BootTypeOK'
<1> USE AlertsStay, SubsStay DEF BootTypeOK
<1>0. UNCHANGED <<setupVars, worldVars, outboxOnRedis, live, ending, subVars>>
  BY DEF PassStart, PassRead, PassPublish, PassStep
<1>1. CASE PassStart
  <2>1. pass' \in [at : {"idle", "started", "read"}, money : BOOLEAN, verdicts : [Invariants -> Verdicts]]
    BY <1>1 DEF PassStart
  <2> QED
    BY <1>0, <1>1, <2>1 DEF PassStart, setupVars, worldVars
<1>2. CASE PassRead
  <2> DEFINE view == IF "redis" \in live /\ "reconciler" \notin ending THEN world ELSE Closed
  <2>1. VerifyRedisInvariants(view, pass.money) \in [Invariants -> Verdicts]
    BY PassesAnswer
  <2>2. pass' = [pass EXCEPT !.at = "read", !.verdicts = VerifyRedisInvariants(view, pass.money)]
    BY <1>2 DEF PassRead
  <2> HIDE DEF view
  <2>3. pass' \in [at : {"idle", "started", "read"}, money : BOOLEAN, verdicts : [Invariants -> Verdicts]]
    BY <2>1, <2>2
  <2> QED
    BY <1>0, <1>2, <2>3 DEF PassRead, setupVars, worldVars
<1>3. CASE PassPublish
  <2>1. NoVerdicts \in [Invariants -> Verdicts]
    BY DEF NoVerdicts, Verdicts
  <2>2. pass' \in [at : {"idle", "started", "read"}, money : BOOLEAN, verdicts : [Invariants -> Verdicts]]
    BY <1>3, <2>1 DEF PassPublish, NoPass
  <2>3. capability' \in Capabilities
    BY <1>3 DEF PassPublish, Capabilities
  <2>4. unsafe' \subseteq Invariants
    BY <1>3 DEF PassPublish, Unsafe
  <2>5. AlertsTypeOK'
    <3>1. Unsafe(pass.verdicts) \subseteq Subjects
      BY SubjectsAreInvariants DEF Unsafe
    <3>2. CASE cfg.alerts
      <4>1. NotifyInvariants(Unsafe(pass.verdicts), unsafe \ Unsafe(pass.verdicts))
        BY <1>3, <3>2 DEF PassPublish, Announce
      <4> QED
        BY <3>1, <4>1 DEF NotifyInvariants, AlertsTypeOK, Kinds
    <3>3. CASE ~cfg.alerts
      BY <1>3, <3>3 DEF PassPublish, Announce
    <3> QED
      BY <3>2, <3>3
  <2> QED
    BY <1>0, <2>2, <2>3, <2>4, <2>5 DEF setupVars, worldVars
<1> QED
  BY <1>1, <1>2, <1>3

\* The calls of Subscribe, by an operator or by the goroutine of Setup.
LEMMA CallType ==
    ASSUME SubTypeOK, NEW c \in SubCallers, CallStep(c)
    PROVE  SubTypeOK'
<1> DEFINE CallRec == [at : {"idle", "list", "delete", "create"}, rotate : BOOLEAN,
                       found : Nat, replaced : BOOLEAN]
<1>1. NoCall \in CallRec
  BY DEF NoCall
<1>2. ASSUME NEW a \in Answers, Return(c, a)
      PROVE  call' \in [SubCallers -> CallRec]
             /\ answer' \in [SubCallers -> Answers]
  BY <1>1, <1>2 DEF SubTypeOK, Return
<1>3. ASSUME NEW a \in {"idle", "list", "delete", "create"}, Goto(c, a)
      PROVE  call' \in [SubCallers -> CallRec] /\ answer' = answer
  BY <1>3 DEF SubTypeOK, Goto
<1>4. AuthFails => authFaults' \in 0..MaxAuthFaults
  BY StarterIsNoOperator DEF SubTypeOK, AuthFails
<1>5. Created(c) => subs' \subseteq SubscriptionRecord /\ lastId' \in Nat
  BY DEF SubTypeOK, Created, SubscriptionRecord, SecretOf, Secrets
<1>6. \A id : Gone(id) => subs' \subseteq SubscriptionRecord
  BY DEF SubTypeOK, Gone
<1>7. CASE ListByEndpoint(c)
  <2>1. ASSUME NEW e \in subs, Found(c, e)
        PROVE  call' \in [SubCallers -> CallRec]
               /\ answer' \in [SubCallers -> Answers]
    <3>1. e.id \in Nat
      BY DEF SubTypeOK, SubscriptionRecord
    <3>2. CASE c = Starter \/ ~call[c].rotate
      BY <1>2, <2>1, <3>2 DEF Found, FoundStrict, Answers
    <3>3. CASE c # Starter /\ call[c].rotate
      BY <2>1, <3>1, <3>3 DEF SubTypeOK, Found, FoundStrict
    <3> QED
      BY <3>2, <3>3
  <2> QED
    BY <1>3, <1>7, <2>1 DEF SubTypeOK, ListByEndpoint
<1>8. CASE DeleteSubscription(c)
  <2>1. call' \in [SubCallers -> CallRec]
    BY <1>8 DEF SubTypeOK, DeleteSubscription
  <2> QED
    BY <1>6, <1>8, <2>1 DEF SubTypeOK, DeleteSubscription
<1>9. CASE CreateSubscription(c)
  BY <1>2, <1>5, <1>9 DEF SubTypeOK, CreateSubscription, Answers
<1>10. CASE ListFails(c)
  BY <1>2, <1>3, <1>4, <1>10 DEF SubTypeOK, ListFails, Answers
<1>11. CASE DeleteFails(c)
  BY <1>2, <1>4, <1>6, <1>11 DEF SubTypeOK, DeleteFails, Answers
<1>12. CASE CreateFails(c)
  BY <1>2, <1>4, <1>5, <1>12 DEF SubTypeOK, CreateFails, Answers
<1> QED
  BY <1>7, <1>8, <1>9, <1>10, <1>11, <1>12 DEF CallStep, AuthAnswers

\* The two entries.
LEMMA SubscribeType ==
    ASSUME SubTypeOK, NEW o \in SubCallers, Subscribe(o)
    PROVE  SubTypeOK'
<1>1. PICK r \in BOOLEAN : call' = [call EXCEPT ![o].at = "list", ![o].rotate = r]
  BY DEF Subscribe
<1>2. call' \in [SubCallers -> [at : {"idle", "list", "delete", "create"}, rotate : BOOLEAN,
                               found : Nat, replaced : BOOLEAN]]
  BY <1>1 DEF SubTypeOK
<1> QED
  BY <1>2 DEF SubTypeOK, Subscribe

LEMMA StartupType ==
    ASSUME SubTypeOK, NEW handled, SubscribeOnStartup(handled)
    PROVE  SubTypeOK'
<1> DEFINE CallRec == [at : {"idle", "list", "delete", "create"}, rotate : BOOLEAN,
                       found : Nat, replaced : BOOLEAN]
<1>1. NoCall \in CallRec /\ Starter \in SubCallers
  BY DEF NoCall, SubCallers
<1>2. CASE Goto(Starter, "list")
  <2>1. call' \in [SubCallers -> CallRec]
    BY <1>1, <1>2 DEF SubTypeOK, Goto
  <2> QED
    BY <1>2, <2>1 DEF SubTypeOK, Goto, SubscribeOnStartup
<1>3. CASE Return(Starter, "skipped")
  <2>1. call' \in [SubCallers -> CallRec]
    BY <1>1, <1>3 DEF SubTypeOK, Return
  <2>2. answer' \in [SubCallers -> Answers]
    BY <1>1, <1>3 DEF SubTypeOK, Return, Answers
  <2> QED
    BY <2>1, <2>2 DEF SubTypeOK, SubscribeOnStartup
<1> QED
  BY <1>2, <1>3 DEF SubscribeOnStartup

LEMMA NextType ==
    ASSUME BootTypeOK, [Next]_vars
    PROVE  BootTypeOK'
<1> USE AlertsStay, SubsStay DEF BootTypeOK
<1>1. CASE Setup
  BY <1>1, SetupType
<1>2. CASE BeginSubscribe
  <2>1. SubTypeOK'
    BY <1>2, StartupType DEF BeginSubscribe
  <2> QED
    BY <1>2, <2>1 DEF BeginSubscribe, worldVars, runVars
<1>3. CASE PassStart \/ PassRead \/ PassPublish
  BY <1>3, PassType
<1>4. CASE Close
  BY <1>4 DEF Close, worldVars
<1>5. CASE CloseNext
  <2>1. closeFns' \in Seq({"redis", "handler", "reconciler", "drain"})
    BY <1>5 DEF CloseNext
  <2>2. /\ ending' \subseteq Loops /\ live' \subseteq live /\ pc' \in {"closing", "closed"}
        /\ UNCHANGED <<cfg, boots, tries, cap, durable, spawned, worldVars, capability, unsafe,
                       outboxOnRedis, pass, alertVars, subVars>>
    BY <1>5 DEF CloseNext
  <2> QED
    BY <2>1, <2>2 DEF worldVars
<1>6. CASE WorldChanges
  <2>1. world' \subseteq Conditions
    BY <1>6, ConditionsDeclared DEF WorldChanges
  <2>2. changes' \in 0..MaxChanges
    BY <1>6, BootBounds DEF WorldChanges
  <2>3. calm' = FALSE
    BY <1>6 DEF WorldChanges
  <2> QED
    BY <1>6, <2>1, <2>2, <2>3 DEF WorldChanges, setupVars, runVars
<1>7. CASE Restart
  <2>1. NoVerdicts \in [Invariants -> Verdicts]
    BY DEF NoVerdicts, Verdicts
  <2>2. NoCapabilities \in Capabilities
    BY <2>1 DEF NoCapabilities, Capabilities
  <2>3. pass' \in [at : {"idle", "started", "read"}, money : BOOLEAN, verdicts : [Invariants -> Verdicts]]
    BY <1>7, <2>1 DEF Restart, NoPass
  <2>4. SubTypeOK'
    BY <1>7 DEF Restart, SubTypeOK, NoCall, SubCallers
  <2>5. AlertsTypeOK'
    BY <1>7 DEF Restart, AlertsTypeOK
  <2>6. boots' \in 1..MaxBoots /\ tries' \in 0..MaxTries
    BY <1>7, BootBounds DEF Restart
  <2>7. {calm, outboxOnRedis, durable, spawned}' \subseteq BOOLEAN
    BY <1>7 DEF Restart
  <2>8. pc' = "config" /\ live' = {} /\ ending' = {} /\ closeFns' \in Seq({"redis", "handler", "reconciler", "drain"})
    BY <1>7 DEF Restart
  <2>9. /\ cap' \in Capabilities /\ capability' \in Capabilities /\ unsafe' = {}
        /\ UNCHANGED <<cfg, world, changes>>
    BY <1>7, <2>2 DEF Restart
  <2> QED
    BY <2>3, <2>4, <2>5, <2>6, <2>7, <2>8, <2>9
<1>8. CASE CooldownEnds /\ UNCHANGED <<setupVars, worldVars, runVars, subVars>>
  <2>1. AlertsTypeOK'
    BY <1>8 DEF CooldownEnds, AlertsTypeOK
  <2> QED
    BY <1>8, <2>1 DEF setupVars, worldVars, runVars
<1>9. CASE /\ \/ \E o \in Operators : OperatorSubscribes(o)
              \/ \E c \in SubCallers : CallStep(c)
           /\ UNCHANGED <<setupVars, worldVars, runVars, alertVars>>
  <2>1. SubTypeOK'
    BY <1>9, CallType, SubscribeType DEF OperatorSubscribes, SubCallers
  <2> QED
    BY <1>9, <2>1 DEF setupVars, worldVars, runVars
<1>10. CASE \E x \in Loops : LoopExits(x)
  BY <1>10 DEF LoopExits, setupVars, worldVars
<1>11. CASE UNCHANGED vars
  BY <1>11 DEF vars, setupVars, worldVars, runVars
<1> QED
  BY <1>1, <1>2, <1>3, <1>4, <1>5, <1>6, <1>7, <1>8, <1>9, <1>10, <1>11 DEF Next

-----------------------------------------------------------------------------
(* The gates *)

\* What the steps outside Setup, Restart and the world leave alone.
LEMMA OthersKeepStage ==
    ASSUME \/ BeginSubscribe \/ PassStart \/ PassRead \/ PassPublish
           \/ CooldownEnds /\ UNCHANGED <<setupVars, worldVars, runVars, subVars>>
           \/ /\ \/ \E o \in Operators : OperatorSubscribes(o)
                 \/ \E c \in SubCallers : CallStep(c)
              /\ UNCHANGED <<setupVars, worldVars, runVars, alertVars>>
           \/ UNCHANGED vars
    PROVE  UNCHANGED <<cfg, pc, cap, closeFns, world, calm, live, ending, outboxOnRedis>>
BY DEF BeginSubscribe, PassStart, PassRead, PassPublish, PassStep, vars, setupVars, worldVars, runVars

LEMMA NextGates ==
    ASSUME BootTypeOK, GatesSoFar, [Next]_vars
    PROVE  GatesSoFar'
<1> USE DEF PastKeyspace, PastVersion, PastScripting, PastEviction, PastTopology, PastConnect, Served
<1>0. "closed" \notin world
  BY ConditionsDeclared DEF BootTypeOK, RedisConditions, DDBConditions
<1>1. CASE Setup
  <2>0. UNCHANGED <<cfg, world, calm>>
    BY <1>1 DEF Setup, ResolveConfig, ConnectDeclaredRedis, GateTopology, GateEviction, GateScripting,
           GateVersion, GateHeadroom, GateKeyspace, Gate, WireMesh, WireLedger, WireGrants, WireActivations,
           WireReconciler, GateBillingChain, PublishCapabilities, SetupStep, worldVars
  <2> SUFFICES ASSUME calm, OnRedis
               PROVE  GatesSoFar'
    BY <2>0 DEF GatesSoFar, OnRedis
  <2>1. CASE ResolveConfig
    BY <2>0, <2>1 DEF GatesSoFar, ResolveConfig, OnRedis, Refuse, Proceed
  <2>2. CASE ConnectDeclaredRedis
    BY <2>0, <2>2 DEF GatesSoFar, ConnectDeclaredRedis, SetupStep, OnRedis, Refuse, Proceed, Reachable
  <2>3. CASE GateTopology
    <3>1. pc = "topology" /\ (pc' = "refused" \/ (pc' = "eviction" /\ CheckRedisClusterTopology(world) = "single-node"))
      BY <2>3 DEF GateTopology, Gate, SetupStep, RefuseClosing, Proceed
    <3>2. Reachable(world)
      BY <3>1 DEF GatesSoFar
    <3>3. CheckRedisClusterTopology(world) = "single-node" =>
             ("cluster" \in world => {"proxied", "infoHidden"} \subseteq world /\ cfg.clusterConfirmed)
      BY <1>0, <3>2 DEF CheckRedisClusterTopology, EvaluateTopology, InfoRead
    <3> QED
      BY <2>0, <3>1, <3>2, <3>3 DEF GatesSoFar, OnRedis, Reachable
  <2>4. CASE GateEviction
    BY <1>0, <2>0, <2>4 DEF GatesSoFar, GateEviction, Gate, SetupStep, OnRedis, RefuseClosing, Proceed,
           Reachable, CheckCounterEviction, EvaluateEviction, ConfigRead
  <2>5. CASE GateScripting
    BY <2>0, <2>5 DEF GatesSoFar, GateScripting, Gate, SetupStep, OnRedis, RefuseClosing, Proceed,
           Reachable, CheckScriptCapability
  <2>6. CASE GateVersion
    BY <1>0, <2>0, <2>6 DEF GatesSoFar, GateVersion, Gate, SetupStep, OnRedis, RefuseClosing, Proceed,
           Reachable, CheckVersion, Fact, InfoRead
  <2>7. CASE GateHeadroom
    BY <2>0, <2>7 DEF GatesSoFar, GateHeadroom, Gate, SetupStep, OnRedis, RefuseClosing, Proceed, Reachable
  <2>8. CASE GateKeyspace
    BY <2>0, <2>8 DEF GatesSoFar, GateKeyspace, SetupStep, OnRedis, RefuseClosing, Proceed, Reachable
  <2>9. CASE \/ WireMesh \/ WireLedger \/ WireGrants \/ WireActivations
            \/ WireReconciler \/ GateBillingChain \/ PublishCapabilities
    <3>1. pc \in Served
      BY <2>9 DEF WireMesh, WireLedger, WireGrants, WireActivations, WireReconciler, GateBillingChain,
             PublishCapabilities, SetupStep
    <3> QED
      BY <2>0, <3>1 DEF GatesSoFar, OnRedis, Reachable
  <2> QED
    BY <1>1, <2>1, <2>2, <2>3, <2>4, <2>5, <2>6, <2>7, <2>8, <2>9 DEF Setup
<1>2. CASE Close \/ CloseNext
  <2>1. pc' \in {"closing", "closed"}
    BY <1>2 DEF Close, CloseNext
  <2> QED
    BY <2>1 DEF GatesSoFar
<1>3. CASE WorldChanges
  BY <1>3 DEF WorldChanges, GatesSoFar
<1>4. CASE Restart
  BY <1>4 DEF Restart, GatesSoFar
<1>5. CASE UNCHANGED <<cfg, pc, world, calm>>
  BY <1>5 DEF GatesSoFar, OnRedis, Reachable
<1>6. (\E x \in Loops : LoopExits(x)) => UNCHANGED <<cfg, pc, world, calm>>
  BY DEF LoopExits, setupVars, worldVars
<1> QED
  BY <1>1, <1>2, <1>3, <1>4, <1>5, <1>6, OthersKeepStage DEF Next

-----------------------------------------------------------------------------
(* What runs, and what Close ends *)

\* An appended function is run too, and the head is run first.
LEMMA AppendEnds ==
    ASSUME closeFns \in Seq({"redis", "handler", "reconciler", "drain"}),
           NEW y \in {"redis", "handler", "reconciler", "drain"}, closeFns' = Append(closeFns, y)
    PROVE  closeFns' # <<>> /\ Ended(y)' /\ \A x : Ended(x) => Ended(x)'
<1>1. /\ Len(closeFns') = Len(closeFns) + 1 /\ Len(closeFns) \in Nat
      /\ closeFns'[Len(closeFns) + 1] = y
      /\ \A k \in 1..Len(closeFns) : closeFns'[k] = closeFns[k]
  OBVIOUS
<1>2. Ended(y)'
  BY <1>1 DEF Ended
<1>3. \A x : Ended(x) => Ended(x)'
  BY <1>1 DEF Ended
<1> QED
  BY <1>1, <1>2, <1>3

LEMMA HeadEnds ==
    ASSUME closeFns \in Seq({"redis", "handler", "reconciler", "drain"}), closeFns # <<>>,
           closeFns' = Tail(closeFns), NEW x, Ended(x), x # Head(closeFns)
    PROVE  Ended(x)'
<1>1. PICK k \in 1..Len(closeFns) : closeFns[k] = x
  BY DEF Ended
<1>2. /\ Len(closeFns') = Len(closeFns) - 1 /\ Len(closeFns) \in Nat
      /\ Head(closeFns) = closeFns[1]
      /\ \A j \in 1..Len(closeFns') : closeFns'[j] = closeFns[j + 1]
  OBVIOUS
<1>3. k # 1 /\ k - 1 \in 1..Len(closeFns') /\ (k - 1) + 1 = k
  BY <1>1, <1>2
<1>4. closeFns'[k - 1] = x
  BY <1>1, <1>2, <1>3
<1> QED
  BY <1>3, <1>4 DEF Ended

LEMMA NextLeaks ==
    ASSUME BootTypeOK, NothingLeaks, [Next]_vars
    PROVE  NothingLeaks'
<1> USE DEF PastKeyspace, PastVersion, PastScripting, PastEviction, PastTopology, PastConnect, Served, Wired
<1>1. CASE Setup
  <2>0. cfg' = cfg /\ ending' = ending
    BY <1>1 DEF Setup, ResolveConfig, ConnectDeclaredRedis, GateTopology, GateEviction, GateScripting,
           GateVersion, GateHeadroom, GateKeyspace, Gate, WireMesh, WireLedger, WireGrants, WireActivations,
           WireReconciler, GateBillingChain, PublishCapabilities, SetupStep
  <2>1. CASE ResolveConfig
    BY <2>0, <2>1 DEF NothingLeaks, ResolveConfig, SetupStep, OnRedis, Refuse, Proceed
  <2>2. CASE ConnectDeclaredRedis
    BY <2>0, <2>2 DEF NothingLeaks, ConnectDeclaredRedis, SetupStep, OnRedis, Refuse, Proceed
  <2>3. ASSUME NEW at \in PastConnect \ Served, NEW i, NEW v, NEW ok, NEW next \in PastConnect \ Served,
               Gate(at, i, v, ok, next)
        PROVE  NothingLeaks'
    BY <2>0, <2>3 DEF NothingLeaks, Gate, SetupStep, OnRedis, RefuseClosing, Proceed
  <2>4. CASE GateTopology \/ GateEviction \/ GateScripting \/ GateVersion \/ GateHeadroom
    BY <2>3, <2>4 DEF GateTopology, GateEviction, GateScripting, GateVersion, GateHeadroom
  <2>5. CASE GateKeyspace
    BY <2>0, <2>5 DEF NothingLeaks, GateKeyspace, SetupStep, OnRedis, RefuseClosing, Proceed
  <2>6. CASE WireMesh
    <3>1. /\ pc = "mesh" /\ pc' = "ledger" /\ live' \subseteq live \cup {"heartbeat"}
          /\ closeFns' = IF OnRedis THEN Append(closeFns, "redis") ELSE closeFns
      BY <2>6 DEF WireMesh, SetupStep, OnRedis
    <3>2. CASE OnRedis
      <4>1. closeFns' # <<>> /\ Ended("redis")'
        BY <3>1, <3>2, AppendEnds DEF BootTypeOK
      <4> QED
        BY <2>0, <3>1, <3>2, <4>1 DEF NothingLeaks
    <3>3. CASE ~OnRedis
      BY <2>0, <3>1, <3>3 DEF NothingLeaks, OnRedis
    <3> QED
      BY <3>2, <3>3
  <2>7. ASSUME pc \in Wired, pc' \in Wired \cup {"refused"}, UNCHANGED <<live, closeFns>>
        PROVE  NothingLeaks'
    BY <2>0, <2>7 DEF NothingLeaks, OnRedis, Ended
  <2>8. ASSUME pc \in Wired, pc' \in Wired, NEW x \in {"handler", "reconciler", "drain"}, Start(x)
        PROVE  NothingLeaks'
    BY <2>0, <2>8, AppendEnds DEF NothingLeaks, OnRedis, Start, BootTypeOK
  <2>9. CASE WireLedger
    BY <2>7, <2>9 DEF WireLedger, SetupStep, Refuse, Proceed
  <2>10. CASE WireGrants
    BY <2>7, <2>8, <2>10 DEF WireGrants, SetupStep, Refuse
  <2>11. CASE WireActivations
    BY <2>7, <2>11 DEF WireActivations, SetupStep, Proceed
  <2>12. CASE WireReconciler
    BY <2>7, <2>8, <2>12 DEF WireReconciler, SetupStep
  <2>13. CASE GateBillingChain
    BY <2>7, <2>8, <2>13 DEF GateBillingChain, SetupStep, Refuse, Proceed
  <2>14. CASE PublishCapabilities
    BY <2>7, <2>14 DEF PublishCapabilities
  <2> QED
    BY <1>1, <2>1, <2>2, <2>4, <2>5, <2>6, <2>9, <2>10, <2>11, <2>12, <2>13, <2>14 DEF Setup
<1>2. CASE Close
  BY <1>2 DEF NothingLeaks, Close, Ended
<1>3. CASE CloseNext
  <2>1. CASE closeFns = <<>>
    <3>1. \A x : ~Ended(x)
      BY <2>1 DEF Ended
    <3>2. pc = "closing" /\ pc' = "closed" /\ UNCHANGED <<live, ending>>
      BY <1>3, <2>1 DEF CloseNext
    <3> QED
      BY <3>1, <3>2 DEF NothingLeaks
  <2>2. CASE closeFns # <<>>
    <3>1. /\ pc' = "closing" /\ closeFns' = Tail(closeFns) /\ pc = "closing"
          /\ live' \subseteq live /\ ending \subseteq ending'
          /\ Head(closeFns) \in live' => Head(closeFns) \in ending'
      BY <1>3, <2>2 DEF CloseNext
    <3>2. \A x \in live' : Ended(x)' \/ x \in ending'
      BY <2>2, <3>1, HeadEnds DEF NothingLeaks, BootTypeOK
    <3> QED
      BY <3>1, <3>2 DEF NothingLeaks
  <2> QED
    BY <2>1, <2>2
<1>4. CASE WorldChanges
  BY <1>4 DEF WorldChanges, setupVars, runVars, NothingLeaks, OnRedis, Ended
<1>5. CASE Restart
  BY <1>5 DEF Restart, NothingLeaks
<1>6. CASE UNCHANGED <<cfg, pc, live, ending, closeFns>>
  BY <1>6 DEF NothingLeaks, OnRedis, Ended
<1>7. CASE \E x \in Loops : LoopExits(x)
  <2>1. /\ ending # {} /\ live' \subseteq live
        /\ UNCHANGED <<cfg, pc, ending, closeFns>>
    BY <1>7 DEF LoopExits, setupVars
  <2>2. pc \in {"closing", "closed"}
    BY <2>1 DEF NothingLeaks
  <2> QED
    BY <2>1, <2>2 DEF NothingLeaks, OnRedis, Ended
<1> QED
  BY <1>1, <1>2, <1>3, <1>4, <1>5, <1>6, <1>7, OthersKeepStage DEF Next

\* A pass starts only while its loop runs, and the loop ends only between passes.
LEMMA NextPass ==
    ASSUME BootTypeOK, PassHasLoop, [Next]_vars
    PROVE  PassHasLoop'
<1>1. CASE UNCHANGED pass /\ ("reconciler" \in live => "reconciler" \in live')
  BY <1>1 DEF PassHasLoop
<1>2. CASE Setup
  <2>1. UNCHANGED pass
    BY <1>2 DEF Setup, ResolveConfig, ConnectDeclaredRedis, GateTopology, GateEviction, GateScripting,
           GateVersion, GateHeadroom, GateKeyspace, Gate, WireMesh, WireLedger, WireGrants, WireActivations,
           WireReconciler, GateBillingChain, PublishCapabilities, SetupStep
  <2>2. live \ {"redis"} \subseteq live'
    BY <1>2 DEF Setup, ResolveConfig, ConnectDeclaredRedis, GateTopology, GateEviction, GateScripting,
           GateVersion, GateHeadroom, GateKeyspace, Gate, WireMesh, WireLedger, WireGrants, WireActivations,
           WireReconciler, GateBillingChain, PublishCapabilities, Refuse, RefuseClosing, Proceed, Start
  <2> QED
    BY <1>1, <2>1, <2>2
<1>3. CASE PassStart
  BY <1>3 DEF PassStart, PassStep, PassHasLoop
<1>4. CASE PassRead
  BY <1>4 DEF PassRead, PassStep, PassHasLoop
<1>5. CASE PassPublish
  BY <1>5 DEF PassPublish, NoPass, PassHasLoop
<1>6. CASE Close
  BY <1>1, <1>6 DEF Close
<1>7. CASE CloseNext
  BY <1>1, <1>7 DEF CloseNext, Loops
<1>8. CASE \E x \in Loops : LoopExits(x)
  BY <1>8 DEF LoopExits, PassHasLoop
<1>9. CASE Restart
  BY <1>9 DEF Restart, NoPass, PassHasLoop
<1>10. CASE \/ BeginSubscribe \/ WorldChanges
            \/ CooldownEnds /\ UNCHANGED <<setupVars, worldVars, runVars, subVars>>
            \/ /\ \/ \E o \in Operators : OperatorSubscribes(o)
                  \/ \E c \in SubCallers : CallStep(c)
               /\ UNCHANGED <<setupVars, worldVars, runVars, alertVars>>
            \/ UNCHANGED vars
  <2>1. UNCHANGED <<pass, live>>
    BY <1>10 DEF BeginSubscribe, WorldChanges, vars, runVars
  <2> QED
    BY <1>1, <2>1
<1> QED
  BY <1>2, <1>3, <1>4, <1>5, <1>6, <1>7, <1>8, <1>9, <1>10 DEF Next

-----------------------------------------------------------------------------
(* Health *)

LEMMA NextReports ==
    ASSUME BootTypeOK, NothingLeaks, ReportsBacked, [Next]_vars
    PROVE  ReportsBacked'
<1> USE DEF PastKeyspace, PastVersion, PastScripting, PastEviction, PastTopology, PastConnect, Served
<1> DEFINE Early == {"config", "connect"} \cup (PastConnect \ {"billing", "publish", "running"})
<1>1. CASE Setup
  <2>0. cfg' = cfg
    BY <1>1 DEF Setup, ResolveConfig, ConnectDeclaredRedis, GateTopology, GateEviction, GateScripting,
           GateVersion, GateHeadroom, GateKeyspace, Gate, WireMesh, WireLedger, WireGrants, WireActivations,
           WireReconciler, GateBillingChain, PublishCapabilities, SetupStep
  <2>1. ASSUME pc \in Early, pc' \in Early \cup {"refused"},
               cap'.reverified = cap.reverified, cap'.billing = cap.billing
        PROVE  ReportsBacked'
    BY <2>1 DEF ReportsBacked
  <2>2. ASSUME NEW i, NEW v, Noted(i, v)
        PROVE  cap'.reverified = cap.reverified /\ cap'.billing = cap.billing
    BY <2>2 DEF Noted, BootTypeOK, Capabilities
  <2>3. CASE ResolveConfig
    <3>1. cap'.reverified = cap.reverified /\ cap'.billing = cap.billing
      BY <2>2, <2>3 DEF ResolveConfig
    <3> QED
      BY <2>1, <2>3, <3>1 DEF ResolveConfig, SetupStep, Refuse, Proceed
  <2>4. CASE ConnectDeclaredRedis
    BY <2>1, <2>4 DEF ConnectDeclaredRedis, SetupStep, Refuse, Proceed
  <2>5. ASSUME NEW at \in Early, NEW i, NEW v, NEW ok, NEW next \in Early, Gate(at, i, v, ok, next)
        PROVE  ReportsBacked'
    <3>1. cap'.reverified = cap.reverified /\ cap'.billing = cap.billing
      BY <2>2, <2>5 DEF Gate
    <3> QED
      BY <2>1, <2>5, <3>1 DEF Gate, SetupStep, RefuseClosing, Proceed
  <2>6. CASE GateTopology \/ GateEviction \/ GateScripting \/ GateVersion \/ GateHeadroom
    BY <2>5, <2>6 DEF GateTopology, GateEviction, GateScripting, GateVersion, GateHeadroom
  <2>7. CASE GateKeyspace \/ WireMesh \/ WireLedger \/ WireGrants \/ WireActivations
    BY <2>1, <2>7 DEF GateKeyspace, WireMesh, WireLedger, WireGrants, WireActivations, SetupStep, Refuse,
           RefuseClosing, Proceed
  <2>8. CASE WireReconciler
    <3> DEFINE on == cfg.orgs /\ durable
    <3>1. /\ pc = "reconciler" /\ pc' = "billing"
          /\ on => "reconciler" \in live'
      BY <2>8 DEF WireReconciler, SetupStep, Start
    <3>2. cap'.billing = cap.billing /\ cap'.reverified = Reverification(on)
      BY <2>8 DEF WireReconciler, BootTypeOK, Capabilities
    <3>3. OnRedis /\ cap'.reverified = "on" => "reconciler" \in live'
      BY <3>1, <3>2 DEF Reverification, OnRedis
    <3> QED
      BY <2>0, <3>1, <3>2, <3>3 DEF ReportsBacked, Backed, OnRedis
  <2>9. CASE GateBillingChain
    <3>1. pc = "billing" /\ pc' \in {"publish", "refused"} /\ live \subseteq live'
      BY <2>9 DEF GateBillingChain, SetupStep, Refuse, Proceed, Start
    <3>2. CASE pc' = "refused"
      BY <3>2 DEF ReportsBacked
    <3>3. CASE pc' = "publish"
      <4>1. /\ cap'.reverified = cap.reverified
            /\ \/ cap'.billing = "ON" /\ (~cfg.smoke => "drain" \in live')
               \/ cap'.billing \in {"OFF", "paid disabled"} /\ (cap'.billing = "paid disabled" => ~EnablePaid)
        BY <2>9, <3>3 DEF GateBillingChain, Start, BootTypeOK, Capabilities, Refuse
      <4>2. Backed(cap)
        BY <3>1 DEF ReportsBacked
      <4>3. Backed(cap)'
        BY <2>0, <3>1, <4>1, <4>2 DEF Backed, OnRedis, EnablePaid
      <4> QED
        BY <3>3, <4>3 DEF ReportsBacked
    <3> QED
      BY <3>1, <3>2, <3>3
  <2>10. CASE PublishCapabilities
    BY <2>0, <2>10 DEF PublishCapabilities, ReportsBacked, Backed, OnRedis, EnablePaid
  <2> QED
    BY <1>1, <2>3, <2>4, <2>6, <2>7, <2>8, <2>9, <2>10 DEF Setup
<1>2. CASE Close \/ CloseNext
  <2>1. pc' \in {"closing", "closed"}
    BY <1>2 DEF Close, CloseNext
  <2> QED
    BY <2>1 DEF ReportsBacked
<1>3. CASE Restart
  BY <1>3 DEF Restart, ReportsBacked, NoCapabilities
<1>4. CASE PassPublish
  <2>1. capability'.reverified = capability.reverified /\ capability'.billing = capability.billing
    BY <1>4 DEF PassPublish, BootTypeOK, Capabilities
  <2>2. UNCHANGED <<cfg, pc, cap, live>>
    BY <1>4, OthersKeepStage
  <2> QED
    BY <2>1, <2>2 DEF ReportsBacked, Backed, OnRedis, EnablePaid
<1>5. ASSUME UNCHANGED <<cfg, pc, cap, capability, live>>
      PROVE  ReportsBacked'
  BY <1>5 DEF ReportsBacked, Backed, OnRedis, EnablePaid
<1>6. CASE WorldChanges
  BY <1>5, <1>6 DEF WorldChanges, setupVars, runVars
<1>7. CASE \/ BeginSubscribe \/ PassStart \/ PassRead
           \/ CooldownEnds /\ UNCHANGED <<setupVars, worldVars, runVars, subVars>>
           \/ /\ \/ \E o \in Operators : OperatorSubscribes(o)
                 \/ \E c \in SubCallers : CallStep(c)
              /\ UNCHANGED <<setupVars, worldVars, runVars, alertVars>>
           \/ UNCHANGED vars
  <2>1. capability' = capability
    BY <1>7 DEF BeginSubscribe, PassStart, PassRead, vars, runVars
  <2> QED
    BY <1>5, <1>7, <2>1, OthersKeepStage
<1>8. CASE \E x \in Loops : LoopExits(x)
  <2>1. ending # {} /\ UNCHANGED pc
    BY <1>8 DEF LoopExits, setupVars
  <2>2. pc \in {"closing", "closed"}
    BY <2>1 DEF NothingLeaks
  <2> QED
    BY <2>1, <2>2 DEF ReportsBacked
<1> QED
  BY <1>1, <1>2, <1>3, <1>4, <1>6, <1>7, <1>8 DEF Next

-----------------------------------------------------------------------------
(* What the operator has heard *)

LEMMA NextHears ==
    ASSUME BootTypeOK, CoolingWasHeard, OperatorKnows, [Next]_vars
    PROVE  CoolingWasHeard' /\ OperatorKnows'
<1>0. cfg' = cfg
  BY DEF Next, Setup, ResolveConfig, ConnectDeclaredRedis, GateTopology, GateEviction, GateScripting,
         GateVersion, GateHeadroom, GateKeyspace, Gate, WireMesh, WireLedger, WireGrants, WireActivations,
         WireReconciler, GateBillingChain, PublishCapabilities, SetupStep, BeginSubscribe, PassStart, PassRead,
         PassPublish, PassStep, Close, CloseNext, LoopExits, WorldChanges, Restart, setupVars, vars
<1>1. CASE UNCHANGED <<alertVars, unsafe>>
  BY <1>0, <1>1 DEF alertVars, CoolingWasHeard, OperatorKnows
<1>2a. CASE PassPublish /\ ~cfg.alerts
  BY <1>0, <1>2a DEF PassPublish, Announce, alertVars, CoolingWasHeard, OperatorKnows
<1>2. CASE PassPublish /\ cfg.alerts
  <2> DEFINE now  == Unsafe(pass.verdicts)
             told == {<<"violated", s>> : s \in now} \ cooling
  <2>1. /\ unsafe' = now
        /\ cooling' = (cooling \cup told) \ {<<"violated", s>> : s \in unsafe \ now}
        /\ heard' = [s \in Subjects |-> IF <<"violated", s>> \in told THEN "violated"
                                         ELSE IF s \in unsafe \ now THEN "restored" ELSE heard[s]]
    BY <1>2 DEF PassPublish, Announce, NotifyInvariants
  <2>2. now \subseteq Invariants
    BY DEF Unsafe
  <2> SUFFICES ASSUME NEW i \in Invariants
               PROVE  /\ <<"violated", i>> \in cooling' => heard'[i] = "violated"
                      /\ (heard'[i] = "violated") <=> (i \in unsafe')
    BY DEF CoolingWasHeard, OperatorKnows
  <2> HIDE DEF now
  <2>3. <<"violated", i>> \in told <=> i \in now /\ <<"violated", i>> \notin cooling
    OBVIOUS
  <2>4. <<"violated", i>> \in cooling' <=>
           (<<"violated", i>> \in cooling \/ <<"violated", i>> \in told) /\ i \notin unsafe \ now
    BY <2>1
  <2> HIDE DEF told
  <2>5. heard'[i] = IF <<"violated", i>> \in told THEN "violated"
                    ELSE IF i \in unsafe \ now THEN "restored" ELSE heard[i]
    BY <2>1, SubjectsAreInvariants
  <2> QED
    BY <1>2, <2>1, <2>3, <2>4, <2>5 DEF CoolingWasHeard, OperatorKnows
<1>3. CASE Restart
  BY <1>3, SubjectsAreInvariants DEF Restart, CoolingWasHeard, OperatorKnows, Quiet
<1>4. CASE CooldownEnds /\ UNCHANGED <<setupVars, worldVars, runVars, subVars>>
  BY <1>0, <1>4 DEF CooldownEnds, runVars, CoolingWasHeard, OperatorKnows
<1>5. CASE Setup
  <2>1. UNCHANGED <<alertVars, unsafe>>
    BY <1>5 DEF Setup, ResolveConfig, ConnectDeclaredRedis, GateTopology, GateEviction, GateScripting,
           GateVersion, GateHeadroom, GateKeyspace, Gate, WireMesh, WireLedger, WireGrants, WireActivations,
           WireReconciler, GateBillingChain, PublishCapabilities, SetupStep
  <2> QED
    BY <1>1, <2>1
<1>6. CASE \/ BeginSubscribe \/ PassStart \/ PassRead \/ Close \/ CloseNext \/ WorldChanges
           \/ \E x \in Loops : LoopExits(x)
           \/ /\ \/ \E o \in Operators : OperatorSubscribes(o)
                 \/ \E c \in SubCallers : CallStep(c)
              /\ UNCHANGED <<setupVars, worldVars, runVars, alertVars>>
           \/ UNCHANGED vars
  <2>1. UNCHANGED <<alertVars, unsafe>>
    BY <1>6 DEF BeginSubscribe, PassStart, PassRead, Close, CloseNext, LoopExits, WorldChanges, vars, runVars
  <2> QED
    BY <1>1, <2>1
<1> QED
  BY <1>2, <1>2a, <1>3, <1>4, <1>5, <1>6 DEF Next

-----------------------------------------------------------------------------
(* The subscription *)

LEMMA CallKeepsGap ==
    ASSUME SubTypeOK, StarterKeeps, GapIsLoud, NEW c \in SubCallers, CallStep(c)
    PROVE  StarterKeeps' /\ GapIsLoud'
<1>1. \A d \in SubCallers : d # c => call'[d] = call[d] /\ answer'[d] = answer[d]
  BY DEF CallStep, AuthAnswers, ListByEndpoint, Found, FoundStrict, DeleteSubscription, CreateSubscription,
         ListFails, DeleteFails, CreateFails, Goto, Return, SubTypeOK
<1>2. Starter \in SubCallers /\ \A o \in Operators : o \in SubCallers /\ o # Starter
  BY StarterIsNoOperator DEF SubCallers
<1>3. c # Starter => c \in Operators
  BY DEF SubCallers
<1>4. ASSUME NEW a, Return(c, a)
      PROVE  call'[c].at = "idle" /\ answer'[c] = a
  BY <1>4 DEF Return, NoCall, SubTypeOK
<1>5. ASSUME NEW at, Goto(c, at)
      PROVE  call'[c].at = at /\ answer'[c] = answer[c]
  BY <1>5 DEF Goto, SubTypeOK
<1>6. StarterKeeps'
  <2>1. CASE c # Starter
    BY <1>1, <1>2, <2>1 DEF StarterKeeps
  <2>2. CASE c = Starter
    BY <1>4, <1>5, <2>2 DEF StarterKeeps, CallStep, AuthAnswers, ListByEndpoint, Found, DeleteSubscription,
           CreateSubscription, ListFails, DeleteFails, CreateFails
  <2> QED
    BY <2>1, <2>2
<1>7. GapIsLoud'
  <2> SUFFICES ASSUME subs' = {}, lastId' > 0
               PROVE  \E o \in Operators : call'[o].at # "idle" \/ answer'[o] = "error"
    BY DEF GapIsLoud
  <2>1. lastId' = lastId
    BY DEF CallStep, AuthAnswers, ListByEndpoint, DeleteSubscription, CreateSubscription, ListFails,
           DeleteFails, CreateFails, Created
  <2>2. CASE subs # {}
    <3>1. DeleteSubscription(c) \/ DeleteFails(c)
      BY <2>2 DEF CallStep, AuthAnswers, ListByEndpoint, CreateSubscription, ListFails, CreateFails
    <3>2. c \in Operators
      BY <1>3, <3>1 DEF StarterKeeps, DeleteSubscription, DeleteFails
    <3>3. CASE DeleteSubscription(c)
      BY <3>2, <3>3 DEF DeleteSubscription, SubTypeOK
    <3>4. CASE DeleteFails(c)
      BY <1>4, <3>2, <3>4 DEF DeleteFails
    <3> QED
      BY <3>1, <3>3, <3>4
  <2>3. CASE subs = {}
    <3>1. PICK o \in Operators : call[o].at # "idle" \/ answer[o] = "error"
      BY <2>1, <2>3 DEF GapIsLoud
    <3>2. CASE o # c
      BY <1>1, <1>2, <3>1, <3>2
    <3>3. CASE o = c
      <4>1. ~CreateSubscription(c)
        BY <2>3 DEF CreateSubscription, Created
      <4>2. CASE ListByEndpoint(c)
        BY <1>5, <2>3, <3>3, <4>2 DEF ListByEndpoint
      <4>3. CASE DeleteSubscription(c)
        BY <3>3, <4>3 DEF DeleteSubscription, SubTypeOK
      <4>4. CASE ListFails(c)
        BY <1>2, <1>4, <3>3, <4>4 DEF ListFails
      <4>5. CASE DeleteFails(c)
        BY <1>4, <3>3, <4>5 DEF DeleteFails
      <4>6. CASE CreateFails(c)
        BY <1>4, <3>3, <4>6 DEF CreateFails
      <4> QED
        BY <4>1, <4>2, <4>3, <4>4, <4>5, <4>6 DEF CallStep, AuthAnswers
    <3> QED
      BY <3>2, <3>3
  <2> QED
    BY <2>2, <2>3
<1> QED
  BY <1>6, <1>7

LEMMA NextGap ==
    ASSUME BootTypeOK, StarterKeeps, GapIsLoud, [Next]_vars
    PROVE  StarterKeeps' /\ GapIsLoud'
<1>0. SubTypeOK /\ Starter \in SubCallers /\ \A o \in Operators : o \in SubCallers /\ o # Starter
  BY StarterIsNoOperator DEF BootTypeOK, SubCallers
<1>1. CASE UNCHANGED subVars
  BY <1>1 DEF subVars, StarterKeeps, GapIsLoud
<1>2. CASE BeginSubscribe
  <2>1. /\ UNCHANGED <<subs, lastId>>
        /\ \A o \in Operators : call'[o] = call[o] /\ answer'[o] = answer[o]
    BY <1>0, <1>2 DEF BeginSubscribe, SubscribeOnStartup, Goto, Return, SubTypeOK
  <2>2. call'[Starter].at \in {"idle", "list"}
    BY <1>0, <1>2 DEF BeginSubscribe, SubscribeOnStartup, Goto, Return, SubTypeOK, NoCall
  <2> QED
    BY <2>1, <2>2 DEF StarterKeeps, GapIsLoud
<1>3. CASE Restart
  <2>1. /\ UNCHANGED <<subs, lastId, answer>>
        /\ \A o \in Operators : call'[o] = call[o]
    BY <1>0, <1>3 DEF Restart, SubTypeOK
  <2>2. call'[Starter].at = "idle"
    BY <1>0, <1>3 DEF Restart, SubTypeOK, NoCall
  <2> QED
    BY <2>1, <2>2 DEF StarterKeeps, GapIsLoud
<1>4. ASSUME NEW o \in Operators, OperatorSubscribes(o)
      PROVE  StarterKeeps' /\ GapIsLoud'
  <2>1. PICK r \in BOOLEAN : call' = [call EXCEPT ![o].at = "list", ![o].rotate = r]
    BY <1>4 DEF OperatorSubscribes, Subscribe
  <2>2. call'[o].at = "list" /\ call'[Starter] = call[Starter]
    BY <1>0, <2>1 DEF SubTypeOK
  <2> QED
    BY <2>2 DEF StarterKeeps, GapIsLoud
<1>5. ASSUME NEW c \in SubCallers, CallStep(c)
      PROVE  StarterKeeps' /\ GapIsLoud'
  BY <1>0, <1>5, CallKeepsGap
<1>6. CASE Setup
  <2>1. UNCHANGED subVars
    BY <1>6 DEF Setup, ResolveConfig, ConnectDeclaredRedis, GateTopology, GateEviction, GateScripting,
           GateVersion, GateHeadroom, GateKeyspace, Gate, WireMesh, WireLedger, WireGrants, WireActivations,
           WireReconciler, GateBillingChain, PublishCapabilities
  <2> QED
    BY <1>1, <2>1
<1>7. CASE \/ PassStart \/ PassRead \/ PassPublish \/ Close \/ CloseNext \/ WorldChanges
           \/ \E x \in Loops : LoopExits(x)
           \/ CooldownEnds /\ UNCHANGED <<setupVars, worldVars, runVars, subVars>>
           \/ UNCHANGED vars
  <2>1. UNCHANGED subVars
    BY <1>7 DEF PassStart, PassRead, PassPublish, PassStep, Close, CloseNext, LoopExits, WorldChanges, vars
  <2> QED
    BY <1>1, <2>1
<1> QED
  BY <1>2, <1>3, <1>4, <1>5, <1>6, <1>7 DEF Next

-----------------------------------------------------------------------------
(* Theorems *)

\* The strengthened invariant is inductive: what each gate established still holds, what runs
\* is what Close will end, what is reported is what runs, and what was heard is what was found.
THEOREM BootInductive == Spec => []BInv
<1>1. Init => BInv
  <2> SUFFICES ASSUME Init PROVE BInv
    OBVIOUS
  <2>1. BootTypeOK
    BY InitType
  <2>2. GatesSoFar
    BY DEF Init, GatesSoFar, PastKeyspace, PastVersion, PastScripting, PastEviction, PastTopology, PastConnect,
           Served
  <2>3. NothingLeaks
    BY DEF Init, NothingLeaks, PastKeyspace, PastVersion, PastScripting, PastEviction, PastTopology, PastConnect,
           Served, Wired
  <2>4. ReportsBacked /\ PassHasLoop
    BY DEF Init, ReportsBacked, PassHasLoop, NoPass, NoCapabilities
  <2>5. CoolingWasHeard /\ OperatorKnows
    BY SubjectsAreInvariants DEF Init, AlertsInit, CoolingWasHeard, OperatorKnows, Quiet
  <2>6. StarterKeeps
    BY DEF Init, SubInit, StarterKeeps, NoCall, SubCallers
  <2>7. GapIsLoud
    BY DEF Init, SubInit, GapIsLoud
  <2> QED
    BY <2>1, <2>2, <2>3, <2>4, <2>5, <2>6, <2>7 DEF BInv
<1>2. BInv /\ [Next]_vars => BInv'
  BY NextType, NextGates, NextLeaks, NextPass, NextReports, NextHears, NextGap DEF BInv
<1> QED
  BY <1>1, <1>2, PTL DEF Spec

\* Every variable of the process keeps its type, whatever the servers do.
THEOREM BootTypeCorrect == Spec => []BootTypeOK
<1>1. BInv => BootTypeOK
  BY DEF BInv
<1> QED
  BY <1>1, BootInductive, PTL

\* Setup passes its Redis gates only on a Redis the counter can live on (gateCounterStore): for
\* any number of conditions at once, a cluster or an evicting policy gets through only where the
\* server hid it and the operator asserted the contrary.
THEOREM GatesAreSound == Spec => []GatesHold
<1>1. BInv => GatesHold
  BY DEF BInv, GatesSoFar, GatesHold, PastKeyspace, PastVersion, PastScripting, PastEviction, PastTopology,
         PastConnect, Served
<1> QED
  BY <1>1, BootInductive, PTL

\* A process that reports healthy runs the loop that re-verifies its Redis and, in paid mode,
\* the drain of its outbox (Quota.Healthy), in every configuration Setup accepts.
THEOREM HealthIsBacked == Spec => []HealthyIsBacked
<1>1. BInv => HealthyIsBacked
  BY DEF BInv, ReportsBacked, Backed, HealthyIsBacked, Healthy
<1> QED
  BY <1>1, BootInductive, PTL

\* What the operator heard last of an invariant is what the last re-verification found of it
\* (makeRevalidator and the alert manager's cooldowns).
THEOREM OperatorAlwaysKnows == Spec => []OperatorKnows
<1>1. BInv => OperatorKnows
  BY DEF BInv
<1> QED
  BY <1>1, BootInductive, PTL

\* Close tells everything it started to end (Quota.Close, C-09) and a refusal at the Redis gates
\* leaves no client open, in every configuration and whatever passes are in flight.
THEOREM CloseTellsAll == Spec => []CloseReachesAll
<1>1. BInv => CloseReachesAll
  BY DEF BInv, BootTypeOK, NothingLeaks, PassHasLoop, CloseReachesAll
<1> QED
  BY <1>1, BootInductive, PTL

\* An endpoint that lost its subscription has an operator who is at work on it or was told of
\* an error (Subscribe's delete-then-create), for any number of operators and failed requests.
THEOREM GapIsAlwaysLoud == Spec => []GapIsLoud
<1>1. BInv => GapIsLoud
  BY DEF BInv
<1> QED
  BY <1>1, BootInductive, PTL
=============================================================================

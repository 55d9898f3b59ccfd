----------------------------- MODULE MCBootstrap -----------------------------
(* Instances of Bootstrap for TLC. *)
EXTENDS Bootstrap

\* A paid service on Redis with its reconciler, all assertions absent.
Paid == [store |-> "redis", clusterConfirmed |-> FALSE, durabilityConfirmed |-> FALSE,
         outboxConfirmed |-> FALSE, retry |-> TRUE, orgs |-> TRUE, table |-> TRUE,
         pitrConfirmed |-> FALSE, outbox |-> "auto", billing |-> TRUE, paid |-> "derived",
         publisher |-> TRUE, ephemeral |-> FALSE, smoke |-> FALSE, alerts |-> TRUE, granter |-> "none",
         autoSubscribe |-> FALSE]

\* A smoke run with the assertions on the record; no DynamoDB; no durable outbox and no alerts;
\* a free tier; no declaration; in memory with sign-up credit; a grant without billing.
MCConfigs ==
    {Paid,
     [Paid EXCEPT !.clusterConfirmed = TRUE, !.durabilityConfirmed = TRUE, !.pitrConfirmed = TRUE,
                  !.outbox = "redis", !.outboxConfirmed = TRUE, !.retry = FALSE, !.smoke = TRUE],
     [Paid EXCEPT !.table = FALSE, !.outbox = "redis"],
     [Paid EXCEPT !.table = FALSE, !.outbox = "ddb", !.ephemeral = TRUE, !.publisher = FALSE,
                  !.alerts = FALSE],
     [Paid EXCEPT !.orgs = FALSE, !.billing = FALSE, !.outbox = "off"],
     [Paid EXCEPT !.store = "undeclared"],
     [Paid EXCEPT !.store = "memory", !.table = FALSE, !.paid = "no", !.granter = "own",
                  !.autoSubscribe = TRUE, !.orgs = FALSE, !.publisher = FALSE],
     [Paid EXCEPT !.store = "memory", !.table = FALSE, !.granter = "billing", !.billing = FALSE]}

MCSubjects == Invariants
=============================================================================

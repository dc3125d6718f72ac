------------------------- MODULE SubscriptionEvents -------------------------
(***************************************************************************)
(* The webhooks of the payment provider and what they do to one            *)
(* subscription (admin_marketplace/lemon_squeezy_*.py,                     *)
(* subscription_delinquency_policy.py, subscription_rollover_delinquency.py*)
(* and subscription_runtime_access_policy.py).                             *)
(*                                                                         *)
(* A delivery is two transactions: the event is stored in the inbox, then  *)
(* it is decided.  A decision that raises rolls back and leaves the row as *)
(* it was; the provider delivers again.  Deliveries come in any order and  *)
(* any number: one of an event that is already decided changes nothing.    *)
(*                                                                         *)
(* Time is counted in half months, the length of the grace period.         *)
(***************************************************************************)
EXTENDS Integers, Sequences, FiniteSets

CONSTANTS Kinds,        \* the events the provider may emit
          Evidence,     \* what the payload of each resource binds
          MaxEvents,    \* bound: events emitted
          MaxClock,     \* bound: half months
          Rollover,     \* units carried over into the first quota cycle
          FreezeAfter, DeletionAfter

VARIABLES clock,
          inbox,        \* the events, in the order they were emitted
          watermark,    \* last_provider_effective_at of the binding
          status,       \* status of the subscription
          runtime,      \* its runtime row
          delinquency,  \* its delinquency row
          cycles,       \* its quota cycles
          applied       \* history: the events reconciled, in that order

eventVars == <<clock, inbox, watermark, status, runtime, delinquency, cycles, applied>>

NoTime == -1
GraceLength == 1
Month(t) == t \div 2
RolloverDeadline(t) == 2 * (Month(t) + 2)

Fields == {"order", "subscription", "variant", "currency", "amount"}
Resources == {"orders", "subscriptions", "subscription-invoices"}

\* extract_lemon_squeezy_verified_evidence: the fields that are not None.
ExtractedEvidence ==
    [r \in Resources |->
        CASE r = "orders" -> Fields \ {"subscription"}
          [] r = "subscriptions" -> {"order", "subscription", "variant"}
          [] r = "subscription-invoices" -> {"subscription", "currency", "amount"}]

\* What the gate's own tests assume: no field the binding knows is missing.
CompleteEvidence == [r \in Resources |-> Fields]

\* "created" stands for created, updated, resumed and unpaused; "paid" for
\* payment_success and payment_recovered; "order" for the events of an order.
AllKinds == {"order", "created", "paused", "cancelled", "expired",
             "failed", "paid", "refunded"}

Resource(k) == CASE k = "order" -> "orders"
                 [] k \in {"created", "paused", "cancelled", "expired"} -> "subscriptions"
                 [] OTHER -> "subscription-invoices"

\* _EVENT_STATUS
EventStatus(k) == CASE k \in {"created", "paid", "failed"} -> "active"
                    [] k \in {"paused", "refunded"} -> "suspended"
                    [] k \in {"cancelled", "expired"} -> k

\* _ALLOWED_SOURCE
AllowedSource(s) == {"active", "suspended"} \cup ({"cancelled", "expired"} \cap {s})

ASSUME EventConfig ==
    /\ Kinds \subseteq AllKinds
    /\ Evidence \in [Resources -> SUBSET Fields]
    /\ {MaxEvents, MaxClock, Rollover} \subseteq Nat
    /\ FreezeAfter \in Nat \ {0, 1} /\ DeletionAfter \in Nat /\ DeletionAfter > FreezeAfter

NewCycle(r) == [rollover |-> r, used |-> 0, deadline |-> NoTime, state |-> "available"]

\* An active subscription, its runtime just bootstrapped, its binding complete.
EventsInit ==
    /\ clock = 0 /\ inbox = <<>> /\ applied = <<>> /\ watermark = NoTime
    /\ status = "active"
    /\ runtime = [stage |-> "active", at |-> 0, until |-> NoTime]
    /\ delinquency = [state |-> "none", missed |-> 0, cycle |-> NoTime, until |-> NoTime]
    /\ cycles = <<NewCycle(Rollover)>>

-----------------------------------------------------------------------------
(* Inbox and gate *)

Emit(k) == /\ Len(inbox) < MaxEvents
           /\ inbox' = Append(inbox, [kind |-> k, at |-> clock, state |-> "emitted",
                                      reason |-> "none"])
           /\ UNCHANGED <<clock, watermark, status, runtime, delinquency, cycles, applied>>

\* The row is added once: a later delivery finds it by the event's identity.
Ingest(i) == /\ inbox[i].state = "emitted"
             /\ inbox' = [inbox EXCEPT ![i].state = "received"]
             /\ UNCHANGED <<clock, watermark, status, runtime, delinquency, cycles, applied>>

\* The binding knows every field (all its columns are NOT NULL, and the loader
\* needs its subscription), so each one must be in the evidence.
Mismatch(k) == Evidence[Resource(k)] # Fields

BugClassify(e) == IF Mismatch(e.kind) THEN "mismatch" ELSE "reconcile"

\* classify: stale before any comparison of identifiers.
Classify(e) == IF e.at < watermark THEN "stale"
               ELSE IF Mismatch(e.kind) THEN "mismatch" ELSE "reconcile"

Reject(i) ==
    /\ inbox[i].state = "received"
    /\ Classify(inbox[i]) \in {"stale", "mismatch"}
    /\ inbox' = [inbox EXCEPT ![i].state = "rejected", ![i].reason = Classify(inbox[i])]
    /\ UNCHANGED <<clock, watermark, status, runtime, delinquency, cycles, applied>>

-----------------------------------------------------------------------------
(* Reconciliation *)

BugAfterFailure(t) ==
    LET d == delinquency
        missed == d.missed + 1
        next(s, u) == [state |-> s, missed |-> missed, cycle |-> Month(t), until |-> u]
    IN IF missed >= DeletionAfter THEN next("pending_deletion", NoTime)
       ELSE IF missed >= FreezeAfter THEN next("account_frozen", NoTime)
       ELSE next("grace_degraded", t + GraceLength)

\* apply_payment_failure
AfterFailure(t) ==
    LET d == delinquency
        renewed == d.cycle # Month(t)
        missed == IF renewed THEN d.missed + 1 ELSE d.missed
        next(s, u) == [state |-> s, missed |-> missed, cycle |-> Month(t), until |-> u]
    IN IF missed >= DeletionAfter THEN next("pending_deletion", NoTime)
       ELSE IF missed >= FreezeAfter THEN next("account_frozen", NoTime)
       ELSE next("grace_degraded",
                 IF renewed \/ d.until = NoTime THEN t + GraceLength ELSE d.until)

\* resolve_payment_delinquency
Resolved == IF delinquency.state = "none" THEN delinquency
            ELSE [state |-> "resolved", missed |-> 0, cycle |-> NoTime, until |-> NoTime]

AfterEvent(e) == CASE e.kind = "failed" -> AfterFailure(e.at)
                   [] e.kind = "paid" -> Resolved
                   [] OTHER -> delinquency

\* lock_rollover_for_delinquency, called for the first failure only: the row
\* of a delinquency that is over is used again.
Locked(c, t) == IF c.rollover > 0 /\ c.state \in {"available", "restored"}
                THEN [c EXCEPT !.state = "locked", !.deadline = RolloverDeadline(t)]
                ELSE c

\* restore_or_expire_rollover_after_payment
Restored(c, t) == IF c.rollover > 0 /\ c.state = "locked"
                  THEN [c EXCEPT !.state = IF t < c.deadline THEN "restored" ELSE "expired"]
                  ELSE c

CyclesAfter(e) ==
    [i \in DOMAIN cycles |->
        CASE e.kind = "failed" /\ delinquency.state = "none" -> Locked(cycles[i], e.at)
          [] e.kind = "paid" /\ delinquency.state # "none" -> Restored(cycles[i], e.at)
          [] OTHER -> cycles[i]]

Stage(k) == IF k = "failed" THEN "grace"
            ELSE CASE EventStatus(k) \in {"cancelled", "expired"} -> "terminated"
                   [] OTHER -> EventStatus(k)

BugRuntimeAfter(e) ==
    IF runtime.stage # Stage(e.kind)
    THEN [stage |-> Stage(e.kind), at |-> e.at,
          until |-> IF Stage(e.kind) = "grace" THEN AfterEvent(e).until ELSE NoTime]
    ELSE runtime

\* apply_lemon_squeezy_runtime_access
RuntimeAfter(e) ==
    IF runtime.stage # Stage(e.kind) \/ Stage(e.kind) = "grace"
    THEN [stage |-> Stage(e.kind), at |-> e.at,
          until |-> IF Stage(e.kind) = "grace" THEN AfterEvent(e).until ELSE NoTime]
    ELSE runtime

\* What makes the transaction raise: the transition of the subscription, the
\* time or the stage of the runtime, and at the commit the check that a grace
\* stage has a deadline.
Applicable(e) ==
    /\ status \in AllowedSource(EventStatus(e.kind))
    /\ e.at >= runtime.at
    /\ runtime.stage = "terminated" => Stage(e.kind) = "terminated"
    /\ RuntimeAfter(e).stage = "grace" => RuntimeAfter(e).until # NoTime

Processed(i) == /\ inbox[i].state = "received"
                /\ Classify(inbox[i]) = "reconcile"
                /\ inbox' = [inbox EXCEPT ![i].state = "processed"]
                /\ watermark' = inbox[i].at
                /\ applied' = Append(applied, inbox[i])

\* An event of an order moves nothing but the watermark.
ReconcileOrder(i) == /\ inbox[i].kind = "order"
                     /\ Processed(i)
                     /\ UNCHANGED <<clock, status, runtime, delinquency, cycles>>

ReconcileSubscription(i) ==
    /\ inbox[i].kind # "order"
    /\ Processed(i)
    /\ Applicable(inbox[i])
    /\ status' = EventStatus(inbox[i].kind)
    /\ runtime' = RuntimeAfter(inbox[i])
    /\ delinquency' = AfterEvent(inbox[i])
    /\ cycles' = CyclesAfter(inbox[i])
    /\ UNCHANGED clock

EventsTick == /\ clock < MaxClock
              /\ clock' = clock + 1
              /\ UNCHANGED <<inbox, watermark, status, runtime, delinquency, cycles, applied>>

EventsNext == \/ \E k \in Kinds : Emit(k)
              \/ \E i \in DOMAIN inbox : \/ Ingest(i) \/ Reject(i)
                                         \/ ReconcileOrder(i) \/ ReconcileSubscription(i)
              \/ EventsTick

-----------------------------------------------------------------------------
(* Properties *)

Lifecycle == {i \in DOMAIN applied : applied[i].kind # "order"}

\* However deliveries are reordered, repeated or retried, the subscription has
\* the status of the latest event that was reconciled, and none that was
\* reconciled is older than one reconciled before it.
StatusOfLatestEvent ==
    /\ \A i, j \in DOMAIN applied : i < j => applied[i].at <= applied[j].at
    /\ Lifecycle # {} =>
          LET last == CHOOSE i \in Lifecycle : \A j \in Lifecycle : j <= i
          IN status = EventStatus(applied[last].kind)

\* The runtime row agrees with the rows of the subscription and its delinquency,
\* whichever events came in, in whichever order: it is terminated exactly with
\* the subscription, suspended whenever that is, and in grace until the deadline
\* of an open delinquency.  Usage in grace compares the two deadlines and
\* refuses everything when they differ.
RuntimeMatchesBilling ==
    /\ status \in {"cancelled", "expired"} <=> runtime.stage = "terminated"
    /\ status = "suspended" => runtime.stage = "suspended"
    /\ runtime.stage = "grace" => /\ delinquency.state = "grace_degraded"
                                  /\ delinquency.until = runtime.until
                                  /\ runtime.until # NoTime

\* Missed billing cycles are the months with a failed payment since the last
\* one that was paid; a repeated or second failure in a month counts once.
MissedCyclesCounted ==
    LET paid == {i \in DOMAIN applied : applied[i].kind = "paid"}
        failed == {i \in DOMAIN applied : /\ applied[i].kind = "failed"
                                          /\ \A p \in paid : p < i}
    IN delinquency.missed = Cardinality({Month(applied[i].at) : i \in failed})

\* An event that is authentic, bound and not late is not turned down: the only
\* reason to reject one is that a later one was reconciled before it.
OnlyStaleEventsRejected ==
    \A i \in DOMAIN inbox : inbox[i].state = "rejected" => inbox[i].reason = "stale"
=============================================================================

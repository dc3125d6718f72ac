---------------------------- MODULE QuotaLedger ----------------------------
(***************************************************************************)
(* The quota of a subscription (admin_marketplace/subscription_quota_*.py) *)
(* under the events of SubscriptionEvents: usage that is recorded once per *)
(* key, capped in grace and refused when grace is over, and the rollover   *)
(* of what is left of a cycle into the next.                               *)
(*                                                                         *)
(* The time of a usage is the caller's: it may be reported late.  A quota  *)
(* cycle is a month.                                                       *)
(***************************************************************************)
EXTENDS SubscriptionEvents, Functions

CONSTANTS Keys,        \* idempotency keys of usage commands
          Units,       \* units one command may ask for
          Base,        \* monthly allowance of the plan
          GracePercent,
          MaxCycles    \* bound: quota cycles

ASSUME LedgerConfig == /\ Units \subseteq Nat \ {0}
                       /\ {Base, GracePercent, MaxCycles} \subseteq Nat

VARIABLE usage         \* the ledger: a row for each key that was used

ledgerVars == <<eventVars, usage>>

LedgerInit == EventsInit /\ usage = <<>>

Recorded == DOMAIN usage

\* spendable_rollover_units, rollover_eligible_units and available_units of a
\* cycle, which this module never tops up.
Spendable(c) == IF c.state \in {"available", "restored"} THEN c.rollover ELSE 0

Available(c) == LET left == Base + Spendable(c) - c.used
                IN IF left > 0 THEN left ELSE 0

InPeriod(c, t) == Month(t) = c - 1

SumUnits(rows) == SumFunctionOnSet([k \in Recorded |-> usage[k].units], rows)

GraceCap == (Base * GracePercent) \div 100

\* advance_expired_runtime_stage
GraceOver(t) == runtime.stage = "grace" /\ t >= runtime.until

\* runtime_allows_usage
AllowsUsage(t) == \/ runtime.stage = "active"
                  \/ runtime.stage = "grace" /\ t < runtime.until

GraceStart == delinquency.until - GraceLength

BugWithinGraceCap(c, u, t) ==
    /\ delinquency.state = "grace_degraded" /\ delinquency.until = runtime.until
    /\ GraceStart <= t /\ t < delinquency.until
    /\ u <= GraceCap

\* _enforce_degraded_grace_cap
WithinGraceCap(c, u, t) ==
    LET since == {k \in Recorded : usage[k].cycle = c /\ usage[k].at >= GraceStart}
    IN /\ delinquency.state = "grace_degraded" /\ delinquency.until = runtime.until
       /\ GraceStart <= t /\ t < delinquency.until
       /\ SumUnits(since) + u <= GraceCap

BugRecordUsage(k, c, u, t) ==
    /\ status = "active"
    /\ AllowsUsage(t) /\ InPeriod(c, t)
    /\ runtime.stage = "grace" => WithinGraceCap(c, u, t)
    /\ u <= Available(cycles[c])
    /\ cycles' = [cycles EXCEPT ![c].used = @ + u]
    /\ usage' = [x \in Recorded \cup {k} |->
          IF x = k THEN [cycle |-> c, units |-> u, at |-> t, grace |-> NoTime]
          ELSE usage[x]]
    /\ UNCHANGED <<clock, inbox, watermark, status, runtime, delinquency, applied>>

RecordUsage(k, c, u, t) ==
    /\ k \notin Recorded /\ status = "active"
    /\ AllowsUsage(t) /\ InPeriod(c, t)
    /\ runtime.stage = "grace" => WithinGraceCap(c, u, t)
    /\ u <= Available(cycles[c])
    /\ cycles' = [cycles EXCEPT ![c].used = @ + u]
    /\ usage' = [x \in Recorded \cup {k} |->
          IF x = k THEN [cycle |-> c, units |-> u, at |-> t,
                         grace |-> IF runtime.stage = "grace" THEN GraceStart ELSE NoTime]
          ELSE usage[x]]
    /\ UNCHANGED <<clock, inbox, watermark, status, runtime, delinquency, applied>>

BugUsageEndsGrace(t) ==
    /\ status = "active" /\ Recorded # Keys
    /\ GraceOver(t)
    /\ runtime' = [stage |-> "suspended", at |-> 0, until |-> NoTime]
    /\ UNCHANGED <<clock, inbox, watermark, status, delinquency, cycles, applied, usage>>

\* A usage after the deadline is refused, and the suspension is committed.
UsageEndsGrace(t) ==
    /\ status = "active" /\ Recorded # Keys
    /\ GraceOver(t)
    /\ runtime' = [stage |-> "suspended", at |-> runtime.until, until |-> NoTime]
    /\ UNCHANGED <<clock, inbox, watermark, status, delinquency, cycles, applied, usage>>

\* Once for each source cycle; nothing asks whether its period is over.
RolloverQuota ==
    /\ status = "active" /\ Len(cycles) < MaxCycles
    /\ cycles' = Append(cycles, NewCycle(Available(cycles[Len(cycles)])))
    /\ UNCHANGED <<clock, inbox, watermark, status, runtime, delinquency, applied, usage>>

LedgerNext ==
    \/ EventsNext /\ UNCHANGED usage
    \/ RolloverQuota
    \/ \E t \in 0..clock :
          \/ UsageEndsGrace(t)
          \/ \E k \in Keys, c \in DOMAIN cycles, u \in Units : RecordUsage(k, c, u, t)

LedgerSpec == LedgerInit /\ [][LedgerNext]_ledgerVars

-----------------------------------------------------------------------------
(* Properties *)

\* The counter of a cycle is the sum of its ledger rows, and within what the
\* cycle ever allowed, also when its rollover is locked after it was spent.
LedgerBalances ==
    \A c \in DOMAIN cycles :
        /\ cycles[c].used = SumUnits({k \in Recorded : usage[k].cycle = c})
        /\ cycles[c].used <= Base + cycles[c].rollover

\* In one grace period no cycle gives more than the degraded share of its base,
\* whatever is reported late and however often the payment fails.
GraceIsDegraded ==
    \A c \in DOMAIN cycles : \A s \in {usage[k].grace : k \in Recorded} \ {NoTime} :
        SumUnits({k \in Recorded : usage[k].cycle = c /\ usage[k].grace = s}) <= GraceCap

\* After a suspension because grace ran out, only an event the provider dated
\* at or after the deadline gives access back.
NoAccessAfterGrace ==
    [][runtime.stage = "suspended" /\ status = "active" /\ runtime'.stage # "suspended"
         => /\ Len(applied') > Len(applied)
            /\ applied'[Len(applied')].at >= delinquency.until]_ledgerVars
=============================================================================

------------------------------- MODULE TopUps -------------------------------
(***************************************************************************)
(* Top-ups of one quota cycle (admin_marketplace/subscription_top_up_*.py, *)
(* lemon_squeezy_top_up_*.py, local_tunisia_top_up_payment.py): the order, *)
(* its checkout at the payment provider, the payment, the grant and the    *)
(* refund.                                                                 *)
(*                                                                         *)
(* A purchase request places the order and makes the checkout in several   *)
(* transactions with a call of the provider between them, may crash        *)
(* between any two, and may be repeated at the same time.  A payment or a  *)
(* refund is delivered any number of times and decided in one transaction, *)
(* which changes nothing when it raises.                                   *)
(***************************************************************************)
EXTENDS Integers, FiniteSets

CONSTANTS LemonOrders, LocalOrders, \* orders by channel, one idempotency key each
          Requests,                 \* purchase requests at the same time
          Payments,                 \* the times a checkout may be paid
          Allowance, Carried,       \* base and rollover units of the cycle
          Bundle,                   \* units of a top-up
          ThresholdPercent

Orders == LemonOrders \cup LocalOrders

ASSUME TopUpConfig ==
    /\ {Allowance, Carried, Bundle, ThresholdPercent} \subseteq Nat /\ Bundle > 0
    /\ LemonOrders \cap LocalOrders = {} /\ Payments \subseteq Nat \ {0}

VARIABLES order,      \* state of each order
          checkout,   \* its checkout_creation_status
          step,       \* where each request is, and with which order
          offered,    \* how many checkouts the provider has for each order
          paid,       \* payments made at the provider
          refunds,    \* refunds made there: "full", "partial" or "none"
          refundDone, \* refunds that were processed
          grant,      \* the payment each order was granted for, 0 if none
          reversal,   \* decision on the grant of each order
          quota,      \* units topped up, units used, whether rollover is spendable
          current     \* the cycle is the current one of an active subscription

topUpVars == <<order, checkout, step, offered, paid, refunds, refundDone, grant,
               reversal, quota, current>>

Idle == [at |-> "idle", order |-> CHOOSE o \in Orders : TRUE]

TopUpsInit ==
    /\ order = [o \in Orders |-> "none"]
    /\ checkout = [o \in Orders |-> "not_started"]
    /\ step = [r \in Requests |-> Idle]
    /\ offered = [o \in Orders |-> 0]
    /\ paid = {} /\ refundDone = {}
    /\ refunds = [p \in LemonOrders \X Payments |-> "none"]
    /\ grant = [o \in Orders |-> 0] /\ reversal = [o \in Orders |-> "none"]
    /\ quota = [topUp |-> 0, used |-> 0, carried |-> Carried]
    /\ current = TRUE

\* _ceil_percent
Threshold == (Allowance * ThresholdPercent + 99) \div 100

Limit == Allowance + quota.carried + quota.topUp

Eligible == current /\ quota.used >= Threshold

-----------------------------------------------------------------------------
(* Purchase *)

\* create_subscription_top_up_order: a key that has an order returns it.
PlaceOrder(r, o) ==
    /\ step[r].at = "idle"
    /\ order[o] = "none" => Eligible
    /\ order' = IF order[o] = "none" THEN [order EXCEPT ![o] = "awaiting_payment"] ELSE order
    /\ step' = IF o \in LocalOrders THEN step
               ELSE [step EXCEPT ![r] =
                        [at |-> IF order[o] = "none" THEN "new" ELSE "replay", order |-> o]]
    /\ UNCHANGED <<checkout, offered, paid, refunds, refundDone, grant, reversal, quota, current>>

Goto(r, s) == step' = [step EXCEPT ![r].at = s]

Stop(r) == step' = [step EXCEPT ![r] = Idle]

Trade == <<offered, paid, refunds, refundDone, grant, reversal, quota, current>>

BugInspectReplay(r) ==
    /\ step[r].at = "replay"
    /\ CASE checkout[step[r].order] = "ready" -> Stop(r)
         [] OTHER -> Goto(r, "call")
    /\ UNCHANGED <<order, checkout, Trade>>

\* A replay returns a checkout that is ready, recovers one that is not known,
\* and otherwise goes on like a first request.
InspectReplay(r) ==
    /\ step[r].at = "replay"
    /\ CASE checkout[step[r].order] = "ready" -> Stop(r)
         [] checkout[step[r].order] \in {"creating", "uncertain"} -> Goto(r, "recover")
         [] OTHER -> Goto(r, "new")
    /\ UNCHANGED <<order, checkout, Trade>>

BeginCheckout(r) ==
    LET o == step[r].order
    IN /\ step[r].at = "new"
       /\ IF order[o] = "awaiting_payment" /\ checkout[o] = "not_started"
          THEN checkout' = [checkout EXCEPT ![o] = "creating"] /\ Goto(r, "call")
          ELSE UNCHANGED checkout /\ Stop(r)
       /\ UNCHANGED <<order, Trade>>

\* The provider makes a checkout or not, and its answer arrives or not.
CallProvider(r) ==
    LET o == step[r].order
    IN /\ step[r].at = "call"
       /\ \E made, answered \in BOOLEAN :
             /\ answered => made
             /\ offered' = IF made THEN [offered EXCEPT ![o] = @ + 1] ELSE offered
             /\ Goto(r, IF answered THEN "bind" ELSE "unsure")
       /\ UNCHANGED <<order, checkout, paid, refunds, refundDone, grant, reversal, quota, current>>

\* The order must still be the one this request marked as creating.
BindCheckout(r) ==
    LET o == step[r].order
    IN /\ step[r].at = "bind" /\ Stop(r)
       /\ checkout' = IF checkout[o] = "creating" THEN [checkout EXCEPT ![o] = "ready"]
                      ELSE checkout
       /\ UNCHANGED <<order, Trade>>

MarkUncertain(r) ==
    LET o == step[r].order
    IN /\ step[r].at = "unsure" /\ Stop(r)
       /\ checkout' = IF checkout[o] = "creating" THEN [checkout EXCEPT ![o] = "uncertain"]
                      ELSE checkout
       /\ UNCHANGED <<order, Trade>>

\* Recovery asks the provider and goes on with exactly one match.
FindCheckout(r) ==
    LET o == step[r].order
    IN /\ step[r].at = "recover"
       /\ IF order[o] = "awaiting_payment" /\ offered[o] = 1 THEN Goto(r, "rebind") ELSE Stop(r)
       /\ UNCHANGED <<order, checkout, Trade>>

RebindCheckout(r) ==
    LET o == step[r].order
    IN /\ step[r].at = "rebind" /\ Stop(r)
       /\ checkout' = IF order[o] = "awaiting_payment" /\ checkout[o] \in {"creating", "uncertain"}
                      THEN [checkout EXCEPT ![o] = "ready"] ELSE checkout
       /\ UNCHANGED <<order, Trade>>

CrashRequest(r) == /\ step[r].at # "idle" /\ Stop(r)
                   /\ UNCHANGED <<order, checkout, Trade>>

-----------------------------------------------------------------------------
(* Payment, grant and refund *)

Buying == <<order, checkout, step, offered>>

\* The customer pays at the provider; a checkout that exists can be paid,
\* whether or not this system knows it.
Pay(o, n) == /\ offered[o] > 0 /\ <<o, n>> \notin paid
             /\ \A m \in Payments : m < n => <<o, m>> \in paid
             /\ paid' = paid \cup {<<o, n>>}
             /\ UNCHANGED <<Buying, refunds, refundDone, grant, reversal, quota, current>>

Refund(p, extent) == /\ p \in paid /\ refunds[p] = "none"
                     /\ refunds' = [refunds EXCEPT ![p] = extent]
                     /\ UNCHANGED <<Buying, paid, refundDone, grant, reversal, quota, current>>

BugApplyGrant(o, n) ==
    /\ Eligible
    /\ grant' = [grant EXCEPT ![o] = n]
    /\ quota' = [quota EXCEPT !.topUp = @ + Bundle]
    /\ order' = [order EXCEPT ![o] = "granted"]

\* apply_verified_subscription_top_up_in_uow
ApplyGrant(o, n) ==
    /\ grant[o] = 0 /\ order[o] = "awaiting_payment" /\ Eligible
    /\ grant' = [grant EXCEPT ![o] = n]
    /\ quota' = [quota EXCEPT !.topUp = @ + Bundle]
    /\ order' = [order EXCEPT ![o] = "granted"]

ProcessPayment(p) ==
    /\ p \in paid
    /\ ApplyGrant(p[1], p[2])
    /\ UNCHANGED <<checkout, step, offered, paid, refunds, refundDone, reversal, current>>

\* An administrator confirms a local payment of the order's amount.
VerifyLocalPayment(o) ==
    /\ o \in LocalOrders
    /\ ApplyGrant(o, 1)
    /\ UNCHANGED <<checkout, step, offered, paid, refunds, refundDone, reversal, current>>

\* reverse_subscription_top_up_in_uow; it looks for the grant by the order.
Reverse(o) ==
    LET after == quota.topUp - Bundle
        safe == quota.used <= Allowance + quota.carried + after
    IN /\ grant[o] # 0 /\ reversal[o] = "none" /\ order[o] = "granted"
       /\ after >= 0
       /\ reversal' = [reversal EXCEPT ![o] = IF safe THEN "reversed" ELSE "manual_review"]
       /\ quota' = IF safe THEN [quota EXCEPT !.topUp = after] ELSE quota

ProcessRefund(p) ==
    /\ refunds[p] # "none" /\ p \notin refundDone
    /\ refundDone' = refundDone \cup {p}
    /\ IF refunds[p] = "full" THEN Reverse(p[1]) ELSE UNCHANGED <<reversal, quota>>
    /\ UNCHANGED <<Buying, paid, refunds, grant, current>>

UseUnits(u) == /\ current /\ quota.used + u <= Limit
               /\ quota' = [quota EXCEPT !.used = @ + u]
               /\ UNCHANGED <<Buying, paid, refunds, refundDone, grant, reversal, current>>

\* A delinquency locks the rollover of the cycle, which may be spent already.
LockRollover == /\ quota.carried > 0
                /\ quota' = [quota EXCEPT !.carried = 0]
                /\ UNCHANGED <<Buying, paid, refunds, refundDone, grant, reversal, current>>

\* The month, or the subscription, ends.
PeriodEnds == /\ current /\ current' = FALSE
              /\ UNCHANGED <<Buying, paid, refunds, refundDone, grant, reversal, quota>>

TopUpsNext ==
    \/ \E r \in Requests :
          \/ \E o \in Orders : PlaceOrder(r, o)
          \/ InspectReplay(r) \/ BeginCheckout(r) \/ CallProvider(r) \/ BindCheckout(r)
          \/ MarkUncertain(r) \/ FindCheckout(r) \/ RebindCheckout(r) \/ CrashRequest(r)
    \/ \E o \in LemonOrders, n \in Payments :
          \/ Pay(o, n) \/ ProcessPayment(<<o, n>>) \/ ProcessRefund(<<o, n>>)
          \/ \E extent \in {"full", "partial"} : Refund(<<o, n>>, extent)
    \/ \E o \in LocalOrders : VerifyLocalPayment(o)
    \/ \E u \in {1, Bundle} : UseUnits(u)
    \/ LockRollover
    \/ PeriodEnds

TopUpsSpec == TopUpsInit /\ [][TopUpsNext]_topUpVars

-----------------------------------------------------------------------------
(* Properties *)

\* Whatever is repeated, at the same time or after a crash in between, the
\* provider makes one checkout for an order at most, and an order that names a
\* ready checkout has one.
OneCheckoutPerOrder ==
    \A o \in Orders : /\ offered[o] <= 1
                      /\ checkout[o] = "ready" => offered[o] = 1

\* The units topped up are those of the grants that were not reversed, each for a
\* payment that was made and taken back only for a full refund: no repeated
\* payment, confirmation or refund adds or takes them twice.  A refund never
\* leaves more units used than there were to use.
TopUpsAreGrants ==
    /\ quota.topUp = Bundle * Cardinality({o \in Orders : /\ grant[o] # 0
                                                          /\ reversal[o] # "reversed"})
    /\ quota.used <= Allowance + Carried + quota.topUp
    /\ \A o \in LemonOrders :
          /\ grant[o] # 0 => <<o, grant[o]>> \in paid
          /\ reversal[o] # "none" => \E n \in Payments : refunds[<<o, n>>] = "full"
=============================================================================

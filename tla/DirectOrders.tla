---------------------------- MODULE DirectOrders ----------------------------
(***************************************************************************)
(* Direct sales (admin_marketplace): order, contract, the transfers that   *)
(* the customer reports, their verification and reconciliation by an       *)
(* administrator, and the activation of the subscription, next to          *)
(* activations that come from an assessment.                               *)
(*                                                                         *)
(* A call is one transaction on locked rows; what raises, or breaks a      *)
(* constraint of the database, changes nothing, and neither does a repeat  *)
(* that the code recognises.  Activation is split where the row it looks   *)
(* for may not exist yet and hence cannot be locked: between the search    *)
(* for an active subscription and the insertion of one.                    *)
(***************************************************************************)
CONSTANTS Purchases,     \* direct orders, one idempotency key each
          Assessments,   \* approved assessments, each a source of a subscription
          Owner,         \* their customers
          Transfers,     \* transfer references, unique in the evidence
          DecisionKeys,  \* idempotency keys of reconciliation decisions
          Nobody

Sources == Purchases \cup Assessments

ASSUME DirectConfig == Purchases \cap Assessments = {} /\ DOMAIN Owner = Sources

VARIABLES purchase,    \* the order rows
          evidence,    \* the evidence row of each transfer
          verdict,     \* the payment verification of each order
          case,        \* the reconciliation case of each transfer
          decided,     \* <<transfer, action, key>> of the decisions that committed
          entitlement, \* status of the subscription of each source
          working,     \* the activations past their checks
          eligible,    \* customers eligible for direct sales and automatic activation
          onOffer      \* the offer is published and unchanged

directVars == <<purchase, evidence, verdict, case, decided, entitlement, working,
                eligible, onOffer>>

NoEvidence == [order |-> Nobody, exact |-> FALSE, status |-> "none"]
NoVerdict == [status |-> "none", by |-> Nobody]
NoCase == [action |-> "none", key |-> Nobody]

DirectInit ==
    /\ purchase = [o \in Purchases |->
                     [status |-> "none", contract |-> "pending", payment |-> "pending"]]
    /\ evidence = [t \in Transfers |-> NoEvidence]
    /\ verdict = [o \in Purchases |-> NoVerdict]
    /\ case = [t \in Transfers |-> NoCase] /\ decided = {}
    /\ entitlement = [s \in Sources |-> "none"] /\ working = {}
    /\ eligible = {Owner[s] : s \in Sources} /\ onOffer = TRUE

\* An activation holds the rows of its order and of its customer's eligibility.
Unlocked(o) == o \notin working

CustomerUnlocked(c) == \A o \in working \cap Purchases : Owner[o] # c

-----------------------------------------------------------------------------
(* Order, contract, report *)

CreateOrder(o) ==
    /\ purchase[o].status = "none"
    /\ CustomerUnlocked(Owner[o]) /\ Owner[o] \in eligible /\ onOffer
    /\ purchase' = [purchase EXCEPT ![o].status = "awaiting_contract"]
    /\ UNCHANGED <<evidence, verdict, case, decided, entitlement, working, eligible, onOffer>>

CompleteContract(o) ==
    /\ purchase[o].status = "awaiting_contract" /\ purchase[o].contract = "pending"
    /\ purchase' = [purchase EXCEPT ![o].contract = "completed",
                                    ![o].status = "awaiting_payment"]
    /\ UNCHANGED <<evidence, verdict, case, decided, entitlement, working, eligible, onOffer>>

\* The order is put back in payment or in review.
Reopened(o, exact) ==
    [purchase EXCEPT
        ![o].status = IF exact THEN "awaiting_payment" ELSE "payment_under_review",
        ![o].payment = IF exact THEN "customer_reported" ELSE "requires_review"]

\* exact: reference, amount, currency and destination all match the order.
Report(t, o, exact) ==
    /\ evidence[t] = NoEvidence
    /\ Unlocked(o) /\ purchase[o].contract = "completed"
    /\ purchase[o].status \in {"awaiting_payment", "payment_under_review"}
    /\ purchase[o].payment \in {"pending", "customer_reported", "requires_review"}
    /\ evidence' = [evidence EXCEPT ![t] =
                      [order |-> o, exact |-> exact,
                       status |-> IF exact THEN "matched" ELSE "requires_review"]]
    /\ purchase' = Reopened(o, exact)
    /\ UNCHANGED <<verdict, case, decided, entitlement, working, eligible, onOffer>>

-----------------------------------------------------------------------------
(* Decisions of an administrator *)

\* An accepted case stands for an exact match.
Verifiable(t) ==
    LET e == evidence[t]
    IN /\ (e.status = "matched" /\ e.exact) \/ case[t].action = "accept_match"
       /\ purchase[e.order].payment = "customer_reported"
       /\ purchase[e.order].status = "awaiting_payment"

\* An order has one verification, whatever becomes of it.
VerifyPayment(t) ==
    LET o == evidence[t].order
    IN /\ evidence[t] # NoEvidence /\ Unlocked(o)
       /\ verdict[o] = NoVerdict /\ purchase[o].contract = "completed" /\ Verifiable(t)
       /\ verdict' = [verdict EXCEPT ![o] = [status |-> "verified", by |-> t]]
       /\ purchase' = [purchase EXCEPT ![o].status = "ready_for_activation",
                                       ![o].payment = "verified"]
       /\ UNCHANGED <<evidence, case, decided, entitlement, working, eligible, onOffer>>

RejectPayment(t) ==
    LET o == evidence[t].order
    IN /\ evidence[t] # NoEvidence /\ Unlocked(o)
       /\ verdict[o] = NoVerdict /\ purchase[o].contract = "completed"
       /\ verdict' = [verdict EXCEPT ![o] = [status |-> "rejected", by |-> t]]
       /\ evidence' = [evidence EXCEPT ![t].status = "rejected"]
       /\ purchase' = [purchase EXCEPT ![o].status = "requires_review",
                                       ![o].payment = "rejected"]
       /\ UNCHANGED <<case, decided, entitlement, working, eligible, onOffer>>

\* The deduplication keys of the notifications that decisions have left in the
\* outbox: event (one for each action), order and idempotency key.
Notified == {<<d[2], evidence[d[1]].order, d[3]>> : d \in decided}

BugFreshDecision(t, action, k) == \A u \in Transfers : case[u].key # k

\* A case remembers the key of its last decision only; the outbox all of them.
FreshDecision(t, action, k) ==
    /\ \A u \in Transfers : case[u].key # k
    /\ <<action, evidence[t].order, k>> \notin Notified

\* "reject", "link", "unlink" and "reevaluate" write a resolution that the
\* database does not allow and are rolled back.
Reconcile(t, action, k) ==
    LET o == evidence[t].order
    IN /\ evidence[t] # NoEvidence /\ Unlocked(o) /\ FreshDecision(t, action, k)
       /\ case' = [case EXCEPT ![t] = [action |-> action, key |-> k]]
       /\ decided' = decided \cup {<<t, action, k>>}
       /\ evidence' = [evidence EXCEPT ![t].status =
                         IF action = "accept_match" THEN "matched" ELSE "requires_review"]
       /\ purchase' = IF purchase[o].status = "activated" THEN purchase
                      ELSE Reopened(o, action = "accept_match")
       /\ UNCHANGED <<verdict, entitlement, working, eligible, onOffer>>

-----------------------------------------------------------------------------
(* Subscriptions *)

HasActive(c) == \E s \in Sources : Owner[s] = c /\ entitlement[s] = "active"

\* _load_verified_evidence: acceptance makes a verdict possible and not this.
PaidInFull(o) == /\ verdict[o].status = "verified"
                 /\ evidence[verdict[o].by].status = "matched" /\ evidence[verdict[o].by].exact

\* Activation follows a verification, or a repeat of it, at any later time.
BeginActivation(o) ==
    /\ purchase[o].status = "ready_for_activation" /\ purchase[o].contract = "completed"
    /\ purchase[o].payment = "verified" /\ PaidInFull(o)
    /\ CustomerUnlocked(Owner[o]) /\ Owner[o] \in eligible
    /\ ~HasActive(Owner[o]) /\ onOffer
    /\ working' = working \cup {o}
    /\ UNCHANGED <<purchase, evidence, verdict, case, decided, entitlement, eligible, onOffer>>

BeginAssessment(a) ==
    /\ entitlement[a] = "none" /\ a \notin working /\ ~HasActive(Owner[a])
    /\ working' = working \cup {a}
    /\ UNCHANGED <<purchase, evidence, verdict, case, decided, entitlement, eligible, onOffer>>

BugInserted(s) == entitlement' = [entitlement EXCEPT ![s] = "active"]

\* The unique index on the customers of active subscriptions has the last word.
Inserted(s) == entitlement' = IF HasActive(Owner[s]) THEN entitlement
                              ELSE [entitlement EXCEPT ![s] = "active"]

CommitActivation(s) ==
    /\ s \in working /\ working' = working \ {s}
    /\ Inserted(s)
    /\ purchase' = IF s \in Purchases /\ entitlement' # entitlement
                   THEN [purchase EXCEPT ![s].status = "activated"] ELSE purchase
    /\ UNCHANGED <<evidence, verdict, case, decided, eligible, onOffer>>

AbortActivation(s) ==
    /\ s \in working /\ working' = working \ {s}
    /\ UNCHANGED <<purchase, evidence, verdict, case, decided, entitlement, eligible, onOffer>>

\* A webhook of SubscriptionEvents.
Suspend(s) ==
    /\ entitlement[s] = "active" /\ entitlement' = [entitlement EXCEPT ![s] = "suspended"]
    /\ UNCHANGED <<purchase, evidence, verdict, case, decided, working, eligible, onOffer>>

Resume(s) ==
    /\ entitlement[s] = "suspended" /\ Inserted(s)
    /\ UNCHANGED <<purchase, evidence, verdict, case, decided, working, eligible, onOffer>>

\* Eligibility (for direct sales and for automatic activation, told apart only by
\* the time they are looked at) and offers are maintained elsewhere.
ChangeEligibility(c) ==
    /\ CustomerUnlocked(c)
    /\ eligible' = IF c \in eligible THEN eligible \ {c} ELSE eligible \cup {c}
    /\ UNCHANGED <<purchase, evidence, verdict, case, decided, entitlement, working, onOffer>>

WithdrawOffer ==
    /\ onOffer /\ working \cap Purchases = {} /\ onOffer' = FALSE
    /\ UNCHANGED <<purchase, evidence, verdict, case, decided, entitlement, working, eligible>>

DirectNext ==
    \/ \E o \in Purchases : CreateOrder(o) \/ CompleteContract(o) \/ BeginActivation(o)
    \/ \E t \in Transfers :
          \/ \E o \in Purchases, exact \in BOOLEAN : Report(t, o, exact)
          \/ VerifyPayment(t) \/ RejectPayment(t)
          \/ \E action \in {"accept_match", "review"}, k \in DecisionKeys :
                Reconcile(t, action, k)
    \/ \E a \in Assessments : BeginAssessment(a)
    \/ \E s \in Sources : CommitActivation(s) \/ AbortActivation(s) \/ Suspend(s) \/ Resume(s)
    \/ \E s \in Sources : ChangeEligibility(Owner[s])
    \/ WithdrawOffer

DirectSpec == DirectInit /\ [][DirectNext]_directVars

-----------------------------------------------------------------------------
(* Properties *)

\* Whatever is decided, revised and activated at the same time: an order has a
\* subscription only with a completed contract and a verified report of its own
\* that matched exactly, and a customer has one active subscription at most.
OnePaidSubscription ==
    /\ \A o \in Purchases : entitlement[o] # "none" =>
          /\ purchase[o].status = "activated" /\ purchase[o].contract = "completed"
          /\ verdict[o].status = "verified"
          /\ evidence[verdict[o].by].order = o /\ evidence[verdict[o].by].exact
    /\ \A r, s \in Sources : r # s /\ Owner[r] = Owner[s] =>
          ~(entitlement[r] = "active" /\ entitlement[s] = "active")

\* A repeat that arrives late never brings back a decision that another one has
\* replaced, although a case keeps no more than its last key.
SupersededStaysSuperseded ==
    [][\A t \in Transfers : case'[t] # case[t] =>
          <<t, case'[t].action, case'[t].key>> \notin decided]_directVars
=============================================================================

----------------------------- MODULE MCCommerce -----------------------------
(* The marketplace: one subscription with its webhooks and quota ledger,   *)
(* the top-ups of one quota cycle, and the direct orders of one customer.  *)
(* "focus" is the one that runs, the others stay in their initial states.  *)
EXTENDS QuotaLedger, TopUps, DirectOrders, TLC

VARIABLE focus

commerceVars == <<focus, ledgerVars, topUpVars, directVars>>

CommerceInit == /\ focus \in {"subscription", "top-ups", "direct"}
                /\ LedgerInit /\ TopUpsInit /\ DirectInit

CommerceNext ==
  /\ UNCHANGED focus
  /\ \/ focus = "subscription" /\ LedgerNext /\ UNCHANGED <<topUpVars, directVars>>
     \/ focus = "top-ups" /\ TopUpsNext /\ UNCHANGED <<ledgerVars, directVars>>
     \/ focus = "direct" /\ DirectNext /\ UNCHANGED <<ledgerVars, topUpVars>>

CommerceSpec == CommerceInit /\ [][CommerceNext]_commerceVars

\* "created", "expired" and "refunded" differ from these only in the status.
MCKinds == {"paused", "cancelled", "failed", "paid", "order"}

\* Two orders and an assessment compete for one customer.
MCOwner == [s \in Sources |-> "customer"]

\* Three events within a month, or two over the two months a rollover is kept.
Horizon == Len(inbox) = MaxEvents => clock <= 2

\* The parts share the values of their keys, and of requests and references, so
\* that the same permutations serve each.
KeySymmetry == Permutations(Keys) \cup Permutations(Requests)
=============================================================================

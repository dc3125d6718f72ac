---------------------------- MODULE MCAccounts -----------------------------
(* Three parts of the identity service: the mail outbox, the sessions and  *)
(* the factors of a user.  Each is checked on its own: "focus" is the one  *)
(* that runs, the others stay in their initial states.                     *)
EXTENDS AuthDelivery, IdentitySessions, MfaFactors

VARIABLE focus

accountVars == <<focus, deliveryVars, sessionVars, mfaVars>>

AccountsInit == /\ focus \in {"delivery", "sessions", "mfa"}
                /\ DeliveryInit /\ SessionsInit /\ MfaInit

AccountsNext ==
  /\ UNCHANGED focus
  /\ \/ focus = "delivery" /\ DeliveryNext /\ UNCHANGED <<sessionVars, mfaVars>>
     \/ focus = "sessions" /\ SessionsNext /\ UNCHANGED <<deliveryVars, mfaVars>>
     \/ focus = "mfa" /\ MfaNext /\ UNCHANGED <<deliveryVars, sessionVars>>

\* The clock goes on, and a delivery worker that is up goes on with its loop.
AccountsFairness ==
  /\ WF_deliveryVars(focus = "delivery" /\ DeliveryTick)
  /\ \A d \in Dispatchers : WF_deliveryVars(focus = "delivery" /\ Dispatch(d))

AccountsSpec == AccountsInit /\ [][AccountsNext]_accountVars /\ AccountsFairness
=============================================================================

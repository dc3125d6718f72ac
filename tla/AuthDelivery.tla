---------------------------- MODULE AuthDelivery ----------------------------
(***************************************************************************)
(* Registration, address verification and the e-mail outbox of the         *)
(* identity service (auth/registration_service.py,                         *)
(* auth/email_verification_service.py, the recovery-address services and   *)
(* auth/delivery_*.py), for one account.                                   *)
(*                                                                         *)
(* Every operation of a service is one database transaction that locks the *)
(* rows it changes, so it is one action.  A dispatcher is not one          *)
(* transaction: it claims a batch, asks the provider to send, and settles  *)
(* the row in a later transaction fenced by the claim id.  Between these   *)
(* it may crash, or outlive its lease.                                     *)
(*                                                                         *)
(* Times are kept as what is left of them: a row's wait, its lease, a      *)
(* token's life.  "available_at <= now" is "wait = 0".  Token i is mailed   *)
(* by outbox row i, because each is added with its row.                    *)
(***************************************************************************)
EXTENDS Integers, Sequences, FiniteSets

CONSTANTS Dispatchers,   \* the delivery worker processes
          MaxMail,       \* bound: tokens (and outbox rows) ever issued
          MaxFaults,     \* bound: crashes and overrun leases
          MaxRedrives,   \* bound: operator redrives
          MaxAttempts, Lease, RetryBase, RetryMax, TokenTtl, Cooldown

ASSUME DeliveryConfig ==
    /\ {MaxMail, MaxFaults, MaxRedrives} \subseteq Nat
    /\ {MaxAttempts, Lease, RetryBase, TokenTtl, Cooldown} \subseteq Nat \ {0}
    /\ RetryMax \in Nat /\ RetryMax >= RetryBase

VARIABLES account,    \* status of the identity user, "none" before sign-up
          address,    \* status of the recovery address row
          tokens,     \* action tokens, in order of creation
          outbox,     \* delivery rows, one for each token
          batch,      \* the claims each dispatcher still has to work off
          outcome,    \* what happened to the first claim of its batch
          sent,       \* rows the provider accepted: what is in the mailbox
          faults, redrives

deliveryVars == <<account, address, tokens, outbox, batch, outcome, sent,
                  faults, redrives>>

Purposes == {"verify_email", "verify_recovery_email"}

NewToken(p) == [purpose |-> p, ttl |-> TokenTtl, cooldown |-> Cooldown,
                state |-> "active"]

NewRow == [wait |-> 0, attempts |-> 0, claim |-> 0, lease |-> 0,
           status |-> "open"]

Active(p) == {i \in DOMAIN tokens : /\ tokens[i].purpose = p
                                    /\ tokens[i].state = "active"}

Usable(i) == tokens[i].state = "active" /\ tokens[i].ttl > 0

WithState(p, st) ==
    [i \in DOMAIN tokens |->
        IF i \in Active(p) THEN [tokens[i] EXCEPT !.state = st] ELSE tokens[i]]

DeliveryInit ==
    /\ account = "none" /\ address = "none"
    /\ tokens = <<>> /\ outbox = <<>> /\ sent = {}
    /\ batch = [d \in Dispatchers |-> <<>>]
    /\ outcome = [d \in Dispatchers |-> "none"]
    /\ faults = 0 /\ redrives = 0

-----------------------------------------------------------------------------
(* The services *)

Issue(ts, p) == /\ Len(tokens) < MaxMail
                /\ tokens' = Append(ts, NewToken(p))
                /\ outbox' = Append(outbox, NewRow)

Dispatching == <<batch, outcome, sent, faults, redrives>>

Register == /\ account = "none"
            /\ account' = "pending_verification"
            /\ Issue(tokens, "verify_email")
            /\ UNCHANGED <<address, Dispatching>>

\* The token is the one a mail in the mailbox carries.
VerifyEmail(i) ==
    /\ i \in Active("verify_email") \cap sent
    /\ tokens[i].ttl > 0
    /\ tokens' = [tokens EXCEPT ![i].state = "consumed"]
    /\ account' = "active"
    /\ UNCHANGED <<address, outbox, Dispatching>>

CoolingDown == \E i \in Active("verify_email") : tokens[i].cooldown > 0

BugResend == /\ account = "pending_verification"
             /\ ~CoolingDown
             /\ Issue(tokens, "verify_email")
             /\ UNCHANGED <<account, address, Dispatching>>

Resend == /\ account = "pending_verification"
          /\ ~CoolingDown
          /\ Issue(WithState("verify_email", "invalidated"), "verify_email")
          /\ UNCHANGED <<account, address, Dispatching>>

\* A new address, or another one in the same row; its tokens stay as they are.
SetRecoveryPending == /\ account = "active"
                      /\ address' = "pending"
                      /\ UNCHANGED <<account, tokens, outbox, Dispatching>>

IssueRecoveryMail ==
    /\ account = "active" /\ address = "pending"
    /\ Issue(WithState("verify_recovery_email", "consumed"), "verify_recovery_email")
    /\ UNCHANGED <<account, address, Dispatching>>

VerifyRecoveryEmail(i) ==
    /\ i \in Active("verify_recovery_email") \cap sent
    /\ tokens[i].ttl > 0 /\ address = "pending"
    /\ tokens' = [tokens EXCEPT ![i].state = "consumed"]
    /\ address' = "verified"
    /\ UNCHANGED <<account, outbox, Dispatching>>

InvalidateRecoveryMail ==
    /\ account = "active"
    /\ tokens' = WithState("verify_recovery_email", "consumed")
    /\ UNCHANGED <<account, address, outbox, Dispatching>>

RevokeRecoveryEmail == /\ account = "active"
                       /\ address \in {"pending", "verified"}
                       /\ address' = "revoked"
                       /\ UNCHANGED <<account, tokens, outbox, Dispatching>>

-----------------------------------------------------------------------------
(* A dispatcher *)

\* _ineligible_error as far as it looks at the claim's snapshot of the rows:
\* the recipient, the user's status and the token.  Expiry is tested later.
Fit(i) == /\ tokens[i].state = "active"
          /\ IF tokens[i].purpose = "verify_email"
             THEN account = "pending_verification"
             ELSE account = "active" /\ address = "pending"

BugClaimable(i) == /\ outbox[i].status = "open"
                   /\ outbox[i].wait = 0
                   /\ outbox[i].claim = 0

Claimable(i) == /\ outbox[i].status = "open"
                /\ outbox[i].wait = 0
                /\ outbox[i].claim = 0 \/ outbox[i].lease = 0

\* The batch holds every claimable row; a claim id is new for its row.
ClaimBatch(d) ==
    LET taken == {i \in DOMAIN outbox : Claimable(i)}
        row(i) == [outbox[i] EXCEPT !.claim = outbox[i].attempts + 1,
                                    !.attempts = outbox[i].attempts + 1,
                                    !.lease = Lease]
    IN /\ batch[d] = <<>> /\ taken # {}
       /\ outbox' = [i \in DOMAIN outbox |-> IF i \in taken THEN row(i) ELSE outbox[i]]
       /\ \E order \in [1..Cardinality(taken) -> taken] :
             /\ \A a, b \in DOMAIN order : a < b => order[a] < order[b]
             /\ batch' = [batch EXCEPT ![d] =
                    [k \in DOMAIN order |-> [row |-> order[k], fit |-> Fit(order[k]),
                                             id |-> outbox[order[k]].attempts + 1]]]
       /\ UNCHANGED <<account, address, tokens, outcome, sent, faults, redrives>>

\* Refuse an ineligible claim, or decrypt and send.  The provider may accept
\* the mail, accept it and fail to say so, or fail; an undecryptable payload
\* is a failure that may be retried.
Send(d) ==
    /\ batch[d] # <<>> /\ outcome[d] = "none"
    /\ LET c == Head(batch[d])
           eligible == c.fit /\ tokens[c.row].ttl > 0
       IN \E o \in {"sent", "retry", "terminal"}, delivered \in BOOLEAN :
             /\ ~eligible => o = "terminal" /\ ~delivered
             /\ o = "sent" => delivered
             /\ o = "terminal" => ~delivered
             /\ outcome' = [outcome EXCEPT ![d] = o]
             /\ sent' = IF delivered THEN sent \cup {c.row} ELSE sent
    /\ UNCHANGED <<account, address, tokens, outbox, batch, faults, redrives>>

BugOwns(c) == outbox[c.row].status = "open"

\* The where clause of mark_delivered and mark_failed.
Owns(c) == outbox[c.row].claim = c.id /\ outbox[c.row].status = "open"

RetryDelays(n) == LET base == IF RetryBase * 2^(n - 1) < RetryMax
                              THEN RetryBase * 2^(n - 1) ELSE RetryMax
                      top == base + base \div 4
                  IN base..(IF top < RetryMax THEN top ELSE RetryMax)

Exhausted(attempts) == attempts >= MaxAttempts

Unclaimed(r) == [r EXCEPT !.claim = 0, !.lease = 0]

\* The row as mark_delivered or mark_failed leaves it.
SettledRows(c, o) ==
    LET r == Unclaimed(outbox[c.row])
    IN IF o = "sent" THEN {[r EXCEPT !.status = "delivered"]}
       ELSE IF o = "terminal" \/ Exhausted(c.id)
            THEN {[r EXCEPT !.status = "dead", !.wait = 0]}
            ELSE {[r EXCEPT !.wait = w] : w \in RetryDelays(c.id)}

Settle(d) ==
    /\ outcome[d] # "none"
    /\ LET c == Head(batch[d])
       IN IF Owns(c)
          THEN \E r \in SettledRows(c, outcome[d]) :
                  outbox' = [outbox EXCEPT ![c.row] = r]
          ELSE UNCHANGED outbox
    /\ batch' = [batch EXCEPT ![d] = Tail(@)]
    /\ outcome' = [outcome EXCEPT ![d] = "none"]
    /\ UNCHANGED <<account, address, tokens, sent, faults, redrives>>

\* The process dies, or is stopped, and is started again without its batch.
CrashDispatcher(d) ==
    /\ batch[d] # <<>> /\ faults < MaxFaults
    /\ faults' = faults + 1
    /\ batch' = [batch EXCEPT ![d] = <<>>]
    /\ outcome' = [outcome EXCEPT ![d] = "none"]
    /\ UNCHANGED <<account, address, tokens, outbox, sent, redrives>>

\* The attempt count is kept.
Redrive(i) ==
    /\ redrives < MaxRedrives /\ outbox[i].status = "dead"
    /\ redrives' = redrives + 1
    /\ outbox' = [outbox EXCEPT ![i].status = "open", ![i].wait = 0]
    /\ UNCHANGED <<account, address, tokens, batch, outcome, sent, faults>>

-----------------------------------------------------------------------------
Less(n) == IF n > 0 THEN n - 1 ELSE 0

Held == {i \in DOMAIN outbox : \E d \in Dispatchers : \E k \in DOMAIN batch[d] :
                                  batch[d][k].row = i /\ Owns(batch[d][k])}

\* Time passes.  That a dispatcher overruns its lease counts as a fault.
DeliveryTick ==
    LET overrun == \E i \in Held : outbox[i].lease = 1
    IN /\ overrun => faults < MaxFaults
       /\ faults' = IF overrun THEN faults + 1 ELSE faults
       /\ outbox' = [i \in DOMAIN outbox |->
             [outbox[i] EXCEPT !.wait = Less(@), !.lease = Less(@)]]
       /\ tokens' = [i \in DOMAIN tokens |->
             [tokens[i] EXCEPT !.ttl = Less(@), !.cooldown = Less(@)]]
       /\ UNCHANGED <<account, address, batch, outcome, sent, redrives>>

Dispatch(d) == ClaimBatch(d) \/ Send(d) \/ Settle(d)

DeliveryNext ==
    \/ Register
    \/ Resend
    \/ \E i \in DOMAIN tokens : VerifyEmail(i) \/ VerifyRecoveryEmail(i) \/ Redrive(i)
    \/ SetRecoveryPending
    \/ IssueRecoveryMail
    \/ InvalidateRecoveryMail
    \/ RevokeRecoveryEmail
    \/ \E d \in Dispatchers : Dispatch(d) \/ CrashDispatcher(d)
    \/ DeliveryTick

DeliverySpec == DeliveryInit /\ [][DeliveryNext]_deliveryVars

-----------------------------------------------------------------------------
(* Properties *)

\* A link that was mailed stops working when another one is issued, and the
\* links of a sign-up stop working with the activation of the account: of each
\* purpose at most one token can be used, of the sign-up none once it is done.
OneUsableToken ==
    /\ \A p \in Purposes : Cardinality({i \in Active(p) : Usable(i)}) <= 1
    /\ account = "active" => Active("verify_email") = {}

\* A claim is only ended by the dispatcher that holds it, with what the provider
\* answered: one whose lease was taken over by another dispatcher settles
\* nothing (the claim_id in the where clauses of mark_delivered and mark_failed),
\* a row is recorded as delivered only when its mail was accepted, and it goes
\* back to the queue only with attempts left, which crashes and overrun leases
\* use up too and an operator's redrive does not give back.
SettledByItsOwner ==
    [][\A i \in DOMAIN outbox :
          outbox[i].claim # 0 /\ outbox'[i].claim = 0
            => /\ \E d \in Dispatchers : /\ batch[d] # <<>> /\ batch'[d] = Tail(batch[d])
                                         /\ Head(batch[d]).row = i
                                         /\ Head(batch[d]).id = outbox[i].claim
               /\ outbox'[i].status = "delivered" => i \in sent
               /\ outbox'[i].status = "open" => outbox[i].attempts < MaxAttempts]_deliveryVars

\* No mail is forgotten: through crashes, overrun leases and failing providers
\* every row is delivered or dead-lettered in the end.
EveryMailSettles ==
    \A i \in 1..MaxMail :
        i \in DOMAIN outbox ~> i \in DOMAIN outbox /\ outbox[i].status # "open"
=============================================================================

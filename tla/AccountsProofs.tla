--------------------------- MODULE AccountsProofs ---------------------------
(***************************************************************************)
(* Theorems about the identity service: one usable link and fenced claims  *)
(* (AuthDelivery), refresh-token families and account recovery             *)
(* (IdentitySessions), and codes that work once (MfaFactors).              *)
(*                                                                         *)
(* Rows are typed by named sets of records.  Where an invariant counts or  *)
(* compares members of a set that a list determines, the set is written as *)
(* an operator of the list (ActiveOf, UsableOf, CompletedOf, OpenOf), so   *)
(* that it can be stated of the list before and after a step.              *)
(***************************************************************************)
EXTENDS AuthDelivery, IdentitySessions, MfaFactors, FiniteSums, SequenceTheorems

-----------------------------------------------------------------------------
(* Mailed tokens                                                           *)

TokenRows == [purpose : Purposes, ttl : Nat, cooldown : Nat,
              state : {"active", "consumed", "invalidated"}]

\* The active tokens of a purpose, in a list of tokens.
ActiveOf(ts, p) == {i \in DOMAIN ts : ts[i].purpose = p /\ ts[i].state = "active"}

\* Of each purpose at most one token of a list is active.
OneActiveOf(ts) == \A p \in Purposes : \A i, j \in ActiveOf(ts, p) : i = j

TokensInv ==
  /\ tokens \in Seq(TokenRows)
  /\ account = "none" => tokens = <<>>
  /\ OneActiveOf(tokens)
  /\ account = "active" => ActiveOf(tokens, "verify_email") = {}

LEMMA TokensTyped ==
  ASSUME TokensInv
  PROVE  /\ Len(tokens) \in Nat /\ DOMAIN tokens = 1..Len(tokens)
         /\ \A i \in DOMAIN tokens : tokens[i] \in TokenRows
  BY DEF TokensInv

LEMMA TokenChanges ==
  ASSUME NEW t \in TokenRows, NEW st \in {"consumed", "invalidated"}
  PROVE  /\ [t EXCEPT !.state = st] \in TokenRows
         /\ [t EXCEPT !.state = st].state = st
         /\ [t EXCEPT !.state = st].purpose = t.purpose
  BY DEF TokenRows

\* A new token is the only active one of its purpose, when the list it is added
\* to has none.
LEMMA AppendToken ==
  ASSUME NEW ts, ts \in Seq(TokenRows), OneActiveOf(ts), NEW p \in Purposes, ActiveOf(ts, p) = {}
  PROVE  /\ Append(ts, NewToken(p)) \in Seq(TokenRows)
         /\ OneActiveOf(Append(ts, NewToken(p)))
         /\ \A q \in Purposes : q # p => ActiveOf(Append(ts, NewToken(p)), q) = ActiveOf(ts, q)
  <1> DEFINE n == Len(ts)
             t == NewToken(p)
             us == Append(ts, t)
  <1>1. t \in TokenRows /\ t.purpose = p
    BY DeliveryConfig DEF NewToken, TokenRows
  <1> HIDE DEF t
  <1>2. /\ us \in Seq(TokenRows) /\ n \in Nat /\ DOMAIN us = 1..(n + 1) /\ DOMAIN ts = 1..n
        /\ us[n + 1] = t /\ \A i \in 1..n : us[i] = ts[i]
    BY <1>1
  <1> HIDE DEF us, n
  <1>3. ActiveOf(us, p) \subseteq {n + 1}
    BY <1>1, <1>2 DEF ActiveOf
  <1>4. \A q \in Purposes : q # p => ActiveOf(us, q) = ActiveOf(ts, q)
    BY <1>1, <1>2 DEF ActiveOf
  <1>5. OneActiveOf(us)
    BY <1>3, <1>4 DEF OneActiveOf
  <1> QED
    BY <1>2, <1>4, <1>5 DEF us, t

\* Changing the state of the active tokens of a purpose leaves it none.
LEMMA WithStateClears ==
  ASSUME TokensInv, NEW p \in Purposes, NEW st \in {"consumed", "invalidated"}
  PROVE  /\ WithState(p, st) \in Seq(TokenRows)
         /\ OneActiveOf(WithState(p, st))
         /\ ActiveOf(WithState(p, st), p) = {}
         /\ \A q \in Purposes : q # p => ActiveOf(WithState(p, st), q) = ActiveOf(tokens, q)
  <1> DEFINE n == Len(tokens)
             row(i) == IF i \in Active(p) THEN [tokens[i] EXCEPT !.state = st] ELSE tokens[i]
             ts == WithState(p, st)
  <1>1. n \in Nat /\ DOMAIN tokens = 1..n /\ \A i \in 1..n : tokens[i] \in TokenRows
    BY TokensTyped
  <1>2. \A i \in 1..n : /\ row(i) \in TokenRows /\ row(i).purpose = tokens[i].purpose
                        /\ row(i).purpose = p => row(i).state # "active"
                        /\ row(i).purpose # p => row(i).state = tokens[i].state
    <2> SUFFICES ASSUME NEW i \in 1..n
                 PROVE  /\ row(i) \in TokenRows /\ row(i).purpose = tokens[i].purpose
                        /\ row(i).purpose = p => row(i).state # "active"
                        /\ row(i).purpose # p => row(i).state = tokens[i].state
      OBVIOUS
    <2>1. CASE i \in Active(p)
      <3>1. row(i) = [tokens[i] EXCEPT !.state = st] /\ tokens[i].purpose = p
        BY <2>1 DEF Active
      <3> QED
        BY <1>1, <3>1, TokenChanges
    <2>2. CASE i \notin Active(p)
      BY <1>1, <2>2 DEF Active
    <2> QED
      BY <2>1, <2>2
  <1>3. ts = [i \in 1..n |-> row(i)]
    BY <1>1 DEF WithState
  <1> HIDE DEF row, ts
  <1>4. ts \in Seq(TokenRows) /\ DOMAIN ts = 1..n
    BY <1>1, <1>2, <1>3
  <1>5. ActiveOf(ts, p) = {} /\ \A q \in Purposes : q # p => ActiveOf(ts, q) = ActiveOf(tokens, q)
    BY <1>1, <1>2, <1>3, <1>4 DEF ActiveOf
  <1>6. OneActiveOf(ts)
    BY <1>5 DEF TokensInv, OneActiveOf
  <1> QED
    BY <1>4, <1>5, <1>6 DEF ts

\* A token that is used is not active afterwards.
LEMMA UseToken ==
  ASSUME TokensInv, NEW i \in DOMAIN tokens,
         tokens' = [tokens EXCEPT ![i].state = "consumed"]
  PROVE  /\ tokens' \in Seq(TokenRows) /\ tokens' # <<>>
         /\ OneActiveOf(tokens')
         /\ \A p \in Purposes : ActiveOf(tokens', p) = ActiveOf(tokens, p) \ {i}
  <1> DEFINE n == Len(tokens)
             t == [tokens[i] EXCEPT !.state = "consumed"]
  <1>1. n \in Nat /\ DOMAIN tokens = 1..n /\ tokens[i] \in TokenRows /\ tokens \in Seq(TokenRows)
    BY TokensTyped DEF TokensInv
  <1>2. t \in TokenRows /\ t.state = "consumed"
    BY <1>1, TokenChanges
  <1>3. tokens' = [tokens EXCEPT ![i] = t]
    OBVIOUS
  <1> HIDE DEF t
  <1>4. tokens' \in Seq(TokenRows) /\ DOMAIN tokens' = 1..n /\ tokens'[i] = t
        /\ \A j \in 1..n : j # i => tokens'[j] = tokens[j]
    BY <1>1, <1>2, <1>3
  <1>5. \A p \in Purposes : ActiveOf(tokens', p) = ActiveOf(tokens, p) \ {i}
    BY <1>1, <1>2, <1>4 DEF ActiveOf
  <1>6. OneActiveOf(tokens')
    BY <1>5 DEF TokensInv, OneActiveOf
  <1>7. tokens' # <<>>
    BY <1>1, <1>4
  <1> QED
    BY <1>4, <1>5, <1>6, <1>7

\* Time keeps the state of tokens.
LEMMA TokensTick == ASSUME TokensInv, DeliveryTick PROVE TokensInv'
  <1> DEFINE n == Len(tokens)
             row(i) == [tokens[i] EXCEPT !.ttl = Less(@), !.cooldown = Less(@)]
  <1>1. n \in Nat /\ DOMAIN tokens = 1..n /\ \A i \in 1..n : tokens[i] \in TokenRows
    BY TokensTyped
  <1>2. \A i \in 1..n : /\ row(i) \in TokenRows /\ row(i).purpose = tokens[i].purpose
                        /\ row(i).state = tokens[i].state
    <2> SUFFICES ASSUME NEW i \in 1..n
                 PROVE  /\ row(i) \in TokenRows /\ row(i).purpose = tokens[i].purpose
                        /\ row(i).state = tokens[i].state
      OBVIOUS
    <2> DEFINE t == [tokens[i] EXCEPT !.ttl = Less(@)]
    <2>1. /\ t \in TokenRows /\ t.purpose = tokens[i].purpose /\ t.state = tokens[i].state
          /\ t.cooldown = tokens[i].cooldown
      BY <1>1 DEF TokenRows, Less
    <2>2. row(i) = [t EXCEPT !.cooldown = Less(@)]
      BY <1>1 DEF TokenRows
    <2> HIDE DEF t, row
    <2> QED
      BY <2>1, <2>2 DEF TokenRows, Less
  <1>3. tokens' = [i \in 1..n |-> row(i)] /\ UNCHANGED account
    BY <1>1 DEF DeliveryTick
  <1> HIDE DEF row
  <1>4. tokens' \in Seq(TokenRows) /\ DOMAIN tokens' = 1..n /\ Len(tokens') = n
    BY <1>1, <1>2, <1>3
  <1>5. \A p \in Purposes : ActiveOf(tokens', p) = ActiveOf(tokens, p)
    BY <1>1, <1>2, <1>3, <1>4 DEF ActiveOf
  <1>6. tokens = <<>> => tokens' = <<>>
    BY <1>1, <1>4
  <1>7. OneActiveOf(tokens') /\ (account = "active" => ActiveOf(tokens', "verify_email") = {})
    BY <1>5 DEF TokensInv, OneActiveOf, Purposes
  <1> QED
    BY <1>3, <1>4, <1>6, <1>7 DEF TokensInv

\* Every step keeps at most one active token of each purpose.
LEMMA TokensNext == TokensInv /\ [DeliveryNext]_deliveryVars => TokensInv'
  <1> SUFFICES ASSUME TokensInv, [DeliveryNext]_deliveryVars PROVE TokensInv'
    OBVIOUS
  <1> DEFINE V == "verify_email"
             R == "verify_recovery_email"
  <1>0. V \in Purposes /\ R \in Purposes /\ V # R
    BY DEF Purposes
  <1>00. \A ts, p : Append(ts, NewToken(p)) # <<>>
    OBVIOUS
  <1>1. CASE UNCHANGED <<account, tokens>>
    BY <1>1 DEF TokensInv
  <1>2. CASE Register
    <2>1. tokens = <<>> /\ account' = "pending_verification"
          /\ tokens' = Append(tokens, NewToken(V))
      BY <1>2 DEF Register, Issue, TokensInv
    <2>2. ActiveOf(tokens, V) = {}
      BY <2>1 DEF ActiveOf
    <2>3. tokens' \in Seq(TokenRows) /\ OneActiveOf(tokens')
      BY <1>0, <2>1, <2>2, AppendToken DEF TokensInv
    <2> QED
      BY <2>1, <2>3 DEF TokensInv
  <1>3. CASE Resend
    <2>1. account = "pending_verification" /\ UNCHANGED account
          /\ tokens' = Append(WithState(V, "invalidated"), NewToken(V))
      BY <1>3 DEF Resend, Issue
    <2>2. tokens' \in Seq(TokenRows) /\ OneActiveOf(tokens')
      BY <1>0, <2>1, WithStateClears, AppendToken
    <2> QED
      BY <2>1, <2>2 DEF TokensInv
  <1>4. ASSUME NEW i \in DOMAIN tokens, VerifyEmail(i) PROVE TokensInv'
    <2>1. account' = "active" /\ tokens' = [tokens EXCEPT ![i].state = "consumed"]
          /\ i \in ActiveOf(tokens, V)
      BY <1>4 DEF VerifyEmail, Active, ActiveOf
    <2>2. ActiveOf(tokens', V) = ActiveOf(tokens, V) \ {i}
      BY <1>0, <2>1, UseToken
    <2>3. ActiveOf(tokens', V) = {}
      BY <1>0, <2>1, <2>2 DEF TokensInv, OneActiveOf
    <2> QED
      BY <2>1, <2>3, UseToken DEF TokensInv
  <1>5. ASSUME NEW i \in DOMAIN tokens, VerifyRecoveryEmail(i) PROVE TokensInv'
    <2>1. UNCHANGED account /\ tokens' = [tokens EXCEPT ![i].state = "consumed"]
      BY <1>5 DEF VerifyRecoveryEmail
    <2>2. ActiveOf(tokens', V) = ActiveOf(tokens, V) \ {i}
      BY <1>0, <2>1, UseToken
    <2>3. tokens # <<>>
      OBVIOUS
    <2> QED
      BY <2>1, <2>2, <2>3, UseToken DEF TokensInv
  <1>6. CASE IssueRecoveryMail
    <2> DEFINE ts == WithState(R, "consumed")
    <2>1. account = "active" /\ UNCHANGED account /\ tokens' = Append(ts, NewToken(R))
      BY <1>6 DEF IssueRecoveryMail, Issue
    <2>2. ts \in Seq(TokenRows) /\ OneActiveOf(ts) /\ ActiveOf(ts, R) = {}
          /\ ActiveOf(ts, V) = ActiveOf(tokens, V)
      BY <1>0, WithStateClears
    <2> HIDE DEF ts
    <2>3. tokens' \in Seq(TokenRows) /\ OneActiveOf(tokens')
          /\ ActiveOf(tokens', V) = ActiveOf(ts, V)
      BY <1>0, <2>1, <2>2, AppendToken
    <2> QED
      BY <2>1, <2>2, <2>3 DEF TokensInv
  <1>7. CASE InvalidateRecoveryMail
    <2>1. account = "active" /\ UNCHANGED account /\ tokens' = WithState(R, "consumed")
      BY <1>7 DEF InvalidateRecoveryMail
    <2>2. tokens' \in Seq(TokenRows) /\ OneActiveOf(tokens')
          /\ ActiveOf(tokens', V) = ActiveOf(tokens, V)
      BY <1>0, <2>1, WithStateClears
    <2> QED
      BY <2>1, <2>2 DEF TokensInv
  <1>8. ASSUME SetRecoveryPending \/ RevokeRecoveryEmail PROVE UNCHANGED <<account, tokens>>
    BY <1>8 DEF SetRecoveryPending, RevokeRecoveryEmail
  <1>9. ASSUME NEW i, Redrive(i) PROVE UNCHANGED <<account, tokens>>
    BY <1>9 DEF Redrive
  <1>10. ASSUME NEW d, Dispatch(d) \/ CrashDispatcher(d) PROVE UNCHANGED <<account, tokens>>
    <2>1. CASE ClaimBatch(d)
      BY <2>1 DEF ClaimBatch
    <2>2. CASE Send(d) \/ Settle(d) \/ CrashDispatcher(d)
      BY <2>2 DEF Send, Settle, CrashDispatcher
    <2> QED
      BY <1>10, <2>1, <2>2 DEF Dispatch
  <1>11. CASE UNCHANGED deliveryVars
    BY <1>1, <1>11 DEF deliveryVars
  <1> QED
    BY <1>1, <1>2, <1>3, <1>4, <1>5, <1>6, <1>7, <1>8, <1>9, <1>10, <1>11, TokensTick
    DEF DeliveryNext

\* For any number of mails and dispatchers: of each purpose at most one link can
\* be used, and none of the sign-up once the account is active.
THEOREM OneLinkWorks == DeliverySpec => []OneUsableToken
  <1>1. DeliveryInit => TokensInv
    BY DEF DeliveryInit, TokensInv, OneActiveOf, ActiveOf
  <1>2. TokensInv => OneUsableToken
    <2> SUFFICES ASSUME TokensInv PROVE OneUsableToken
      OBVIOUS
    <2>1. \A p : Active(p) = ActiveOf(tokens, p)
      BY DEF Active, ActiveOf
    <2>2. ASSUME NEW p \in Purposes PROVE Cardinality({i \in Active(p) : Usable(i)}) <= 1
      <3>1. CASE {i \in Active(p) : Usable(i)} = {}
        BY <3>1, FS_EmptySet
      <3>2. CASE \E i \in Active(p) : {j \in Active(p) : Usable(j)} = {i}
        BY <3>2, FS_Singleton
      <3> QED
        BY <2>1, <3>1, <3>2 DEF TokensInv, OneActiveOf
    <2>3. account = "active" => Active("verify_email") = {}
      BY <2>1 DEF TokensInv
    <2> QED
      BY <2>2, <2>3 DEF OneUsableToken
  <1> QED
    BY <1>1, <1>2, TokensNext, PTL DEF DeliverySpec

-----------------------------------------------------------------------------
(* The outbox                                                              *)

OutRows == [wait : Int, attempts : Nat, claim : Nat, lease : Nat,
            status : {"open", "delivered", "dead"}]

ClaimRows == [row : Nat, fit : BOOLEAN, id : Nat]

\* The id of a claim is the number of the attempt.
RowsInv ==
  /\ outbox \in Seq(OutRows)
  /\ \A i \in DOMAIN outbox : outbox[i].claim # 0 => outbox[i].claim = outbox[i].attempts

\* A dispatcher works off claims on rows of the outbox; while it has sent and
\* not settled it holds the claim, and a mail it says is sent is in the mailbox.
BatchesInv ==
  /\ batch \in [Dispatchers -> Seq(ClaimRows)]
  /\ outcome \in [Dispatchers -> {"none", "sent", "retry", "terminal"}]
  /\ \A d \in Dispatchers :
       /\ \A k \in DOMAIN batch[d] : batch[d][k].row \in DOMAIN outbox
       /\ outcome[d] # "none" => batch[d] # <<>>
       /\ outcome[d] = "sent" => Head(batch[d]).row \in sent

OutboxInv == RowsInv /\ BatchesInv

LEMMA RowsTyped ==
  ASSUME RowsInv
  PROVE  /\ Len(outbox) \in Nat /\ DOMAIN outbox = 1..Len(outbox)
         /\ \A i \in DOMAIN outbox : outbox[i] \in OutRows
  BY DEF RowsInv

\* The claim that a dispatcher is to settle.
LEMMA HeadIsClaim ==
  ASSUME OutboxInv, NEW d \in Dispatchers, batch[d] # <<>>
  PROVE  /\ batch[d] \in Seq(ClaimRows) /\ Tail(batch[d]) \in Seq(ClaimRows)
         /\ Head(batch[d]) \in ClaimRows /\ Head(batch[d]).row \in DOMAIN outbox
         /\ \A k \in DOMAIN Tail(batch[d]) : Tail(batch[d])[k].row \in DOMAIN outbox
  <1> DEFINE b == batch[d]
  <1>1. b \in Seq(ClaimRows) /\ b # <<>> /\ \A k \in DOMAIN b : b[k].row \in DOMAIN outbox
    BY DEF OutboxInv, BatchesInv
  <1> HIDE DEF b
  <1>2. /\ Tail(b) \in Seq(ClaimRows) /\ Head(b) \in ClaimRows /\ Head(b) = b[1] /\ 1 \in DOMAIN b
        /\ \A k \in DOMAIN Tail(b) : k + 1 \in DOMAIN b /\ Tail(b)[k] = b[k + 1]
    BY <1>1
  <1> QED
    BY <1>1, <1>2 DEF b

\* One row of the outbox changes.
LEMMA OneRowChanges ==
  ASSUME OutboxInv, NEW i \in DOMAIN outbox, NEW r \in OutRows, r.claim # 0 => r.claim = r.attempts,
         outbox' = [outbox EXCEPT ![i] = r]
  PROVE  /\ RowsInv' /\ DOMAIN outbox' = DOMAIN outbox /\ outbox'[i] = r
         /\ \A j \in DOMAIN outbox : j # i => outbox'[j] = outbox[j]
  <1>1. outbox \in Seq(OutRows)
    BY DEF OutboxInv, RowsInv
  <1>2. /\ outbox' \in Seq(OutRows) /\ DOMAIN outbox' = DOMAIN outbox /\ outbox'[i] = r
        /\ \A j \in DOMAIN outbox : j # i => outbox'[j] = outbox[j]
    BY <1>1
  <1> QED
    BY <1>2 DEF OutboxInv, RowsInv

\* What mark_delivered and mark_failed make of the row.
LEMMA SettledRow ==
  ASSUME NEW c, outbox[c.row] \in OutRows, outbox[c.row].status = "open",
         NEW o \in {"sent", "retry", "terminal"}, NEW r \in SettledRows(c, o)
  PROVE  /\ r \in OutRows /\ r.claim = 0
         /\ r.status = "delivered" => o = "sent"
         /\ r.status = "open" => ~Exhausted(c.id)
  <1> DEFINE u == Unclaimed(outbox[c.row])
             half == [outbox[c.row] EXCEPT !.claim = 0]
  <1>1. half \in OutRows /\ half.claim = 0 /\ half.status = "open"
    BY DEF OutRows
  <1>2. u = [half EXCEPT !.lease = 0]
    BY DEF Unclaimed, OutRows
  <1> HIDE DEF half, u
  <1>3. u \in OutRows /\ u.claim = 0 /\ u.status = "open"
    BY <1>1, <1>2 DEF OutRows
  <1>4. CASE o = "sent"
    <2>1. r = [u EXCEPT !.status = "delivered"]
      BY <1>4 DEF SettledRows, u
    <2> QED
      BY <1>3, <1>4, <2>1 DEF OutRows
  <1>5. CASE o # "sent" /\ (o = "terminal" \/ Exhausted(c.id))
    <2>1. r = [u EXCEPT !.status = "dead", !.wait = 0]
      BY <1>5 DEF SettledRows, u
    <2> DEFINE dead == [u EXCEPT !.status = "dead"]
    <2>2. dead \in OutRows /\ dead.claim = 0 /\ dead.status = "dead"
      BY <1>3 DEF OutRows
    <2>3. r = [dead EXCEPT !.wait = 0]
      BY <1>3, <2>1 DEF OutRows
    <2> HIDE DEF dead
    <2> QED
      BY <2>2, <2>3 DEF OutRows
  <1>6. CASE o # "sent" /\ ~(o = "terminal" \/ Exhausted(c.id))
    <2>1. PICK w \in RetryDelays(c.id) : r = [u EXCEPT !.wait = w]
      BY <1>6 DEF SettledRows, u
    <2>2. w \in Int
      BY DEF RetryDelays
    <2> QED
      BY <1>3, <1>6, <2>1, <2>2 DEF OutRows
  <1> QED
    BY <1>4, <1>5, <1>6

\* A dispatcher settles the claim it holds, or nothing.
LEMMA SettleChanges ==
  ASSUME OutboxInv, NEW d \in Dispatchers, Settle(d)
  PROVE  LET c == Head(batch[d])
         IN  /\ batch[d] # <<>> /\ c.row \in DOMAIN outbox
             /\ \/ UNCHANGED outbox
                \/ \E r \in OutRows : /\ outbox' = [outbox EXCEPT ![c.row] = r]
                                      /\ outbox[c.row].claim = c.id /\ r.claim = 0
                                      /\ r.status = "delivered" => outcome[d] = "sent"
                                      /\ r.status = "open" => c.id < MaxAttempts
  <1> DEFINE c == Head(batch[d])
  <1>1. batch[d] # <<>> /\ outcome[d] \in {"sent", "retry", "terminal"}
    BY DEF Settle, OutboxInv, BatchesInv
  <1>2. c.row \in DOMAIN outbox /\ c.id \in Nat
    BY <1>1, HeadIsClaim DEF ClaimRows
  <1>3. outbox[c.row] \in OutRows
    BY <1>2, RowsTyped DEF OutboxInv
  <1>4. CASE Owns(c)
    <2>1. PICK r \in SettledRows(c, outcome[d]) : outbox' = [outbox EXCEPT ![c.row] = r]
      BY <1>4 DEF Settle
    <2>2. outbox[c.row].status = "open" /\ outbox[c.row].claim = c.id
      BY <1>4 DEF Owns
    <2> HIDE DEF c
    <2>3. /\ r \in OutRows /\ r.claim = 0
          /\ r.status = "delivered" => outcome[d] = "sent"
          /\ r.status = "open" => ~Exhausted(c.id)
      BY <1>1, <1>3, <2>2, SettledRow
    <2>4. r.status = "open" => c.id < MaxAttempts
      BY <1>2, <2>3, DeliveryConfig DEF Exhausted
    <2> QED
      BY <1>1, <1>2, <2>1, <2>2, <2>3, <2>4 DEF c
  <1>5. CASE ~Owns(c)
    BY <1>1, <1>2, <1>5 DEF Settle
  <1> QED
    BY <1>4, <1>5

\* A dispatcher that drops its first claim, or all of them, keeps the rest.
LEMMA BatchShrinks ==
  ASSUME OutboxInv, NEW d \in Dispatchers, batch[d] # <<>>, DOMAIN outbox' = DOMAIN outbox,
         UNCHANGED sent, outcome' = [outcome EXCEPT ![d] = "none"],
         \/ batch' = [batch EXCEPT ![d] = Tail(@)]
         \/ batch' = [batch EXCEPT ![d] = <<>>]
  PROVE  BatchesInv'
  <1>1. \E b \in Seq(ClaimRows) : /\ batch' = [batch EXCEPT ![d] = b]
                                  /\ \A k \in DOMAIN b : b[k].row \in DOMAIN outbox
    <2>1. CASE batch' = [batch EXCEPT ![d] = Tail(@)]
      <3>1. batch' = [batch EXCEPT ![d] = Tail(batch[d])]
        BY <2>1
      <3> QED
        BY <3>1, HeadIsClaim
    <2>2. CASE batch' = [batch EXCEPT ![d] = <<>>]
      <3>1. <<>> \in Seq(ClaimRows) /\ DOMAIN <<>> = {}
        OBVIOUS
      <3> QED
        BY <2>2, <3>1
    <2> QED
      BY <2>1, <2>2
  <1> QED
    BY <1>1 DEF OutboxInv, BatchesInv

LEMMA SettleInv ==
  ASSUME OutboxInv, NEW d \in Dispatchers, Settle(d)
  PROVE  OutboxInv'
  <1> DEFINE c == Head(batch[d])
  <1>1. /\ batch[d] # <<>> /\ c.row \in DOMAIN outbox
        /\ \/ UNCHANGED outbox
           \/ \E r \in OutRows : outbox' = [outbox EXCEPT ![c.row] = r] /\ r.claim = 0
    BY SettleChanges
  <1> HIDE DEF c
  <1>2. RowsInv' /\ DOMAIN outbox' = DOMAIN outbox
    <2>1. CASE UNCHANGED outbox
      BY <2>1 DEF OutboxInv, RowsInv
    <2>2. ASSUME NEW r \in OutRows, outbox' = [outbox EXCEPT ![c.row] = r], r.claim = 0
          PROVE  RowsInv' /\ DOMAIN outbox' = DOMAIN outbox
      BY <1>1, <2>2, OneRowChanges
    <2> QED
      BY <1>1, <2>1, <2>2
  <1>3. BatchesInv'
    BY <1>1, <1>2, BatchShrinks DEF Settle
  <1> QED
    BY <1>2, <1>3 DEF OutboxInv

\* The rows a claim takes, and the batch it makes of them.
LEMMA ClaimBatchRows ==
  ASSUME OutboxInv, NEW d \in Dispatchers, ClaimBatch(d)
  PROVE  /\ RowsInv' /\ DOMAIN outbox' = DOMAIN outbox
         /\ \A i \in DOMAIN outbox : outbox[i].claim # 0 => outbox'[i].claim # 0
  <1> DEFINE n == Len(outbox)
             taken == {i \in DOMAIN outbox : Claimable(i)}
             row(i) == [outbox[i] EXCEPT !.claim = outbox[i].attempts + 1,
                                         !.attempts = outbox[i].attempts + 1,
                                         !.lease = Lease]
             new(i) == IF i \in taken THEN row(i) ELSE outbox[i]
  <1>1. n \in Nat /\ DOMAIN outbox = 1..n /\ \A i \in 1..n : outbox[i] \in OutRows
    BY RowsTyped DEF OutboxInv
  <1>2. Lease \in Nat
    BY DeliveryConfig
  <1>3. \A i \in 1..n : /\ row(i) \in OutRows /\ row(i).claim = row(i).attempts /\ row(i).claim # 0
    <2> SUFFICES ASSUME NEW i \in 1..n
                 PROVE  row(i) \in OutRows /\ row(i).claim = row(i).attempts /\ row(i).claim # 0
      OBVIOUS
    <2> DEFINE a == [outbox[i] EXCEPT !.claim = outbox[i].attempts + 1]
               b == [a EXCEPT !.attempts = outbox[i].attempts + 1]
    <2>1. outbox[i] \in OutRows /\ outbox[i].attempts + 1 \in Nat /\ outbox[i].attempts + 1 # 0
      BY <1>1 DEF OutRows
    <2>2. a \in OutRows /\ a.claim = outbox[i].attempts + 1
      BY <2>1 DEF OutRows
    <2>3. b \in OutRows /\ b.claim = outbox[i].attempts + 1 /\ b.attempts = outbox[i].attempts + 1
      <3> HIDE DEF a
      <3> QED
        BY <2>1, <2>2 DEF OutRows
    <2>4. row(i) = [b EXCEPT !.lease = Lease]
      BY <2>1 DEF OutRows
    <2> HIDE DEF b, row
    <2> QED
      BY <1>2, <2>1, <2>3, <2>4 DEF OutRows
  <1>4. outbox' = [i \in 1..n |-> new(i)]
    BY <1>1 DEF ClaimBatch
  <1>5. \A i \in 1..n : /\ new(i) \in OutRows /\ (new(i).claim # 0 => new(i).claim = new(i).attempts)
                        /\ outbox[i].claim # 0 => new(i).claim # 0
    <2> HIDE DEF row, taken
    <2> QED
      BY <1>1, <1>3 DEF OutboxInv, RowsInv
  <1> HIDE DEF new
  <1>6. outbox' \in Seq(OutRows) /\ DOMAIN outbox' = 1..n /\ \A i \in 1..n : outbox'[i] = new(i)
    BY <1>1, <1>4, <1>5
  <1> QED
    BY <1>1, <1>5, <1>6 DEF RowsInv

LEMMA ClaimBatchInv ==
  ASSUME OutboxInv, NEW d \in Dispatchers, ClaimBatch(d)
  PROVE  OutboxInv'
  <1> DEFINE n == Len(outbox)
             taken == {i \in DOMAIN outbox : Claimable(i)}
             m == Cardinality(taken)
             claim(i) == [row |-> i, fit |-> Fit(i), id |-> outbox[i].attempts + 1]
  <1>1. n \in Nat /\ DOMAIN outbox = 1..n /\ \A i \in 1..n : outbox[i] \in OutRows
    BY RowsTyped DEF OutboxInv
  <1>2. m \in Nat /\ taken \subseteq 1..n
    <2>1. taken \subseteq 1..n
      BY <1>1
    <2>2. IsFiniteSet(taken)
      <3>1. IsFiniteSet(1..n)
        BY <1>1, FS_Interval
      <3> QED
        BY <2>1, <3>1, FS_Subset
    <2> QED
      BY <2>1, <2>2, FS_CardinalityType
  <1>3. \A i \in 1..n : claim(i) \in ClaimRows /\ claim(i).row = i
    <2>1. \A i : Fit(i) \in BOOLEAN
      BY DEF Fit
    <2>2. \A i \in 1..n : outbox[i].attempts + 1 \in Nat
      BY <1>1 DEF OutRows
    <2> QED
      BY <1>1, <2>1, <2>2 DEF ClaimRows
  <1>4. PICK order \in [1..m -> taken] :
          batch' = [batch EXCEPT ![d] = [k \in 1..m |-> claim(order[k])]]
    BY DEF ClaimBatch
  <1>5. batch[d] = <<>> /\ UNCHANGED <<outcome, sent>>
    BY DEF ClaimBatch
  <1> HIDE DEF claim, taken, m
  <1> DEFINE b == [k \in 1..m |-> claim(order[k])]
  <1>6. b \in Seq(ClaimRows) /\ \A k \in DOMAIN b : b[k].row \in 1..n
    <2>1. \A k \in 1..m : order[k] \in 1..n
      BY <1>2
    <2>2. \A k \in 1..m : b[k] \in ClaimRows /\ b[k].row \in 1..n
      BY <1>3, <2>1
    <2>3. b \in [1..m -> ClaimRows]
      BY <2>2
    <2>4. b \in Seq(ClaimRows)
      <3> HIDE DEF b
      <3> QED
        BY <1>2, <2>3
    <2> QED
      BY <2>2, <2>3, <2>4
  <1> HIDE DEF b
  <1>7. batch' = [batch EXCEPT ![d] = b]
    BY <1>4 DEF b
  <1>8. RowsInv' /\ DOMAIN outbox' = DOMAIN outbox
    BY ClaimBatchRows
  <1>9. batch' \in [Dispatchers -> Seq(ClaimRows)]
    BY <1>6, <1>7 DEF OutboxInv, BatchesInv
  <1>10. outcome[d] = "none"
    BY <1>5 DEF OutboxInv, BatchesInv
  <1>11. BatchesInv'
    BY <1>1, <1>5, <1>6, <1>7, <1>8, <1>9, <1>10 DEF OutboxInv, BatchesInv
  <1> QED
    BY <1>8, <1>11 DEF OutboxInv

\* Sending records what the provider answered.
LEMMA SendInv ==
  ASSUME OutboxInv, NEW d \in Dispatchers, Send(d)
  PROVE  OutboxInv'
  <1>1. /\ UNCHANGED <<outbox, batch>> /\ batch[d] # <<>> /\ sent \subseteq sent'
        /\ \E o \in {"sent", "retry", "terminal"} :
             /\ outcome' = [outcome EXCEPT ![d] = o]
             /\ o = "sent" => Head(batch[d]).row \in sent'
    BY DEF Send
  <1> QED
    BY <1>1 DEF OutboxInv, RowsInv, BatchesInv

\* A new row is open and nobody's.
LEMMA IssueInv ==
  ASSUME OutboxInv, outbox' = Append(outbox, NewRow), UNCHANGED <<batch, outcome, sent>>
  PROVE  /\ OutboxInv'
         /\ \A i \in DOMAIN outbox : i \in DOMAIN outbox' /\ outbox'[i] = outbox[i]
  <1> DEFINE n == Len(outbox)
             r == NewRow
  <1>1. r \in OutRows /\ r.claim = 0
    BY DEF NewRow, OutRows
  <1>2. outbox' = Append(outbox, r) /\ outbox \in Seq(OutRows)
    BY DEF OutboxInv, RowsInv
  <1> HIDE DEF r
  <1>3. /\ n \in Nat /\ outbox' \in Seq(OutRows) /\ DOMAIN outbox = 1..n
        /\ DOMAIN outbox' = 1..(n + 1) /\ outbox'[n + 1] = r
        /\ \A i \in 1..n : outbox'[i] = outbox[i]
    BY <1>1, <1>2
  <1> HIDE DEF n
  <1>4. \A i \in DOMAIN outbox : i \in DOMAIN outbox' /\ outbox'[i] = outbox[i]
    BY <1>3
  <1>5. RowsInv'
    BY <1>1, <1>3 DEF OutboxInv, RowsInv
  <1>6. BatchesInv'
    BY <1>4 DEF OutboxInv, BatchesInv
  <1> QED
    BY <1>4, <1>5, <1>6 DEF OutboxInv

\* Time and a redrive leave claims and attempts alone.
LEMMA SameClaims ==
  ASSUME OutboxInv, UNCHANGED <<batch, outcome, sent>>, outbox' \in Seq(OutRows),
         DOMAIN outbox' = DOMAIN outbox,
         \A i \in DOMAIN outbox : /\ outbox'[i].claim = outbox[i].claim
                                  /\ outbox'[i].attempts = outbox[i].attempts
  PROVE  OutboxInv'
  BY DEF OutboxInv, RowsInv, BatchesInv

LEMMA DeliveryTickInv ==
  ASSUME OutboxInv, DeliveryTick
  PROVE  /\ OutboxInv'
         /\ \A i \in DOMAIN outbox : outbox'[i].claim = outbox[i].claim
  <1> DEFINE n == Len(outbox)
             row(i) == [outbox[i] EXCEPT !.wait = Less(@), !.lease = Less(@)]
  <1>1. n \in Nat /\ DOMAIN outbox = 1..n /\ \A i \in 1..n : outbox[i] \in OutRows
    BY RowsTyped DEF OutboxInv
  <1>2. \A i \in 1..n : /\ row(i) \in OutRows /\ row(i).claim = outbox[i].claim
                        /\ row(i).attempts = outbox[i].attempts
    <2> SUFFICES ASSUME NEW i \in 1..n
                 PROVE  /\ row(i) \in OutRows /\ row(i).claim = outbox[i].claim
                        /\ row(i).attempts = outbox[i].attempts
      OBVIOUS
    <2> DEFINE a == [outbox[i] EXCEPT !.wait = Less(@)]
    <2>1. /\ a \in OutRows /\ a.claim = outbox[i].claim /\ a.attempts = outbox[i].attempts
          /\ a.lease = outbox[i].lease
      BY <1>1 DEF OutRows, Less
    <2>2. row(i) = [a EXCEPT !.lease = Less(@)]
      BY <1>1 DEF OutRows
    <2> HIDE DEF a, row
    <2> QED
      BY <2>1, <2>2 DEF OutRows, Less
  <1>3. outbox' = [i \in 1..n |-> row(i)] /\ UNCHANGED <<batch, outcome, sent>>
    BY <1>1 DEF DeliveryTick
  <1> HIDE DEF row
  <1>4. outbox' \in Seq(OutRows) /\ DOMAIN outbox' = 1..n /\ \A i \in 1..n : outbox'[i] = row(i)
    BY <1>1, <1>2, <1>3
  <1> QED
    BY <1>1, <1>2, <1>3, <1>4, SameClaims

LEMMA RedriveInv ==
  ASSUME OutboxInv, NEW i, Redrive(i)
  PROVE  /\ OutboxInv'
         /\ \A j \in DOMAIN outbox : outbox'[j].claim = outbox[j].claim
  <1> DEFINE r == [outbox[i] EXCEPT !.status = "open", !.wait = 0]
  <1>1. /\ outbox' = [outbox EXCEPT ![i] = r] /\ UNCHANGED <<batch, outcome, sent>>
        /\ outbox \in Seq(OutRows)
    BY DEF Redrive, OutboxInv, RowsInv
  <1>2. CASE i \in DOMAIN outbox
    <2> DEFINE a == [outbox[i] EXCEPT !.status = "open"]
    <2>1. outbox[i] \in OutRows
      BY <1>2, RowsTyped DEF OutboxInv
    <2>2. a \in OutRows /\ a.claim = outbox[i].claim /\ a.attempts = outbox[i].attempts
      BY <2>1 DEF OutRows
    <2>3. r = [a EXCEPT !.wait = 0]
      BY <2>1 DEF OutRows
    <2> HIDE DEF a, r
    <2>4. r \in OutRows /\ r.claim = outbox[i].claim /\ r.attempts = outbox[i].attempts
      BY <2>2, <2>3 DEF OutRows
    <2>5. /\ outbox' \in Seq(OutRows) /\ DOMAIN outbox' = DOMAIN outbox
          /\ \A j \in DOMAIN outbox : outbox'[j] = IF j = i THEN r ELSE outbox[j]
      BY <1>1, <1>2, <2>4
    <2> QED
      BY <1>1, <2>4, <2>5, SameClaims
  <1>3. CASE i \notin DOMAIN outbox
    <2> HIDE DEF r
    <2>1. DOMAIN outbox' = DOMAIN outbox /\ \A j \in DOMAIN outbox : outbox'[j] = outbox[j]
      BY <1>1, <1>3
    <2>2. outbox' = outbox
      BY <1>1, <2>1
    <2> QED
      BY <1>1, <2>1, <2>2, SameClaims
  <1> QED
    BY <1>2, <1>3

\* What a step does to the outbox: it keeps the invariant, and unless it is the
\* settling of a claim no claim ends.
LEMMA OutboxStep ==
  ASSUME OutboxInv, [DeliveryNext]_deliveryVars
  PROVE  /\ OutboxInv'
         /\ \/ \E d \in Dispatchers : Settle(d)
            \/ \A i \in DOMAIN outbox : outbox[i].claim # 0 => outbox'[i].claim # 0
  <1>1. CASE UNCHANGED <<outbox, batch, outcome, sent>>
    BY <1>1 DEF OutboxInv, RowsInv, BatchesInv
  <1>2. CASE Register \/ Resend \/ IssueRecoveryMail
    <2>1. outbox' = Append(outbox, NewRow) /\ UNCHANGED <<batch, outcome, sent>>
      BY <1>2 DEF Register, Resend, IssueRecoveryMail, Issue, Dispatching
    <2> QED
      BY <2>1, IssueInv
  <1>3. ASSUME SetRecoveryPending \/ InvalidateRecoveryMail \/ RevokeRecoveryEmail
        PROVE  UNCHANGED <<outbox, batch, outcome, sent>>
    BY <1>3 DEF SetRecoveryPending, InvalidateRecoveryMail, RevokeRecoveryEmail, Dispatching
  <1>4. ASSUME NEW i, VerifyEmail(i) \/ VerifyRecoveryEmail(i)
        PROVE  UNCHANGED <<outbox, batch, outcome, sent>>
    BY <1>4 DEF VerifyEmail, VerifyRecoveryEmail, Dispatching
  <1>5. ASSUME NEW i, Redrive(i)
        PROVE  OutboxInv' /\ \A j \in DOMAIN outbox : outbox[j].claim # 0 => outbox'[j].claim # 0
    BY <1>5, RedriveInv
  <1>6. CASE DeliveryTick
    BY <1>6, DeliveryTickInv
  <1>7. ASSUME NEW d \in Dispatchers, ClaimBatch(d)
        PROVE  OutboxInv' /\ \A i \in DOMAIN outbox : outbox[i].claim # 0 => outbox'[i].claim # 0
    BY <1>7, ClaimBatchInv, ClaimBatchRows
  <1>8. ASSUME NEW d \in Dispatchers, Send(d)
        PROVE  OutboxInv' /\ \A i \in DOMAIN outbox : outbox[i].claim # 0 => outbox'[i].claim # 0
    <2>1. UNCHANGED outbox
      BY <1>8 DEF Send
    <2> QED
      BY <1>8, <2>1, SendInv
  <1>9. ASSUME NEW d \in Dispatchers, CrashDispatcher(d)
        PROVE  OutboxInv' /\ \A i \in DOMAIN outbox : outbox[i].claim # 0 => outbox'[i].claim # 0
    <2>1. UNCHANGED <<outbox, sent>> /\ batch[d] # <<>>
          /\ outcome' = [outcome EXCEPT ![d] = "none"] /\ batch' = [batch EXCEPT ![d] = <<>>]
      BY <1>9 DEF CrashDispatcher
    <2>2. BatchesInv'
      BY <2>1, BatchShrinks
    <2>3. RowsInv'
      BY <2>1 DEF OutboxInv, RowsInv
    <2> QED
      BY <2>1, <2>2, <2>3 DEF OutboxInv
  <1>10. CASE UNCHANGED deliveryVars
    BY <1>1, <1>10 DEF deliveryVars
  <1> QED
    BY <1>1, <1>2, <1>3, <1>4, <1>5, <1>6, <1>7, <1>8, <1>9, <1>10, SettleInv
    DEF DeliveryNext, Dispatch

\* For any number of dispatchers, crashes and overrun leases: a claim is ended
\* only by the dispatcher that holds it, with what the provider answered.
THEOREM ClaimsAreFenced == DeliverySpec => SettledByItsOwner
  <1>1. DeliveryInit => OutboxInv
    BY DEF DeliveryInit, OutboxInv, RowsInv, BatchesInv
  <1>2. OutboxInv /\ [DeliveryNext]_deliveryVars => OutboxInv'
    BY OutboxStep
  <1> DEFINE Settled(i) ==
        /\ \E d \in Dispatchers : /\ batch[d] # <<>> /\ batch'[d] = Tail(batch[d])
                                  /\ Head(batch[d]).row = i
                                  /\ Head(batch[d]).id = outbox[i].claim
        /\ outbox'[i].status = "delivered" => i \in sent
        /\ outbox'[i].status = "open" => outbox[i].attempts < MaxAttempts
  <1>3. ASSUME OutboxInv, [DeliveryNext]_deliveryVars, NEW i \in DOMAIN outbox,
               outbox[i].claim # 0, outbox'[i].claim = 0
        PROVE  Settled(i)
    <2>1. PICK d \in Dispatchers : Settle(d)
      BY <1>3, OutboxStep
    <2> DEFINE c == Head(batch[d])
    <2>2. batch[d] # <<>> /\ batch'[d] = Tail(batch[d])
      BY <1>3, <2>1, SettleChanges DEF Settle, OutboxInv, BatchesInv
    <2>3. outbox' # outbox
      BY <1>3
    <2>4. PICK r \in OutRows : /\ outbox' = [outbox EXCEPT ![c.row] = r]
                               /\ outbox[c.row].claim = c.id /\ r.claim = 0
                               /\ r.status = "delivered" => outcome[d] = "sent"
                               /\ r.status = "open" => c.id < MaxAttempts
      BY <1>3, <2>1, <2>3, SettleChanges
    <2>5. outcome[d] = "sent" => c.row \in sent
      BY <1>3 DEF OutboxInv, BatchesInv
    <2> HIDE DEF c
    <2>6. i = c.row /\ outbox'[i] = r
      BY <1>3, <2>4
    <2>7. outbox[i].claim = outbox[i].attempts
      BY <1>3 DEF OutboxInv, RowsInv
    <2> QED
      BY <2>2, <2>4, <2>5, <2>6, <2>7 DEF c
  <1>4. OutboxInv /\ [DeliveryNext]_deliveryVars
          => [\A i \in DOMAIN outbox :
                outbox[i].claim # 0 /\ outbox'[i].claim = 0 => Settled(i)]_deliveryVars
    BY <1>3
  <1> QED
    BY <1>1, <1>2, <1>4, PTL DEF DeliverySpec, SettledByItsOwner

-----------------------------------------------------------------------------
(* Refresh-token families                                                  *)

SessionRows == [ttl : Nat, revoked : BOOLEAN, password : Nat]

RefreshRows == [session : Nat, consumed : BOOLEAN, revoked : BOOLEAN, reused : BOOLEAN]

FamiliesTypeOK ==
  /\ sessions \in Seq(SessionRows) /\ refresh \in Seq(RefreshRows)
  /\ \A i \in DOMAIN refresh : refresh[i].session \in DOMAIN sessions

\* The tokens of session s that can be used, of a list of tokens.
UsableOf(toks, s) == {i \in DOMAIN toks : /\ toks[i].session = s
                                            /\ ~toks[i].consumed /\ ~toks[i].revoked}

OneTokenEach ==
  \A s \in DOMAIN sessions :
    ~sessions[s].revoked => \E i \in UsableOf(refresh, s) : UsableOf(refresh, s) = {i}

ReuseEndsFamily ==
  \A i \in DOMAIN refresh :
    refresh[i].reused => /\ sessions[refresh[i].session].revoked
                         /\ UsableOf(refresh, refresh[i].session) = {}

FamiliesInv == password \in Nat /\ FamiliesTypeOK /\ OneTokenEach /\ ReuseEndsFamily

\* What the types say of a session and of a token.
LEMMA FamilyTyped ==
  ASSUME FamiliesTypeOK
  PROVE  /\ Len(sessions) \in Nat /\ DOMAIN sessions = 1..Len(sessions)
         /\ Len(refresh) \in Nat /\ DOMAIN refresh = 1..Len(refresh)
         /\ \A s \in DOMAIN sessions : sessions[s] \in SessionRows
         /\ \A i \in DOMAIN refresh : refresh[i] \in RefreshRows
  BY DEF FamiliesTypeOK

\* The rows that a revocation leaves.
LEMMA SessionRevoked ==
  ASSUME NEW r \in SessionRows
  PROVE  /\ [r EXCEPT !.revoked = TRUE] \in SessionRows
         /\ [r EXCEPT !.revoked = TRUE].revoked
         /\ [r EXCEPT !.revoked = TRUE].password = r.password
  BY DEF SessionRows

LEMMA TokenRevoked ==
  ASSUME NEW t \in RefreshRows
  PROVE  /\ [t EXCEPT !.revoked = TRUE] \in RefreshRows
         /\ [t EXCEPT !.revoked = TRUE].revoked
         /\ [t EXCEPT !.revoked = TRUE].session = t.session
         /\ [t EXCEPT !.revoked = TRUE].reused = t.reused
  BY DEF RefreshRows

\* The same tokens, but that some of session s may be marked as reused.
SameTokens(toks, s) ==
  /\ toks \in Seq(RefreshRows) /\ Len(toks) = Len(refresh)
  /\ \A j \in DOMAIN refresh :
       /\ toks[j].session = refresh[j].session
       /\ toks[j].consumed = refresh[j].consumed /\ toks[j].revoked = refresh[j].revoked
       /\ toks[j].reused => refresh[j].reused \/ refresh[j].session = s

\* Revoking a session and its tokens leaves it no usable token, and the others
\* alone.
LEMMA RevokeFamilyInv ==
  ASSUME FamiliesInv, NEW s \in DOMAIN sessions, NEW toks, SameTokens(toks, s),
         RevokeFamily(s, toks), UNCHANGED password
  PROVE  FamiliesInv'
  <1> DEFINE row(j) == IF toks[j].session = s THEN [toks[j] EXCEPT !.revoked = TRUE]
                       ELSE toks[j]
             over == [sessions[s] EXCEPT !.revoked = TRUE]
             n == Len(sessions)
             m == Len(refresh)
  <1>1. /\ n \in Nat /\ DOMAIN sessions = 1..n /\ m \in Nat /\ DOMAIN refresh = 1..m
        /\ sessions[s] \in SessionRows
    BY FamilyTyped DEF FamiliesInv
  <1>2. DOMAIN toks = 1..m /\ \A j \in 1..m : toks[j] \in RefreshRows
    BY <1>1 DEF SameTokens
  <1>3. \A j \in 1..m :
          /\ row(j) \in RefreshRows /\ row(j).session = refresh[j].session
          /\ row(j).reused => refresh[j].reused \/ refresh[j].session = s
          /\ refresh[j].session = s => row(j).revoked
          /\ refresh[j].session # s => /\ row(j).revoked = refresh[j].revoked
                                       /\ row(j).consumed = refresh[j].consumed
    <2> SUFFICES ASSUME NEW j \in 1..m
                 PROVE  /\ row(j) \in RefreshRows /\ row(j).session = refresh[j].session
                        /\ row(j).reused => refresh[j].reused \/ refresh[j].session = s
                        /\ refresh[j].session = s => row(j).revoked
                        /\ refresh[j].session # s => /\ row(j).revoked = refresh[j].revoked
                                                     /\ row(j).consumed = refresh[j].consumed
      OBVIOUS
    <2>1. /\ toks[j] \in RefreshRows /\ toks[j].session = refresh[j].session
          /\ toks[j].consumed = refresh[j].consumed /\ toks[j].revoked = refresh[j].revoked
          /\ toks[j].reused => refresh[j].reused \/ refresh[j].session = s
      BY <1>1, <1>2 DEF SameTokens
    <2>2. CASE toks[j].session = s
      BY <2>1, <2>2, TokenRevoked
    <2>3. CASE toks[j].session # s
      BY <2>1, <2>3
    <2> QED
      BY <2>2, <2>3
  <1>4. over \in SessionRows /\ over.revoked
    BY <1>1, SessionRevoked
  <1>5. sessions' = [sessions EXCEPT ![s] = over] /\ refresh' = [j \in 1..m |-> row(j)]
    BY <1>1, <1>2 DEF RevokeFamily
  <1> HIDE DEF row, over
  <1>6. refresh' \in Seq(RefreshRows) /\ Len(refresh') = m /\ DOMAIN refresh' = 1..m
    BY <1>1, <1>3, <1>5
  <1>7. sessions' \in Seq(SessionRows) /\ DOMAIN sessions' = 1..n
    BY <1>1, <1>4, <1>5 DEF FamiliesInv, FamiliesTypeOK
  <1>8. /\ sessions'[s].revoked
        /\ \A r \in 1..n : r # s => sessions'[r] = sessions[r]
        /\ \A j \in 1..m : refresh'[j] = row(j)
    BY <1>1, <1>4, <1>5
  <1>9. /\ UsableOf(refresh', s) = {}
        /\ \A r \in 1..n : r # s => UsableOf(refresh', r) = UsableOf(refresh, r)
    BY <1>1, <1>3, <1>6, <1>8 DEF UsableOf
  <1> HIDE DEF n, m
  <1>10. FamiliesTypeOK'
    BY <1>1, <1>3, <1>6, <1>7, <1>8 DEF FamiliesInv, FamiliesTypeOK
  <1>11. OneTokenEach'
    BY <1>1, <1>7, <1>8, <1>9 DEF FamiliesInv, OneTokenEach
  <1>12. ReuseEndsFamily'
    <2> SUFFICES ASSUME NEW j \in 1..m, refresh'[j].reused
                 PROVE  /\ sessions'[refresh'[j].session].revoked
                        /\ UsableOf(refresh', refresh'[j].session) = {}
      BY <1>6 DEF ReuseEndsFamily
    <2>1. refresh'[j].session = refresh[j].session /\ refresh[j].session \in 1..n
      BY <1>1, <1>3, <1>8 DEF FamiliesInv, FamiliesTypeOK
    <2>2. refresh[j].reused \/ refresh[j].session = s
      BY <1>3, <1>8
    <2> QED
      BY <1>1, <1>8, <1>9, <2>1, <2>2 DEF FamiliesInv, ReuseEndsFamily
  <1> QED
    BY <1>10, <1>11, <1>12 DEF FamiliesInv

\* The tokens as they are, and with one of them marked as reused.
LEMMA SameTokensAre ==
  ASSUME FamiliesInv, NEW i \in DOMAIN refresh, NEW s
  PROVE  /\ SameTokens(refresh, s)
         /\ refresh[i].session = s => SameTokens([refresh EXCEPT ![i].reused = TRUE], s)
  <1>1. DOMAIN refresh = 1..Len(refresh) /\ refresh[i] \in RefreshRows
    BY FamilyTyped DEF FamiliesInv
  <1>2. SameTokens(refresh, s)
    BY DEF FamiliesInv, FamiliesTypeOK, SameTokens
  <1> DEFINE t == [refresh[i] EXCEPT !.reused = TRUE]
  <1>3. /\ t \in RefreshRows /\ t.session = refresh[i].session
        /\ t.consumed = refresh[i].consumed /\ t.revoked = refresh[i].revoked
    BY <1>1 DEF RefreshRows
  <1> HIDE DEF t
  <1>4. refresh[i].session = s => SameTokens([refresh EXCEPT ![i] = t], s)
    BY <1>1, <1>3 DEF FamiliesInv, FamiliesTypeOK, SameTokens
  <1> QED
    BY <1>2, <1>4 DEF t

\* A login opens a session with a token of its own.
LEMMA LoginInv == ASSUME FamiliesInv, Login PROVE FamiliesInv'
  <1> DEFINE n == Len(sessions)
             m == Len(refresh)
             new == [ttl |-> SessionTtl, revoked |-> FALSE, password |-> password]
             tok == NewRefresh(n + 1)
  <1>1. /\ n \in Nat /\ DOMAIN sessions = 1..n /\ m \in Nat /\ DOMAIN refresh = 1..m
    BY FamilyTyped DEF FamiliesInv
  <1>2. new \in SessionRows
    BY SessionConfig DEF FamiliesInv, SessionRows
  <1>3. tok \in RefreshRows /\ tok.session = n + 1
        /\ ~tok.consumed /\ ~tok.revoked /\ ~tok.reused
    BY <1>1 DEF NewRefresh, RefreshRows
  <1>4. sessions' = Append(sessions, new) /\ refresh' = Append(refresh, tok)
        /\ UNCHANGED password
    BY DEF Login, recoveryVars
  <1> HIDE DEF new, tok
  <1>5. /\ sessions' \in Seq(SessionRows) /\ DOMAIN sessions' = 1..(n + 1)
        /\ refresh' \in Seq(RefreshRows) /\ DOMAIN refresh' = 1..(m + 1)
    BY <1>1, <1>2, <1>3, <1>4 DEF FamiliesInv, FamiliesTypeOK
  <1>6. /\ \A s \in 1..n : sessions'[s] = sessions[s]
        /\ \A i \in 1..m : refresh'[i] = refresh[i]
        /\ refresh'[m + 1] = tok
    BY <1>1, <1>4 DEF FamiliesInv, FamiliesTypeOK
  <1>7. \A i \in 1..m : refresh[i].session \in 1..n
    BY <1>1 DEF FamiliesInv, FamiliesTypeOK
  <1> HIDE DEF n, m
  <1>8. UsableOf(refresh', n + 1) = {m + 1}
    BY <1>1, <1>3, <1>5, <1>6, <1>7 DEF UsableOf
  <1>9. \A s \in 1..n : UsableOf(refresh', s) = UsableOf(refresh, s)
    BY <1>1, <1>3, <1>5, <1>6, <1>7 DEF UsableOf
  <1>10. FamiliesTypeOK'
    BY <1>1, <1>3, <1>5, <1>6, <1>7 DEF FamiliesTypeOK
  <1>11. OneTokenEach'
    <2> SUFFICES ASSUME NEW s \in 1..(n + 1), ~sessions'[s].revoked
                 PROVE  \E i \in UsableOf(refresh', s) : UsableOf(refresh', s) = {i}
      BY <1>5 DEF OneTokenEach
    <2>1. CASE s = n + 1
      BY <1>8, <2>1
    <2>2. CASE s # n + 1
      <3>1. s \in 1..n
        BY <1>1, <2>2
      <3> QED
        BY <1>1, <1>6, <1>9, <3>1 DEF FamiliesInv, OneTokenEach
    <2> QED
      BY <2>1, <2>2
  <1>12. ReuseEndsFamily'
    <2> SUFFICES ASSUME NEW i \in 1..(m + 1), refresh'[i].reused
                 PROVE  /\ sessions'[refresh'[i].session].revoked
                        /\ UsableOf(refresh', refresh'[i].session) = {}
      BY <1>5 DEF ReuseEndsFamily
    <2>1. i \in 1..m
      BY <1>1, <1>3, <1>6
    <2> QED
      BY <1>1, <1>6, <1>7, <1>9, <2>1 DEF FamiliesInv, ReuseEndsFamily
  <1> QED
    BY <1>4, <1>10, <1>11, <1>12 DEF FamiliesInv

\* A rotation replaces the one usable token of a session by another.
LEMMA RotateInv ==
  ASSUME FamiliesInv, NEW i \in DOMAIN refresh, UNCHANGED <<sessions, password>>,
         ~refresh[i].consumed, ~refresh[i].revoked, ~sessions[refresh[i].session].revoked,
         RotateRefreshToken(i)
  PROVE  FamiliesInv'
  <1> DEFINE n == Len(sessions)
             m == Len(refresh)
             s == refresh[i].session
             old == [refresh[i] EXCEPT !.consumed = TRUE]
             tok == NewRefresh(s)
             mid == [refresh EXCEPT ![i] = old]
  <1>1. /\ n \in Nat /\ DOMAIN sessions = 1..n /\ m \in Nat /\ DOMAIN refresh = 1..m
        /\ refresh[i] \in RefreshRows
    BY FamilyTyped DEF FamiliesInv
  <1>2. \A j \in 1..m : refresh[j].session \in 1..n
    BY <1>1 DEF FamiliesInv, FamiliesTypeOK
  <1>3. old \in RefreshRows /\ old.consumed /\ old.session = s
        /\ old.reused = refresh[i].reused
    BY <1>1 DEF RefreshRows
  <1>4. s \in 1..n
    BY <1>1, <1>2
  <1>5. tok \in RefreshRows /\ tok.session = s /\ ~tok.consumed /\ ~tok.revoked /\ ~tok.reused
    BY <1>1, <1>4 DEF NewRefresh, RefreshRows
  <1>6. refresh' = Append(mid, tok)
    BY DEF RotateRefreshToken
  <1>7. UsableOf(refresh, s) = {i}
    <2>1. i \in UsableOf(refresh, s)
      BY DEF UsableOf
    <2>2. \E j \in UsableOf(refresh, s) : UsableOf(refresh, s) = {j}
      BY <1>1, <1>4 DEF FamiliesInv, OneTokenEach
    <2> QED
      BY <2>1, <2>2
  <1> HIDE DEF old, tok, s
  <1>8. mid \in Seq(RefreshRows) /\ Len(mid) = m /\ mid[i] = old
        /\ \A j \in 1..m : j # i => mid[j] = refresh[j]
    BY <1>1, <1>3 DEF FamiliesInv, FamiliesTypeOK
  <1> HIDE DEF mid
  <1>9. refresh' \in Seq(RefreshRows) /\ DOMAIN refresh' = 1..(m + 1)
    BY <1>1, <1>5, <1>6, <1>8
  <1>10. /\ \A j \in 1..m : j # i => refresh'[j] = refresh[j]
         /\ refresh'[i] = old /\ refresh'[m + 1] = tok
    BY <1>1, <1>6, <1>8
  <1> HIDE DEF n, m
  <1>11. UsableOf(refresh', s) = {m + 1}
    <2>1. m + 1 \in UsableOf(refresh', s)
      BY <1>1, <1>5, <1>9, <1>10 DEF UsableOf
    <2>2. ASSUME NEW j \in UsableOf(refresh', s), j # m + 1 PROVE FALSE
      <3>1. j \in 1..m
        BY <1>1, <1>9, <2>2 DEF UsableOf
      <3>2. j # i
        BY <1>3, <1>10 DEF UsableOf
      <3>3. j \in UsableOf(refresh, s)
        BY <1>1, <1>10, <3>1, <3>2 DEF UsableOf
      <3> QED
        BY <1>7, <3>2, <3>3
    <2> QED
      BY <2>1, <2>2
  <1>12. \A r \in 1..n : r # s => UsableOf(refresh', r) = UsableOf(refresh, r)
    <2> SUFFICES ASSUME NEW r \in 1..n, r # s PROVE UsableOf(refresh', r) = UsableOf(refresh, r)
      OBVIOUS
    <2>1. refresh'[i].session = s /\ refresh[i].session = s /\ refresh'[m + 1].session = s
      BY <1>3, <1>5, <1>10 DEF s
    <2> QED
      BY <1>1, <1>9, <1>10, <2>1 DEF UsableOf
  <1>13. FamiliesTypeOK'
    BY <1>1, <1>2, <1>3, <1>4, <1>5, <1>9, <1>10 DEF FamiliesInv, FamiliesTypeOK
  <1>14. OneTokenEach'
    BY <1>1, <1>11, <1>12 DEF FamiliesInv, OneTokenEach
  <1>15. ReuseEndsFamily'
    <2> SUFFICES ASSUME NEW j \in 1..(m + 1), refresh'[j].reused
                 PROVE  /\ sessions'[refresh'[j].session].revoked
                        /\ UsableOf(refresh', refresh'[j].session) = {}
      BY <1>9 DEF ReuseEndsFamily
    <2>1. j \in 1..m
      BY <1>1, <1>5, <1>10
    <2>2. refresh[j].reused /\ refresh'[j].session = refresh[j].session
      BY <1>3, <1>10, <2>1 DEF s
    <2>3. sessions[refresh[j].session].revoked /\ UsableOf(refresh, refresh[j].session) = {}
      BY <1>1, <2>1, <2>2 DEF FamiliesInv, ReuseEndsFamily
    <2>4. refresh[j].session # s
      BY <1>7, <2>3
    <2> QED
      BY <1>2, <1>12, <2>1, <2>2, <2>3, <2>4
  <1> QED
    BY <1>13, <1>14, <1>15 DEF FamiliesInv

\* Revoking every session and token leaves nothing usable.
LEMMA RevokeAllInv ==
  ASSUME FamiliesInv, RevokeAll, password' \in Nat
  PROVE  /\ FamiliesInv'
         /\ \A s \in DOMAIN sessions' : sessions'[s].revoked
  <1> DEFINE n == Len(sessions)
             m == Len(refresh)
             srow(s) == [sessions[s] EXCEPT !.revoked = TRUE]
             trow(i) == [refresh[i] EXCEPT !.revoked = TRUE]
  <1>1. /\ n \in Nat /\ DOMAIN sessions = 1..n /\ m \in Nat /\ DOMAIN refresh = 1..m
        /\ \A s \in 1..n : sessions[s] \in SessionRows
        /\ \A i \in 1..m : refresh[i] \in RefreshRows
    BY FamilyTyped DEF FamiliesInv
  <1>2. \A s \in 1..n : srow(s) \in SessionRows /\ srow(s).revoked
    BY <1>1, SessionRevoked
  <1>3. \A i \in 1..m : /\ trow(i) \in RefreshRows /\ trow(i).revoked
                        /\ trow(i).session = refresh[i].session
    BY <1>1, TokenRevoked
  <1>4. sessions' = [s \in 1..n |-> srow(s)] /\ refresh' = [i \in 1..m |-> trow(i)]
    BY <1>1 DEF RevokeAll
  <1> HIDE DEF srow, trow
  <1>5. sessions' \in Seq(SessionRows) /\ DOMAIN sessions' = 1..n
        /\ refresh' \in Seq(RefreshRows) /\ DOMAIN refresh' = 1..m
    BY <1>1, <1>2, <1>3, <1>4
  <1>6. \A s \in 1..n : sessions'[s].revoked
    BY <1>2, <1>4
  <1>7. \A s \in 1..n : UsableOf(refresh', s) = {}
    BY <1>3, <1>4, <1>5 DEF UsableOf
  <1>8. \A i \in 1..m : refresh'[i].session \in 1..n
    BY <1>1, <1>3, <1>4 DEF FamiliesInv, FamiliesTypeOK
  <1> QED
    BY <1>5, <1>6, <1>7, <1>8 DEF FamiliesInv, FamiliesTypeOK, OneTokenEach, ReuseEndsFamily

\* Ending sessions without their tokens, or letting time pass, only takes
\* sessions away.
LEMMA SessionsOnlyEnd ==
  ASSUME FamiliesInv, UNCHANGED <<refresh, password>>,
         sessions' \in Seq(SessionRows), DOMAIN sessions' = DOMAIN sessions,
         \A s \in DOMAIN sessions : sessions[s].revoked => sessions'[s].revoked
  PROVE  FamiliesInv'
  BY DEF FamiliesInv, FamiliesTypeOK, OneTokenEach, ReuseEndsFamily

LEMMA RevokeOthersInv ==
  ASSUME FamiliesInv, NEW s \in DOMAIN sessions, RevokeOtherSessions(s)
  PROVE  /\ FamiliesInv'
         /\ DOMAIN sessions' = DOMAIN sessions
         /\ \A r \in DOMAIN sessions : /\ sessions[r].revoked => sessions'[r].revoked
                                       /\ sessions'[r].password = sessions[r].password
  <1> DEFINE n == Len(sessions)
             row(r) == IF r = s THEN sessions[r] ELSE [sessions[r] EXCEPT !.revoked = TRUE]
  <1>1. n \in Nat /\ DOMAIN sessions = 1..n /\ \A r \in 1..n : sessions[r] \in SessionRows
    BY FamilyTyped DEF FamiliesInv
  <1>2. \A r \in 1..n : /\ row(r) \in SessionRows /\ row(r).password = sessions[r].password
                        /\ sessions[r].revoked => row(r).revoked
    BY <1>1, SessionRevoked
  <1>3. sessions' = [r \in 1..n |-> row(r)] /\ UNCHANGED <<refresh, password>>
    BY <1>1 DEF RevokeOtherSessions, recoveryVars
  <1> HIDE DEF row
  <1>4. sessions' \in Seq(SessionRows) /\ DOMAIN sessions' = 1..n
    BY <1>1, <1>2, <1>3
  <1>5. \A r \in 1..n : /\ sessions[r].revoked => sessions'[r].revoked
                        /\ sessions'[r].password = sessions[r].password
    BY <1>2, <1>3
  <1> QED
    BY <1>1, <1>3, <1>4, <1>5, SessionsOnlyEnd

LEMMA SessionsTickInv ==
  ASSUME FamiliesInv, SessionsTick
  PROVE  /\ FamiliesInv'
         /\ DOMAIN sessions' = DOMAIN sessions
         /\ \A r \in DOMAIN sessions : /\ sessions'[r].revoked = sessions[r].revoked
                                       /\ sessions'[r].password = sessions[r].password
  <1> DEFINE n == Len(sessions)
             row(r) == [sessions[r] EXCEPT !.ttl = Earlier(@)]
  <1>1. n \in Nat /\ DOMAIN sessions = 1..n /\ \A r \in 1..n : sessions[r] \in SessionRows
    BY FamilyTyped DEF FamiliesInv
  <1>2. \A r \in 1..n : /\ row(r) \in SessionRows /\ row(r).password = sessions[r].password
                        /\ row(r).revoked = sessions[r].revoked
    BY <1>1 DEF SessionRows, Earlier
  <1>3. sessions' = [r \in 1..n |-> row(r)] /\ UNCHANGED <<refresh, password>>
    BY <1>1 DEF SessionsTick
  <1> HIDE DEF row
  <1>4. sessions' \in Seq(SessionRows) /\ DOMAIN sessions' = 1..n
    BY <1>1, <1>2, <1>3
  <1>5. \A r \in 1..n : /\ sessions'[r].revoked = sessions[r].revoked
                        /\ sessions'[r].password = sessions[r].password
    BY <1>2, <1>3
  <1> QED
    BY <1>1, <1>3, <1>4, <1>5, SessionsOnlyEnd

\* What presenting a token does: its family is revoked, or it is rotated.
LEMMA RefreshInv ==
  ASSUME FamiliesInv, NEW i \in DOMAIN refresh, Refresh(i)
  PROVE  FamiliesInv'
  <1> DEFINE s == refresh[i].session
  <1>1. s \in DOMAIN sessions
    BY DEF FamiliesInv, FamiliesTypeOK
  <1>2. UNCHANGED password
    BY DEF Refresh, recoveryVars
  <1>3. CASE RevokeFamily(s, [refresh EXCEPT ![i].reused = TRUE])
    BY <1>1, <1>2, <1>3, SameTokensAre, RevokeFamilyInv
  <1>4. CASE RevokeFamily(s, refresh)
    BY <1>1, <1>2, <1>4, SameTokensAre, RevokeFamilyInv
  <1>5. CASE /\ ~refresh[i].consumed /\ ~refresh[i].revoked /\ ~sessions[s].revoked
             /\ RotateRefreshToken(i) /\ UNCHANGED sessions
    BY <1>2, <1>5, RotateInv
  <1> QED
    BY <1>3, <1>4, <1>5 DEF Refresh

\* Every step keeps the families in order.
LEMMA FamiliesNext == FamiliesInv /\ [SessionsNext]_sessionVars => FamiliesInv'
  <1> SUFFICES ASSUME FamiliesInv, [SessionsNext]_sessionVars PROVE FamiliesInv'
    OBVIOUS
  <1>1. CASE UNCHANGED <<sessions, refresh, password>>
    BY <1>1 DEF FamiliesInv, FamiliesTypeOK, OneTokenEach, ReuseEndsFamily
  <1>2. ASSUME NEW i \in DOMAIN refresh, Logout(i) PROVE FamiliesInv'
    <2>1. refresh[i].session \in DOMAIN sessions /\ UNCHANGED password
      BY <1>2 DEF FamiliesInv, FamiliesTypeOK, Logout, recoveryVars
    <2> QED
      BY <1>2, <2>1, SameTokensAre, RevokeFamilyInv DEF Logout
  <1>3. ASSUME NEW s \in DOMAIN sessions, RevokeSession(s) PROVE FamiliesInv'
    <2>1. SameTokens(refresh, s)
      BY DEF FamiliesInv, FamiliesTypeOK, SameTokens
    <2> QED
      BY <1>3, <2>1, RevokeFamilyInv DEF RevokeSession, recoveryVars
  <1>4. ASSUME LogoutAll PROVE FamiliesInv'
    BY <1>4, RevokeAllInv DEF LogoutAll, FamiliesInv, recoveryVars
  <1>5. ASSUME CompleteRecovery PROVE FamiliesInv'
    BY <1>5, RevokeAllInv DEF CompleteRecovery, FamiliesInv
  <1>6. ASSUME \/ LoginRefused \/ StartRecovery \/ CompletionFails \/ ChangeSupervisorKeys
               \/ \E s \in DOMAIN sessions : ValidateIdentitySession(s) \/ ChangeApiKeys(s)
        PROVE  UNCHANGED <<sessions, refresh, password>>
    BY <1>6 DEF LoginRefused, StartRecovery, CompletionFails, ChangeSupervisorKeys,
                ValidateIdentitySession, ChangeApiKeys, recoveryVars
  <1>7. ASSUME NEW r \in DOMAIN requests,
               \/ VerifyRecovery(r) \/ CompletionExpires(r)
               \/ RevocationFails(r) \/ RevokeExternalAuthority(r)
        PROVE  UNCHANGED <<sessions, refresh, password>>
    BY <1>7 DEF VerifyRecovery, CompletionExpires, RevocationFails, RevokeExternalAuthority
  <1>8. CASE UNCHANGED sessionVars
    BY <1>1, <1>8 DEF sessionVars
  <1> QED
    BY <1>1, <1>2, <1>3, <1>4, <1>5, <1>6, <1>7, <1>8, LoginInv, RefreshInv, RevokeOthersInv,
       SessionsTickInv DEF SessionsNext

\* There are no sessions at the start, and every step keeps the invariant.
LEMMA FamiliesHold == SessionsSpec => []FamiliesInv
  <1>1. SessionsInit => FamiliesInv
    BY DEF SessionsInit, FamiliesInv, FamiliesTypeOK, OneTokenEach, ReuseEndsFamily
  <1> QED
    BY <1>1, FamiliesNext, PTL DEF SessionsSpec

\* For any number of sessions and tokens: a live session has exactly one usable
\* refresh token, and the family of a token that was presented twice is over.
THEOREM FamiliesNeverFork == SessionsSpec => []RefreshFamilies
  <1>1. FamiliesInv => RefreshFamilies
    <2> SUFFICES ASSUME FamiliesInv, NEW s \in DOMAIN sessions
                 PROVE  /\ ~sessions[s].revoked => Cardinality(UsableTokens(s)) = 1
                        /\ (\E i \in DOMAIN refresh : refresh[i].session = s /\ refresh[i].reused)
                              => sessions[s].revoked /\ UsableTokens(s) = {}
      BY DEF RefreshFamilies
    <2>1. UsableTokens(s) = UsableOf(refresh, s)
      BY DEF UsableTokens, UsableOf
    <2>2. ~sessions[s].revoked => \E i : UsableTokens(s) = {i}
      BY <2>1 DEF FamiliesInv, OneTokenEach
    <2>3. ~sessions[s].revoked => Cardinality(UsableTokens(s)) = 1
      BY <2>2, FS_Singleton
    <2> QED
      BY <2>1, <2>3 DEF FamiliesInv, ReuseEndsFamily
  <1> QED
    BY <1>1, FamiliesHold, PTL

-----------------------------------------------------------------------------
(* Account recovery                                                        *)

RequestStates == {"pending", "verified", "revoked", "expired", "completed"}

RequestRows == [state : RequestStates, attempts : Nat, ttl : Nat]

\* The requests of a list that were completed, and those that are open.
CompletedOf(reqs) == {r \in DOMAIN reqs : reqs[r].state = "completed"}

OpenOf(reqs) == {r \in DOMAIN reqs : reqs[r].state \in {"pending", "verified"}}

SessionsAreCurrent ==
  \A s \in DOMAIN sessions : ~sessions[s].revoked => sessions[s].password = password

KeyRows == [password : Nat, late : BOOLEAN]

\* While a completion is between the revocation of the files and its commit, all
\* the keys there are were written since.
KeysInTime ==
  /\ keys \in [Stores -> SUBSET KeyRows]
  /\ \A s \in Stores : \A k \in keys[s] :
       k.password # password \/ completing # 0 => k.late

RequestsInOrder ==
  /\ requests \in Seq(RequestRows)
  /\ \A r \in OpenOf(requests) : r = Len(requests)
  /\ password = Cardinality(CompletedOf(requests))

\* Nobody else settles the request of a completion under way.
CompletionHoldsRequest ==
  completing # 0 => completing \in DOMAIN requests /\ requests[completing].state = "verified"

RecoveryInv == /\ FamiliesInv /\ SessionsAreCurrent /\ KeysInTime
               /\ RequestsInOrder /\ CompletionHoldsRequest

LEMMA RequestsTyped ==
  ASSUME RequestsInOrder
  PROVE  /\ Len(requests) \in Nat /\ DOMAIN requests = 1..Len(requests)
         /\ \A r \in DOMAIN requests : requests[r] \in RequestRows
  BY DEF RequestsInOrder

\* A change of requests that opens and completes none.
LEMMA RequestsSettle ==
  ASSUME RequestsInOrder, UNCHANGED password, requests' \in Seq(RequestRows),
         Len(requests') = Len(requests), CompletedOf(requests') = CompletedOf(requests),
         OpenOf(requests') \subseteq OpenOf(requests)
  PROVE  RequestsInOrder'
  BY DEF RequestsInOrder

\* One request changes, and is neither completed before nor after.
LEMMA OneRequestMoves ==
  ASSUME RequestsInOrder, UNCHANGED password, NEW r \in OpenOf(requests),
         NEW q \in RequestRows, q.state # "completed",
         requests' = [requests EXCEPT ![r] = q]
  PROVE  RequestsInOrder'
  <1>1. DOMAIN requests = 1..Len(requests) /\ Len(requests) \in Nat
        /\ r \in 1..Len(requests) /\ requests[r].state # "completed"
    BY RequestsTyped DEF OpenOf
  <1>2. requests' \in Seq(RequestRows) /\ Len(requests') = Len(requests)
        /\ DOMAIN requests' = 1..Len(requests)
    <2>1. requests \in Seq(RequestRows)
      BY DEF RequestsInOrder
    <2> QED
      BY <1>1, <2>1
  <1>3. CompletedOf(requests') = CompletedOf(requests)
    BY <1>1, <1>2 DEF CompletedOf
  <1>4. OpenOf(requests') \subseteq OpenOf(requests)
    BY <1>1, <1>2 DEF OpenOf
  <1> QED
    BY <1>2, <1>3, <1>4, RequestsSettle

LEMMA VerifyRecoveryInv ==
  ASSUME RequestsInOrder, NEW r \in DOMAIN requests,
         VerifyRecovery(r) \/ CompletionExpires(r)
  PROVE  RequestsInOrder'
  <1>1. UNCHANGED password /\ r \in OpenOf(requests) /\ requests[r] \in RequestRows
    BY RequestsTyped DEF VerifyRecovery, CompletionExpires, OpenOf
  <1>2. RequestTtl \in Nat
    BY SessionConfig
  <1>3. \A st \in RequestStates : [requests[r] EXCEPT !.state = st] \in RequestRows
                                  /\ [requests[r] EXCEPT !.state = st].state = st
    BY <1>1 DEF RequestRows
  <1>4. /\ [requests[r] EXCEPT !.state = "verified", !.ttl = RequestTtl] \in RequestRows
        /\ [requests[r] EXCEPT !.state = "verified", !.ttl = RequestTtl].state = "verified"
    BY <1>1, <1>2 DEF RequestRows, RequestStates
  <1>5. /\ WrongCode(requests[r]) \in RequestRows
        /\ requests[r].state # "completed" => WrongCode(requests[r]).state # "completed"
    <2> DEFINE once == [requests[r] EXCEPT !.attempts = @ + 1]
    <2>1. once \in RequestRows /\ once.state = requests[r].state
      BY <1>1 DEF RequestRows
    <2>2. /\ [requests[r] EXCEPT !.attempts = @ + 1, !.state = "revoked"] \in RequestRows
          /\ [requests[r] EXCEPT !.attempts = @ + 1, !.state = "revoked"].state = "revoked"
      <3>1. [requests[r] EXCEPT !.attempts = @ + 1, !.state = "revoked"]
              = [once EXCEPT !.state = "revoked"]
        BY <1>1 DEF RequestRows
      <3> HIDE DEF once
      <3> QED
        BY <2>1, <3>1 DEF RequestRows, RequestStates
    <2> QED
      BY <2>1, <2>2 DEF WrongCode
  <1>6. requests[r].state # "completed"
    BY <1>1 DEF OpenOf
  <1>7. \E q \in RequestRows : q.state # "completed" /\ requests' = [requests EXCEPT ![r] = q]
    <2>1. CASE CompletionExpires(r)
      <3>1. requests' = [requests EXCEPT ![r] = [requests[r] EXCEPT !.state = "expired"]]
        BY <2>1 DEF CompletionExpires
      <3> QED
        BY <1>3, <3>1 DEF RequestStates
    <2>2. CASE VerifyRecovery(r)
      <3>1. \/ requests' = [requests EXCEPT ![r] = [requests[r] EXCEPT !.state = "expired"]]
            \/ requests' = [requests EXCEPT ![r] = WrongCode(requests[r])]
            \/ requests' = [requests EXCEPT ![r] =
                              [requests[r] EXCEPT !.state = "verified", !.ttl = RequestTtl]]
        BY <2>2 DEF VerifyRecovery
      <3> QED
        BY <1>3, <1>4, <1>5, <1>6, <3>1 DEF RequestStates
    <2> QED
      BY <2>1, <2>2
  <1> QED
    BY <1>1, <1>7, OneRequestMoves

\* A new request closes the ones before it.
LEMMA StartRecoveryInv ==
  ASSUME RequestsInOrder, StartRecovery
  PROVE  RequestsInOrder'
  <1> DEFINE n == Len(requests)
             row(r) == IF Open(r) THEN [requests[r] EXCEPT !.state = "revoked"] ELSE requests[r]
             new == [state |-> "pending", attempts |-> 0, ttl |-> RequestTtl]
  <1>1. n \in Nat /\ DOMAIN requests = 1..n /\ \A r \in 1..n : requests[r] \in RequestRows
    BY RequestsTyped
  <1>2. \A r \in 1..n : /\ row(r) \in RequestRows
                        /\ row(r).state \notin {"pending", "verified"}
                        /\ row(r).state = "completed" <=> requests[r].state = "completed"
    BY <1>1 DEF RequestRows, RequestStates, Open
  <1>3. new \in RequestRows /\ new.state = "pending"
    BY SessionConfig DEF RequestRows, RequestStates
  <1>4. InvalidateActiveRequests = [r \in 1..n |-> row(r)]
    BY <1>1 DEF InvalidateActiveRequests
  <1>5. requests' = Append(InvalidateActiveRequests, new) /\ UNCHANGED password
    BY DEF StartRecovery
  <1> HIDE DEF row, new
  <1>6. InvalidateActiveRequests \in Seq(RequestRows) /\ Len(InvalidateActiveRequests) = n
    BY <1>1, <1>2, <1>4
  <1>7. /\ requests' \in Seq(RequestRows) /\ Len(requests') = n + 1
        /\ DOMAIN requests' = 1..(n + 1) /\ requests'[n + 1] = new
        /\ \A r \in 1..n : requests'[r] = row(r)
    BY <1>1, <1>3, <1>4, <1>5, <1>6
  <1> HIDE DEF n
  <1>8. OpenOf(requests') = {n + 1}
    BY <1>1, <1>2, <1>3, <1>7 DEF OpenOf
  <1>9. CompletedOf(requests') = CompletedOf(requests)
    BY <1>1, <1>2, <1>3, <1>7 DEF CompletedOf
  <1> QED
    BY <1>5, <1>7, <1>8, <1>9 DEF RequestsInOrder

\* Time only moves the deadlines of requests.
LEMMA RequestsTick ==
  ASSUME RequestsInOrder, SessionsTick
  PROVE  RequestsInOrder'
  <1> DEFINE n == Len(requests)
             row(r) == [requests[r] EXCEPT !.ttl = Earlier(@)]
  <1>1. n \in Nat /\ DOMAIN requests = 1..n /\ \A r \in 1..n : requests[r] \in RequestRows
    BY RequestsTyped
  <1>2. \A r \in 1..n : row(r) \in RequestRows /\ row(r).state = requests[r].state
    BY <1>1 DEF RequestRows, Earlier
  <1>3. requests' = [r \in 1..n |-> row(r)] /\ UNCHANGED password
    BY <1>1 DEF SessionsTick
  <1> HIDE DEF row
  <1>4. requests' \in Seq(RequestRows) /\ Len(requests') = n /\ DOMAIN requests' = 1..n
    BY <1>1, <1>2, <1>3
  <1>5. CompletedOf(requests') = CompletedOf(requests) /\ OpenOf(requests') = OpenOf(requests)
    BY <1>1, <1>2, <1>3, <1>4 DEF CompletedOf, OpenOf
  <1> QED
    BY <1>3, <1>4, <1>5, RequestsSettle

\* A completion adds itself to the completed requests and one to the passwords.
LEMMA CompleteRecoveryInv ==
  ASSUME RequestsInOrder, CompletionHoldsRequest, CompleteRecovery
  PROVE  RequestsInOrder' /\ password' = password + 1
  <1> DEFINE r == completing
             q == [requests[r] EXCEPT !.state = "completed"]
             n == Len(requests)
  <1>0. r \in DOMAIN requests /\ requests[r].state = "verified"
    BY DEF CompletionHoldsRequest, CompleteRecovery
  <1>1. n \in Nat /\ DOMAIN requests = 1..n /\ requests[r] \in RequestRows
    BY <1>0, RequestsTyped
  <1>2. q \in RequestRows /\ q.state = "completed"
    BY <1>1 DEF RequestRows, RequestStates
  <1>3. requests' = [requests EXCEPT ![r] = q] /\ requests[r].state = "verified"
        /\ password' = password + 1
    BY <1>0 DEF CompleteRecovery
  <1> HIDE DEF q, r
  <1>4. requests' \in Seq(RequestRows) /\ Len(requests') = n /\ DOMAIN requests' = 1..n
    BY <1>0, <1>1, <1>2, <1>3 DEF RequestsInOrder
  <1>5. CompletedOf(requests') = CompletedOf(requests) \cup {r} /\ r \notin CompletedOf(requests)
    BY <1>0, <1>1, <1>2, <1>3, <1>4 DEF CompletedOf
  <1>6. OpenOf(requests') \subseteq OpenOf(requests)
    BY <1>1, <1>2, <1>3, <1>4 DEF OpenOf
  <1>7. IsFiniteSet(CompletedOf(requests))
    <2>1. CompletedOf(requests) \subseteq 1..n
      BY <1>1 DEF CompletedOf
    <2>2. IsFiniteSet(1..n)
      BY <1>1, FS_Interval
    <2> QED
      BY <2>1, <2>2, FS_Subset
  <1>8. Cardinality(CompletedOf(requests')) = Cardinality(CompletedOf(requests)) + 1
    BY <1>5, <1>7, FS_AddElement
  <1>9. \A x \in OpenOf(requests') : x = Len(requests')
    BY <1>4, <1>6 DEF RequestsInOrder
  <1>10. password' = Cardinality(CompletedOf(requests'))
    BY <1>3, <1>8 DEF RequestsInOrder
  <1> QED
    BY <1>3, <1>4, <1>9, <1>10 DEF RequestsInOrder

\* Sessions that stay, or end, keep the password they were opened with.
LEMMA SessionsStayCurrent ==
  ASSUME SessionsAreCurrent, UNCHANGED password, DOMAIN sessions' = DOMAIN sessions,
         \A s \in DOMAIN sessions : /\ sessions[s].revoked => sessions'[s].revoked
                                    /\ sessions'[s].password = sessions[s].password
  PROVE  SessionsAreCurrent'
  BY DEF SessionsAreCurrent

LEMMA RevokeFamilyCurrent ==
  ASSUME FamiliesInv, SessionsAreCurrent, NEW s \in DOMAIN sessions, NEW toks,
         RevokeFamily(s, toks), UNCHANGED password
  PROVE  SessionsAreCurrent'
  <1> DEFINE over == [sessions[s] EXCEPT !.revoked = TRUE]
  <1>1. over.revoked /\ over.password = sessions[s].password
    BY FamilyTyped, SessionRevoked DEF FamiliesInv
  <1>2. sessions' = [sessions EXCEPT ![s] = over]
    BY DEF RevokeFamily
  <1> HIDE DEF over
  <1>3. DOMAIN sessions' = DOMAIN sessions /\ sessions'[s] = over
        /\ \A r \in DOMAIN sessions : r # s => sessions'[r] = sessions[r]
    BY <1>2 DEF FamiliesInv, FamiliesTypeOK
  <1> QED
    BY <1>1, <1>3, SessionsStayCurrent

LEMMA LoginCurrent ==
  ASSUME FamiliesInv, SessionsAreCurrent, Login
  PROVE  SessionsAreCurrent'
  <1> DEFINE n == Len(sessions)
             new == [ttl |-> SessionTtl, revoked |-> FALSE, password |-> password]
  <1>1. n \in Nat /\ DOMAIN sessions = 1..n
    BY FamilyTyped DEF FamiliesInv
  <1>2. new.password = password /\ sessions' = Append(sessions, new) /\ UNCHANGED password
    BY DEF Login, recoveryVars
  <1> HIDE DEF new
  <1>3. /\ DOMAIN sessions' = 1..(n + 1) /\ sessions'[n + 1] = new
        /\ \A s \in 1..n : sessions'[s] = sessions[s]
    BY <1>1, <1>2 DEF FamiliesInv, FamiliesTypeOK
  <1> HIDE DEF n
  <1> QED
    BY <1>1, <1>2, <1>3 DEF SessionsAreCurrent

\* A key that is written during a completion, or for an older password, is late.
LEMMA EditStoreInv ==
  ASSUME KeysInTime, NEW store \in Stores, NEW opened \in Nat,
         EditStore(store, NewKey(opened)), UNCHANGED <<password, completing>>
  PROVE  KeysInTime'
  <1> DEFINE new == NewKey(opened)
  <1>1. new \in KeyRows /\ (new.password # password \/ completing # 0 => new.late)
    BY DEF NewKey, KeyRows
  <1>2. PICK revoked \in {{}} \cup {{k} : k \in keys[store]}, issued \in {{}, {new}} :
          keys' = [keys EXCEPT ![store] = (@ \ revoked) \cup issued]
    BY DEF EditStore
  <1> HIDE DEF new
  <1>3. keys \in [Stores -> SUBSET KeyRows]
    BY DEF KeysInTime
  <1>4. \A s \in Stores : keys'[s] \subseteq keys[s] \cup {new}
    BY <1>2, <1>3
  <1>5. keys' \in [Stores -> SUBSET KeyRows]
    BY <1>1, <1>2, <1>3
  <1> QED
    BY <1>1, <1>4, <1>5 DEF KeysInTime

\* Revoking some of the stores leaves the keys of the others.
LEMMA ClearedKeys ==
  ASSUME KeysInTime, NEW done
  PROVE  /\ Cleared(done) \in [Stores -> SUBSET KeyRows]
         /\ \A s \in Stores : Cleared(done)[s] \subseteq keys[s]
         /\ \A s \in Stores : s \in done => Cleared(done)[s] = {}
  BY DEF KeysInTime, Cleared

\* Steps that leave sessions, keys or requests alone keep what is said of them.
LEMMA SameSessions ==
  ASSUME SessionsAreCurrent, UNCHANGED <<sessions, password>> PROVE SessionsAreCurrent'
  BY DEF SessionsAreCurrent

LEMMA SameKeys ==
  ASSUME KeysInTime, UNCHANGED <<keys, password, completing>> PROVE KeysInTime'
  BY DEF KeysInTime

LEMMA SameCompletion ==
  ASSUME CompletionHoldsRequest, UNCHANGED <<requests, completing>> PROVE CompletionHoldsRequest'
  BY DEF CompletionHoldsRequest

LEMMA SameRequests ==
  ASSUME RequestsInOrder, UNCHANGED <<requests, password>> PROVE RequestsInOrder'
  BY DEF RequestsInOrder

\* Steps on sessions alone.
LEMMA RecoveryStays ==
  ASSUME RecoveryInv, UNCHANGED recoveryVars
  PROVE  KeysInTime' /\ RequestsInOrder' /\ CompletionHoldsRequest'
  BY SameKeys, SameRequests, SameCompletion DEF RecoveryInv, recoveryVars

\* The new state of a request whose completion is not under way.
LEMMA OtherRequestMoves ==
  ASSUME CompletionHoldsRequest, RequestsInOrder, NEW r \in DOMAIN requests, r # completing,
         NEW q, requests' = [requests EXCEPT ![r] = q], UNCHANGED completing
  PROVE  CompletionHoldsRequest'
  BY DEF CompletionHoldsRequest, RequestsInOrder

\* Every step keeps the recovery invariant.
LEMMA RecoveryNext == RecoveryInv /\ [SessionsNext]_sessionVars => RecoveryInv'
  <1> SUFFICES ASSUME RecoveryInv, [SessionsNext]_sessionVars PROVE RecoveryInv'
    OBVIOUS
  <1>0. FamiliesInv /\ SessionsAreCurrent /\ KeysInTime /\ RequestsInOrder
        /\ CompletionHoldsRequest
    BY DEF RecoveryInv
  <1>1. FamiliesInv'
    BY <1>0, FamiliesNext
  <1> DEFINE Kept == /\ SessionsAreCurrent' /\ KeysInTime'
                     /\ RequestsInOrder' /\ CompletionHoldsRequest'
  <1> SUFFICES Kept
    BY <1>1 DEF RecoveryInv
  <1>2. CASE UNCHANGED sessionVars
    BY <1>0, <1>2, SameSessions, RecoveryStays DEF sessionVars, recoveryVars
  <1>3. CASE LoginRefused
    BY <1>0, <1>3, SameSessions, RecoveryStays DEF LoginRefused, recoveryVars
  <1>4. CASE Login
    BY <1>0, <1>4, LoginCurrent, RecoveryStays DEF Login
  <1>5. CASE LogoutAll
    <2>1. \A s \in DOMAIN sessions' : sessions'[s].revoked
      BY <1>0, <1>5, RevokeAllInv DEF LogoutAll, FamiliesInv, recoveryVars
    <2>2. SessionsAreCurrent'
      BY <2>1 DEF SessionsAreCurrent
    <2> QED
      BY <1>5, <2>2, RecoveryStays DEF LogoutAll
  <1>6. CASE StartRecovery
    <2>1. UNCHANGED <<sessions, password, completing, keys>> /\ completing = 0
      BY <1>6 DEF StartRecovery, UserRowFree
    <2>2. CompletionHoldsRequest'
      BY <2>1 DEF CompletionHoldsRequest
    <2> QED
      BY <1>0, <1>6, <2>1, <2>2, StartRecoveryInv, SameSessions, SameKeys
  <1>7. CASE SessionsTick
    <2>1. UNCHANGED <<password, completing, keys>>
      BY <1>7 DEF SessionsTick
    <2>2. SessionsAreCurrent'
      BY <1>0, <1>7, <2>1, SessionsTickInv, SessionsStayCurrent
    <2>3. DOMAIN requests' = DOMAIN requests
          /\ \A r \in DOMAIN requests : requests'[r].state = requests[r].state
      <3>1. \A r \in DOMAIN requests : requests[r] \in RequestRows
        BY <1>0, RequestsTyped
      <3>2. requests' = [r \in DOMAIN requests |-> [requests[r] EXCEPT !.ttl = Earlier(@)]]
        BY <1>7 DEF SessionsTick
      <3>3. \A r \in DOMAIN requests :
              [requests[r] EXCEPT !.ttl = Earlier(@)].state = requests[r].state
        BY <3>1 DEF RequestRows
      <3> QED
        BY <3>2, <3>3
    <2>4. CompletionHoldsRequest'
      BY <1>0, <2>1, <2>3 DEF CompletionHoldsRequest
    <2> QED
      BY <1>0, <1>7, <2>1, <2>2, <2>4, RequestsTick, SameKeys
  <1>8. ASSUME NEW i \in DOMAIN refresh, Refresh(i) PROVE Kept
    <2>1. UNCHANGED recoveryVars /\ UNCHANGED password
      BY <1>8 DEF Refresh, recoveryVars
    <2>2. refresh[i].session \in DOMAIN sessions
      BY <1>0 DEF FamiliesInv, FamiliesTypeOK
    <2>3. UNCHANGED sessions \/ \E toks : RevokeFamily(refresh[i].session, toks)
      BY <1>8 DEF Refresh
    <2>4. SessionsAreCurrent'
      BY <1>0, <2>1, <2>2, <2>3, RevokeFamilyCurrent, SameSessions
    <2> QED
      BY <2>1, <2>4, RecoveryStays
  <1>9. ASSUME NEW i \in DOMAIN refresh, Logout(i) PROVE Kept
    <2>1. /\ UNCHANGED recoveryVars /\ UNCHANGED password
          /\ RevokeFamily(refresh[i].session, refresh)
      BY <1>9 DEF Logout, recoveryVars
    <2>2. refresh[i].session \in DOMAIN sessions
      BY <1>0 DEF FamiliesInv, FamiliesTypeOK
    <2> QED
      BY <1>0, <2>1, <2>2, RevokeFamilyCurrent, RecoveryStays
  <1>10. ASSUME NEW s \in DOMAIN sessions, RevokeSession(s) PROVE Kept
    <2>1. UNCHANGED recoveryVars /\ UNCHANGED password /\ RevokeFamily(s, refresh)
      BY <1>10 DEF RevokeSession, recoveryVars
    <2> QED
      BY <1>0, <2>1, RevokeFamilyCurrent, RecoveryStays
  <1>11. ASSUME NEW s \in DOMAIN sessions, RevokeOtherSessions(s) PROVE Kept
    <2>1. UNCHANGED recoveryVars /\ UNCHANGED password
      BY <1>11 DEF RevokeOtherSessions, recoveryVars
    <2>2. SessionsAreCurrent'
      BY <1>0, <1>11, <2>1, RevokeOthersInv, SessionsStayCurrent
    <2> QED
      BY <2>1, <2>2, RecoveryStays
  <1>12. ASSUME NEW r \in DOMAIN requests, VerifyRecovery(r) \/ CompletionExpires(r) PROVE Kept
    <2>1. UNCHANGED <<sessions, password, completing, keys>>
      BY <1>12 DEF VerifyRecovery, CompletionExpires
    <2>2. r # completing
      <3>1. r # 0
        BY <1>0, RequestsTyped
      <3> QED
        BY <1>0, <1>12, <3>1 DEF VerifyRecovery, CompletionExpires, CompletionHoldsRequest
    <2>3. \E q : requests' = [requests EXCEPT ![r] = q]
      BY <1>12 DEF VerifyRecovery, CompletionExpires
    <2>4. CompletionHoldsRequest'
      BY <1>0, <2>1, <2>2, <2>3, OtherRequestMoves
    <2> QED
      BY <1>0, <1>12, <2>1, <2>4, VerifyRecoveryInv, SameSessions, SameKeys
  <1>13. ASSUME NEW r \in DOMAIN requests, RevocationFails(r) PROVE Kept
    <2>1. UNCHANGED <<sessions, password, requests, completing>> /\ \E done : keys' = Cleared(done)
      BY <1>13 DEF RevocationFails
    <2>2. KeysInTime'
      BY <1>0, <2>1, ClearedKeys DEF KeysInTime
    <2> QED
      BY <1>0, <2>1, <2>2, SameSessions, SameRequests, SameCompletion
  <1>14. ASSUME NEW r \in DOMAIN requests, RevokeExternalAuthority(r) PROVE Kept
    <2>1. /\ UNCHANGED <<sessions, password, requests>> /\ completing' = r
          /\ requests[r].state = "verified" /\ keys' = Cleared(Stores)
      BY <1>14 DEF RevokeExternalAuthority, Completable
    <2>2. KeysInTime'
      BY <1>0, <2>1, ClearedKeys DEF KeysInTime
    <2>3. CompletionHoldsRequest'
      BY <2>1 DEF CompletionHoldsRequest
    <2> QED
      BY <1>0, <2>1, <2>2, <2>3, SameSessions, SameRequests
  <1>15. CASE CompletionFails
    <2>1. UNCHANGED <<sessions, password, requests, keys>> /\ completing' = 0
      BY <1>15 DEF CompletionFails
    <2>2. KeysInTime' /\ CompletionHoldsRequest'
      BY <1>0, <2>1 DEF KeysInTime, CompletionHoldsRequest
    <2> QED
      BY <1>0, <2>1, <2>2, SameSessions, SameRequests
  <1>16. CASE CompleteRecovery
    <2>1. RequestsInOrder' /\ password' = password + 1
      BY <1>0, <1>16, CompleteRecoveryInv
    <2>2. RevokeAll /\ UNCHANGED keys /\ completing # 0 /\ completing' = 0
      BY <1>16 DEF CompleteRecovery
    <2>3. \A s \in DOMAIN sessions' : sessions'[s].revoked
      BY <1>0, <2>1, <2>2, RevokeAllInv DEF FamiliesInv
    <2>4. SessionsAreCurrent'
      BY <2>3 DEF SessionsAreCurrent
    <2>5. KeysInTime' /\ CompletionHoldsRequest'
      BY <1>0, <2>2 DEF KeysInTime, CompletionHoldsRequest
    <2> QED
      BY <2>1, <2>4, <2>5
  <1>17. ASSUME NEW s \in DOMAIN sessions, ValidateIdentitySession(s) PROVE Kept
    BY <1>0, <1>17, SameSessions, SameKeys, SameRequests, SameCompletion
    DEF ValidateIdentitySession
  <1>18. ASSUME NEW s \in DOMAIN sessions, ChangeApiKeys(s) PROVE Kept
    <2>1. /\ UNCHANGED <<sessions, password, requests, completing>>
          /\ EditStore("api", NewKey(sessions[s].password))
      BY <1>18 DEF ChangeApiKeys
    <2>2. sessions[s].password \in Nat /\ "api" \in Stores
      BY <1>0, FamilyTyped DEF FamiliesInv, SessionRows, Stores
    <2>3. KeysInTime'
      BY <1>0, <2>1, <2>2, EditStoreInv
    <2> QED
      BY <1>0, <2>1, <2>3, SameSessions, SameRequests, SameCompletion
  <1>19. CASE ChangeSupervisorKeys
    <2>1. /\ UNCHANGED <<sessions, password, requests, completing>>
          /\ EditStore("supervisor", NewKey(password))
      BY <1>19 DEF ChangeSupervisorKeys
    <2>2. password \in Nat /\ "supervisor" \in Stores
      BY <1>0 DEF FamiliesInv, Stores
    <2>3. KeysInTime'
      BY <1>0, <2>1, <2>2, EditStoreInv
    <2> QED
      BY <1>0, <2>1, <2>3, SameSessions, SameRequests, SameCompletion
  <1> HIDE DEF Kept
  <1> QED
    BY <1>2, <1>3, <1>4, <1>5, <1>6, <1>7, <1>8, <1>9, <1>10, <1>11, <1>12, <1>13, <1>14, <1>15,
       <1>16, <1>17, <1>18, <1>19
    DEF SessionsNext

\* The recovery invariant holds in every reachable state.
LEMMA RecoveryHolds == SessionsSpec => []RecoveryInv
  <1>1. SessionsInit => RecoveryInv
    <2> SUFFICES ASSUME SessionsInit PROVE RecoveryInv
      OBVIOUS
    <2>1. FamiliesInv
      BY DEF SessionsInit, FamiliesInv, FamiliesTypeOK, OneTokenEach, ReuseEndsFamily
    <2>2. SessionsAreCurrent /\ KeysInTime /\ CompletionHoldsRequest
      BY DEF SessionsInit, SessionsAreCurrent, KeysInTime, CompletionHoldsRequest
    <2>3. CompletedOf(requests) = {} /\ OpenOf(requests) = {}
      BY DEF SessionsInit, CompletedOf, OpenOf
    <2>4. RequestsInOrder
      BY <2>3, FS_EmptySet DEF SessionsInit, RequestsInOrder
    <2> QED
      BY <2>1, <2>2, <2>4 DEF RecoveryInv
  <1> QED
    BY <1>1, RecoveryNext, PTL DEF SessionsSpec

\* For any number of recoveries, sessions and keys: a recovery leaves no session
\* of an older password, and no key but those written between its revocation of
\* the files and its commit or by requests let in before the commit; each password
\* is the work of one recovery.
THEOREM RecoveryIsComplete == SessionsSpec => []RecoveryEndsOldAccess
  <1>1. RecoveryInv => RecoveryEndsOldAccess
    BY DEF RecoveryInv, SessionsAreCurrent, KeysInTime, RequestsInOrder, OpenOf, CompletedOf,
           RecoveryEndsOldAccess, Open
  <1> QED
    BY <1>1, RecoveryHolds, PTL

-----------------------------------------------------------------------------
(* Factors                                                                 *)

FactorRows == [label : Labels, status : {"pending", "active", "disabled"}, used : Forgotten..1]

MfaTypeOK ==
  /\ factors \in Seq(FactorRows)
  /\ codes \in Seq(SUBSET Codes) /\ Len(codes) = Len(factors)
  /\ accepted \in Seq([Window -> Nat]) /\ Len(accepted) = Len(factors)

\* A step that was accepted is not after the one a factor remembers as used.
StepsAreUsedUp ==
  \A f \in DOMAIN factors : \A o \in Window :
    accepted[f][o] <= IF o > factors[f].used THEN 0 ELSE 1

CodesOfActive == \A f \in DOMAIN factors : codes[f] # {} => factors[f].status = "active"

MfaInv == MfaTypeOK /\ StepsAreUsedUp /\ CodesOfActive

\* There are no factors at the start.
LEMMA MfaInitInv == MfaInit => MfaInv
  BY DEF MfaInit, MfaInv, MfaTypeOK, StepsAreUsedUp, CodesOfActive

\* What is known of a factor.
LEMMA FactorTyped ==
  ASSUME MfaTypeOK, NEW f \in 1..Len(factors)
  PROVE  /\ factors[f] \in FactorRows /\ factors[f].used \in Forgotten..1
         /\ codes[f] \subseteq Codes /\ accepted[f] \in [Window -> Nat]
  <1>1. factors[f] \in FactorRows
    BY DEF MfaTypeOK
  <1>2. codes[f] \in SUBSET Codes
    BY DEF MfaTypeOK
  <1>3. accepted[f] \in [Window -> Nat]
    BY DEF MfaTypeOK
  <1> QED
    BY <1>1, <1>2, <1>3 DEF FactorRows

\* The factor that an operation works on is one of those with the status.
LEMMA NewestIsOne ==
  ASSUME MfaTypeOK, NEW st, WithStatus(st) # {}
  PROVE  /\ Newest(WithStatus(st)) \in 1..Len(factors)
         /\ factors[Newest(WithStatus(st))].status = st
  <1>1. WithStatus(st) \subseteq 0..Len(factors) /\ Len(factors) \in Nat
        /\ DOMAIN factors = 1..Len(factors)
    BY DEF WithStatus, MfaTypeOK
  <1>2. \E x \in WithStatus(st) : \A y \in WithStatus(st) : y <= x
    BY <1>1, BoundedHasMax
  <1>3. Newest(WithStatus(st)) \in WithStatus(st)
    BY <1>2 DEF Newest
  <1> QED
    BY <1>1, <1>3 DEF WithStatus

\* A step of a factor is accepted: it is later than the one that was used, and
\* becomes that one.
LEMMA AcceptStep ==
  ASSUME MfaInv, NEW f \in 1..Len(factors), NEW o, VerifyTotp(f, o), Count(f, o),
         NEW row, row \in FactorRows, row.used = o,
         factors' = [factors EXCEPT ![f] = row]
  PROVE  StepsAreUsedUp' /\ accepted' \in Seq([Window -> Nat]) /\ Len(accepted') = Len(factors')
  <1>1. /\ o \in Window /\ o > factors[f].used
        /\ factors[f].used \in Int /\ accepted[f] \in [Window -> Nat]
        /\ DOMAIN factors = 1..Len(factors) /\ DOMAIN accepted = 1..Len(factors)
    <2>1. factors[f].used \in Forgotten..1 /\ accepted[f] \in [Window -> Nat]
      BY FactorTyped DEF MfaInv
    <2>2. DOMAIN factors = 1..Len(factors) /\ DOMAIN accepted = 1..Len(factors)
      BY DEF MfaInv, MfaTypeOK
    <2> QED
      BY <2>1, <2>2 DEF VerifyTotp, Forgotten
  <1> DEFINE a == [accepted[f] EXCEPT ![o] = accepted[f][o] + 1]
  <1>2. a \in [Window -> Nat] /\ accepted' = [accepted EXCEPT ![f] = a]
    BY <1>1 DEF Count
  <1>3. \A p \in Window : a[p] <= IF p > o THEN 0 ELSE 1
    BY <1>1 DEF MfaInv, StepsAreUsedUp, Window
  <1> HIDE DEF a
  <1>4. accepted' \in Seq([Window -> Nat]) /\ Len(accepted') = Len(accepted)
    BY <1>1, <1>2 DEF MfaInv, MfaTypeOK
  <1>5. Len(factors') = Len(factors) /\ DOMAIN factors' = 1..Len(factors)
    BY DEF MfaInv, MfaTypeOK
  <1>6. StepsAreUsedUp'
    BY <1>1, <1>2, <1>3, <1>5 DEF MfaInv, StepsAreUsedUp
  <1> QED
    BY <1>4, <1>5, <1>6 DEF MfaInv, MfaTypeOK

\* Confirmation activates the newest pending factor with new codes.
LEMMA ConfirmInv ==
  ASSUME MfaInv, NEW s \in MfaSessions, NEW o \in Window, ConfirmEnrollment(s, o)
  PROVE  MfaInv'
  <1> DEFINE f == Newest(WithStatus("pending"))
             row == [Used(f, o) EXCEPT !.status = "active"]
  <1>1. f \in 1..Len(factors)
    BY NewestIsOne DEF MfaInv, ConfirmEnrollment
  <1>2. /\ VerifyTotp(f, o) /\ Count(f, o) /\ factors' = [factors EXCEPT ![f] = row]
        /\ codes' = [codes EXCEPT ![f] = Codes]
    BY DEF ConfirmEnrollment
  <1> HIDE DEF f
  <1>3. row \in FactorRows /\ row.used = o /\ row.status = "active"
    <2>1. factors[f] \in FactorRows
      BY <1>1, FactorTyped DEF MfaInv
    <2>2. Used(f, o) \in FactorRows /\ Used(f, o).used = o
      BY <2>1 DEF FactorRows, Used, Window, Forgotten
    <2> QED
      BY <2>2 DEF FactorRows
  <1> HIDE DEF row
  <1>4. StepsAreUsedUp' /\ accepted' \in Seq([Window -> Nat]) /\ Len(accepted') = Len(factors')
    BY <1>1, <1>2, <1>3, AcceptStep
  <1>5. /\ factors' \in Seq(FactorRows) /\ Len(factors') = Len(factors)
        /\ codes' \in Seq(SUBSET Codes) /\ Len(codes') = Len(codes)
        /\ DOMAIN factors' = 1..Len(factors)
    BY <1>1, <1>2, <1>3 DEF MfaInv, MfaTypeOK
  <1>6. MfaTypeOK'
    BY <1>4, <1>5 DEF MfaInv, MfaTypeOK
  <1>7. CodesOfActive'
    BY <1>1, <1>2, <1>3, <1>5 DEF MfaInv, MfaTypeOK, CodesOfActive
  <1> QED
    BY <1>4, <1>6, <1>7 DEF MfaInv

\* A TOTP verification leaves the status of the factor alone.
LEMMA VerifyWithTotpInv ==
  ASSUME MfaInv, NEW s \in MfaSessions, NEW o \in Window, VerifyWithTotp(s, o)
  PROVE  MfaInv'
  <1> DEFINE f == Newest(WithStatus("active"))
             row == Used(f, o)
  <1>1. f \in 1..Len(factors) /\ factors[f].status = "active"
    BY NewestIsOne DEF MfaInv, VerifyWithTotp
  <1>2. /\ VerifyTotp(f, o) /\ Count(f, o) /\ factors' = [factors EXCEPT ![f] = row]
        /\ UNCHANGED codes
    BY DEF VerifyWithTotp
  <1> HIDE DEF f
  <1>3. row \in FactorRows /\ row.used = o /\ row.status = "active"
    <2>1. factors[f] \in FactorRows
      BY <1>1, FactorTyped DEF MfaInv
    <2> QED
      BY <1>1, <2>1 DEF FactorRows, Used, Window, Forgotten
  <1> HIDE DEF row
  <1>4. StepsAreUsedUp' /\ accepted' \in Seq([Window -> Nat]) /\ Len(accepted') = Len(factors')
    BY <1>1, <1>2, <1>3, AcceptStep
  <1>5. /\ factors' \in Seq(FactorRows) /\ Len(factors') = Len(factors)
        /\ DOMAIN factors' = 1..Len(factors)
    BY <1>1, <1>2, <1>3 DEF MfaInv, MfaTypeOK
  <1>6. MfaTypeOK'
    BY <1>2, <1>4, <1>5 DEF MfaInv, MfaTypeOK
  <1>7. CodesOfActive'
    BY <1>1, <1>2, <1>3, <1>5 DEF MfaInv, MfaTypeOK, CodesOfActive
  <1> QED
    BY <1>4, <1>6, <1>7 DEF MfaInv

\* Using or renewing recovery codes only touches those of an active factor.
LEMMA CodesInv ==
  ASSUME MfaInv, NEW s \in MfaSessions,
         (\E c \in Codes : VerifyWithCode(s, c)) \/ RegenerateRecoveryCodes(s)
  PROVE  MfaInv'
  <1> DEFINE f == Newest(WithStatus("active"))
  <1>1. f \in 1..Len(factors) /\ factors[f].status = "active"
    BY NewestIsOne DEF MfaInv, VerifyWithCode, RegenerateRecoveryCodes
  <1>2. /\ UNCHANGED <<factors, accepted>>
        /\ \E C : codes' = [codes EXCEPT ![f] = C] /\ (C = Codes \/ \E c \in Codes : C = codes[f] \ {c})
    BY DEF VerifyWithCode, RegenerateRecoveryCodes
  <1> HIDE DEF f
  <1>3. PICK C \in SUBSET Codes : codes' = [codes EXCEPT ![f] = C]
    <2>1. codes[f] \subseteq Codes
      BY <1>1, FactorTyped DEF MfaInv
    <2> QED
      BY <1>2, <2>1
  <1>4. MfaTypeOK'
    BY <1>1, <1>2, <1>3 DEF MfaInv, MfaTypeOK
  <1>5. StepsAreUsedUp'
    BY <1>2 DEF MfaInv, StepsAreUsedUp
  <1>6. CodesOfActive'
    BY <1>1, <1>2, <1>3 DEF MfaInv, MfaTypeOK, CodesOfActive
  <1> QED
    BY <1>4, <1>5, <1>6 DEF MfaInv

\* A factor that is switched off loses its codes.
LEMMA DisableInv ==
  ASSUME MfaInv, (\E s \in MfaSessions : Disable(s)) \/ RecoveryReset
  PROVE  MfaInv'
  <1>1. CASE \E s \in MfaSessions : Disable(s)
    <2> DEFINE f == Newest(WithStatus("active"))
               row == [factors[f] EXCEPT !.status = "disabled"]
    <2>1. f \in 1..Len(factors)
      BY <1>1, NewestIsOne DEF MfaInv, Disable
    <2>2. /\ factors' = [factors EXCEPT ![f] = row] /\ codes' = [codes EXCEPT ![f] = {}]
          /\ UNCHANGED accepted
      BY <1>1 DEF Disable
    <2> HIDE DEF f
    <2>3. row \in FactorRows /\ row.used = factors[f].used
      <3>1. factors[f] \in FactorRows
        BY <2>1, FactorTyped DEF MfaInv
      <3> QED
        BY <3>1 DEF FactorRows
    <2> HIDE DEF row
    <2>4. /\ MfaTypeOK' /\ DOMAIN factors = 1..Len(factors)
          /\ DOMAIN factors' = 1..Len(factors)
      BY <2>1, <2>2, <2>3 DEF MfaInv, MfaTypeOK
    <2>5. StepsAreUsedUp'
      BY <2>1, <2>2, <2>3, <2>4 DEF MfaInv, StepsAreUsedUp
    <2>6. CodesOfActive'
      BY <2>1, <2>2, <2>4 DEF MfaInv, MfaTypeOK, CodesOfActive
    <2> QED
      BY <2>4, <2>5, <2>6 DEF MfaInv
  <1>2. CASE RecoveryReset
    <2> DEFINE row(f) == [factors[f] EXCEPT !.status = "disabled"]
    <2>1. /\ DOMAIN factors = 1..Len(factors) /\ DOMAIN codes = 1..Len(factors)
          /\ Len(factors) \in Nat
      BY DEF MfaInv, MfaTypeOK
    <2>2. /\ factors' = [f \in 1..Len(factors) |-> row(f)]
          /\ codes' = [f \in 1..Len(factors) |-> {}]
          /\ UNCHANGED accepted
      BY <1>2, <2>1 DEF RecoveryReset
    <2>3. \A f \in 1..Len(factors) : row(f) \in FactorRows /\ row(f).used = factors[f].used
      <3>1. \A f \in 1..Len(factors) : factors[f] \in FactorRows
        BY FactorTyped DEF MfaInv
      <3> QED
        BY <3>1 DEF FactorRows
    <2> HIDE DEF row
    <2>4. /\ factors' \in Seq(FactorRows) /\ Len(factors') = Len(factors)
          /\ DOMAIN factors' = 1..Len(factors)
      BY <2>1, <2>2, <2>3
    <2>5. codes' \in Seq(SUBSET Codes) /\ Len(codes') = Len(factors)
      BY <2>1, <2>2
    <2>6. MfaTypeOK'
      BY <2>2, <2>4, <2>5 DEF MfaInv, MfaTypeOK
    <2>7. StepsAreUsedUp'
      BY <2>1, <2>2, <2>3, <2>4 DEF MfaInv, StepsAreUsedUp
    <2>8. CodesOfActive'
      BY <2>2, <2>4 DEF CodesOfActive
    <2> QED
      BY <2>6, <2>7, <2>8 DEF MfaInv
  <1> QED
    BY <1>1, <1>2

\* A new factor is pending and has no codes; the pending ones had none.
LEMMA EnrollInv ==
  ASSUME MfaInv, NEW e \in Enrolments, NEW label \in Labels, EnrollCommit(e, label)
  PROVE  MfaInv'
  <1>1. CASE UNCHANGED <<factors, codes, accepted>>
    BY <1>1 DEF MfaInv, MfaTypeOK, StepsAreUsedUp, CodesOfActive
  <1>2. CASE ~ UNCHANGED <<factors, codes, accepted>>
    <2> DEFINE new == [label |-> label, status |-> "pending", used |-> Forgotten]
               zero == [o \in Window |-> 0]
               n == Len(factors)
    <2>1. /\ factors' = Append(PendingDisabled, new)
          /\ codes' = Append(codes, {}) /\ accepted' = Append(accepted, zero)
      BY <1>2 DEF EnrollCommit
    <2>2. new \in FactorRows /\ new.used = Forgotten /\ new.status = "pending"
      BY DEF FactorRows, Forgotten
    <2>3. zero \in [Window -> Nat] /\ \A o \in Window : zero[o] = 0
      OBVIOUS
    <2> HIDE DEF new, zero
    <2>4. n \in Nat /\ DOMAIN factors = 1..n /\ Len(codes) = n /\ Len(accepted) = n
      BY DEF MfaInv, MfaTypeOK
    <2>5. /\ PendingDisabled \in Seq(FactorRows) /\ Len(PendingDisabled) = n
          /\ \A f \in 1..n :
               /\ PendingDisabled[f].used = factors[f].used
               /\ factors[f].status = "active" => PendingDisabled[f].status = "active"
      <3> DEFINE row(f) == IF factors[f].status = "pending"
                           THEN [factors[f] EXCEPT !.status = "disabled"] ELSE factors[f]
      <3>1. \A f \in 1..n : /\ row(f) \in FactorRows /\ row(f).used = factors[f].used
                            /\ factors[f].status = "active" => row(f).status = "active"
        <4>1. \A f \in 1..Len(factors) : factors[f] \in FactorRows
          BY FactorTyped DEF MfaInv
        <4> QED
          BY <4>1 DEF FactorRows
      <3>2. PendingDisabled = [f \in 1..n |-> row(f)]
        BY <2>4 DEF PendingDisabled
      <3> HIDE DEF row
      <3> QED
        BY <2>4, <3>1, <3>2
    <2>6. /\ factors' \in Seq(FactorRows) /\ Len(factors') = n + 1
          /\ DOMAIN factors' = 1..(n + 1)
          /\ codes' \in Seq(SUBSET Codes) /\ Len(codes') = n + 1
          /\ accepted' \in Seq([Window -> Nat]) /\ Len(accepted') = n + 1
      BY <2>1, <2>2, <2>3, <2>4, <2>5 DEF MfaInv, MfaTypeOK
    <2>7. /\ \A f \in 1..n : /\ factors'[f] = PendingDisabled[f]
                             /\ codes'[f] = codes[f] /\ accepted'[f] = accepted[f]
          /\ factors'[n + 1] = new /\ codes'[n + 1] = {} /\ accepted'[n + 1] = zero
      BY <2>1, <2>4, <2>5 DEF MfaInv, MfaTypeOK
    <2> HIDE DEF n
    <2>8. MfaTypeOK'
      BY <2>6 DEF MfaTypeOK
    <2>9. \A f \in DOMAIN factors' : f \in 1..n \/ f = n + 1
      BY <2>4, <2>6
    <2>10. StepsAreUsedUp'
      <3>1. ASSUME NEW f \in 1..n, NEW o \in Window
            PROVE  accepted'[f][o] <= IF o > factors'[f].used THEN 0 ELSE 1
        BY <2>4, <2>5, <2>7 DEF MfaInv, StepsAreUsedUp
      <3>2. ASSUME NEW o \in Window
            PROVE  accepted'[n + 1][o] <= IF o > factors'[n + 1].used THEN 0 ELSE 1
        BY <2>2, <2>3, <2>7
      <3> QED
        BY <2>9, <3>1, <3>2 DEF StepsAreUsedUp
    <2>11. CodesOfActive'
      BY <2>4, <2>5, <2>7, <2>9 DEF MfaInv, CodesOfActive
    <2> QED
      BY <2>8, <2>10, <2>11 DEF MfaInv
  <1> QED
    BY <1>1, <1>2

\* Time moves the steps of the window and the step that was used together.
LEMMA MfaTickInv == ASSUME MfaInv, MfaTick PROVE MfaInv'
  <1> DEFINE n == Len(factors)
             row(f) == [factors[f] EXCEPT !.used = IF @ = Forgotten THEN @ ELSE @ - 1]
             shifted(f) == [o \in Window |-> IF o = 1 THEN 0 ELSE accepted[f][o + 1]]
  <1>1. /\ n \in Nat /\ DOMAIN factors = 1..n /\ DOMAIN accepted = 1..n
        /\ \A f \in 1..n : factors[f] \in FactorRows /\ accepted[f] \in [Window -> Nat]
    BY DEF MfaInv, MfaTypeOK
  <1>2. /\ factors' = [f \in 1..n |-> row(f)] /\ accepted' = [f \in 1..n |-> shifted(f)]
        /\ UNCHANGED codes
    BY <1>1 DEF MfaTick
  <1>3. \A f \in 1..n :
          /\ row(f) \in FactorRows /\ row(f).status = factors[f].status
          /\ row(f).used = IF factors[f].used = Forgotten THEN Forgotten ELSE factors[f].used - 1
    BY <1>1 DEF FactorRows, Forgotten
  <1>4. \A f \in 1..n :
          /\ shifted(f) \in [Window -> Nat]
          /\ \A o \in Window : shifted(f)[o] = IF o = 1 THEN 0 ELSE accepted[f][o + 1]
    BY <1>1 DEF Window
  <1>5. ASSUME NEW f \in 1..n, NEW o \in Window
        PROVE  shifted(f)[o] <= IF o > row(f).used THEN 0 ELSE 1
    <2>1. \A p \in Window : accepted[f][p] <= IF p > factors[f].used THEN 0 ELSE 1
      BY <1>1 DEF MfaInv, StepsAreUsedUp
    <2>2. factors[f].used \in Forgotten..1
      BY <1>1 DEF FactorRows
    <2> HIDE DEF shifted, row
    <2>3. CASE o = 1
      BY <1>4, <2>3
    <2>4. CASE o # 1
      <3>1. o + 1 \in Window /\ shifted(f)[o] = accepted[f][o + 1]
        BY <1>4, <2>4 DEF Window
      <3>2. accepted[f][o + 1] <= (IF o + 1 > factors[f].used THEN 0 ELSE 1)
        BY <2>1, <3>1
      <3>3. o + 1 > factors[f].used \/ ~(o > row(f).used)
        BY <1>3, <2>2 DEF Window, Forgotten
      <3>4. accepted[f][o + 1] \in Nat
        BY <1>1, <3>1
      <3> QED
        BY <3>1, <3>2, <3>3, <3>4
    <2> QED
      BY <2>3, <2>4
  <1> HIDE DEF row, shifted
  <1>6. /\ factors' \in Seq(FactorRows) /\ Len(factors') = n /\ DOMAIN factors' = 1..n
        /\ accepted' \in Seq([Window -> Nat]) /\ Len(accepted') = n
    BY <1>1, <1>2, <1>3, <1>4
  <1>7. MfaTypeOK'
    BY <1>2, <1>6 DEF MfaInv, MfaTypeOK
  <1>8. StepsAreUsedUp'
    BY <1>2, <1>5, <1>6 DEF StepsAreUsedUp
  <1>9. CodesOfActive'
    BY <1>1, <1>2, <1>3, <1>6 DEF MfaInv, CodesOfActive
  <1> QED
    BY <1>7, <1>8, <1>9 DEF MfaInv

\* Every step keeps the invariant.
LEMMA MfaNextInv == MfaInv /\ [MfaNext]_mfaVars => MfaInv'
  <1> SUFFICES ASSUME MfaInv, [MfaNext]_mfaVars PROVE MfaInv'
    OBVIOUS
  <1>1. CASE \/ UNCHANGED mfaVars \/ (\E e \in Enrolments : EnrollCheck(e))
             \/ (\E s \in MfaSessions : NewLogin(s))
    <2>1. UNCHANGED <<factors, codes, accepted>>
      BY <1>1 DEF mfaVars, EnrollCheck, NewLogin
    <2> QED
      BY <2>1 DEF MfaInv, MfaTypeOK, StepsAreUsedUp, CodesOfActive
  <1> QED
    BY <1>1, EnrollInv, ConfirmInv, VerifyWithTotpInv, CodesInv, DisableInv, MfaTickInv
    DEF MfaNext

\* The invariant holds in every reachable state.
LEMMA MfaInvHolds == MfaSpec => []MfaInv
  BY MfaInitInv, MfaNextInv, PTL DEF MfaSpec

\* For any number of factors, sessions and enrolments: no TOTP code is accepted
\* twice and no recovery code outlives its factor.
THEOREM CodesWorkOnce == MfaSpec => []NoCodeReplay
  <1>1. MfaInv => NoCodeReplay
    <2> SUFFICES ASSUME MfaInv PROVE NoCodeReplay
      OBVIOUS
    <2>1. DOMAIN accepted = DOMAIN factors
      BY DEF MfaInv, MfaTypeOK
    <2>2. \A f \in DOMAIN accepted : \A o \in Window : accepted[f][o] \in Nat
      BY DEF MfaInv, MfaTypeOK
    <2>3. \A f \in DOMAIN accepted : \A o \in Window : accepted[f][o] <= 1
      <3> SUFFICES ASSUME NEW f \in DOMAIN accepted, NEW o \in Window
                   PROVE  accepted[f][o] <= 1
        OBVIOUS
      <3>1. accepted[f][o] <= (IF o > factors[f].used THEN 0 ELSE 1) /\ accepted[f][o] \in Nat
        BY <2>1, <2>2 DEF MfaInv, StepsAreUsedUp
      <3> QED
        BY <3>1
    <2> QED
      BY <2>3 DEF MfaInv, CodesOfActive, NoCodeReplay
  <1> QED
    BY <1>1, MfaInvHolds, PTL
=============================================================================

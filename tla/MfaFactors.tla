----------------------------- MODULE MfaFactors -----------------------------
(***************************************************************************)
(* Multi-factor authentication of one user (auth/mfa_service.py,           *)
(* auth/mfa_repository.py, auth/totp.py): TOTP factors, their recovery     *)
(* codes and the step-up of sessions.                                      *)
(*                                                                         *)
(* Operations are transactions that lock the factor and the session they   *)
(* change.  An enrolment is two steps: it looks for an active factor while *)
(* there is none to lock, and locks the user only afterwards.              *)
(*                                                                         *)
(* A TOTP step is counted from the current one: a code is for step -1, 0   *)
(* or 1, and time moves a step that was used towards Forgotten.            *)
(***************************************************************************)
EXTENDS Integers, Sequences, FiniteSets

CONSTANTS MfaSessions,   \* the sessions of the user
          Labels,        \* labels a factor may be given
          Enrolments,    \* enrolment requests that may overlap
          Codes,         \* the recovery codes of one generation
          StepUpTtl,     \* how long a verification counts as recent
          RequiredByRole \* whether the user's role demands MFA

ASSUME MfaConfig == StepUpTtl \in Nat /\ RequiredByRole \in BOOLEAN

VARIABLES factors,    \* the factors, in order of creation
          codes,      \* their unused recovery codes
          stepUp,     \* per session: Never, or what is left of its step-up
          ended,      \* sessions that are revoked or expired
          enrolling,  \* enrolments that saw no active factor
          accepted    \* history: how often a step of a factor was accepted

mfaVars == <<factors, codes, stepUp, ended, enrolling, accepted>>

Window == -1..1
Forgotten == -2
Never == -1

WithStatus(st) == {f \in DOMAIN factors : factors[f].status = st}

Newest(S) == CHOOSE f \in S : \A g \in S : g <= f

MfaInit == /\ factors = <<>> /\ codes = <<>> /\ accepted = <<>>
           /\ stepUp = [s \in MfaSessions |-> Never]
           /\ ended = {} /\ enrolling = {}

-----------------------------------------------------------------------------
EnrollCheck(e) == /\ e \notin enrolling
                  /\ WithStatus("active") = {}
                  /\ enrolling' = enrolling \cup {e}
                  /\ UNCHANGED <<factors, codes, stepUp, ended, accepted>>

PendingDisabled ==
    [f \in DOMAIN factors |->
        IF factors[f].status = "pending" THEN [factors[f] EXCEPT !.status = "disabled"]
        ELSE factors[f]]

\* A label is unique among the factors of the user, disabled ones included: the
\* commit of a second one fails and nothing changes.
EnrollCommit(e, label) ==
    /\ e \in enrolling
    /\ enrolling' = enrolling \ {e}
    /\ IF \E f \in DOMAIN factors : factors[f].label = label
       THEN UNCHANGED <<factors, codes, accepted>>
       ELSE /\ factors' = Append(PendingDisabled, [label |-> label, status |-> "pending",
                                                   used |-> Forgotten])
            /\ codes' = Append(codes, {})
            /\ accepted' = Append(accepted, [o \in Window |-> 0])
    /\ UNCHANGED <<stepUp, ended>>

BugVerifyTotp(f, o) == o \in Window /\ o >= factors[f].used

\* verify_totp: the code of a step in the window that is later than the last.
VerifyTotp(f, o) == o \in Window /\ o > factors[f].used

Used(f, o) == [factors[f] EXCEPT !.used = o]

MarkSessionSatisfied(s) == /\ s \notin ended
                           /\ stepUp' = [stepUp EXCEPT ![s] = StepUpTtl + 1]

Count(f, o) == accepted' = [accepted EXCEPT ![f][o] = @ + 1]

ConfirmEnrollment(s, o) ==
    /\ WithStatus("pending") # {}
    /\ LET f == Newest(WithStatus("pending"))
       IN /\ VerifyTotp(f, o) /\ Count(f, o)
          /\ factors' = [factors EXCEPT ![f] = [Used(f, o) EXCEPT !.status = "active"]]
          /\ codes' = [codes EXCEPT ![f] = Codes]
    /\ MarkSessionSatisfied(s)
    /\ UNCHANGED <<ended, enrolling>>

VerifyWithTotp(s, o) ==
    /\ WithStatus("active") # {}
    /\ LET f == Newest(WithStatus("active"))
       IN /\ VerifyTotp(f, o) /\ Count(f, o)
          /\ factors' = [factors EXCEPT ![f] = Used(f, o)]
    /\ MarkSessionSatisfied(s)
    /\ UNCHANGED <<codes, ended, enrolling>>

VerifyWithCode(s, c) ==
    /\ WithStatus("active") # {}
    /\ LET f == Newest(WithStatus("active"))
       IN /\ c \in codes[f]
          /\ codes' = [codes EXCEPT ![f] = @ \ {c}]
    /\ MarkSessionSatisfied(s)
    /\ UNCHANGED <<factors, ended, enrolling, accepted>>

\* mfa_satisfied_at >= now - step_up_ttl.
RecentStepUp(s) == s \notin ended /\ stepUp[s] > 0

RegenerateRecoveryCodes(s) ==
    /\ RecentStepUp(s) /\ WithStatus("active") # {}
    /\ codes' = [codes EXCEPT ![Newest(WithStatus("active"))] = Codes]
    /\ UNCHANGED <<factors, stepUp, ended, enrolling, accepted>>

OtherSessionsEnded(s) == ended' = MfaSessions \ {s}

Disable(s) ==
    /\ RecentStepUp(s) /\ ~RequiredByRole /\ WithStatus("active") # {}
    /\ LET f == Newest(WithStatus("active"))
       IN /\ factors' = [factors EXCEPT ![f].status = "disabled"]
          /\ codes' = [codes EXCEPT ![f] = {}]
    /\ OtherSessionsEnded(s)
    /\ UNCHANGED <<stepUp, enrolling, accepted>>

\* What the completion of an account recovery does to MFA and sessions.
RecoveryReset ==
    /\ factors # <<>>
    /\ factors' = [f \in DOMAIN factors |-> [factors[f] EXCEPT !.status = "disabled"]]
    /\ codes' = [f \in DOMAIN codes |-> {}]
    /\ ended' = MfaSessions
    /\ UNCHANGED <<stepUp, enrolling, accepted>>

\* A login in the place of a session that ended: its step-up is its own.
NewLogin(s) == /\ s \in ended
               /\ ended' = ended \ {s}
               /\ stepUp' = [stepUp EXCEPT ![s] = Never]
               /\ UNCHANGED <<factors, codes, enrolling, accepted>>

MfaTick ==
    /\ stepUp' = [s \in MfaSessions |-> IF stepUp[s] > 0 THEN stepUp[s] - 1 ELSE stepUp[s]]
    /\ factors' = [f \in DOMAIN factors |->
           [factors[f] EXCEPT !.used = IF @ = Forgotten THEN @ ELSE @ - 1]]
    /\ accepted' = [f \in DOMAIN accepted |->
           [o \in Window |-> IF o = 1 THEN 0 ELSE accepted[f][o + 1]]]
    /\ UNCHANGED <<codes, ended, enrolling>>

MfaNext ==
    \/ \E e \in Enrolments : EnrollCheck(e) \/ \E l \in Labels : EnrollCommit(e, l)
    \/ \E s \in MfaSessions :
          \/ \E o \in Window : ConfirmEnrollment(s, o) \/ VerifyWithTotp(s, o)
          \/ \E c \in Codes : VerifyWithCode(s, c)
          \/ RegenerateRecoveryCodes(s) \/ Disable(s) \/ NewLogin(s)
    \/ RecoveryReset \/ MfaTick

MfaSpec == MfaInit /\ [][MfaNext]_mfaVars

-----------------------------------------------------------------------------
(* Properties *)

\* Nothing that proves the second factor works twice or outlives it.  No TOTP
\* code is accepted twice, by whichever sessions and operations it is presented
\* and however the clock moves over the window of three steps; and no recovery
\* code is left of a factor that is disabled, whether by its user, by a new
\* enrolment or by account recovery.
NoCodeReplay ==
    /\ \A f \in DOMAIN accepted : \A o \in Window : accepted[f][o] <= 1
    /\ \A f \in DOMAIN factors : codes[f] # {} => factors[f].status = "active"
=============================================================================

-------------------------- MODULE IdentitySessions --------------------------
(***************************************************************************)
(* Sessions, refresh tokens, login lock-out, account recovery and the keys *)
(* of one active identity user (auth/session_service.py,                   *)
(* auth/account_recovery_service.py, routers/client_api_keys_18.py and     *)
(* their repositories).                                                    *)
(*                                                                         *)
(* An operation on the database is one transaction, and one action.  The   *)
(* completion of a recovery is two: it revokes the keys, which are in two  *)
(* files, and commits several awaits later.  In between it holds the user  *)
(* row and its request's row, so that logins, refreshes and new requests   *)
(* wait for it; whoever needs neither row goes on.  A request that creates *)
(* a key is one of these: it has its session checked with a plain read and *)
(* writes the file in a later step, in one stretch of the event loop from  *)
(* the load to the save.                                                   *)
(*                                                                         *)
(* Times are kept as what is left of them.  A refresh token expires with   *)
(* its session.  The field "password" of a session or a key is a history   *)
(* field: the password that was current when the user was let in.  Of a    *)
(* key, "late" is another: it was written during a completion, or after    *)
(* the password had changed.  Keys that agree in both are not told apart.  *)
(***************************************************************************)
EXTENDS Integers, Sequences, FiniteSets

CONSTANTS MaxSessions, MaxTokens, MaxRequests,  \* bounds: rows ever added
          MaxFailures,                          \* bound: failed logins counted
          MaxKeys,                              \* bound: kinds of keys in a file
          SessionTtl, FailedLoginLimit, LockoutDuration,
          RequestTtl, MaxCodeAttempts

ASSUME SessionConfig ==
    {MaxSessions, MaxTokens, MaxRequests, MaxFailures, MaxKeys, SessionTtl,
     FailedLoginLimit, LockoutDuration, RequestTtl, MaxCodeAttempts} \subseteq Nat \ {0}

VARIABLES sessions,   \* the sessions of the user, in order of creation
          refresh,    \* the refresh tokens of all of them
          password,   \* number of the current password
          failures,   \* failed_login_count
          locked,     \* time left until locked_until
          requests,   \* account recovery requests
          completing, \* the request whose completion has yet to commit, or 0
          keys,       \* the active keys in each of the two files
          admitted    \* sessions that were checked for a request on the user's API keys

sessionVars == <<sessions, refresh, password, failures, locked, requests,
                 completing, keys, admitted>>

\* What recoveries and keys are made of, for the actions on sessions alone.
recoveryVars == <<password, requests, completing, keys, admitted>>

Stores == {"supervisor", "api"}

SessionsInit ==
    /\ sessions = <<>> /\ refresh = <<>> /\ requests = <<>>
    /\ password = 0 /\ failures = 0 /\ locked = 0
    /\ completing = 0 /\ admitted = {}
    /\ keys = [s \in Stores |-> {}]

\* The row of the user, which a completion locks until it ends.
UserRowFree == completing = 0

-----------------------------------------------------------------------------
(* Sessions *)

NewRefresh(s) == [session |-> s, consumed |-> FALSE, revoked |-> FALSE, reused |-> FALSE]

\* A wrong password counts, and locks the account from the limit on.  The count
\* goes on after the lock has run out.
LoginRefused == /\ UserRowFree
                /\ locked = 0 /\ failures < MaxFailures
                /\ failures' = failures + 1
                /\ locked' = IF failures + 1 >= FailedLoginLimit
                             THEN LockoutDuration ELSE 0
                /\ UNCHANGED <<sessions, refresh, recoveryVars>>

Login == /\ UserRowFree
         /\ locked = 0
         /\ Len(sessions) < MaxSessions /\ Len(refresh) < MaxTokens
         /\ failures' = 0
         /\ sessions' = Append(sessions, [ttl |-> SessionTtl, revoked |-> FALSE,
                                          password |-> password])
         /\ refresh' = Append(refresh, NewRefresh(Len(sessions) + 1))
         /\ UNCHANGED <<locked, recoveryVars>>

RevokeFamily(s, tokens) ==
    /\ sessions' = [sessions EXCEPT ![s].revoked = TRUE]
    /\ refresh' = [i \in DOMAIN tokens |->
                      IF tokens[i].session = s
                      THEN [tokens[i] EXCEPT !.revoked = TRUE] ELSE tokens[i]]

Expired(s) == sessions[s].ttl = 0

BugRotateRefreshToken(i) == refresh' = Append(refresh, NewRefresh(refresh[i].session))

RotateRefreshToken(i) ==
    refresh' = Append([refresh EXCEPT ![i].consumed = TRUE],
                      NewRefresh(refresh[i].session))

\* A token is presented, by whoever has it, as often as they like.
Refresh(i) ==
    LET s == refresh[i].session
        invalid == refresh[i].revoked \/ sessions[s].revoked \/ Expired(s)
    IN /\ UserRowFree
       /\ \/ /\ refresh[i].consumed
             /\ RevokeFamily(s, [refresh EXCEPT ![i].reused = TRUE])
          \/ /\ ~refresh[i].consumed /\ invalid
             /\ ~sessions[s].revoked
             /\ RevokeFamily(s, refresh)
          \/ /\ ~refresh[i].consumed /\ ~invalid
             /\ Len(refresh) < MaxTokens
             /\ RotateRefreshToken(i)
             /\ UNCHANGED sessions
       /\ UNCHANGED <<failures, locked, recoveryVars>>

Logout(i) == /\ UserRowFree
             /\ RevokeFamily(refresh[i].session, refresh)
             /\ UNCHANGED <<failures, locked, recoveryVars>>

BugRevokeAll ==
    /\ UNCHANGED sessions
    /\ refresh' = [i \in DOMAIN refresh |-> [refresh[i] EXCEPT !.revoked = TRUE]]

RevokeAll == /\ sessions' = [s \in DOMAIN sessions |-> [sessions[s] EXCEPT !.revoked = TRUE]]
             /\ refresh' = [i \in DOMAIN refresh |-> [refresh[i] EXCEPT !.revoked = TRUE]]

LogoutAll == /\ UserRowFree
             /\ refresh # <<>>
             /\ RevokeAll
             /\ UNCHANGED <<failures, locked, recoveryVars>>

\* revoke_session of the service, from the list of sessions.  It locks the row
\* of the session only.
RevokeSession(s) == /\ ~sessions[s].revoked
                    /\ RevokeFamily(s, refresh)
                    /\ UNCHANGED <<failures, locked, recoveryVars>>

\* revoke_other_sessions, when MFA is disabled from session s: the refresh
\* tokens of the other sessions stay as they are.
RevokeOtherSessions(s) ==
    /\ ~sessions[s].revoked /\ ~Expired(s)
    /\ sessions' = [r \in DOMAIN sessions |->
                       IF r = s THEN sessions[r] ELSE [sessions[r] EXCEPT !.revoked = TRUE]]
    /\ UNCHANGED <<refresh, failures, locked, recoveryVars>>

-----------------------------------------------------------------------------
(* Keys *)

\* A request on the API keys of the user is let in: the session it names is
\* neither revoked nor over, as far as is committed.  The bound is one request
\* of a session at a time.
ValidateIdentitySession(s) ==
    /\ s \notin admitted
    /\ ~sessions[s].revoked /\ ~Expired(s)
    /\ admitted' = admitted \cup {s}
    /\ UNCHANGED <<sessions, refresh, password, failures, locked, requests,
                   completing, keys>>

NewKey(opened) == [password |-> opened,
                   late |-> completing # 0 \/ opened # password]

\* The file of a store is loaded and saved: a key is added, one is revoked, or
\* both.
EditStore(store, new) ==
    \E revoked \in {{}} \cup {{k} : k \in keys[store]}, issued \in {{}, {new}} :
        /\ keys' = [keys EXCEPT ![store] = (@ \ revoked) \cup issued]
        /\ Cardinality(keys'[store]) <= MaxKeys

\* The request that was let in creates, rotates or revokes a key, or is refused
\* for want of a plan, a profile or room.  Its session is not looked at again.
ChangeApiKeys(s) ==
    /\ s \in admitted
    /\ admitted' = admitted \ {s}
    /\ EditStore("api", NewKey(sessions[s].password))
    /\ UNCHANGED <<sessions, refresh, password, failures, locked, requests, completing>>

\* An owner issues the user a supervisor session key, or revokes one.
ChangeSupervisorKeys ==
    /\ EditStore("supervisor", NewKey(password))
    /\ UNCHANGED <<sessions, refresh, password, failures, locked, requests,
                   completing, admitted>>

-----------------------------------------------------------------------------
(* Account recovery *)

Open(r) == requests[r].state \in {"pending", "verified"}

InvalidateActiveRequests ==
    [r \in DOMAIN requests |->
        IF Open(r) THEN [requests[r] EXCEPT !.state = "revoked"] ELSE requests[r]]

StartRecovery ==
    /\ UserRowFree
    /\ Len(requests) < MaxRequests
    /\ requests' = Append(InvalidateActiveRequests,
                          [state |-> "pending", attempts |-> 0, ttl |-> RequestTtl])
    /\ UNCHANGED <<sessions, refresh, password, failures, locked,
                   completing, keys, admitted>>

WrongCode(r) ==
    IF r.attempts + 1 >= MaxCodeAttempts
    THEN [r EXCEPT !.attempts = @ + 1, !.state = "revoked"]
    ELSE [r EXCEPT !.attempts = @ + 1]

VerifyRecovery(r) ==
    /\ requests[r].state = "pending"
    /\ \E matches \in BOOLEAN :
          requests' = [requests EXCEPT ![r] =
              IF @.ttl = 0 THEN [@ EXCEPT !.state = "expired"]
              ELSE IF ~matches THEN WrongCode(@)
              ELSE [@ EXCEPT !.state = "verified", !.ttl = RequestTtl]]
    /\ UNCHANGED <<sessions, refresh, password, failures, locked,
                   completing, keys, admitted>>

\* The request is found to have expired.  Its row is locked by a completion that
\* is under way, which looked at the time when it began.
CompletionExpires(r) ==
    /\ r # completing
    /\ requests[r].state = "verified" /\ requests[r].ttl = 0
    /\ requests' = [requests EXCEPT ![r].state = "expired"]
    /\ UNCHANGED <<sessions, refresh, password, failures, locked,
                   completing, keys, admitted>>

Cleared(done) == [s \in Stores |-> IF s \in done THEN {} ELSE keys[s]]

Completable(r) == UserRowFree /\ requests[r].state = "verified" /\ requests[r].ttl > 0

\* The revoker fails at one of its two stores, the supervisor's being the first:
\* the transaction is rolled back, what was done to the files is not.
RevocationFails(r) ==
    /\ Completable(r)
    /\ \E done \in {{}, {"supervisor"}} : keys' = Cleared(done)
    /\ UNCHANGED <<sessions, refresh, password, failures, locked, requests,
                   completing, admitted>>

\* Both stores are revoked, and the updates of the database begin.
RevokeExternalAuthority(r) ==
    /\ Completable(r)
    /\ keys' = Cleared(Stores)
    /\ completing' = r
    /\ UNCHANGED <<sessions, refresh, password, failures, locked, requests, admitted>>

\* One of the updates fails, or the process does: they are rolled back, and the
\* keys stay revoked.
CompletionFails ==
    /\ completing # 0
    /\ completing' = 0
    /\ UNCHANGED <<sessions, refresh, password, failures, locked, requests, keys, admitted>>

CompleteRecovery ==
    /\ completing # 0
    /\ RevokeAll
    /\ password' = password + 1
    /\ failures' = 0 /\ locked' = 0
    /\ requests' = [requests EXCEPT ![completing].state = "completed"]
    /\ completing' = 0
    /\ UNCHANGED <<keys, admitted>>

-----------------------------------------------------------------------------
Earlier(n) == IF n > 0 THEN n - 1 ELSE 0

SessionsTick ==
    /\ sessions' = [s \in DOMAIN sessions |-> [sessions[s] EXCEPT !.ttl = Earlier(@)]]
    /\ requests' = [r \in DOMAIN requests |-> [requests[r] EXCEPT !.ttl = Earlier(@)]]
    /\ locked' = Earlier(locked)
    /\ UNCHANGED <<refresh, password, failures, completing, keys, admitted>>

SessionsNext ==
    \/ LoginRefused \/ Login \/ LogoutAll \/ SessionsTick
    \/ StartRecovery \/ CompletionFails \/ CompleteRecovery \/ ChangeSupervisorKeys
    \/ \E i \in DOMAIN refresh : Refresh(i) \/ Logout(i)
    \/ \E s \in DOMAIN sessions : \/ RevokeSession(s) \/ RevokeOtherSessions(s)
                                  \/ ValidateIdentitySession(s) \/ ChangeApiKeys(s)
    \/ \E r \in DOMAIN requests : \/ VerifyRecovery(r) \/ CompletionExpires(r)
                                  \/ RevocationFails(r) \/ RevokeExternalAuthority(r)

SessionsSpec == SessionsInit /\ [][SessionsNext]_sessionVars

-----------------------------------------------------------------------------
(* Properties *)

UsableTokens(s) == {i \in DOMAIN refresh : /\ refresh[i].session = s
                                           /\ ~refresh[i].consumed
                                           /\ ~refresh[i].revoked}

\* However often tokens are presented, a session that is not revoked has exactly
\* one refresh token that can be used: rotation never forks a family and never
\* leaves one without a token.  Once a token was presented a second time, its
\* session is over and nothing of its family is usable, the tokens that were
\* issued after it included.
RefreshFamilies ==
    \A s \in DOMAIN sessions :
        /\ ~sessions[s].revoked => Cardinality(UsableTokens(s)) = 1
        /\ (\E i \in DOMAIN refresh : refresh[i].session = s /\ refresh[i].reused)
              => sessions[s].revoked /\ UsableTokens(s) = {}

\* A recovery leaves no session behind that was opened with an older password.
\* A key of an older password can only be one that was written between the
\* revocation of the files and the commit, or by a request let in before the
\* commit: none that was there before, and none of a completion that failed half
\* way and was repeated.  Of overlapping recoveries only the latest is open, and
\* each password after the first is the work of one of them.
RecoveryEndsOldAccess ==
    /\ \A s \in DOMAIN sessions :
           ~sessions[s].revoked => sessions[s].password = password
    /\ \A s \in Stores : \A k \in keys[s] : k.password # password => k.late
    /\ \A r \in DOMAIN requests : Open(r) => r = Len(requests)
    /\ password = Cardinality({r \in DOMAIN requests : requests[r].state = "completed"})
=============================================================================

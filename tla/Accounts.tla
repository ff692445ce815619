------------------------------ MODULE Accounts ------------------------------
(***************************************************************************)
(* Identities, device sessions, one-time action tokens and account         *)
(* deletion: the authentication handlers of frontend/server.py over        *)
(* UserRepo, AccountRepo (PostgreSQL) and the Redis fast path.  A handler  *)
(* makes several statements, each committed by itself, and the server runs *)
(* as several processes: every Worker is a process executing one request,  *)
(* one statement (or one group nobody can see between) per step.           *)
(*                                                                         *)
(* Session ids and refresh ids are fresh uuids: a token pair is its        *)
(* position in pairs, a session the next number of nextSid.  Sid 0 is the   *)
(* pair of a release without device sessions.                              *)
(***************************************************************************)
EXTENDS Naturals, Sequences

CONSTANTS Users, Emails, Passwords, Workers,
          None,                 \* no value: an empty column, an absent subject
          MaxPairs, MaxTokens,  \* bounds of the model on what is issued
          MaxRecords,           \* CaptchaGenerator.MAX_RECORDS
          MaxRequests,          \* bound on the requests that are served
          MaxFaults             \* bound on failing statements and deliveries

ASSUME AccountsAssumption ==
    /\ None \notin Users \cup Emails \cup Passwords
    /\ Users # {} /\ Emails # {} /\ Passwords # {}
    /\ MaxPairs \in Nat \ {0} /\ MaxTokens \in Nat /\ MaxRecords \in Nat \ {0}
    /\ MaxRequests \in Nat /\ MaxFaults \in Nat

VARIABLES
    users,      \* users: identity rows, inactive after deletion
    verified,   \* user_account_settings.email_verified_for
    tokens,     \* auth_action_tokens, in order of creation
    sessions,   \* auth_device_sessions, by session id
    nextSid,
    pairs,      \* every token pair signed so far
    cache,      \* Redis: blacklisted and rotated token ids
    captchas,   \* number of unanswered captchas
    request,    \* what each worker is executing
    requests, faults  \* how many requests began, how many statements failed

identity == <<users, verified, tokens>>
signed   == <<sessions, nextSid, pairs>>
accountVars == <<identity, signed, cache, captchas, request, requests, faults>>

Idle == [op |-> "idle", user |-> None, pair |-> 0, sid |-> 0, token |-> 0,
         value |-> None, before |-> {}]

Active(u) == users[u].active
GetByEmail(e) == {u \in Users : Active(u) /\ users[u].email = e}

(***************************************************************************)
(* auth_device_sessions.                                                   *)
(***************************************************************************)
\* INSERT .. ON CONFLICT (session_id) with revoked_at = NULL.
CreateDeviceSession(s, u, j) ==
    [x \in DOMAIN sessions \cup {s} |->
        IF x = s THEN [user |-> u, jti |-> j, revoked |-> FALSE, expired |-> FALSE]
        ELSE sessions[x]]

HasSession(s, u) == s \in DOMAIN sessions /\ sessions[s].user = u

IsDeviceSessionActive(s, u) ==
    HasSession(s, u) /\ ~sessions[s].revoked /\ ~sessions[s].expired

\* Faulty variants: the update asks for one of its two conditions only.
RotatesRevoked(s, oldJti) == s \in DOMAIN sessions /\ sessions[s].jti = oldJti
RotatesAnyId(s, oldJti)   == s \in DOMAIN sessions /\ ~sessions[s].revoked

CanRotate(s, oldJti) ==
    s \in DOMAIN sessions /\ sessions[s].jti = oldJti /\ ~sessions[s].revoked

RotateDeviceSession(s, newJti) ==
    [sessions EXCEPT ![s] = [@ EXCEPT !.jti = newJti, !.expired = FALSE]]

ListDeviceSessions(u) == {s \in DOMAIN sessions : IsDeviceSessionActive(s, u)}

RevokeDeviceSession(u, s) ==
    IF HasSession(s, u) THEN [sessions EXCEPT ![s].revoked = TRUE] ELSE sessions

RevokeAllDeviceSessions(u) ==
    [s \in DOMAIN sessions |-> [sessions[s] EXCEPT !.revoked = @ \/ sessions[s].user = u]]

(***************************************************************************)
(* auth_action_tokens.                                                     *)
(***************************************************************************)
RevokeActionTokens(u, purposes) ==
    [t \in DOMAIN tokens |-> [tokens[t] EXCEPT
        !.consumed = @ \/ (tokens[t].user = u /\ tokens[t].purpose \in purposes)]]

\* A new token supersedes the user's unconsumed ones of the same purpose.
CreateActionToken(u, p, subject) ==
    Append(RevokeActionTokens(u, {p}),
           [user |-> u, purpose |-> p, subject |-> subject,
            consumed |-> FALSE, expired |-> FALSE, claims |-> 0])

\* resolve_action_token, and the first statement of consume_action_token.
Resolves(t, p, subject) ==
    /\ t \in DOMAIN tokens
    /\ tokens[t].purpose = p /\ tokens[t].subject = subject
    /\ ~tokens[t].consumed /\ ~tokens[t].expired

\* Faulty variant: the update trusts the select before it.
ClaimsTwice(t, subject) == tokens[t].subject = subject
\* Its second: UPDATE .. WHERE consumed_at IS NULL RETURNING user_id.
CanClaim(t, subject) == ~tokens[t].consumed /\ tokens[t].subject = subject
ClaimToken(t) ==
    [tokens EXCEPT ![t] = [@ EXCEPT !.consumed = TRUE, !.claims = tokens[t].claims + 1]]

(***************************************************************************)
(* Redis is written on a best-effort basis: every write may be lost.       *)
(***************************************************************************)
BlacklistTokens(ids) == \E kept \in SUBSET ids :
    cache' = [cache EXCEPT !.blacklist = @ \cup kept]

MarkRotated(j) == \E kept \in SUBSET {j}, black \in SUBSET {<<"refresh", j>>} :
    cache' = [blacklist |-> cache.blacklist \cup black, rotated |-> cache.rotated \cup kept]

(***************************************************************************)
(* Access control, and the steps that requests share.                      *)
(***************************************************************************)
\* _access_principal and _require_user.
Authenticated(j) ==
    /\ j \in DOMAIN pairs
    /\ <<"access", j>> \notin cache.blacklist
    /\ pairs[j].sid # 0 => IsDeviceSessionActive(pairs[j].sid, pairs[j].user)
    /\ Active(pairs[j].user)

At(w, op)   == request[w].op = op
UserOf(w)   == request[w].user
Begin(w, r) == At(w, "idle") /\ request' = [request EXCEPT ![w] = r]
Serve       == requests < MaxRequests /\ requests' = requests + 1
Goto(w, op) == request' = [request EXCEPT ![w].op = op]
Done(w)     == request' = [request EXCEPT ![w] = Idle]
Fault       == faults < MaxFaults /\ faults' = faults + 1

Sign(u, s, parent) ==
    /\ Len(pairs) < MaxPairs
    /\ pairs' = Append(pairs, [user |-> u, sid |-> s, parent |-> parent])

(***************************************************************************)
(* Captchas, registration and login.                                       *)
(***************************************************************************)
\* A full store makes room by dropping its oldest record.
GenerateCaptcha ==
    /\ captchas < MaxRecords
    /\ captchas' = captchas + 1
    /\ UNCHANGED <<identity, signed, cache, request, faults>>

\* A captcha is deleted by its verification, whatever the answer.
VerifyCaptcha == captchas > 0 /\ captchas' = captchas - 1

RejectedCaptcha ==
    /\ VerifyCaptcha
    /\ UNCHANGED <<identity, signed, cache, request, faults>>

Register(w, u, e, pw) ==
    /\ VerifyCaptcha
    /\ ~Active(u) /\ GetByEmail(e) = {}
    /\ users' = [users EXCEPT ![u] = [active |-> TRUE, email |-> e, password |-> pw]]
    /\ Begin(w, [Idle EXCEPT !.op = "open_session", !.user = u])
    /\ UNCHANGED <<verified, tokens, signed, cache, faults>>

Login(w, u, pw) ==
    /\ VerifyCaptcha
    /\ Active(u) /\ users[u].password = pw
    /\ Begin(w, [Idle EXCEPT !.op = "open_session", !.user = u])
    /\ UNCHANGED <<identity, signed, cache, faults>>

\* _create_authenticated_session; when the insert fails the answer is 503
\* and the pair already signed is not handed out.
OpenSession(w) ==
    /\ At(w, "open_session")
    /\ \/ /\ Sign(UserOf(w), nextSid, 0)
          /\ sessions' = CreateDeviceSession(nextSid, UserOf(w), Len(pairs'))
          /\ nextSid' = nextSid + 1
          /\ UNCHANGED faults
       \/ Fault /\ UNCHANGED signed
    /\ Done(w)
    /\ UNCHANGED <<identity, cache, captchas>>

(***************************************************************************)
(* Refresh, logout and revocation.                                         *)
(***************************************************************************)
\* A refresh id already exchanged: every session of the user is revoked.
RefreshReused(w, j) ==
    LET u == pairs[j].user
        s == pairs[j].sid
    IN  /\ At(w, "idle")
        /\ <<"refresh", j>> \notin cache.blacklist
        /\ \/ j \in cache.rotated
           \/ /\ Active(u) /\ HasSession(s, u)
              /\ ~sessions[s].revoked /\ sessions[s].jti # j
        /\ sessions' = RevokeAllDeviceSessions(u)
        /\ UNCHANGED <<identity, nextSid, pairs, cache, captchas, request, faults>>

\* The checks of api_auth_refresh; a pair without a session gets one first.
RefreshCheck(w, j) ==
    LET u == pairs[j].user
        s == pairs[j].sid
        sid == IF s = 0 THEN nextSid ELSE s
    IN  /\ <<"refresh", j>> \notin cache.blacklist /\ j \notin cache.rotated
        /\ Active(u)
        /\ IF s = 0
           THEN /\ sessions' = CreateDeviceSession(sid, u, j)
                /\ nextSid' = nextSid + 1 /\ nextSid < MaxPairs
           ELSE /\ IsDeviceSessionActive(s, u) /\ sessions[s].jti = j
                /\ UNCHANGED <<sessions, nextSid>>
        /\ Begin(w, [Idle EXCEPT !.op = "rotate", !.user = u, !.pair = j, !.sid = sid])
        /\ UNCHANGED <<identity, pairs, cache, captchas, faults>>

RotateWins(w) ==
    LET s == request[w].sid
        j == request[w].pair
    IN  /\ At(w, "rotate")
        /\ CanRotate(s, j)
        /\ Sign(UserOf(w), s, j)
        /\ sessions' = RotateDeviceSession(s, Len(pairs'))
        /\ MarkRotated(j)
        /\ Done(w)
        /\ UNCHANGED <<identity, nextSid, captchas, faults>>

\* The row moved on since the checks: treated as a reuse.
RotateLoses(w) ==
    /\ At(w, "rotate")
    /\ ~CanRotate(request[w].sid, request[w].pair)
    /\ sessions' = RevokeAllDeviceSessions(UserOf(w))
    /\ Done(w)
    /\ UNCHANGED <<identity, nextSid, pairs, cache, captchas, faults>>

\* Logout answers the same whatever it finds.
Logout(w, j) ==
    /\ At(w, "idle")
    /\ BlacklistTokens({<<"access", j>>, <<"refresh", j>>})
    /\ sessions' = IF pairs[j].sid = 0 THEN sessions
                   ELSE RevokeDeviceSession(pairs[j].user, pairs[j].sid)
    /\ UNCHANGED <<identity, nextSid, pairs, captchas, request, faults>>

\* DELETE on one session of the list, or on the whole list.
RevokeSession(w, j, s) ==
    /\ At(w, "idle") /\ Authenticated(j)
    /\ s \in ListDeviceSessions(pairs[j].user)
    /\ sessions' \in {RevokeDeviceSession(pairs[j].user, s),
                      RevokeAllDeviceSessions(pairs[j].user)}
    /\ UNCHANGED <<identity, nextSid, pairs, cache, captchas, request, faults>>

SessionExpires(s) ==
    /\ ~sessions[s].expired /\ ~sessions[s].revoked
    /\ sessions' = [sessions EXCEPT ![s].expired = TRUE]
    /\ UNCHANGED <<identity, nextSid, pairs, cache, captchas, request, faults>>

(***************************************************************************)
(* Password reset: resolve the token, end every session, claim the token,  *)
(* change the password.                                                    *)
(***************************************************************************)
\* The answer is the same for an unknown address; an undelivered token is
\* revoked again.
ForgotPassword(w, u) ==
    /\ At(w, "idle") /\ Active(u) /\ Len(tokens) < MaxTokens
    /\ \/ tokens' = CreateActionToken(u, "password_reset", None) /\ UNCHANGED faults
       \/ Fault /\ tokens' = [CreateActionToken(u, "password_reset", None)
                              EXCEPT ![Len(tokens) + 1].consumed = TRUE]
    /\ UNCHANGED <<users, verified, signed, cache, captchas, request>>

ResetResolve(w, t, pw) ==
    /\ Resolves(t, "password_reset", None)
    /\ Active(tokens[t].user)
    /\ Begin(w, [Idle EXCEPT !.op = "reset_revoke", !.user = tokens[t].user, !.token = t,
                             !.value = pw, !.before = ListDeviceSessions(tokens[t].user)])
    /\ UNCHANGED <<identity, signed, cache, captchas, faults>>

\* Faulty variant: a failing store is passed over.
RevokeAndGoOn(w, next) ==
    /\ Goto(w, next)
    /\ \/ sessions' = RevokeAllDeviceSessions(UserOf(w)) /\ UNCHANGED faults
       \/ Fault /\ UNCHANGED sessions

\* revoke_all_sessions_fail_closed: revoke, look again, and stop the request
\* when a session remains or a store fails.
RevokeFailClosed(w, next) ==
    \/ /\ sessions' = RevokeAllDeviceSessions(UserOf(w))
       /\ Goto(w, next)
       /\ UNCHANGED faults
    \/ Fault /\ Done(w) /\ UNCHANGED sessions

ResetRevoke(w) ==
    /\ At(w, "reset_revoke")
    /\ RevokeFailClosed(w, "reset_claim")
    /\ UNCHANGED <<identity, nextSid, pairs, cache, captchas>>

\* consume_action_token: the tests, then the conditional update.
ResetClaim(w) ==
    /\ At(w, "reset_claim")
    /\ IF Resolves(request[w].token, "password_reset", None)
       THEN Goto(w, "reset_take") ELSE Done(w)
    /\ UNCHANGED <<identity, signed, cache, captchas, faults>>

ResetTake(w) ==
    LET t == request[w].token
    IN  /\ At(w, "reset_take")
        /\ IF CanClaim(t, None)
           THEN tokens' = ClaimToken(t) /\ Goto(w, "update_password")
           ELSE Done(w) /\ UNCHANGED tokens
        /\ UNCHANGED <<users, verified, signed, cache, captchas, faults>>

UpdatePassword(w) ==
    /\ At(w, "update_password")
    /\ \/ /\ users' = IF Active(UserOf(w))
                      THEN [users EXCEPT ![UserOf(w)].password = request[w].value] ELSE users
          /\ UNCHANGED faults
       \/ Fault /\ UNCHANGED users
    /\ Done(w)
    /\ UNCHANGED <<verified, tokens, signed, cache, captchas>>

(***************************************************************************)
(* E-mail addresses: change and verification.                              *)
(***************************************************************************)
\* The handler reads the address before it issues the token for it.
VerificationRequest(w, j) ==
    /\ Authenticated(j)
    /\ Begin(w, [Idle EXCEPT !.op = "issue_verification", !.user = pairs[j].user,
                             !.value = users[pairs[j].user].email])
    /\ UNCHANGED <<identity, signed, cache, captchas, faults>>

IssueVerification(w) ==
    /\ At(w, "issue_verification") /\ Len(tokens) < MaxTokens
    /\ tokens' = CreateActionToken(UserOf(w), "email_verification", request[w].value)
    /\ Done(w)
    /\ UNCHANGED <<users, verified, signed, cache, captchas, faults>>

\* The token must be bound to the address its user has now.
VerifyBind(w, t) ==
    /\ t \in DOMAIN tokens /\ tokens[t].purpose = "email_verification"
    /\ Active(tokens[t].user)
    /\ Resolves(t, "email_verification", users[tokens[t].user].email)
    /\ Begin(w, [Idle EXCEPT !.op = "verify_claim", !.user = tokens[t].user, !.token = t,
                             !.value = users[tokens[t].user].email])
    /\ UNCHANGED <<identity, signed, cache, captchas, faults>>

VerifyClaim(w) ==
    LET t == request[w].token
    IN  /\ At(w, "verify_claim")
        /\ IF CanClaim(t, request[w].value)
           THEN tokens' = ClaimToken(t) /\ Goto(w, "mark_verified")
           ELSE Done(w) /\ UNCHANGED tokens
        /\ UNCHANGED <<users, verified, signed, cache, captchas, faults>>

\* Faulty variant: the address is read again when it is marked.
MarkCurrentEmail(w) ==
    /\ At(w, "mark_verified")
    /\ verified' = [verified EXCEPT ![UserOf(w)] = users[UserOf(w)].email]
    /\ Done(w)
    /\ UNCHANGED <<users, tokens, signed, cache, captchas, faults>>

MarkEmailVerified(w) ==
    /\ At(w, "mark_verified")
    /\ verified' = [verified EXCEPT ![UserOf(w)] = request[w].value]
    /\ Done(w)
    /\ UNCHANGED <<users, tokens, signed, cache, captchas, faults>>

\* api_user_profile with a new address, after the password was asked again.
ChangeEmail(w, j, e, pw) ==
    /\ Authenticated(j)
    /\ users[pairs[j].user].email # e /\ users[pairs[j].user].password = pw
    /\ verified' = [verified EXCEPT ![pairs[j].user] = None]
    /\ Begin(w, [Idle EXCEPT !.op = "revoke_links", !.user = pairs[j].user, !.value = e])
    /\ UNCHANGED <<users, tokens, signed, cache, captchas, faults>>

RevokeLinks(w) ==
    /\ At(w, "revoke_links")
    /\ tokens' = RevokeActionTokens(UserOf(w), {"email_verification"})
    /\ Goto(w, "update_email")
    /\ UNCHANGED <<users, verified, signed, cache, captchas, faults>>

\* An address in use is refused: 422, with the old address unverified.
UpdateEmail(w) ==
    /\ At(w, "update_email")
    /\ users' = IF Active(UserOf(w)) /\ GetByEmail(request[w].value) \subseteq {UserOf(w)}
                THEN [users EXCEPT ![UserOf(w)].email = request[w].value] ELSE users
    /\ Done(w)
    /\ UNCHANGED <<verified, tokens, signed, cache, captchas, faults>>

(***************************************************************************)
(* Deletion: sessions first, then the data, the identity last; a failing   *)
(* step stops it with the identity in place.                               *)
(***************************************************************************)
DeleteAccount(w, j, pw) ==
    /\ Authenticated(j) /\ users[pairs[j].user].password = pw
    /\ Begin(w, [Idle EXCEPT !.op = "delete_revoke", !.user = pairs[j].user, !.pair = j,
                             !.before = ListDeviceSessions(pairs[j].user)])
    /\ UNCHANGED <<identity, signed, cache, captchas, faults>>

DeleteRevoke(w) ==
    /\ At(w, "delete_revoke")
    /\ RevokeFailClosed(w, "cleanup")
    /\ BlacklistTokens({<<"access", request[w].pair>>})
    /\ UNCHANGED <<identity, nextSid, pairs, captchas>>

\* run_required_cleanup_steps: the learner's rows, then the account's.
Cleanup(w) ==
    LET u == UserOf(w)
    IN  /\ At(w, "cleanup")
        /\ \/ /\ tokens' = RevokeActionTokens(u, {"password_reset", "email_verification"})
              /\ sessions' = [s \in {x \in DOMAIN sessions : sessions[x].user # u} |-> sessions[s]]
              /\ verified' = [verified EXCEPT ![u] = None]
              /\ Goto(w, "invariant") /\ UNCHANGED faults
           \/ Fault /\ Done(w) /\ UNCHANGED <<tokens, sessions, verified>>
        /\ UNCHANGED <<users, nextSid, pairs, cache, captchas>>

\* The last cleanup step: no session may have appeared meanwhile.
SessionInvariant(w) ==
    /\ At(w, "invariant")
    /\ IF ListDeviceSessions(UserOf(w)) = {} THEN Goto(w, "delete_identity") ELSE Done(w)
    /\ UNCHANGED <<identity, signed, cache, captchas, faults>>

DeleteIdentity(w) ==
    /\ At(w, "delete_identity")
    /\ \/ users' = [users EXCEPT ![UserOf(w)].active = FALSE] /\ UNCHANGED faults
       \/ Fault /\ UNCHANGED users
    /\ Done(w)
    /\ UNCHANGED <<verified, tokens, signed, cache, captchas>>

TokenExpires(t) ==
    /\ ~tokens[t].expired /\ ~tokens[t].consumed
    /\ tokens' = [tokens EXCEPT ![t].expired = TRUE]
    /\ UNCHANGED <<users, verified, signed, cache, captchas, request, faults>>

AccountsInit ==
    /\ users = [u \in Users |-> [active |-> TRUE, email |-> CHOOSE e \in Emails : TRUE,
                                 password |-> CHOOSE p \in Passwords : TRUE]]
    /\ verified = [u \in Users |-> None]
    /\ tokens = <<>>
    /\ sessions = << >> /\ nextSid = 1
    /\ pairs = <<[user |-> CHOOSE u \in Users : TRUE, sid |-> 0, parent |-> 0]>>
    /\ cache = [blacklist |-> {}, rotated |-> {}]
    /\ captchas = 0
    /\ request = [w \in Workers |-> Idle]
    /\ requests = 0 /\ faults = 0

Environment ==
    \/ GenerateCaptcha \/ RejectedCaptcha
    \/ \E s \in DOMAIN sessions : SessionExpires(s)
    \/ \E t \in DOMAIN tokens : TokenExpires(t)

StartRequest(w) ==
    \/ \E u \in Users, pw \in Passwords :
         \/ Login(w, u, pw)
         \/ \E e \in Emails : Register(w, u, e, pw)
    \/ \E u \in Users : ForgotPassword(w, u)
    \/ \E j \in DOMAIN pairs :
         \/ RefreshReused(w, j) \/ RefreshCheck(w, j) \/ Logout(w, j)
         \/ VerificationRequest(w, j)
         \/ \E s \in DOMAIN sessions : RevokeSession(w, j, s)
         \/ \E pw \in Passwords :
              \/ DeleteAccount(w, j, pw)
              \/ \E e \in Emails : ChangeEmail(w, j, e, pw)
    \/ \E t \in DOMAIN tokens :
         \/ VerifyBind(w, t)
         \/ \E pw \in Passwords : ResetResolve(w, t, pw)

ContinueRequest(w) ==
    \/ OpenSession(w) \/ RotateWins(w) \/ RotateLoses(w)
    \/ ResetRevoke(w) \/ ResetClaim(w) \/ ResetTake(w) \/ UpdatePassword(w)
    \/ IssueVerification(w) \/ VerifyClaim(w) \/ MarkEmailVerified(w)
    \/ RevokeLinks(w) \/ UpdateEmail(w)
    \/ DeleteRevoke(w) \/ Cleanup(w) \/ SessionInvariant(w) \/ DeleteIdentity(w)

AccountsNext ==
    \/ (Environment \/ \E w \in Workers : ContinueRequest(w)) /\ UNCHANGED requests
    \/ \E w \in Workers : StartRequest(w) /\ Serve

AccountsSpec == AccountsInit /\ [][AccountsNext]_accountVars

-----------------------------------------------------------------------------

AccountsTypeOK ==
    /\ users \in [Users -> [active : BOOLEAN, email : Emails, password : Passwords]]
    /\ verified \in [Users -> Emails \cup {None}]
    /\ \A t \in DOMAIN tokens : tokens[t].user \in Users /\ tokens[t].claims \in Nat
    /\ \A s \in DOMAIN sessions : s < nextSid /\ sessions[s].jti \in DOMAIN pairs
    /\ \A j \in DOMAIN pairs : pairs[j].sid < nextSid /\ pairs[j].parent < j
    /\ captchas \in 0 .. MaxRecords /\ faults \in 0 .. MaxFaults

\* A refresh token of a device session is exchanged at most once, however
\* many processes receive it and whatever Redis forgot: two requests that
\* both pass the checks meet at the conditional UPDATE.
RefreshExchangedOnce ==
    \A i, j \in DOMAIN pairs :
        /\ i # j /\ pairs[i].parent = pairs[j].parent
        /\ pairs[i].parent # 0
        => pairs[pairs[i].parent].sid = 0

\* An action token changes something at most once, although it is resolved
\* in one statement and claimed in another.
TokensClaimedOnce == \A t \in DOMAIN tokens : tokens[t].claims <= 1

\* An address shown as verified was proven by a link sent to that address
\* and claimed, whatever address changes, revocations and older links
\* overlapped the verification.
VerifiedEmailWasProven ==
    \A u \in Users :
        Active(u) /\ verified[u] = users[u].email =>
            \E t \in DOMAIN tokens :
                /\ tokens[t].user = u /\ tokens[t].claims > 0
                /\ tokens[t].subject = verified[u]

\* Password reset and account deletion fail closed: by the time either is
\* about to change the identity, no session that was alive when it began
\* still is.
SessionsEndFirst ==
    \A w \in Workers :
        request[w].op \in {"update_password", "delete_identity"} =>
            \A s \in request[w].before : ~IsDeviceSessionActive(s, UserOf(w))

\* No pair is signed for a session after it was revoked: logout, reset and
\* deletion also stop a refresh that had passed its checks.
NothingSignedAfterRevocation ==
    [][\A j \in DOMAIN pairs' \ DOMAIN pairs :
            pairs'[j].sid \in DOMAIN sessions => ~sessions[pairs'[j].sid].revoked]_accountVars
=============================================================================

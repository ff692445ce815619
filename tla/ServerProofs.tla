---------------------------- MODULE ServerProofs ----------------------------
(***************************************************************************)
(* Proofs about two parts of the server process, which share nothing: the  *)
(* accounts, for every set of users, addresses, passwords and processes,   *)
(* whatever is issued, lost or failing; and the scheduler of jobs, for     *)
(* every number of jobs, futures, timers and executor threads.             *)
(***************************************************************************)
EXTENDS Accounts, JobScheduler, TLAPS

-----------------------------------------------------------------------------
(* The accounts *)

Values   == Emails \cup Passwords \cup {None}
Purposes == {"password_reset", "email_verification"}

User    == [active : BOOLEAN, email : Emails, password : Values]
Token   == [user : Users, purpose : Purposes, subject : Values,
            consumed : BOOLEAN, expired : BOOLEAN, claims : Nat]
Session == [user : Users, jti : Nat, revoked : BOOLEAN, expired : BOOLEAN]
Pair    == [user : Users, sid : Nat, parent : Nat]
Ops == {"idle", "open_session", "rotate", "reset_revoke", "reset_claim", "reset_take",
        "update_password", "issue_verification", "verify_claim", "mark_verified",
        "revoke_links", "update_email", "delete_revoke", "cleanup", "invariant",
        "delete_identity"}

Request == [op : Ops, user : Users \cup {None}, pair : Nat, sid : Nat, token : Nat,
            value : Values, before : SUBSET Nat]

\* A request that is being served has a user, and one that changes the
\* address has an address.
Complete(r) == /\ r.op # "idle" => r.user \in Users
               /\ r.op \in {"revoke_links", "update_email"} => r.value \in Emails

RequestsInv ==
    /\ users \in [Users -> User]
    /\ request \in [Workers -> Request]
    /\ \A w \in Workers : Complete(request[w])

\* A claimed token is consumed, and was claimed once.
TokensInv ==
    /\ tokens \in Seq(Token)
    /\ \A t \in DOMAIN tokens : /\ tokens[t].claims <= 1
                                /\ tokens[t].claims = 1 => tokens[t].consumed

\* Session ids below nextSid are never used again.  The pair a session
\* accepts is its own or one of a release without sessions, and an own one
\* was not exchanged yet.
SignedInv ==
    /\ sessions \in [DOMAIN sessions -> Session]
    /\ nextSid \in Nat \ {0}
    /\ DOMAIN sessions \subseteq 1 .. nextSid - 1
    /\ pairs \in Seq(Pair)
    /\ \A j \in DOMAIN pairs : pairs[j].parent < j
    /\ \A s \in DOMAIN sessions :
         /\ sessions[s].jti \in DOMAIN pairs
         /\ pairs[sessions[s].jti].sid \in {0, s}
         /\ \A i \in DOMAIN pairs :
              pairs[i].parent = sessions[s].jti => pairs[sessions[s].jti].sid = 0
    /\ RefreshExchangedOnce

-----------------------------------------------------------------------------
(* How the tables change *)

\* What a step may do with the tokens.
TokensStep ==
    \/ tokens' = tokens
    \/ \E u \in Users, P \in SUBSET Purposes : tokens' = RevokeActionTokens(u, P)
    \/ \E u \in Users, p \in Purposes, v \in Values : tokens' = CreateActionToken(u, p, v)
    \/ \E u \in Users : tokens' = [CreateActionToken(u, "password_reset", None)
                                   EXCEPT ![Len(tokens) + 1].consumed = TRUE]
    \/ \E t \in Nat : \/ ~tokens[t].consumed /\ tokens' = ClaimToken(t)
                    \/ tokens' = [tokens EXCEPT ![t].expired = TRUE]

\* What a step may do with the sessions and the pairs.
SignedStep ==
    \/ UNCHANGED signed
    \/ /\ \/ \E u \in Users : sessions' = RevokeAllDeviceSessions(u)
          \/ \E u \in Users, s \in Nat : sessions' = RevokeDeviceSession(u, s)
          \/ \E s \in DOMAIN sessions : sessions' = [sessions EXCEPT ![s].expired = TRUE]
          \/ \E u \in Users :
               sessions' = [s \in {x \in DOMAIN sessions : sessions[x].user # u} |-> sessions[s]]
       /\ UNCHANGED <<nextSid, pairs>>
    \/ \E u \in Users : /\ Sign(u, nextSid, 0)
                        /\ sessions' = CreateDeviceSession(nextSid, u, Len(pairs'))
                        /\ nextSid' = nextSid + 1
    \/ \E j \in DOMAIN pairs : /\ pairs[j].sid = 0
                               /\ sessions' = CreateDeviceSession(nextSid, pairs[j].user, j)
                               /\ nextSid' = nextSid + 1 /\ UNCHANGED pairs
    \/ \E u \in Users, s \in Nat, j \in Nat :
         /\ CanRotate(s, j) /\ Sign(u, s, j)
         /\ sessions' = RotateDeviceSession(s, Len(pairs'))
         /\ UNCHANGED nextSid

LEMMA TokensChange ==
    ASSUME RequestsInv, TokensInv, SignedInv, AccountsNext
    PROVE  TokensStep
<1>1. CASE Environment
  <2>. \A t \in DOMAIN tokens : t \in Nat
    BY DEF TokensInv
  <2>. QED
    BY <1>1 DEF Environment, GenerateCaptcha, RejectedCaptcha, SessionExpires, TokenExpires,
                identity, TokensStep
<1>2. ASSUME NEW w \in Workers, StartRequest(w)
      PROVE  TokensStep
  <2>1. ASSUME NEW u \in Users, ForgotPassword(w, u)
        PROVE  TokensStep
    BY <2>1 DEF ForgotPassword, TokensStep, Purposes, Values
  <2>2. QED
    BY <1>2, <2>1 DEF StartRequest, Login, Register, RefreshReused, RefreshCheck, Logout,
          VerificationRequest, RevokeSession, DeleteAccount, ChangeEmail, VerifyBind,
          ResetResolve, identity, TokensStep
<1>3. ASSUME NEW w \in Workers, ContinueRequest(w)
      PROVE  TokensStep
  <2>. /\ request[w] \in Request
       /\ request[w].op # "idle" => UserOf(w) \in Users
    BY DEF RequestsInv, Complete, UserOf
  <2>1. CASE ResetTake(w)
    BY <2>1 DEF ResetTake, At, CanClaim, TokensStep, Request
  <2>2. CASE VerifyClaim(w)
    BY <2>2 DEF VerifyClaim, At, CanClaim, TokensStep, Request
  <2>3. CASE IssueVerification(w)
    BY <2>3 DEF IssueVerification, At, TokensStep, Purposes, Request
  <2>4. CASE RevokeLinks(w)
    BY <2>4 DEF RevokeLinks, At, TokensStep, Purposes
  <2>5. CASE Cleanup(w)
    BY <2>5 DEF Cleanup, At, TokensStep, Purposes
  <2>6. QED
    BY <1>3, <2>1, <2>2, <2>3, <2>4, <2>5 DEF ContinueRequest, OpenSession, RotateWins,
       RotateLoses, ResetRevoke, ResetClaim, UpdatePassword, MarkEmailVerified, UpdateEmail,
       DeleteRevoke, SessionInvariant, DeleteIdentity, identity, TokensStep
<1>4. QED
  BY <1>1, <1>2, <1>3 DEF AccountsNext

-----------------------------------------------------------------------------
(* Tokens *)

\* Revoking leaves the claims and can only consume.
LEMMA RevokedTokens ==
    ASSUME TokensInv, NEW u, NEW P
    PROVE  /\ RevokeActionTokens(u, P) \in Seq(Token)
           /\ Len(RevokeActionTokens(u, P)) = Len(tokens)
           /\ \A t \in DOMAIN tokens :
                /\ RevokeActionTokens(u, P)[t].claims = tokens[t].claims
                /\ tokens[t].consumed => RevokeActionTokens(u, P)[t].consumed
<1>1. \A t \in DOMAIN tokens :
        LET c == tokens[t].consumed \/ (tokens[t].user = u /\ tokens[t].purpose \in P)
        IN  /\ RevokeActionTokens(u, P)[t] = [tokens[t] EXCEPT !.consumed = c]
            /\ c \in BOOLEAN /\ tokens[t] \in Token
  BY DEF RevokeActionTokens, TokensInv
<1>2. \A t \in DOMAIN tokens : RevokeActionTokens(u, P)[t] \in Token
  BY <1>1, ZenonT(40) DEF Token
<1>3. /\ DOMAIN RevokeActionTokens(u, P) = 1 .. Len(tokens) /\ Len(tokens) \in Nat
      /\ RevokeActionTokens(u, P) = [t \in 1 .. Len(tokens) |-> RevokeActionTokens(u, P)[t]]
      /\ DOMAIN tokens = 1 .. Len(tokens)
  BY DEF RevokeActionTokens, TokensInv
<1>4. /\ RevokeActionTokens(u, P) \in Seq(Token)
      /\ Len(RevokeActionTokens(u, P)) = Len(tokens)
  BY <1>2, <1>3
<1>5. QED
  BY <1>1, <1>4 DEF Token

LEMMA CreatedToken ==
    ASSUME TokensInv, NEW u \in Users, NEW p \in Purposes, NEW v \in Values
    PROVE  LET new == CreateActionToken(u, p, v)
           IN  /\ new \in Seq(Token)
               /\ Len(new) = Len(tokens) + 1
               /\ new[Len(tokens) + 1].claims = 0
               /\ \A t \in DOMAIN tokens :
                    /\ new[t].claims = tokens[t].claims
                    /\ tokens[t].consumed => new[t].consumed
<1>. DEFINE row == [user |-> u, purpose |-> p, subject |-> v,
                    consumed |-> FALSE, expired |-> FALSE, claims |-> 0]
            old == RevokeActionTokens(u, {p})
<1>1. row \in Token /\ row.claims = 0
  BY DEF Token
<1>2. /\ old \in Seq(Token) /\ Len(old) = Len(tokens)
      /\ \A t \in DOMAIN tokens : /\ old[t].claims = tokens[t].claims
                                  /\ tokens[t].consumed => old[t].consumed
  BY RevokedTokens
<1>3. CreateActionToken(u, p, v) = Append(old, row)
  BY DEF CreateActionToken
<1>. HIDE DEF row, old
<1>4. QED
  BY <1>1, <1>2, <1>3 DEF TokensInv

\* Whatever happens to the tokens, none is claimed twice.
LEMMA TokensKept ==
    ASSUME TokensInv, TokensStep
    PROVE  TokensInv'
<1>1. CASE tokens' = tokens
  BY <1>1 DEF TokensInv
<1>2. ASSUME NEW u \in Users, NEW P \in SUBSET Purposes, tokens' = RevokeActionTokens(u, P)
      PROVE  TokensInv'
  BY <1>2, RevokedTokens DEF TokensInv
<1>3. ASSUME NEW u \in Users, NEW p \in Purposes, NEW v \in Values,
             tokens' = CreateActionToken(u, p, v)
      PROVE  TokensInv'
  BY <1>3, CreatedToken DEF TokensInv
<1>4. ASSUME NEW u \in Users,
             tokens' = [CreateActionToken(u, "password_reset", None)
                        EXCEPT ![Len(tokens) + 1].consumed = TRUE]
      PROVE  TokensInv'
  <2>. DEFINE new == CreateActionToken(u, "password_reset", None)
              n == Len(tokens) + 1
  <2>1. /\ new \in Seq(Token) /\ Len(new) = n /\ new[n].claims = 0
        /\ \A t \in DOMAIN tokens : /\ new[t].claims = tokens[t].claims
                                    /\ tokens[t].consumed => new[t].consumed
    BY CreatedToken DEF Purposes, Values
  <2>. HIDE DEF new
  <2>2. tokens' = [new EXCEPT ![n].consumed = TRUE] /\ n \in DOMAIN new /\ new[n] \in Token
    BY <1>4, <2>1 DEF new, TokensInv
  <2>3. [new[n] EXCEPT !.consumed = TRUE] \in Token
    BY <2>2 DEF Token
  <2>4. tokens' \in Seq(Token) /\ Len(tokens') = n
    BY <2>1, <2>2, <2>3
  <2>5. tokens'[n].claims = 0 /\ \A t \in DOMAIN tokens : tokens'[t] = new[t]
    BY <2>1, <2>2 DEF Token, TokensInv
  <2>6. QED
    BY <2>1, <2>4, <2>5 DEF TokensInv
<1>5. ASSUME NEW t \in Nat, NEW new \in Token, t \in DOMAIN tokens,
             tokens' = [tokens EXCEPT ![t] = new],
             new.claims <= 1, new.claims = 1 => new.consumed
      PROVE  TokensInv'
  <2>1. tokens' \in Seq(Token) /\ DOMAIN tokens' = DOMAIN tokens
    BY <1>5 DEF TokensInv
  <2>2. \A x \in DOMAIN tokens : tokens'[x] = IF x = t THEN new ELSE tokens[x]
    BY <1>5
  <2>3. QED
    BY <1>5, <2>1, <2>2 DEF TokensInv
<1>6. ASSUME NEW t \in Nat, t \notin DOMAIN tokens, NEW new,
             tokens' = [tokens EXCEPT ![t] = new]
      PROVE  tokens' = tokens
  <2>1. tokens = [x \in 1 .. Len(tokens) |-> tokens[x]] /\ DOMAIN tokens = 1 .. Len(tokens)
    BY DEF TokensInv
  <2>2. QED
    BY <1>6, <2>1
<1>7. ASSUME NEW t \in Nat, ~tokens[t].consumed, tokens' = ClaimToken(t)
      PROVE  TokensInv'
  <2>. DEFINE new == [tokens[t] EXCEPT !.consumed = TRUE, !.claims = tokens[t].claims + 1]
  <2>1. tokens' = [tokens EXCEPT ![t] = new]
    BY <1>7 DEF ClaimToken
  <2>2. CASE t \in DOMAIN tokens
    <3>1. tokens[t] \in Token /\ tokens[t].claims # 1 /\ tokens[t].claims <= 1
      BY <1>7, <2>2 DEF TokensInv
    <3>2. tokens[t].claims = 0
      <4>1. tokens[t].claims \in Nat
        BY <3>1 DEF Token
      <4>2. QED
        BY <3>1, <4>1
    <3>3. new \in Token /\ new.claims = 1 /\ new.consumed = TRUE
      <4>1. new = [tokens[t] EXCEPT !.consumed = TRUE, !.claims = 1]
        BY <3>2
      <4>. HIDE DEF new
      <4>2. QED
        BY <3>1, <4>1 DEF Token
    <3>. HIDE DEF new
    <3>4. new.claims <= 1 /\ (new.claims = 1 => new.consumed)
      BY <3>3
    <3>5. QED
      BY <1>5, <2>1, <2>2, <3>3, <3>4
  <2>3. CASE t \notin DOMAIN tokens
    <3>. HIDE DEF new
    <3>1. tokens' = tokens
      BY <1>6, <2>1, <2>3
    <3>2. QED
      BY <1>1, <3>1
  <2>4. QED
    BY <2>2, <2>3
<1>8. ASSUME NEW t \in Nat, tokens' = [tokens EXCEPT ![t].expired = TRUE]
      PROVE  TokensInv'
  <2>. DEFINE new == [tokens[t] EXCEPT !.expired = TRUE]
  <2>1. tokens' = [tokens EXCEPT ![t] = new]
    BY <1>8
  <2>2. CASE t \in DOMAIN tokens
    <3>1. tokens[t] \in Token /\ tokens[t].claims <= 1
          /\ (tokens[t].claims = 1 => tokens[t].consumed)
      BY <2>2 DEF TokensInv
    <3>2. new \in Token /\ new.claims = tokens[t].claims /\ new.consumed = tokens[t].consumed
      BY <3>1 DEF Token
    <3>3. QED
      BY <1>5, <2>1, <2>2, <3>1, <3>2
  <2>3. CASE t \notin DOMAIN tokens
    <3>. HIDE DEF new
    <3>1. tokens' = tokens
      BY <1>6, <2>1, <2>3
    <3>2. QED
      BY <1>1, <3>1
  <2>4. QED
    BY <2>2, <2>3
<1>9. QED
  BY <1>1, <1>2, <1>3, <1>4, <1>7, <1>8 DEF TokensStep

-----------------------------------------------------------------------------
(* Sessions and pairs *)

LEMMA SignedChange ==
    ASSUME RequestsInv, TokensInv, SignedInv, AccountsNext
    PROVE  SignedStep
<1>. \A j \in DOMAIN pairs : pairs[j].user \in Users /\ pairs[j].sid \in Nat
  <2>1. pairs \in Seq(Pair)
    BY DEF SignedInv
  <2>2. \A j \in DOMAIN pairs : pairs[j] \in Pair
    BY <2>1
  <2>3. QED
    BY <2>2 DEF Pair
<1>. DOMAIN sessions \subseteq Nat
  BY DEF SignedInv
<1>1. CASE Environment
  <2>1. ASSUME NEW s \in DOMAIN sessions, SessionExpires(s)
        PROVE  SignedStep
    BY <2>1 DEF SessionExpires, SignedStep
  <2>2. QED
    BY <1>1, <2>1 DEF Environment, GenerateCaptcha, RejectedCaptcha, TokenExpires, signed,
       SignedStep
<1>2. ASSUME NEW w \in Workers, StartRequest(w)
      PROVE  SignedStep
  <2>1. ASSUME NEW j \in DOMAIN pairs, RefreshReused(w, j)
        PROVE  SignedStep
    BY <2>1 DEF RefreshReused, SignedStep
  <2>2. ASSUME NEW j \in DOMAIN pairs, RefreshCheck(w, j)
        PROVE  SignedStep
    BY <2>2 DEF RefreshCheck, SignedStep, signed
  <2>3. ASSUME NEW j \in DOMAIN pairs, Logout(w, j)
        PROVE  SignedStep
    BY <2>3 DEF Logout, SignedStep, signed
  <2>4. ASSUME NEW j \in DOMAIN pairs, NEW s \in DOMAIN sessions, RevokeSession(w, j, s)
        PROVE  SignedStep
    BY <2>4 DEF RevokeSession, SignedStep
  <2>5. QED
    BY <1>2, <2>1, <2>2, <2>3, <2>4 DEF StartRequest, Login, Register, ForgotPassword,
       VerificationRequest, DeleteAccount, ChangeEmail, VerifyBind, ResetResolve, signed,
       SignedStep
<1>3. ASSUME NEW w \in Workers, ContinueRequest(w)
      PROVE  SignedStep
  <2>. /\ request[w] \in Request
       /\ request[w].op # "idle" => UserOf(w) \in Users
    BY DEF RequestsInv, Complete, UserOf
  <2>1. CASE OpenSession(w)
    BY <2>1 DEF OpenSession, At, SignedStep
  <2>2. CASE RotateWins(w)
    BY <2>2 DEF RotateWins, At, SignedStep, Request
  <2>3. CASE RotateLoses(w)
    BY <2>3 DEF RotateLoses, At, SignedStep
  <2>4. CASE ResetRevoke(w)
    BY <2>4 DEF ResetRevoke, RevokeFailClosed, At, SignedStep, signed
  <2>5. CASE DeleteRevoke(w)
    BY <2>5 DEF DeleteRevoke, RevokeFailClosed, At, SignedStep, signed
  <2>6. CASE Cleanup(w)
    BY <2>6 DEF Cleanup, At, SignedStep, signed
  <2>7. QED
    BY <1>3, <2>1, <2>2, <2>3, <2>4, <2>5, <2>6 DEF ContinueRequest, ResetClaim, ResetTake,
       UpdatePassword, IssueVerification, VerifyClaim, MarkEmailVerified, RevokeLinks,
       UpdateEmail, SessionInvariant, DeleteIdentity, signed, SignedStep
<1>4. QED
  BY <1>1, <1>2, <1>3 DEF AccountsNext

\* The named steps leave the invariant alone when they only mark or drop rows.
LEMMA RowsMarked ==
    ASSUME SignedInv, UNCHANGED <<nextSid, pairs>>,
           DOMAIN sessions' \subseteq DOMAIN sessions,
           sessions' \in [DOMAIN sessions' -> Session],
           \A s \in DOMAIN sessions' : sessions'[s].jti = sessions[s].jti
    PROVE  SignedInv'
  BY DEF SignedInv, RefreshExchangedOnce

\* The sessions after a step that marks, drops or rotates rows.
LEMMA SessionRows ==
    ASSUME SignedInv
    PROVE  /\ \A s \in DOMAIN sessions : sessions[s] \in Session
           /\ \A u : RevokeAllDeviceSessions(u) \in [DOMAIN sessions -> Session]
           /\ \A u, s : RevokeDeviceSession(u, s) \in [DOMAIN sessions -> Session]
           /\ \A s \in DOMAIN sessions :
                [sessions EXCEPT ![s].expired = TRUE] \in [DOMAIN sessions -> Session]
           /\ \A s \in DOMAIN sessions, j \in Nat :
                RotateDeviceSession(s, j) \in [DOMAIN sessions -> Session]
<1>. sessions \in [DOMAIN sessions -> Session]
  BY DEF SignedInv
<1>1. \A s \in DOMAIN sessions : sessions[s] \in Session
  OBVIOUS
<1>2. ASSUME NEW u
      PROVE  RevokeAllDeviceSessions(u) \in [DOMAIN sessions -> Session]
  <2>1. ASSUME NEW s \in DOMAIN sessions, NEW b \in BOOLEAN
        PROVE  [sessions[s] EXCEPT !.revoked = b] \in Session
    BY <1>1 DEF Session
  <2>2. \A s \in DOMAIN sessions : (sessions[s].revoked \/ sessions[s].user = u) \in BOOLEAN
    OBVIOUS
  <2>3. QED
    BY <2>1, <2>2 DEF RevokeAllDeviceSessions
<1>3. ASSUME NEW u, NEW s
      PROVE  RevokeDeviceSession(u, s) \in [DOMAIN sessions -> Session]
  <2>1. CASE HasSession(s, u)
    <3>1. s \in DOMAIN sessions /\ [sessions[s] EXCEPT !.revoked = TRUE] \in Session
      BY <1>1, <2>1 DEF HasSession, Session
    <3>2. QED
      BY <2>1, <3>1 DEF RevokeDeviceSession
  <2>2. CASE ~HasSession(s, u)
    BY <2>2 DEF RevokeDeviceSession
  <2>3. QED
    BY <2>1, <2>2
<1>4. ASSUME NEW s \in DOMAIN sessions
      PROVE  [sessions EXCEPT ![s].expired = TRUE] \in [DOMAIN sessions -> Session]
  <2>1. [sessions[s] EXCEPT !.expired = TRUE] \in Session
    BY <1>1 DEF Session
  <2>2. QED
    BY <2>1
<1>5. ASSUME NEW s \in DOMAIN sessions, NEW j \in Nat
      PROVE  RotateDeviceSession(s, j) \in [DOMAIN sessions -> Session]
  <2>1. [sessions[s] EXCEPT !.jti = j, !.expired = FALSE] \in Session
    BY <1>1 DEF Session
  <2>2. QED
    BY <2>1 DEF RotateDeviceSession
<1>6. QED
  BY <1>1, <1>2, <1>3, <1>4, <1>5

LEMMA SessionCreated ==
    ASSUME SignedInv, NEW u \in Users, NEW j \in Nat,
           sessions' = CreateDeviceSession(nextSid, u, j)
    PROVE  /\ DOMAIN sessions' = DOMAIN sessions \cup {nextSid}
           /\ sessions' \in [DOMAIN sessions' -> Session]
           /\ sessions'[nextSid].jti = j
           /\ nextSid \notin DOMAIN sessions
           /\ \A s \in DOMAIN sessions : sessions'[s] = sessions[s]
<1>. DEFINE row == [user |-> u, jti |-> j, revoked |-> FALSE, expired |-> FALSE]
<1>1. row \in Session /\ row.jti = j
  BY DEF Session
<1>2. /\ sessions' = [x \in DOMAIN sessions \cup {nextSid} |->
                        IF x = nextSid THEN row ELSE sessions[x]]
      /\ \A s \in DOMAIN sessions : sessions[s] \in Session
      /\ nextSid \notin DOMAIN sessions
  BY SessionRows DEF CreateDeviceSession, SignedInv
<1>. HIDE DEF row
<1>3. QED
  BY <1>1, <1>2

LEMMA PairSigned ==
    ASSUME SignedInv, NEW u \in Users, NEW s \in Nat, NEW j \in Nat, Sign(u, s, j)
    PROVE  /\ pairs' \in Seq(Pair)
           /\ Len(pairs') = Len(pairs) + 1 /\ Len(pairs) \in Nat
           /\ pairs'[Len(pairs')].sid = s
           /\ pairs'[Len(pairs')].parent = j
           /\ \A i \in DOMAIN pairs : pairs'[i] = pairs[i]
<1>. DEFINE row == [user |-> u, sid |-> s, parent |-> j]
<1>1. row \in Pair /\ row.sid = s /\ row.parent = j
  BY DEF Pair
<1>2. pairs \in Seq(Pair) /\ pairs' = Append(pairs, row)
  BY DEF SignedInv, Sign
<1>. HIDE DEF row
<1>3. QED
  BY <1>1, <1>2

\* A session accepts the pair signed last for it, and that one only.
LEMMA SignedKept ==
    ASSUME SignedInv, SignedStep
    PROVE  SignedInv'
<1>. /\ nextSid \in Nat \ {0} /\ DOMAIN sessions \subseteq 1 .. nextSid - 1
     /\ pairs \in Seq(Pair) /\ DOMAIN pairs = 1 .. Len(pairs) /\ Len(pairs) \in Nat
     /\ sessions \in [DOMAIN sessions -> Session]
  BY DEF SignedInv
<1>. \A j \in DOMAIN pairs : /\ pairs[j] \in Pair
                             /\ pairs[j].user \in Users
                             /\ pairs[j].sid \in Nat /\ pairs[j].parent \in Nat
  <2>1. \A j \in DOMAIN pairs : pairs[j] \in Pair
    OBVIOUS
  <2>2. QED
    BY <2>1 DEF Pair
<1>. \A s \in DOMAIN sessions :
       /\ sessions[s].jti \in DOMAIN pairs
       /\ pairs[sessions[s].jti].sid \in {0, s}
       /\ \A i \in DOMAIN pairs :
            pairs[i].parent = sessions[s].jti => pairs[sessions[s].jti].sid = 0
  BY DEF SignedInv
<1>. /\ \A i \in DOMAIN pairs : pairs[i].parent < i
     /\ \A i \in DOMAIN pairs : pairs[i].parent # 0 => pairs[i].parent \in DOMAIN pairs
  BY DEF SignedInv
<1>. RefreshExchangedOnce
  BY DEF SignedInv
<1>1. CASE UNCHANGED signed
  BY <1>1 DEF signed, SignedInv, RefreshExchangedOnce
<1>2. CASE /\ \/ \E u \in Users : sessions' = RevokeAllDeviceSessions(u)
              \/ \E u \in Users, s \in Nat : sessions' = RevokeDeviceSession(u, s)
              \/ \E s \in DOMAIN sessions : sessions' = [sessions EXCEPT ![s].expired = TRUE]
              \/ \E u \in Users :
                   sessions' = [s \in {x \in DOMAIN sessions : sessions[x].user # u} |->
                                sessions[s]]
           /\ UNCHANGED <<nextSid, pairs>>
  <2>1. ASSUME NEW u \in Users, sessions' = RevokeAllDeviceSessions(u)
        PROVE  SignedInv'
    <3>1. \A s \in DOMAIN sessions' : sessions'[s].jti = sessions[s].jti
      BY <2>1, SessionRows DEF RevokeAllDeviceSessions, Session
    <3>2. DOMAIN sessions' = DOMAIN sessions /\ sessions' \in [DOMAIN sessions' -> Session]
      BY <2>1, SessionRows
    <3>3. QED
      BY <1>2, <3>1, <3>2, RowsMarked
  <2>2. ASSUME NEW u \in Users, NEW s \in Nat, sessions' = RevokeDeviceSession(u, s)
        PROVE  SignedInv'
    <3>1. \A x \in DOMAIN sessions' : sessions'[x].jti = sessions[x].jti
      BY <2>2, SessionRows DEF RevokeDeviceSession, Session
    <3>2. DOMAIN sessions' = DOMAIN sessions /\ sessions' \in [DOMAIN sessions' -> Session]
      BY <2>2, SessionRows
    <3>3. QED
      BY <1>2, <3>1, <3>2, RowsMarked
  <2>3. ASSUME NEW s \in DOMAIN sessions, sessions' = [sessions EXCEPT ![s].expired = TRUE]
        PROVE  SignedInv'
    <3>1. \A x \in DOMAIN sessions' : sessions'[x].jti = sessions[x].jti
      BY <2>3, SessionRows DEF Session
    <3>2. DOMAIN sessions' = DOMAIN sessions /\ sessions' \in [DOMAIN sessions' -> Session]
      BY <2>3, SessionRows
    <3>3. QED
      BY <1>2, <3>1, <3>2, RowsMarked
  <2>4. ASSUME NEW u \in Users,
               sessions' = [s \in {x \in DOMAIN sessions : sessions[x].user # u} |-> sessions[s]]
        PROVE  SignedInv'
    BY <1>2, <2>4, SessionRows, RowsMarked
  <2>5. QED
    BY <1>2, <2>1, <2>2, <2>3, <2>4
<1>3. ASSUME NEW u \in Users, Sign(u, nextSid, 0), nextSid' = nextSid + 1,
             sessions' = CreateDeviceSession(nextSid, u, Len(pairs'))
      PROVE  SignedInv'
  <2>1. /\ pairs' \in Seq(Pair) /\ Len(pairs') = Len(pairs) + 1 /\ Len(pairs') \in Nat
        /\ pairs'[Len(pairs')].sid = nextSid /\ pairs'[Len(pairs')].parent = 0
        /\ \A i \in DOMAIN pairs : pairs'[i] = pairs[i]
    BY <1>3, PairSigned
  <2>2. /\ DOMAIN sessions' = DOMAIN sessions \cup {nextSid}
        /\ sessions' \in [DOMAIN sessions' -> Session]
        /\ sessions'[nextSid].jti = Len(pairs')
        /\ nextSid \notin DOMAIN sessions
        /\ \A s \in DOMAIN sessions : sessions'[s] = sessions[s]
    BY <1>3, <2>1, SessionCreated
  <2>3. /\ nextSid' \in Nat \ {0} /\ DOMAIN sessions' \subseteq 1 .. nextSid' - 1
        /\ DOMAIN pairs' = 1 .. Len(pairs) + 1
    BY <1>3, <2>1, <2>2
  <2>4. \A j \in DOMAIN pairs' : pairs'[j].parent < j
    BY <2>1, <2>3 DEF SignedInv
  <2>5. \A i \in DOMAIN pairs' : pairs'[i].parent # Len(pairs')
    BY <2>1, <2>3, <2>4
  <2>6. \A s \in DOMAIN sessions' :
          /\ sessions'[s].jti \in DOMAIN pairs'
          /\ pairs'[sessions'[s].jti].sid \in {0, s}
          /\ \A i \in DOMAIN pairs' :
               pairs'[i].parent = sessions'[s].jti => pairs'[sessions'[s].jti].sid = 0
    <3>1. ASSUME NEW s \in DOMAIN sessions
          PROVE  /\ sessions'[s].jti = sessions[s].jti
                 /\ sessions[s].jti \in DOMAIN pairs'
                 /\ pairs'[sessions[s].jti] = pairs[sessions[s].jti]
                 /\ sessions[s].jti # 0
      BY <2>1, <2>2, <2>3
    <3>2. ASSUME NEW s \in DOMAIN sessions, NEW i \in DOMAIN pairs',
                 pairs'[i].parent = sessions[s].jti
          PROVE  pairs[sessions[s].jti].sid = 0
      BY <2>1, <2>3, <3>1, <3>2
    <3>3. QED
      BY <2>1, <2>2, <2>3, <2>5, <3>1, <3>2
  <2>7. RefreshExchangedOnce'
    BY <2>1, <2>3, SMTT(30) DEF RefreshExchangedOnce
  <2>8. QED
    BY <2>1, <2>2, <2>3, <2>4, <2>6, <2>7 DEF SignedInv
<1>4. ASSUME NEW j \in DOMAIN pairs, pairs[j].sid = 0, UNCHANGED pairs,
             nextSid' = nextSid + 1,
             sessions' = CreateDeviceSession(nextSid, pairs[j].user, j)
      PROVE  SignedInv'
  <2>1. /\ DOMAIN sessions' = DOMAIN sessions \cup {nextSid}
        /\ sessions' \in [DOMAIN sessions' -> Session]
        /\ sessions'[nextSid].jti = j
        /\ nextSid \notin DOMAIN sessions
        /\ \A s \in DOMAIN sessions : sessions'[s] = sessions[s]
    <3>1. pairs[j].user \in Users /\ j \in Nat
      OBVIOUS
    <3>2. QED
      BY <1>4, <3>1, SessionCreated
  <2>2. nextSid' \in Nat \ {0} /\ DOMAIN sessions' \subseteq 1 .. nextSid' - 1
    BY <1>4, <2>1
  <2>3. pairs' = pairs /\ pairs \in Seq(Pair) /\ pairs[j].sid \in {0, nextSid}
    BY <1>4 DEF SignedInv
  <2>4. \A s \in DOMAIN sessions' :
          /\ sessions'[s].jti \in DOMAIN pairs'
          /\ pairs'[sessions'[s].jti].sid \in {0, s}
          /\ \A i \in DOMAIN pairs' :
               pairs'[i].parent = sessions'[s].jti => pairs'[sessions'[s].jti].sid = 0
    <3>1. ASSUME NEW s \in DOMAIN sessions
          PROVE  /\ sessions[s].jti \in DOMAIN pairs
                 /\ pairs[sessions[s].jti].sid \in {0, s}
                 /\ \A i \in DOMAIN pairs :
                      pairs[i].parent = sessions[s].jti => pairs[sessions[s].jti].sid = 0
      BY DEF SignedInv
    <3>2. QED
      BY <1>4, <2>1, <2>3, <3>1
  <2>5. RefreshExchangedOnce' /\ \A i \in DOMAIN pairs' : pairs'[i].parent < i
    BY <2>3 DEF SignedInv, RefreshExchangedOnce
  <2>6. QED
    BY <2>1, <2>2, <2>3, <2>4, <2>5 DEF SignedInv
<1>5. ASSUME NEW u \in Users, NEW s \in Nat, NEW j \in Nat, CanRotate(s, j), Sign(u, s, j),
             UNCHANGED nextSid, sessions' = RotateDeviceSession(s, Len(pairs'))
      PROVE  SignedInv'
  <2>1. s \in DOMAIN sessions /\ sessions[s].jti = j
    BY <1>5 DEF CanRotate
  <2>2. /\ pairs' \in Seq(Pair) /\ Len(pairs') = Len(pairs) + 1 /\ Len(pairs') \in Nat
        /\ pairs'[Len(pairs')].sid = s /\ pairs'[Len(pairs')].parent = j
        /\ \A i \in DOMAIN pairs : pairs'[i] = pairs[i]
    BY <1>5, PairSigned
  <2>3. /\ sessions' \in [DOMAIN sessions -> Session] /\ DOMAIN sessions' = DOMAIN sessions
        /\ sessions'[s].jti = Len(pairs')
        /\ \A x \in DOMAIN sessions \ {s} : sessions'[x] = sessions[x]
    <3>. DEFINE row == [sessions[s] EXCEPT !.jti = Len(pairs'), !.expired = FALSE]
    <3>1. row \in Session /\ row.jti = Len(pairs')
      <4>1. sessions[s] \in Session /\ Len(pairs') \in Nat
        BY <2>1, <2>2
      <4>2. QED
        BY <4>1 DEF Session
    <3>2. sessions' = [sessions EXCEPT ![s] = row]
      BY <1>5 DEF RotateDeviceSession
    <3>. HIDE DEF row
    <3>3. QED
      BY <2>1, <3>1, <3>2
  <2>4. DOMAIN pairs' = 1 .. Len(pairs) + 1
    BY <2>2
  <2>5. \A i \in DOMAIN pairs' : pairs'[i].parent < i
    BY <2>1, <2>2, <2>4 DEF SignedInv
  <2>6. \A i \in DOMAIN pairs' : pairs'[i].parent # Len(pairs')
    BY <2>2, <2>4, <2>5 DEF SignedInv
  <2>7. \A x \in DOMAIN sessions' :
          /\ sessions'[x].jti \in DOMAIN pairs'
          /\ pairs'[sessions'[x].jti].sid \in {0, x}
          /\ \A i \in DOMAIN pairs' :
               pairs'[i].parent = sessions'[x].jti => pairs'[sessions'[x].jti].sid = 0
    <3>1. ASSUME NEW x \in DOMAIN sessions
          PROVE  /\ sessions[x].jti \in DOMAIN pairs'
                 /\ pairs'[sessions[x].jti] = pairs[sessions[x].jti]
      BY <2>2, <2>4
    <3>2. ASSUME NEW x \in DOMAIN sessions, x # s, NEW i \in DOMAIN pairs',
                 pairs'[i].parent = sessions[x].jti
          PROVE  pairs[sessions[x].jti].sid = 0
      <4>1. CASE i \in DOMAIN pairs
        BY <2>2, <3>2, <4>1
      <4>2. CASE i = Len(pairs')
        BY <2>1, <2>2, <3>2, <4>2
      <4>3. QED
        BY <2>2, <2>4, <4>1, <4>2
    <3>3. ASSUME NEW x \in DOMAIN sessions, x # s
          PROVE  sessions'[x].jti = sessions[x].jti
      BY <2>3, <3>3
    <3>4. ASSUME NEW x \in DOMAIN sessions, x # s
          PROVE  /\ sessions'[x].jti \in DOMAIN pairs'
                 /\ pairs'[sessions'[x].jti].sid \in {0, x}
                 /\ \A i \in DOMAIN pairs' :
                      pairs'[i].parent = sessions'[x].jti => pairs'[sessions'[x].jti].sid = 0
      BY <3>1, <3>2, <3>3, <3>4
    <3>5. QED
      BY <2>2, <2>3, <2>4, <2>6, <3>4
  <2>8. RefreshExchangedOnce'
    <3>1. ASSUME NEW i \in DOMAIN pairs, pairs[i].parent = j, j # 0
          PROVE  pairs[j].sid = 0
      BY <2>1, <3>1 DEF SignedInv
    <3>2. j \in DOMAIN pairs
      BY <2>1 DEF SignedInv
    <3>3. \A i \in DOMAIN pairs : pairs[i].parent # 0 => pairs[i].parent \in DOMAIN pairs
      BY DEF SignedInv
    <3>4. QED
      BY <2>2, <2>4, <3>1, <3>2, <3>3 DEF SignedInv, RefreshExchangedOnce
  <2>9. QED
    BY <1>5, <2>2, <2>3, <2>5, <2>7, <2>8 DEF SignedInv
<1>6. QED
  BY <1>1, <1>2, <1>3, <1>4, <1>5 DEF SignedStep

-----------------------------------------------------------------------------
(* Requests *)

\* The points of a request at which its user's sessions have been ended.
AfterRevoke ==
    {"reset_claim", "reset_take", "update_password", "cleanup", "invariant", "delete_identity"}

\* A session that was alive when the request began is revoked or gone.
Ended(w) == \A s \in request[w].before :
                HasSession(s, request[w].user) => sessions[s].revoked

EndedInv ==
    \A w \in Workers : /\ request[w].before \subseteq 1 .. nextSid - 1
                       /\ request[w].op \in AfterRevoke => Ended(w)

\* What a step may do with a request: leave it, end it, begin it with
\* sessions of the table, or move it on, past the revocation only by way of
\* the revocation itself.
RequestStep(w) ==
    \/ request'[w] = request[w]
    \/ /\ request'[w].op \notin AfterRevoke
       /\ request'[w].before \subseteq DOMAIN sessions
    \/ /\ request'[w].before = request[w].before /\ request'[w].user = request[w].user
       /\ \/ request'[w].op \notin AfterRevoke
          \/ request[w].op \in AfterRevoke
          \/ sessions' = RevokeAllDeviceSessions(request[w].user)

\* An answer to a link begins with a token of its user, and goes on to mark
\* the address once it has claimed it.
LinkStep(w) ==
    \/ request'[w] = request[w]
    \/ request'[w].op \notin {"verify_claim", "mark_verified"}
    \/ /\ request'[w].op = "verify_claim"
       /\ request'[w].token \in DOMAIN tokens
       /\ tokens[request'[w].token].user = request'[w].user
    \/ /\ request[w].op = "verify_claim" /\ request'[w].op = "mark_verified"
       /\ request'[w].user = request[w].user /\ request'[w].value = request[w].value
       /\ CanClaim(request[w].token, request[w].value)
       /\ tokens' = ClaimToken(request[w].token)

LEMMA IdleRequest ==
    /\ Idle \in Request /\ Idle.op = "idle" /\ Idle.before = {}
<1>1. {} \in SUBSET Nat /\ "idle" \in Ops /\ None \in Values
  BY DEF Values, Ops
<1>2. QED
  BY <1>1 DEF Idle, Request

\* A worker that begins, moves on or ends keeps its record well formed.
LEMMA RequestBegins ==
    ASSUME RequestsInv, NEW w \in Workers, NEW r \in Request,
           Complete(r), request' = [request EXCEPT ![w] = r]
    PROVE  /\ request' \in [Workers -> Request]
           /\ \A x \in Workers : Complete(request'[x])
           /\ request'[w] = r
           /\ \A x \in Workers \ {w} : request'[x] = request[x]
  BY DEF RequestsInv

LEMMA RequestGoes ==
    ASSUME RequestsInv, NEW w \in Workers, NEW op \in Ops, ~At(w, "idle"), Goto(w, op),
           op = "update_email" => request[w].op = "revoke_links", op # "revoke_links"
    PROVE  /\ request' \in [Workers -> Request]
           /\ \A x \in Workers : Complete(request'[x])
           /\ request'[w].op = op
           /\ request'[w].user = request[w].user
           /\ request'[w].before = request[w].before
           /\ request'[w].value = request[w].value
           /\ request'[w].token = request[w].token
           /\ \A x \in Workers \ {w} : request'[x] = request[x]
<1>. DEFINE r == [request[w] EXCEPT !.op = op]
<1>1. request[w] \in Request /\ request[w].user \in Users /\ Complete(request[w])
  BY DEF RequestsInv, Complete, At
<1>2. /\ r \in Request /\ r.op = op /\ r.user = request[w].user
      /\ r.before = request[w].before /\ r.value = request[w].value
      /\ r.token = request[w].token
  BY <1>1 DEF Request
<1>3. request' = [request EXCEPT ![w] = r]
  BY DEF Goto
<1>. HIDE DEF r
<1>4. Complete(r)
  BY <1>1, <1>2 DEF Complete
<1>5. QED
  BY <1>2, <1>3, <1>4, RequestBegins

LEMMA RequestEnds ==
    ASSUME RequestsInv, NEW w \in Workers, Done(w)
    PROVE  /\ request' \in [Workers -> Request]
           /\ \A x \in Workers : Complete(request'[x])
           /\ request'[w] = Idle
           /\ \A x \in Workers \ {w} : request'[x] = request[x]
  BY IdleRequest, RequestBegins DEF Done, Complete

LEMMA RequestsChange ==
    ASSUME RequestsInv, TokensInv, SignedInv, AccountsNext
    PROVE  RequestsInv' /\ \A x \in Workers : RequestStep(x) /\ LinkStep(x)
<1>. DEFINE Goal == RequestsInv' /\ \A x \in Workers : RequestStep(x) /\ LinkStep(x)
<1>. /\ users \in [Users -> User]
     /\ request \in [Workers -> Request]
  BY DEF RequestsInv
<1>. \A u \in Users : users[u].email \in Values
  BY DEF User, Values
<1>. \A j \in DOMAIN pairs : pairs[j].user \in Users /\ pairs[j].sid \in Nat /\ j \in Nat
  <2>1. pairs \in Seq(Pair)
    BY DEF SignedInv
  <2>2. \A j \in DOMAIN pairs : pairs[j] \in Pair /\ j \in Nat
    BY <2>1
  <2>3. QED
    BY <2>2 DEF Pair
<1>. \A t \in DOMAIN tokens : tokens[t].user \in Users /\ t \in Nat
  <2>1. \A t \in DOMAIN tokens : tokens[t] \in Token /\ t \in Nat
    BY DEF TokensInv
  <2>2. QED
    BY <2>1 DEF Token
<1>. DOMAIN sessions \subseteq Nat /\ nextSid \in Nat
  BY DEF SignedInv
<1>. \A u : ListDeviceSessions(u) \subseteq DOMAIN sessions
  BY DEF ListDeviceSessions
<1>1. ASSUME users' = users, request' = request
      PROVE  Goal
  BY <1>1 DEF RequestsInv, RequestStep, LinkStep
\* A request that begins.
<1>2. ASSUME NEW w \in Workers, NEW r \in Request, Begin(w, r), Complete(r),
             r.op \notin AfterRevoke, r.before \subseteq DOMAIN sessions,
             r.op # "mark_verified",
             r.op = "verify_claim" => r.token \in DOMAIN tokens /\ tokens[r.token].user = r.user,
             users' \in [Users -> User]
      PROVE  Goal
  <2>1. /\ RequestsInv' /\ request'[w] = r
        /\ \A x \in Workers \ {w} : request'[x] = request[x]
    BY <1>2, RequestBegins DEF Begin, RequestsInv
  <2>2. RequestStep(w) /\ LinkStep(w)
    BY <1>2, <2>1 DEF RequestStep, LinkStep
  <2>3. QED
    BY <2>1, <2>2 DEF RequestStep, LinkStep
\* A request that ends.
<1>3. ASSUME NEW w \in Workers, Done(w),
             users' \in [Users -> User]
      PROVE  Goal
  <2>1. "idle" \notin AfterRevoke /\ {} \subseteq DOMAIN sessions
    BY DEF AfterRevoke
  <2>2. QED
    BY <1>3, <2>1, RequestEnds, IdleRequest DEF RequestsInv, RequestStep, LinkStep
\* A request that goes on.
<1>4. ASSUME NEW w \in Workers, NEW op \in Ops, ~At(w, "idle"), Goto(w, op), UNCHANGED users,
             op = "update_email" => request[w].op = "revoke_links", op # "revoke_links",
             \/ op \notin AfterRevoke
             \/ request[w].op \in AfterRevoke
             \/ sessions' = RevokeAllDeviceSessions(request[w].user),
             op # "verify_claim",
             op = "mark_verified" => /\ request[w].op = "verify_claim"
                                     /\ CanClaim(request[w].token, request[w].value)
                                     /\ tokens' = ClaimToken(request[w].token)
      PROVE  Goal
  <2>1. RequestsInv'
    BY <1>4, RequestGoes DEF RequestsInv
  <2>2. RequestStep(w) /\ LinkStep(w)
    <3>1. /\ request'[w].before = request[w].before /\ request'[w].user = request[w].user
          /\ request'[w].value = request[w].value /\ request'[w].op = op
      BY <1>4, RequestGoes
    <3>2. QED
      BY <1>4, <3>1 DEF RequestStep, LinkStep
  <2>3. \A x \in Workers \ {w} : RequestStep(x) /\ LinkStep(x)
    BY <1>4, RequestGoes DEF RequestStep, LinkStep
  <2>4. QED
    BY <2>1, <2>2, <2>3
<1>. HIDE DEF Goal
<1>5. ASSUME Environment
      PROVE  Goal
  <2>1. users' = users /\ request' = request
    BY <1>5 DEF Environment, GenerateCaptcha, RejectedCaptcha, SessionExpires,
       TokenExpires, identity
  <2>2. QED
    BY <1>1, <2>1
<1>6. ASSUME NEW w \in Workers, StartRequest(w)
      PROVE  Goal
  <2>. /\ Idle \in Request /\ Idle.before = {} /\ {} \subseteq DOMAIN sessions
       /\ \A p \in Passwords : p \in Values
       /\ \A e \in Emails : e \in Values
    BY IdleRequest DEF Values
  <2>. \A u : ListDeviceSessions(u) \in SUBSET Nat
    OBVIOUS
  <2>1. ASSUME NEW u \in Users, NEW pw \in Passwords, Login(w, u, pw)
        PROVE  Goal
    <3>. DEFINE r == [Idle EXCEPT !.op = "open_session", !.user = u]
    <3>1. r \in Request /\ r.op = "open_session" /\ r.user = u /\ r.before \subseteq DOMAIN sessions
      BY DEF Request, Ops
    <3>2. Begin(w, r)
      BY <2>1 DEF Login
    <3>3. UNCHANGED users
      BY <2>1 DEF Login, identity
    <3>4. users' \in [Users -> User]
      BY <3>3
    <3>5. r.op \notin AfterRevoke /\ Complete(r)
      BY <3>1 DEF AfterRevoke, Complete
    <3>. HIDE DEF r
    <3>6. QED
      BY <1>2, <3>1, <3>2, <3>4, <3>5
  <2>2. ASSUME NEW u \in Users, NEW pw \in Passwords, NEW e \in Emails, Register(w, u, e, pw)
        PROVE  Goal
    <3>. DEFINE r == [Idle EXCEPT !.op = "open_session", !.user = u]
    <3>1. r \in Request /\ r.op = "open_session" /\ r.user = u /\ r.before \subseteq DOMAIN sessions
      BY DEF Request, Ops
    <3>2. Begin(w, r)
      BY <2>2 DEF Register
    <3>3. users' = [users EXCEPT ![u] = [active |-> TRUE, email |-> e, password |-> pw]]
      BY <2>2 DEF Register
    <3>4. users' \in [Users -> User]
      <4>1. [active |-> TRUE, email |-> e, password |-> pw] \in User
        BY DEF User
      <4>2. QED
        BY <3>3, <4>1
    <3>5. r.op \notin AfterRevoke /\ Complete(r)
      BY <3>1 DEF AfterRevoke, Complete
    <3>. HIDE DEF r
    <3>6. QED
      BY <1>2, <3>1, <3>2, <3>4, <3>5
  <2>3. ASSUME NEW j \in DOMAIN pairs, RefreshCheck(w, j)
        PROVE  Goal
    <3>. DEFINE r == [Idle EXCEPT !.op = "rotate", !.user = pairs[j].user, !.pair = j,
                                  !.sid = IF pairs[j].sid = 0 THEN nextSid ELSE pairs[j].sid]
    <3>1. r \in Request /\ r.op = "rotate" /\ r.user = pairs[j].user /\ r.before \subseteq DOMAIN sessions
      BY DEF Request, Ops
    <3>2. Begin(w, r)
      BY <2>3 DEF RefreshCheck
    <3>3. UNCHANGED users
      BY <2>3 DEF RefreshCheck, identity
    <3>4. users' \in [Users -> User]
      BY <3>3
    <3>5. r.op \notin AfterRevoke /\ Complete(r)
      BY <3>1 DEF AfterRevoke, Complete
    <3>. HIDE DEF r
    <3>6. QED
      BY <1>2, <3>1, <3>2, <3>4, <3>5
  <2>4. ASSUME NEW t \in DOMAIN tokens, NEW pw \in Passwords, ResetResolve(w, t, pw)
        PROVE  Goal
    <3>. DEFINE r == [Idle EXCEPT !.op = "reset_revoke", !.user = tokens[t].user,
                                  !.token = t, !.value = pw,
                                  !.before = ListDeviceSessions(tokens[t].user)]
    <3>1. r \in Request /\ r.op = "reset_revoke" /\ r.user = tokens[t].user /\ r.before \subseteq DOMAIN sessions
      BY DEF Request, Ops
    <3>2. Begin(w, r)
      BY <2>4 DEF ResetResolve
    <3>3. UNCHANGED users
      BY <2>4 DEF ResetResolve, identity
    <3>4. users' \in [Users -> User]
      BY <3>3
    <3>5. r.op \notin AfterRevoke /\ Complete(r)
      BY <3>1 DEF AfterRevoke, Complete
    <3>. HIDE DEF r
    <3>6. QED
      BY <1>2, <3>1, <3>2, <3>4, <3>5
  <2>5. ASSUME NEW j \in DOMAIN pairs, VerificationRequest(w, j)
        PROVE  Goal
    <3>. DEFINE r == [Idle EXCEPT !.op = "issue_verification", !.user = pairs[j].user,
                                  !.value = users[pairs[j].user].email]
    <3>1. r \in Request /\ r.op = "issue_verification" /\ r.user = pairs[j].user /\ r.before \subseteq DOMAIN sessions
      BY DEF Request, Ops
    <3>2. Begin(w, r)
      BY <2>5 DEF VerificationRequest
    <3>3. UNCHANGED users
      BY <2>5 DEF VerificationRequest, identity
    <3>4. users' \in [Users -> User]
      BY <3>3
    <3>5. r.op \notin AfterRevoke /\ Complete(r)
      BY <3>1 DEF AfterRevoke, Complete
    <3>. HIDE DEF r
    <3>6. QED
      BY <1>2, <3>1, <3>2, <3>4, <3>5
  <2>6. ASSUME NEW t \in DOMAIN tokens, VerifyBind(w, t)
        PROVE  Goal
    <3>. DEFINE r == [Idle EXCEPT !.op = "verify_claim", !.user = tokens[t].user,
                                  !.token = t, !.value = users[tokens[t].user].email]
    <3>1. r \in Request /\ r.op = "verify_claim" /\ r.user = tokens[t].user /\ r.before \subseteq DOMAIN sessions
          /\ r.token = t
      BY DEF Request, Ops
    <3>2. Begin(w, r)
      BY <2>6 DEF VerifyBind
    <3>3. UNCHANGED users
      BY <2>6 DEF VerifyBind, identity
    <3>4. users' \in [Users -> User]
      BY <3>3
    <3>5. r.op \notin AfterRevoke /\ Complete(r)
      BY <3>1 DEF AfterRevoke, Complete
    <3>. HIDE DEF r
    <3>6. QED
      BY <1>2, <3>1, <3>2, <3>4, <3>5
  <2>7. ASSUME NEW j \in DOMAIN pairs, NEW e \in Emails, NEW pw \in Passwords,
               ChangeEmail(w, j, e, pw)
        PROVE  Goal
    <3>. DEFINE r == [Idle EXCEPT !.op = "revoke_links", !.user = pairs[j].user,
                                  !.value = e]
    <3>1. r \in Request /\ r.op = "revoke_links" /\ r.user = pairs[j].user /\ r.before \subseteq DOMAIN sessions
          /\ r.value = e
      BY DEF Request, Ops
    <3>2. Begin(w, r)
      BY <2>7 DEF ChangeEmail
    <3>3. UNCHANGED users
      BY <2>7 DEF ChangeEmail
    <3>4. users' \in [Users -> User]
      BY <3>3
    <3>5. r.op \notin AfterRevoke /\ Complete(r)
      BY <3>1 DEF AfterRevoke, Complete
    <3>. HIDE DEF r
    <3>6. QED
      BY <1>2, <3>1, <3>2, <3>4, <3>5
  <2>8. ASSUME NEW j \in DOMAIN pairs, NEW pw \in Passwords, DeleteAccount(w, j, pw)
        PROVE  Goal
    <3>. DEFINE r == [Idle EXCEPT !.op = "delete_revoke", !.user = pairs[j].user,
                                  !.pair = j, !.before = ListDeviceSessions(pairs[j].user)]
    <3>1. r \in Request /\ r.op = "delete_revoke" /\ r.user = pairs[j].user /\ r.before \subseteq DOMAIN sessions
      BY DEF Request, Ops
    <3>2. Begin(w, r)
      BY <2>8 DEF DeleteAccount
    <3>3. UNCHANGED users
      BY <2>8 DEF DeleteAccount, identity
    <3>4. users' \in [Users -> User]
      BY <3>3
    <3>5. r.op \notin AfterRevoke /\ Complete(r)
      BY <3>1 DEF AfterRevoke, Complete
    <3>. HIDE DEF r
    <3>6. QED
      BY <1>2, <3>1, <3>2, <3>4, <3>5
  <2>9. ASSUME NEW u \in Users, ForgotPassword(w, u)
        PROVE  Goal
    BY <1>1, <2>9 DEF ForgotPassword
  <2>10. ASSUME NEW j \in DOMAIN pairs,
                \/ RefreshReused(w, j) \/ Logout(w, j)
                \/ \E s \in DOMAIN sessions : RevokeSession(w, j, s)
         PROVE  Goal
    BY <1>1, <2>10 DEF RefreshReused, Logout, RevokeSession, identity
  <2>11. QED
    BY <1>6, <2>1, <2>2, <2>3, <2>4, <2>5, <2>6, <2>7, <2>8, <2>9, <2>10 DEF StartRequest
<1>7. ASSUME NEW w \in Workers, ContinueRequest(w)
      PROVE  Goal
  <2>. users' = users => users' \in [Users -> User]
    OBVIOUS
  <2>1. CASE OpenSession(w) \/ RotateWins(w) \/ RotateLoses(w) \/ IssueVerification(w)
             \/ MarkEmailVerified(w)
    <3>1. Done(w) /\ users' = users
      BY <2>1 DEF OpenSession, RotateWins, RotateLoses, IssueVerification,
         MarkEmailVerified, identity
    <3>2. QED
      BY <1>3, <3>1
  <2>2. CASE UpdatePassword(w) \/ UpdateEmail(w) \/ DeleteIdentity(w)
    <3>1. /\ Done(w)
          /\ \/ users' = users
             \/ users' = [users EXCEPT ![UserOf(w)].password = request[w].value]
             \/ /\ request[w].op = "update_email"
                /\ users' = [users EXCEPT ![UserOf(w)].email = request[w].value]
             \/ users' = [users EXCEPT ![UserOf(w)].active = FALSE]
      BY <2>2 DEF UpdatePassword, UpdateEmail, DeleteIdentity, At
    <3>2. /\ request[w] \in Request /\ request[w].value \in Values
          /\ request[w].op = "update_email" => request[w].value \in Emails
      BY DEF RequestsInv, Complete, Request
    <3>3. ASSUME NEW u, NEW row, u \in Users => row \in User, users' = [users EXCEPT ![u] = row]
          PROVE  users' \in [Users -> User]
      BY <3>3
    <3>4. users' \in [Users -> User]
      <4>. DEFINE old == users[UserOf(w)]
      <4>1. /\ UserOf(w) \in Users => old \in User
            /\ \A v \in Values : old \in User => [old EXCEPT !.password = v] \in User
            /\ \A v \in Emails : old \in User => [old EXCEPT !.email = v] \in User
            /\ old \in User => [old EXCEPT !.active = FALSE] \in User
        BY DEF User
      <4>2. CASE users' = [users EXCEPT ![UserOf(w)].password = request[w].value]
        BY <3>2, <3>3, <4>1, <4>2
      <4>3. CASE /\ request[w].op = "update_email"
                 /\ users' = [users EXCEPT ![UserOf(w)].email = request[w].value]
        BY <3>2, <3>3, <4>1, <4>3
      <4>4. CASE users' = [users EXCEPT ![UserOf(w)].active = FALSE]
        BY <3>3, <4>1, <4>4
      <4>5. QED
        BY <3>1, <4>2, <4>3, <4>4
    <3>5. QED
      BY <1>3, <3>1, <3>4
  <2>3. CASE ResetClaim(w)
    <3>1. /\ request[w].op = "reset_claim" /\ users' = users
          /\ Goto(w, "reset_take") \/ Done(w)
      BY <2>3 DEF ResetClaim, At, identity
    <3>2. QED
      BY <1>3, <1>4, <3>1 DEF At, Ops, AfterRevoke
  <2>4. CASE ResetTake(w)
    <3>1. /\ request[w].op = "reset_take" /\ users' = users
          /\ Goto(w, "update_password") \/ Done(w)
      BY <2>4 DEF ResetTake, At, identity
    <3>2. QED
      BY <1>3, <1>4, <3>1 DEF At, Ops, AfterRevoke
  <2>5. CASE VerifyClaim(w)
    <3>1. /\ request[w].op = "verify_claim" /\ users' = users
          /\ \/ /\ Goto(w, "mark_verified")
                /\ CanClaim(request[w].token, request[w].value)
                /\ tokens' = ClaimToken(request[w].token)
             \/ Done(w)
      BY <2>5 DEF VerifyClaim, At
    <3>2. QED
      BY <1>3, <1>4, <3>1 DEF At, Ops, AfterRevoke
  <2>6. CASE RevokeLinks(w)
    <3>1. /\ request[w].op = "revoke_links" /\ users' = users
          /\ Goto(w, "update_email")
      BY <2>6 DEF RevokeLinks, At, identity
    <3>2. QED
      BY <1>3, <1>4, <3>1 DEF At, Ops, AfterRevoke
  <2>7. CASE Cleanup(w)
    <3>1. /\ request[w].op = "cleanup" /\ users' = users
          /\ Goto(w, "invariant") \/ Done(w)
      BY <2>7 DEF Cleanup, At, identity
    <3>2. QED
      BY <1>3, <1>4, <3>1 DEF At, Ops, AfterRevoke
  <2>8. CASE SessionInvariant(w)
    <3>1. /\ request[w].op = "invariant" /\ users' = users
          /\ Goto(w, "delete_identity") \/ Done(w)
      BY <2>8 DEF SessionInvariant, At, identity
    <3>2. QED
      BY <1>3, <1>4, <3>1 DEF At, Ops, AfterRevoke
  <2>9. CASE ResetRevoke(w)
    <3>1. /\ request[w].op = "reset_revoke" /\ users' = users
          /\ \/ Done(w)
             \/ /\ Goto(w, "reset_claim")
                /\ sessions' = RevokeAllDeviceSessions(request[w].user)
      BY <2>9 DEF ResetRevoke, RevokeFailClosed, At, UserOf, identity
    <3>2. QED
      BY <1>3, <1>4, <3>1 DEF At, Ops
  <2>10. CASE DeleteRevoke(w)
    <3>1. /\ request[w].op = "delete_revoke" /\ users' = users
          /\ \/ Done(w)
             \/ /\ Goto(w, "cleanup")
                /\ sessions' = RevokeAllDeviceSessions(request[w].user)
      BY <2>10 DEF DeleteRevoke, RevokeFailClosed, At, UserOf, identity
    <3>2. QED
      BY <1>3, <1>4, <3>1 DEF At, Ops
  <2>11. QED
    BY <1>7, <2>1, <2>2, <2>3, <2>4, <2>5, <2>6, <2>7, <2>8, <2>9, <2>10 DEF ContinueRequest
<1>8. QED
  BY <1>5, <1>6, <1>7 DEF AccountsNext, Goal

\* What was ended stays ended: no row is revived and no session id is used
\* twice.
LEMMA StaysEnded ==
    ASSUME SignedInv, SignedStep
    PROVE  /\ nextSid' \in Nat /\ nextSid <= nextSid'
           /\ \A s \in 1 .. nextSid - 1 : \A u :
                (HasSession(s, u) => sessions[s].revoked)
                => (HasSession(s, u) => sessions[s].revoked)'
<1>. /\ nextSid \in Nat \ {0} /\ DOMAIN sessions \subseteq 1 .. nextSid - 1
     /\ sessions \in [DOMAIN sessions -> Session]
  BY DEF SignedInv
<1>1. ASSUME nextSid' = nextSid,
             \A x \in DOMAIN sessions' :
                /\ x \in DOMAIN sessions
                /\ sessions'[x].user = sessions[x].user
                /\ sessions[x].revoked => sessions'[x].revoked
      PROVE  /\ nextSid' \in Nat /\ nextSid <= nextSid'
             /\ \A s \in 1 .. nextSid - 1 : \A u :
                  (HasSession(s, u) => sessions[s].revoked)
                  => (HasSession(s, u) => sessions[s].revoked)'
  <2>1. nextSid' \in Nat /\ nextSid <= nextSid'
    BY <1>1
  <2>2. ASSUME NEW s \in 1 .. nextSid - 1, NEW u, HasSession(s, u) => sessions[s].revoked,
               HasSession(s, u)'
        PROVE  sessions'[s].revoked
    BY <1>1, <2>2 DEF HasSession
  <2>3. QED
    BY <2>1, <2>2
<1>2. ASSUME NEW u \in Users, NEW j \in Nat, nextSid' = nextSid + 1,
             sessions' = CreateDeviceSession(nextSid, u, j)
      PROVE  /\ nextSid' \in Nat /\ nextSid <= nextSid'
             /\ \A s \in 1 .. nextSid - 1 : \A v :
                  (HasSession(s, v) => sessions[s].revoked)
                  => (HasSession(s, v) => sessions[s].revoked)'
  <2>1. nextSid' \in Nat /\ nextSid <= nextSid'
    BY <1>2
  <2>2. ASSUME NEW s \in 1 .. nextSid - 1, NEW v, HasSession(s, v) => sessions[s].revoked,
               HasSession(s, v)'
        PROVE  sessions'[s].revoked
    <3>1. s \in DOMAIN sessions /\ sessions'[s] = sessions[s]
      BY <1>2, <2>2, SessionCreated DEF HasSession
    <3>2. QED
      BY <2>2, <3>1 DEF HasSession
  <2>3. QED
    BY <2>1, <2>2
<1>3. CASE UNCHANGED signed
  BY <1>1, <1>3 DEF signed
<1>4. ASSUME UNCHANGED <<nextSid, pairs>>, NEW u \in Users,
             sessions' = RevokeAllDeviceSessions(u)
      PROVE  \A x \in DOMAIN sessions' :
                /\ x \in DOMAIN sessions
                /\ sessions'[x].user = sessions[x].user
                /\ sessions[x].revoked => sessions'[x].revoked
  <2>1. SUFFICES ASSUME NEW x \in DOMAIN sessions
                 PROVE  /\ sessions'[x].user = sessions[x].user
                        /\ sessions[x].revoked => sessions'[x].revoked
    BY <1>4 DEF RevokeAllDeviceSessions
  <2>. DEFINE b == sessions[x].revoked \/ sessions[x].user = u
  <2>2. /\ sessions[x] \in Session /\ b \in BOOLEAN
        /\ sessions'[x] = [sessions[x] EXCEPT !.revoked = b]
    BY <1>4 DEF RevokeAllDeviceSessions
  <2>3. sessions[x].revoked => b
    OBVIOUS
  <2>. HIDE DEF b
  <2>4. sessions'[x].user = sessions[x].user /\ sessions'[x].revoked = b
    BY <2>2 DEF Session
  <2>5. QED
    BY <2>3, <2>4
<1>5. ASSUME UNCHANGED <<nextSid, pairs>>, NEW u \in Users, NEW s \in Nat,
             sessions' = RevokeDeviceSession(u, s)
      PROVE  \A x \in DOMAIN sessions' :
                /\ x \in DOMAIN sessions
                /\ sessions'[x].user = sessions[x].user
                /\ sessions[x].revoked => sessions'[x].revoked
  <2>1. CASE HasSession(s, u)
    <3>. DEFINE row == [sessions[s] EXCEPT !.revoked = TRUE]
    <3>1. s \in DOMAIN sessions /\ sessions[s] \in Session
      BY <2>1 DEF HasSession
    <3>2. row.user = sessions[s].user /\ row.revoked = TRUE
      BY <3>1 DEF Session
    <3>3. sessions' = [sessions EXCEPT ![s] = row]
      BY <1>5, <2>1 DEF RevokeDeviceSession
    <3>. HIDE DEF row
    <3>4. \A x \in DOMAIN sessions' :
            x \in DOMAIN sessions /\ sessions'[x] = IF x = s THEN row ELSE sessions[x]
      BY <3>1, <3>3
    <3>5. QED
      BY <3>2, <3>4
  <2>2. CASE ~HasSession(s, u)
    BY <1>5, <2>2 DEF RevokeDeviceSession
  <2>3. QED
    BY <2>1, <2>2
\* A row whose deadline passes, or that takes another pair, is revoked as before.
<1>6. ASSUME NEW s \in DOMAIN sessions, NEW row, row.user = sessions[s].user,
             row.revoked = sessions[s].revoked, sessions' = [sessions EXCEPT ![s] = row]
      PROVE  \A x \in DOMAIN sessions' :
                /\ x \in DOMAIN sessions
                /\ sessions'[x].user = sessions[x].user
                /\ sessions[x].revoked => sessions'[x].revoked
  <2>1. \A x \in DOMAIN sessions' :
          x \in DOMAIN sessions /\ sessions'[x] = IF x = s THEN row ELSE sessions[x]
    BY <1>6
  <2>2. QED
    BY <1>6, <2>1
<1>7. ASSUME UNCHANGED <<nextSid, pairs>>, NEW s \in DOMAIN sessions,
             sessions' = [sessions EXCEPT ![s].expired = TRUE]
      PROVE  \A x \in DOMAIN sessions' :
                /\ x \in DOMAIN sessions
                /\ sessions'[x].user = sessions[x].user
                /\ sessions[x].revoked => sessions'[x].revoked
  <2>. DEFINE row == [sessions[s] EXCEPT !.expired = TRUE]
  <2>1. row.user = sessions[s].user /\ row.revoked = sessions[s].revoked
    <3>1. sessions[s] \in Session
      OBVIOUS
    <3>2. QED
      BY <3>1 DEF Session
  <2>2. sessions' = [sessions EXCEPT ![s] = row]
    BY <1>7
  <2>. HIDE DEF row
  <2>3. QED
    BY <1>6, <2>1, <2>2
<1>8. ASSUME NEW s \in Nat, NEW j \in Nat, NEW new, CanRotate(s, j), UNCHANGED nextSid,
             sessions' = RotateDeviceSession(s, new)
      PROVE  \A x \in DOMAIN sessions' :
                /\ x \in DOMAIN sessions
                /\ sessions'[x].user = sessions[x].user
                /\ sessions[x].revoked => sessions'[x].revoked
  <2>. DEFINE row == [sessions[s] EXCEPT !.jti = new, !.expired = FALSE]
  <2>1. s \in DOMAIN sessions /\ sessions[s] \in Session
    BY <1>8 DEF CanRotate
  <2>2. row.user = sessions[s].user /\ row.revoked = sessions[s].revoked
    BY <2>1 DEF Session
  <2>3. sessions' = [sessions EXCEPT ![s] = row]
    BY <1>8 DEF RotateDeviceSession
  <2>. HIDE DEF row
  <2>4. QED
    BY <1>6, <2>1, <2>2, <2>3
<1>9. CASE /\ \/ \E u \in Users : sessions' = RevokeAllDeviceSessions(u)
              \/ \E u \in Users, s \in Nat : sessions' = RevokeDeviceSession(u, s)
              \/ \E s \in DOMAIN sessions : sessions' = [sessions EXCEPT ![s].expired = TRUE]
              \/ \E u \in Users :
                   sessions' = [s \in {x \in DOMAIN sessions : sessions[x].user # u} |->
                                sessions[s]]
           /\ UNCHANGED <<nextSid, pairs>>
  <2>1. \A x \in DOMAIN sessions' : /\ x \in DOMAIN sessions
                                    /\ sessions'[x].user = sessions[x].user
                                    /\ sessions[x].revoked => sessions'[x].revoked
    BY <1>4, <1>5, <1>7, <1>9
  <2>2. QED
    BY <1>1, <1>9, <2>1
<1>10. CASE \E u \in Users : /\ Sign(u, nextSid, 0)
                             /\ sessions' = CreateDeviceSession(nextSid, u, Len(pairs'))
                             /\ nextSid' = nextSid + 1
  <2>1. PICK u \in Users : /\ Sign(u, nextSid, 0)
                           /\ sessions' = CreateDeviceSession(nextSid, u, Len(pairs'))
                           /\ nextSid' = nextSid + 1
    BY <1>10
  <2>2. Len(pairs') \in Nat
    <3>1. Len(pairs') = Len(pairs) + 1 /\ Len(pairs) \in Nat
      BY <2>1, PairSigned
    <3>2. QED
      BY <3>1
  <2>3. QED
    BY <1>2, <2>1, <2>2
<1>11. CASE \E j \in DOMAIN pairs : /\ pairs[j].sid = 0
                                    /\ sessions' = CreateDeviceSession(nextSid, pairs[j].user, j)
                                    /\ nextSid' = nextSid + 1 /\ UNCHANGED pairs
  <2>1. PICK j \in DOMAIN pairs : /\ sessions' = CreateDeviceSession(nextSid, pairs[j].user, j)
                                  /\ nextSid' = nextSid + 1
    BY <1>11
  <2>2. pairs[j].user \in Users /\ j \in Nat
    <3>1. pairs \in Seq(Pair)
      BY DEF SignedInv
    <3>2. pairs[j] \in Pair /\ j \in Nat
      BY <3>1
    <3>3. QED
      BY <3>2 DEF Pair
  <2>3. QED
    BY <1>2, <2>1, <2>2
<1>12. CASE \E u \in Users, s \in Nat, j \in Nat :
              /\ CanRotate(s, j) /\ Sign(u, s, j)
              /\ sessions' = RotateDeviceSession(s, Len(pairs'))
              /\ UNCHANGED nextSid
  BY <1>1, <1>8, <1>12
<1>13. QED
  BY <1>3, <1>9, <1>10, <1>11, <1>12 DEF SignedStep

LEMMA IntervalsGrow ==
    \A m, n \in Nat : m <= n => 1 .. m - 1 \subseteq 1 .. n - 1
  OBVIOUS

LEMMA EndedKept ==
    ASSUME RequestsInv, SignedInv, EndedInv, SignedStep, \A w \in Workers : RequestStep(w)
    PROVE  EndedInv'
<1>. /\ nextSid \in Nat \ {0} /\ DOMAIN sessions \subseteq 1 .. nextSid - 1
     /\ nextSid' \in Nat /\ nextSid <= nextSid'
  <2>1. nextSid \in Nat \ {0} /\ DOMAIN sessions \subseteq 1 .. nextSid - 1
    BY DEF SignedInv
  <2>2. nextSid' \in Nat /\ nextSid <= nextSid'
    BY StaysEnded
  <2>3. QED
    BY <2>1, <2>2
<1>. 1 .. nextSid - 1 \subseteq 1 .. nextSid' - 1
  BY IntervalsGrow
<1>1. SUFFICES ASSUME NEW w \in Workers
               PROVE  /\ request'[w].before \subseteq 1 .. nextSid' - 1
                      /\ request'[w].op \in AfterRevoke => Ended(w)'
  BY DEF EndedInv
<1>2. /\ request[w].before \subseteq 1 .. nextSid - 1
      /\ request[w].op \in AfterRevoke => Ended(w)
  BY DEF EndedInv
<1>3. ASSUME request'[w].before = request[w].before, request'[w].user = request[w].user, Ended(w)
      PROVE  Ended(w)'
  BY <1>2, <1>3, StaysEnded DEF Ended
<1>4. ASSUME request'[w].user = request[w].user,
             sessions' = RevokeAllDeviceSessions(request[w].user)
      PROVE  Ended(w)'
  <2>. DEFINE u == request[w].user
  <2>1. ASSUME NEW s \in DOMAIN sessions', sessions'[s].user = u
        PROVE  sessions'[s].revoked
    <3>. DEFINE b == sessions[s].revoked \/ sessions[s].user = u
    <3>1. /\ s \in DOMAIN sessions /\ sessions[s] \in Session /\ b \in BOOLEAN
          /\ sessions'[s] = [sessions[s] EXCEPT !.revoked = b]
      BY <1>4, <2>1, SessionRows DEF RevokeAllDeviceSessions
    <3>2. sessions[s].user = u => b
      OBVIOUS
    <3>. HIDE DEF b
    <3>3. sessions'[s].user = sessions[s].user /\ sessions'[s].revoked = b
      BY <3>1 DEF Session
    <3>4. QED
      BY <2>1, <3>2, <3>3
  <2>2. QED
    BY <1>4, <2>1 DEF Ended, HasSession
<1>5. CASE request'[w] = request[w]
  BY <1>2, <1>3, <1>5
<1>6. CASE request'[w].op \notin AfterRevoke /\ request'[w].before \subseteq DOMAIN sessions
  BY <1>6
<1>7. CASE /\ request'[w].before = request[w].before /\ request'[w].user = request[w].user
           /\ \/ request'[w].op \notin AfterRevoke
              \/ request[w].op \in AfterRevoke
              \/ sessions' = RevokeAllDeviceSessions(request[w].user)
  BY <1>2, <1>3, <1>4, <1>7
<1>8. RequestStep(w)
  OBVIOUS
<1>9. QED
  BY <1>5, <1>6, <1>7, <1>8 DEF RequestStep

-----------------------------------------------------------------------------
(* Verified addresses *)

\* A link sent to the address was claimed by its user.
Proven(u, e) == \E t \in DOMAIN tokens : /\ tokens[t].user = u /\ tokens[t].claims > 0
                                         /\ tokens[t].subject = e

\* What a handler carries from one statement to the next.
Carries(w) ==
    /\ request[w].op = "verify_claim" =>
            /\ request[w].token \in DOMAIN tokens
            /\ tokens[request[w].token].user = request[w].user
    /\ request[w].op = "mark_verified" => Proven(request[w].user, request[w].value)

MarksProven ==
    /\ verified \in [Users -> Values]
    /\ \A u \in Users : verified[u] # None => Proven(u, verified[u])

VerifiedInv ==
    /\ MarksProven
    /\ \A w \in Workers : Carries(w)

\* Rows of tokens keep their user and address, and their claims.
LEMMA RowsStay ==
    ASSUME TokensInv, TokensStep
    PROVE  \A t \in DOMAIN tokens : /\ t \in DOMAIN tokens'
                                    /\ tokens'[t].user = tokens[t].user
                                    /\ tokens'[t].subject = tokens[t].subject
                                    /\ tokens[t].claims > 0 => tokens'[t].claims > 0
<1>. DEFINE Kept == \A t \in DOMAIN tokens : /\ t \in DOMAIN tokens'
                                             /\ tokens'[t].user = tokens[t].user
                                             /\ tokens'[t].subject = tokens[t].subject
                                             /\ tokens[t].claims > 0 => tokens'[t].claims > 0
<1>0. /\ tokens \in Seq(Token) /\ DOMAIN tokens = 1 .. Len(tokens) /\ Len(tokens) \in Nat
      /\ \A t \in DOMAIN tokens : tokens[t] \in Token
  BY DEF TokensInv
<1>1. ASSUME NEW u, NEW P
      PROVE  \A t \in DOMAIN tokens :
                /\ RevokeActionTokens(u, P)[t].user = tokens[t].user
                /\ RevokeActionTokens(u, P)[t].subject = tokens[t].subject
                /\ RevokeActionTokens(u, P)[t].claims = tokens[t].claims
  BY <1>0 DEF RevokeActionTokens, Token
<1>2. ASSUME NEW u \in Users, NEW p \in Purposes, NEW v \in Values, NEW new,
             new = CreateActionToken(u, p, v)
      PROVE  /\ new \in Seq(Token) /\ Len(new) = Len(tokens) + 1
             /\ \A t \in DOMAIN tokens : /\ new[t].user = tokens[t].user
                                         /\ new[t].subject = tokens[t].subject
                                         /\ new[t].claims = tokens[t].claims
  <2>. DEFINE row == [user |-> u, purpose |-> p, subject |-> v,
                      consumed |-> FALSE, expired |-> FALSE, claims |-> 0]
              old == RevokeActionTokens(u, {p})
  <2>1. old \in Seq(Token) /\ Len(old) = Len(tokens) /\ row \in Token
    BY RevokedTokens DEF Token
  <2>2. new = Append(old, row)
    BY <1>2 DEF CreateActionToken
  <2>3. \A t \in DOMAIN tokens : /\ old[t].user = tokens[t].user
                                 /\ old[t].subject = tokens[t].subject
                                 /\ old[t].claims = tokens[t].claims
    BY <1>1
  <2>. HIDE DEF row, old
  <2>4. QED
    BY <1>0, <2>1, <2>2, <2>3
\* One row is replaced by one of the same user and address.
<1>3. ASSUME NEW t \in Nat, NEW row, tokens' = [tokens EXCEPT ![t] = row],
             t \in DOMAIN tokens => /\ row.user = tokens[t].user
                                    /\ row.subject = tokens[t].subject
                                    /\ tokens[t].claims > 0 => row.claims > 0
      PROVE  Kept
  <2>1. \A x \in DOMAIN tokens :
          x \in DOMAIN tokens' /\ tokens'[x] = IF x = t THEN row ELSE tokens[x]
    BY <1>0, <1>3
  <2>2. QED
    BY <1>3, <2>1
<1>4. CASE tokens' = tokens
  BY <1>4
<1>5. ASSUME NEW u \in Users, NEW P \in SUBSET Purposes, tokens' = RevokeActionTokens(u, P)
      PROVE  Kept
  <2>1. DOMAIN tokens' = DOMAIN tokens
    BY <1>5 DEF RevokeActionTokens
  <2>2. QED
    BY <1>1, <1>5, <2>1
<1>6. ASSUME NEW u \in Users, NEW p \in Purposes, NEW v \in Values,
             tokens' = CreateActionToken(u, p, v)
      PROVE  Kept
  BY <1>0, <1>2, <1>6
<1>7. ASSUME NEW u \in Users,
             tokens' = [CreateActionToken(u, "password_reset", None)
                        EXCEPT ![Len(tokens) + 1].consumed = TRUE]
      PROVE  Kept
  <2>. DEFINE new == CreateActionToken(u, "password_reset", None)
  <2>1. /\ new \in Seq(Token) /\ Len(new) = Len(tokens) + 1
        /\ \A t \in DOMAIN tokens : /\ new[t].user = tokens[t].user
                                    /\ new[t].subject = tokens[t].subject
                                    /\ new[t].claims = tokens[t].claims
    BY <1>2 DEF Purposes, Values
  <2>2. tokens' = [new EXCEPT ![Len(tokens) + 1].consumed = TRUE]
    BY <1>7
  <2>. HIDE DEF new
  <2>3. \A t \in DOMAIN tokens : t \in DOMAIN tokens' /\ tokens'[t] = new[t]
    BY <1>0, <2>1, <2>2
  <2>4. QED
    BY <2>1, <2>3
<1>8. ASSUME NEW t \in Nat, ~tokens[t].consumed, tokens' = ClaimToken(t)
      PROVE  Kept
  <2>. DEFINE row == [tokens[t] EXCEPT !.consumed = TRUE, !.claims = tokens[t].claims + 1]
  <2>1. tokens' = [tokens EXCEPT ![t] = row]
    BY <1>8 DEF ClaimToken
  <2>2. t \in DOMAIN tokens => /\ row.user = tokens[t].user
                               /\ row.subject = tokens[t].subject
                               /\ tokens[t].claims > 0 => row.claims > 0
    BY <1>0 DEF Token
  <2>. HIDE DEF row
  <2>3. QED
    BY <1>3, <2>1, <2>2
<1>9. ASSUME NEW t \in Nat, tokens' = [tokens EXCEPT ![t].expired = TRUE]
      PROVE  Kept
  <2>. DEFINE row == [tokens[t] EXCEPT !.expired = TRUE]
  <2>1. tokens' = [tokens EXCEPT ![t] = row]
    BY <1>9
  <2>2. t \in DOMAIN tokens => /\ row.user = tokens[t].user
                               /\ row.subject = tokens[t].subject
                               /\ tokens[t].claims > 0 => row.claims > 0
    BY <1>0 DEF Token
  <2>. HIDE DEF row
  <2>3. QED
    BY <1>3, <2>1, <2>2
<1>10. QED
  BY <1>4, <1>5, <1>6, <1>7, <1>8, <1>9 DEF TokensStep

LEMMA StaysProven ==
    ASSUME TokensInv, TokensStep, NEW u, NEW e, Proven(u, e)
    PROVE  Proven(u, e)'
  BY RowsStay DEF Proven

\* Only a claimed link marks an address; everything else clears marks.
VerifiedStep ==
    \/ verified' = verified
    \/ \E u \in Users : verified' = [verified EXCEPT ![u] = None]
    \/ \E w \in Workers :
         /\ request[w].op = "mark_verified"
         /\ verified' = [verified EXCEPT ![request[w].user] = request[w].value]

LEMMA VerifiedChange ==
    ASSUME RequestsInv, SignedInv, AccountsNext
    PROVE  VerifiedStep
<1>. \A j \in DOMAIN pairs : pairs[j].user \in Users
  <2>1. pairs \in Seq(Pair)
    BY DEF SignedInv
  <2>2. \A j \in DOMAIN pairs : pairs[j] \in Pair
    BY <2>1
  <2>3. QED
    BY <2>2 DEF Pair
<1>1. CASE Environment
  BY <1>1 DEF Environment, GenerateCaptcha, RejectedCaptcha, SessionExpires, TokenExpires,
     identity, VerifiedStep
<1>2. ASSUME NEW w \in Workers, StartRequest(w)
      PROVE  VerifiedStep
  <2>1. ASSUME NEW j \in DOMAIN pairs, NEW e \in Emails, NEW pw \in Passwords,
               ChangeEmail(w, j, e, pw)
        PROVE  VerifiedStep
    BY <2>1 DEF ChangeEmail, VerifiedStep
  <2>2. QED
    BY <1>2, <2>1 DEF StartRequest, Login, Register, ForgotPassword, RefreshReused,
       RefreshCheck, Logout, VerificationRequest, RevokeSession, DeleteAccount, VerifyBind,
       ResetResolve, identity, VerifiedStep
<1>3. ASSUME NEW w \in Workers, ContinueRequest(w)
      PROVE  VerifiedStep
  <2>. request[w].op # "idle" => UserOf(w) \in Users
    BY DEF RequestsInv, Complete, UserOf
  <2>1. CASE MarkEmailVerified(w)
    BY <2>1 DEF MarkEmailVerified, At, UserOf, VerifiedStep
  <2>2. CASE Cleanup(w)
    BY <2>2 DEF Cleanup, At, VerifiedStep
  <2>3. QED
    BY <1>3, <2>1, <2>2 DEF ContinueRequest, OpenSession, RotateWins, RotateLoses, ResetRevoke,
       ResetClaim, ResetTake, UpdatePassword, IssueVerification, VerifyClaim, RevokeLinks,
       UpdateEmail, DeleteRevoke, SessionInvariant, DeleteIdentity, identity, VerifiedStep
<1>4. QED
  BY <1>1, <1>2, <1>3 DEF AccountsNext

LEMMA VerifiedKept ==
    ASSUME RequestsInv, TokensInv, TokensStep, VerifiedInv, VerifiedStep,
           \A w \in Workers : LinkStep(w)
    PROVE  VerifiedInv'
<1>. MarksProven
  BY DEF VerifiedInv
<1>1. MarksProven'
  <2>1. ASSUME NEW u, NEW v \in Values, verified' = [verified EXCEPT ![u] = v],
               v # None => Proven(u, v)
        PROVE  MarksProven'
    <3>1. verified' \in [Users -> Values]
      BY <2>1 DEF MarksProven
    <3>2. ASSUME NEW x \in Users, NEW e, e = verified'[x], e # None
          PROVE  Proven(x, e)
      BY <2>1, <3>2 DEF MarksProven
    <3>3. ASSUME NEW x \in Users, NEW e, e = verified'[x], e # None
          PROVE  Proven(x, e)'
      BY <3>2, <3>3, StaysProven
    <3>4. QED
      BY <3>1, <3>3 DEF MarksProven, Proven
  <2>2. CASE verified' = verified
    <3>1. ASSUME NEW x \in Users, NEW e, e = verified[x], e # None
          PROVE  Proven(x, e)'
      BY <3>1, StaysProven DEF MarksProven
    <3>2. QED
      BY <2>2, <3>1 DEF MarksProven, Proven
  <2>3. CASE \E u \in Users : verified' = [verified EXCEPT ![u] = None]
    <3>1. None \in Values
      BY DEF Values
    <3>2. QED
      BY <2>1, <2>3, <3>1
  <2>4. ASSUME NEW w \in Workers, request[w].op = "mark_verified",
               verified' = [verified EXCEPT ![request[w].user] = request[w].value]
        PROVE  MarksProven'
    <3>1. request[w].value \in Values
      BY DEF RequestsInv, Request
    <3>2. Proven(request[w].user, request[w].value)
      BY <2>4 DEF VerifiedInv, Carries
    <3>3. QED
      BY <2>1, <2>4, <3>1, <3>2
  <2>5. QED
    BY <2>2, <2>3, <2>4 DEF VerifiedStep
<1>2. ASSUME NEW w \in Workers
      PROVE  Carries(w)'
  <2>1. CASE request'[w] = request[w]
    BY <2>1, RowsStay DEF VerifiedInv, Carries, Proven
  <2>2. CASE request'[w].op \notin {"verify_claim", "mark_verified"}
    BY <2>2 DEF Carries
  <2>3. CASE /\ request'[w].op = "verify_claim"
             /\ request'[w].token \in DOMAIN tokens
             /\ tokens[request'[w].token].user = request'[w].user
    BY <2>3, RowsStay DEF Carries
  <2>4. CASE /\ request[w].op = "verify_claim" /\ request'[w].op = "mark_verified"
             /\ request'[w].user = request[w].user /\ request'[w].value = request[w].value
             /\ CanClaim(request[w].token, request[w].value)
             /\ tokens' = ClaimToken(request[w].token)
    <3>. DEFINE t == request[w].token
    <3>1. /\ t \in DOMAIN tokens /\ tokens[t].user = request[w].user
          /\ tokens[t].subject = request[w].value
      BY <2>4 DEF VerifiedInv, Carries, CanClaim
    <3>2. t \in DOMAIN tokens' /\ tokens'[t].user = tokens[t].user
          /\ tokens'[t].subject = tokens[t].subject
      BY <3>1, RowsStay
    <3>3. tokens'[t].claims > 0
      <4>1. tokens[t] \in Token /\ tokens[t].claims \in Nat
        <5>1. tokens[t] \in Token
          BY <3>1 DEF TokensInv
        <5>2. QED
          BY <5>1 DEF Token
      <4>2. tokens'[t] = [tokens[t] EXCEPT !.consumed = TRUE, !.claims = tokens[t].claims + 1]
        BY <2>4, <3>1 DEF ClaimToken
      <4>3. tokens'[t].claims = tokens[t].claims + 1
        BY <4>1, <4>2 DEF Token
      <4>4. QED
        BY <4>1, <4>3
    <3>4. QED
      BY <2>4, <3>1, <3>2, <3>3 DEF Carries, Proven
  <2>5. LinkStep(w)
    OBVIOUS
  <2>6. QED
    BY <2>1, <2>2, <2>3, <2>4, <2>5 DEF LinkStep
<1>3. QED
  BY <1>1, <1>2 DEF VerifiedInv

-----------------------------------------------------------------------------
(* The theorems *)

AccountsInv == RequestsInv /\ TokensInv /\ SignedInv /\ EndedInv /\ VerifiedInv

LEMMA InvInit == AccountsInit => AccountsInv
<1>1. SUFFICES ASSUME AccountsInit
               PROVE  AccountsInv
  OBVIOUS
<1>. /\ (CHOOSE u \in Users : TRUE) \in Users
     /\ (CHOOSE e \in Emails : TRUE) \in Emails
     /\ (CHOOSE p \in Passwords : TRUE) \in Values
  BY AccountsAssumption DEF Values
<1>. \A w \in Workers : request[w] = Idle
  BY <1>1 DEF AccountsInit
<1>2. RequestsInv
  <2>1. users \in [Users -> User]
    BY <1>1 DEF AccountsInit, User
  <2>2. request \in [Workers -> Request]
    BY <1>1, IdleRequest DEF AccountsInit
  <2>3. QED
    BY <2>1, <2>2, IdleRequest DEF RequestsInv, Complete
<1>3. TokensInv
  BY <1>1 DEF AccountsInit, TokensInv
<1>4. SignedInv
  <2>. DEFINE row == [user |-> CHOOSE u \in Users : TRUE, sid |-> 0, parent |-> 0]
  <2>1. pairs = <<row>> /\ sessions = << >> /\ nextSid = 1
    BY <1>1 DEF AccountsInit
  <2>2. row \in Pair /\ row.parent = 0
    BY DEF Pair
  <2>. HIDE DEF row
  <2>3. pairs \in Seq(Pair) /\ DOMAIN pairs = {1} /\ pairs[1].parent = 0
    BY <2>1, <2>2
  <2>4. DOMAIN sessions = {} /\ sessions \in [DOMAIN sessions -> Session]
    BY <2>1
  <2>5. QED
    BY <2>1, <2>3, <2>4 DEF SignedInv, RefreshExchangedOnce
<1>5. EndedInv
  BY IdleRequest DEF EndedInv, AfterRevoke
<1>6. VerifiedInv
  <2>1. verified = [u \in Users |-> None] /\ None \in Values
    BY <1>1 DEF AccountsInit, Values
  <2>2. QED
    BY <2>1, IdleRequest DEF VerifiedInv, MarksProven, Carries
<1>7. QED
  BY <1>2, <1>3, <1>4, <1>5, <1>6 DEF AccountsInv

LEMMA InvNext ==
    ASSUME AccountsInv, [AccountsNext]_accountVars
    PROVE  AccountsInv'
<1>1. CASE AccountsNext
  <2>1. TokensStep /\ TokensInv'
    BY <1>1, TokensChange, TokensKept DEF AccountsInv
  <2>2. SignedStep /\ SignedInv'
    BY <1>1, SignedChange, SignedKept DEF AccountsInv
  <2>3. RequestsInv' /\ \A w \in Workers : RequestStep(w) /\ LinkStep(w)
    BY <1>1, RequestsChange DEF AccountsInv
  <2>4. EndedInv'
    BY <2>2, <2>3, EndedKept DEF AccountsInv
  <2>5. VerifiedStep
    BY <1>1, VerifiedChange DEF AccountsInv
  <2>6. VerifiedInv'
    BY <2>1, <2>3, <2>5, VerifiedKept DEF AccountsInv
  <2>7. QED
    BY <2>1, <2>2, <2>3, <2>4, <2>6 DEF AccountsInv
<1>2. CASE UNCHANGED accountVars
  <2>1. /\ users' = users /\ tokens' = tokens /\ sessions' = sessions /\ nextSid' = nextSid
        /\ pairs' = pairs /\ request' = request /\ verified' = verified
    BY <1>2 DEF accountVars, identity, signed
  <2>2. RequestsInv' /\ TokensInv'
    BY <2>1 DEF AccountsInv, RequestsInv, TokensInv
  <2>3. SignedInv'
    BY <2>1 DEF AccountsInv, SignedInv, RefreshExchangedOnce
  <2>4. EndedInv'
    BY <2>1 DEF AccountsInv, EndedInv, Ended, HasSession
  <2>5. VerifiedInv'
    BY <2>1 DEF AccountsInv, VerifiedInv, MarksProven, Carries, Proven
  <2>6. QED
    BY <2>2, <2>3, <2>4, <2>5 DEF AccountsInv
<1>3. QED
  BY <1>1, <1>2

\* The invariant the other theorems rest on, for every reachable state of the
\* accounts, requests, sessions and tokens.
THEOREM AccountsInductive == AccountsSpec => []AccountsInv
<1>1. QED
  BY InvInit, InvNext, PTL DEF AccountsSpec

\* However many processes receive a link or a reset token, the conditional
\* UPDATE lets one of them use it.
THEOREM ActionTokensServeOnce == AccountsSpec => []TokensClaimedOnce
<1>1. AccountsInv => TokensClaimedOnce
  BY DEF AccountsInv, TokensInv, TokensClaimedOnce
<1>2. QED
  BY <1>1, AccountsInductive, PTL

\* A refresh token of a device session has at most one successor.
THEOREM RefreshTokensServeOnce == AccountsSpec => []RefreshExchangedOnce
<1>1. AccountsInv => RefreshExchangedOnce
  BY DEF AccountsInv, SignedInv
<1>2. QED
  BY <1>1, AccountsInductive, PTL

\* Password reset and deletion reach the identity only when no session they
\* found still lives, whatever other requests did in between.
THEOREM SessionsEndBeforeIdentity == AccountsSpec => []SessionsEndFirst
<1>1. AccountsInv => SessionsEndFirst
  BY DEF AccountsInv, EndedInv, Ended, AfterRevoke, SessionsEndFirst, IsDeviceSessionActive,
         UserOf
<1>2. QED
  BY <1>1, AccountsInductive, PTL

\* An address is shown as verified only after a link sent to it was claimed.
THEOREM VerifiedAddressesWereProven == AccountsSpec => []VerifiedEmailWasProven
<1>1. ASSUME AccountsInv
      PROVE  VerifiedEmailWasProven
  <2>1. ASSUME NEW u \in Users, verified[u] = users[u].email
        PROVE  Proven(u, verified[u])
    <3>1. users[u] \in User
      BY <1>1 DEF AccountsInv, RequestsInv
    <3>2. verified[u] # None
      BY <2>1, <3>1, AccountsAssumption DEF User
    <3>3. QED
      BY <1>1, <3>2 DEF AccountsInv, VerifiedInv, MarksProven
  <2>2. QED
    BY <2>1 DEF VerifiedEmailWasProven, Proven
<1>2. QED
  BY <1>1, AccountsInductive, PTL

\* No pair is signed for a revoked session, also when the revocation falls
\* between the checks of a refresh and its rotation.
THEOREM RevocationStopsRefreshes == AccountsSpec => NothingSignedAfterRevocation
<1>. DEFINE Unrevoked == \A j \in DOMAIN pairs' \ DOMAIN pairs :
                             pairs'[j].sid \in DOMAIN sessions => ~sessions[pairs'[j].sid].revoked
<1>1. ASSUME AccountsInv, [AccountsNext]_accountVars
      PROVE  [Unrevoked]_accountVars
  <2>1. CASE UNCHANGED accountVars
    BY <2>1
  <2>2. CASE AccountsNext
    <3>1. SignedInv /\ SignedStep
      BY <1>1, <2>2, SignedChange DEF AccountsInv
    <3>2. CASE pairs' = pairs
      BY <3>2
    <3>3. ASSUME NEW u \in Users, NEW s \in Nat, NEW j \in Nat, Sign(u, s, j),
                 s \in DOMAIN sessions => ~sessions[s].revoked
          PROVE  Unrevoked
      <4>1. /\ pairs' \in Seq(Pair) /\ Len(pairs') = Len(pairs) + 1 /\ Len(pairs) \in Nat
            /\ pairs'[Len(pairs')].sid = s
        BY <3>1, <3>3, PairSigned
      <4>2. pairs \in Seq(Pair)
        BY <3>1 DEF SignedInv
      <4>3. \A x \in DOMAIN pairs' \ DOMAIN pairs : x = Len(pairs')
        BY <4>1, <4>2
      <4>4. QED
        BY <3>3, <4>1, <4>3
    <3>4. nextSid \in Nat /\ nextSid \notin DOMAIN sessions
      BY <3>1 DEF SignedInv
    <3>5. \A s, j : CanRotate(s, j) => ~sessions[s].revoked
      BY DEF CanRotate
    <3>6. Unrevoked
      BY <3>1, <3>2, <3>3, <3>4, <3>5 DEF SignedStep, signed
    <3>7. QED
      BY <3>6
  <2>3. QED
    BY <1>1, <2>1, <2>2
<1>2. QED
  BY <1>1, AccountsInductive, PTL DEF AccountsSpec, NothingSignedAfterRevocation

-----------------------------------------------------------------------------
(* The scheduler: types *)

Pool(ids, steps) == [ids -> Entry(steps)]
DrainType == [at: {"idle", "cancel", "futures", "wait", "again", "drained"},
              cancelled: SUBSET Timers, waits: SUBSET Tasks]

\* TypeOK, with the record of the drain whole, and a job in every entry in use.
Shapes ==
    /\ status \in [Jobs -> {"absent", "queued", "running", "ended"}]
    /\ retries \in [Jobs -> 0..MaxRetries]
    /\ task \in Pool(Tasks, TaskSteps)
    /\ futures \in [Jobs -> Tasks \cup {Nothing}]
    /\ timer \in Pool(Timers, TimerSteps)
    /\ timers \in [Jobs -> Timers \cup {Nothing}]
    /\ drain \in DrainType
    /\ \A k \in Tasks : ~Free(task[k]) => Job(k) \in Jobs
    /\ \A m \in Timers : ~Free(timer[m]) => timer[m].job \in Jobs

LEMMA EntryTypes ==
    /\ NoEntry \in Entry(TaskSteps) /\ NoEntry \in Entry(TimerSteps)
    /\ \A j \in Jobs : /\ [at |-> "waiting", job |-> j] \in Entry(TaskSteps)
                       /\ [at |-> "ticking", job |-> j] \in Entry(TimerSteps)
  BY DEF NoEntry, Entry, TaskSteps, TimerSteps, Unfinished

\* A run moves on within its job.
LEMMA StepShape ==
    ASSUME task \in Pool(Tasks, TaskSteps), NEW k \in Tasks,
           NEW at \in TaskSteps
    PROVE  /\ Step(k, at) \in Pool(Tasks, TaskSteps)
           /\ Step(k, at)[k].at = at /\ Step(k, at)[k].job = Job(k)
           /\ \A l \in Tasks \ {k} : Step(k, at)[l] = task[l]
  BY DEF Step, Pool, Entry, Job

\* What a submission leaves in the pool and the table of futures.
LEMMA SubmitShape ==
    ASSUME futures \in [Jobs -> Tasks \cup {Nothing}],
           NEW tasks \in Pool(Tasks, TaskSteps), NEW j \in Jobs,
           NEW replace \in BOOLEAN,
           \A k \in Tasks : ~Free(tasks[k]) => tasks[k].job \in Jobs,
           Submit(j, replace, tasks)
    PROVE  /\ task' \in Pool(Tasks, TaskSteps)
           /\ futures' \in [Jobs -> Tasks \cup {Nothing}]
           /\ \A k \in Tasks : ~Free(task[k])' => Job(k)' \in Jobs
<1>1. CASE task' = tasks /\ UNCHANGED futures
  BY <1>1 DEF Free, Job
<1>2. ASSUME NEW k \in Tasks,
             task' = [tasks EXCEPT ![k] = [at |-> "waiting", job |-> j]],
             futures' = [futures EXCEPT ![j] = k]
      PROVE  /\ task' \in Pool(Tasks, TaskSteps)
             /\ futures' \in [Jobs -> Tasks \cup {Nothing}]
             /\ \A l \in Tasks : ~Free(task[l])' => Job(l)' \in Jobs
  BY <1>2, EntryTypes DEF Free, Job, Pool
<1>3. QED
  BY <1>1, <1>2 DEF Submit

LEMMA ShapesOfRuns ==
    ASSUME Shapes, NEW k \in Tasks, Run(k)
    PROVE  Shapes'
<1>0. /\ task[k].at # "free" /\ Job(k) \in Jobs
      /\ UNCHANGED drain
  BY DEF Run, Start, Claim, NoSlot, ScheduleRetry, Finish, Raise, ResubmitItself,
     Return, Clear, Shapes, Free
<1>1. ASSUME NEW at \in TaskSteps \ {"free"}, task' = Step(k, at)
      PROVE  /\ task' \in Pool(Tasks, TaskSteps)
             /\ \A l \in Tasks : ~Free(task[l])' => Job(l)' \in Jobs
  <2>1. /\ task' \in Pool(Tasks, TaskSteps)
        /\ task'[k].job = Job(k)
        /\ \A l \in Tasks \ {k} : task'[l] = task[l]
    BY <1>1, StepShape DEF Shapes
  <2>2. QED
    BY <1>0, <2>1 DEF Shapes, Free, Job
<1>a. {"started", "contended", "running", "raised", "leaving", "done"}
        \subseteq TaskSteps \ {"free"}
  BY DEF TaskSteps, Unfinished
<1>2. CASE \/ Start(k) \/ Claim(k) \/ NoSlot(k) \/ Finish(k) \/ Raise(k) \/ Return(k)
  <2>1. PICK at \in TaskSteps \ {"free"} : task' = Step(k, at)
    BY <1>2, <1>a DEF Start, Claim, NoSlot, Finish, Raise, Return
  <2>2. UNCHANGED <<futures, timer, timers>>
    BY <1>2 DEF Start, Claim, NoSlot, Finish, Raise, Return
  <2>3. /\ status' \in [Jobs -> {"absent", "queued", "running", "ended"}]
        /\ retries' \in [Jobs -> 0..MaxRetries]
    BY <1>0, <1>2, SchedulerAssumption DEF Start, Claim, NoSlot, Finish, Raise,
       Return, Shapes
  <2>4. QED
    BY <1>0, <1>1, <2>1, <2>2, <2>3 DEF Shapes, Free
<1>3. CASE ScheduleRetry(k)
  <2>1. /\ task' \in Pool(Tasks, TaskSteps)
        /\ \A l \in Tasks : ~Free(task[l])' => Job(l)' \in Jobs
    BY <1>1, <1>3, <1>a DEF ScheduleRetry
  <2>2. CASE UNCHANGED <<timer, timers>>
    BY <1>0, <1>3, <2>1, <2>2 DEF ScheduleRetry, Shapes, Free
  <2>3. ASSUME NEW m \in Timers,
               timer' = [timer EXCEPT ![m] = [at |-> "ticking", job |-> Job(k)]],
               timers' = [timers EXCEPT ![Job(k)] = m]
        PROVE  Shapes'
    <3>1. /\ timer' \in Pool(Timers, TimerSteps)
          /\ timers' \in [Jobs -> Timers \cup {Nothing}]
          /\ \A n \in Timers : ~Free(timer[n])' => timer'[n].job \in Jobs
      BY <1>0, <2>3, EntryTypes DEF Shapes, Pool, Free
    <3>2. QED
      BY <1>0, <1>3, <2>1, <3>1 DEF ScheduleRetry, Shapes
  <2>4. QED
    BY <1>3, <2>2, <2>3 DEF ScheduleRetry
<1>4. CASE ResubmitItself(k)
  <2> DEFINE tasks == Step(k, "leaving")
  <2>1. /\ tasks \in Pool(Tasks, TaskSteps)
        /\ tasks[k].at = "leaving" /\ tasks[k].job = Job(k)
        /\ \A l \in Tasks \ {k} : tasks[l] = task[l]
    BY <1>a, StepShape DEF Shapes
  <2>2. \A l \in Tasks : ~Free(tasks[l]) => tasks[l].job \in Jobs
    BY <1>0, <2>1 DEF Shapes, Job
  <2>3. /\ task' \in Pool(Tasks, TaskSteps)
        /\ futures' \in [Jobs -> Tasks \cup {Nothing}]
        /\ \A l \in Tasks : ~Free(task[l])' => Job(l)' \in Jobs
    <3> HIDE DEF tasks
    <3>1. Submit(Job(k), TRUE, tasks) /\ futures \in [Jobs -> Tasks \cup {Nothing}]
      BY <1>4 DEF ResubmitItself, tasks, Shapes
    <3>2. QED
      BY <1>0, <2>1, <2>2, <3>1, SubmitShape
  <2>4. QED
    BY <1>0, <1>4, <2>3 DEF ResubmitItself, Shapes, Free
<1>5. CASE Clear(k)
  <2>1. /\ task' \in Pool(Tasks, TaskSteps)
        /\ \A l \in Tasks : ~Free(task[l])' => Job(l)' \in Jobs
    BY <1>5, EntryTypes DEF Clear, Shapes, Pool, Free, Job, NoEntry
  <2>2. futures' \in [Jobs -> Tasks \cup {Nothing}]
    BY <1>5 DEF Clear, Shapes
  <2>3. QED
    BY <1>0, <1>5, <2>1, <2>2 DEF Clear, Shapes, Free
<1>6. QED
  BY <1>2, <1>3, <1>4, <1>5 DEF Run

LEMMA ShapesOfTimers ==
    ASSUME Shapes, NEW m \in Timers, Ring(m)
    PROVE  Shapes'
<1>0. timer[m].at # "free" /\ timer[m].job \in Jobs
  BY DEF Ring, Fire, Pop, Retry, Shapes, Free
<1>1. CASE Fire(m) \/ Pop(m)
  <2>1. PICK at \in {"fired", "popped"} : timer' = [timer EXCEPT ![m].at = at]
    BY <1>1 DEF Fire, Pop
  <2>2. /\ timer' \in Pool(Timers, TimerSteps)
        /\ \A n \in Timers : ~Free(timer[n])' => timer'[n].job \in Jobs
    BY <1>0, <2>1 DEF Shapes, Pool, Entry, TimerSteps, Free
  <2>3. timers' \in [Jobs -> Timers \cup {Nothing}]
    BY <1>1 DEF Fire, Pop, Shapes
  <2>4. QED
    BY <1>1, <2>2, <2>3 DEF Fire, Pop, Shapes, Free, Job
<1>2. CASE Retry(m)
  <2>1. /\ timer' \in Pool(Timers, TimerSteps)
        /\ \A n \in Timers : ~Free(timer[n])' => timer'[n].job \in Jobs
    BY <1>2, EntryTypes DEF Retry, Shapes, Pool, Free, NoEntry
  <2>2. /\ task' \in Pool(Tasks, TaskSteps)
        /\ futures' \in [Jobs -> Tasks \cup {Nothing}]
        /\ \A l \in Tasks : ~Free(task[l])' => Job(l)' \in Jobs
    <3>1. CASE status[timer[m].job] = "queued"
      BY <1>0, <1>2, <3>1, SubmitShape DEF Retry, Shapes, Job
    <3>2. CASE status[timer[m].job] # "queued"
      BY <1>2, <3>2 DEF Retry, Shapes, Free, Job
    <3>3. QED
      BY <3>1, <3>2
  <2>3. QED
    BY <1>2, <2>1, <2>2 DEF Retry, Shapes
<1>3. QED
  BY <1>1, <1>2 DEF Ring

LEMMA ShapesOfJobs ==
    ASSUME Shapes, NEW j \in Jobs,
           Create(j) \/ TakenElsewhere(j) \/ Resubmit(j) \/ Recover(j)
    PROVE  Shapes'
<1>1. CASE Resubmit(j)
  <2>1. /\ task' \in Pool(Tasks, TaskSteps)
        /\ futures' \in [Jobs -> Tasks \cup {Nothing}]
        /\ \A l \in Tasks : ~Free(task[l])' => Job(l)' \in Jobs
    BY <1>1, SubmitShape DEF Resubmit, Shapes, Job
  <2>2. QED
    BY <1>1, <2>1 DEF Resubmit, Shapes, Free
<1>2. CASE Create(j) \/ TakenElsewhere(j) \/ Recover(j)
  <2>1. /\ status' \in [Jobs -> {"absent", "queued", "running", "ended"}]
        /\ retries' \in [Jobs -> 0..MaxRetries]
    BY <1>2, SchedulerAssumption DEF Create, TakenElsewhere, Recover, Shapes
  <2>2. UNCHANGED <<task, futures, timer, timers, drain>>
    BY <1>2 DEF Create, TakenElsewhere, Recover
  <2>3. QED
    BY <2>1, <2>2 DEF Shapes, Free, Job
<1>3. QED
  BY <1>1, <1>2

LEMMA ShapesOfDrain ==
    ASSUME Shapes, Drain
    PROVE  Shapes'
<1>1. /\ timer' \in Pool(Timers, TimerSteps)
      /\ \A n \in Timers : ~Free(timer[n])' => timer'[n].job \in Jobs
  <2>1. CASE DrainCancel
    BY <2>1, EntryTypes DEF DrainCancel, Shapes, Pool, Free, NoEntry
  <2>2. CASE ~DrainCancel
    BY <2>2 DEF Drain, DrainTimers, DrainFutures, DrainAgain, DrainReturns, Shapes, Free
  <2>3. QED
    BY <2>1, <2>2
<1>2. timers' \in [Jobs -> Timers \cup {Nothing}]
  BY DEF Drain, DrainTimers, DrainCancel, DrainFutures, DrainAgain, DrainReturns, Shapes
<1>3. drain' \in DrainType
  BY DEF Drain, DrainTimers, DrainCancel, DrainFutures, DrainAgain, DrainReturns,
     Shapes, DrainType, Quiet
<1>4. UNCHANGED <<status, retries, task, futures>>
  BY DEF Drain, DrainTimers, DrainCancel, DrainFutures, DrainAgain, DrainReturns
<1>5. QED
  BY <1>1, <1>2, <1>3, <1>4 DEF Shapes, Free, Job

LEMMA ShapesKept == Shapes /\ [Next]_vars => Shapes'
<1> SUFFICES ASSUME Shapes, [Next]_vars PROVE Shapes'
  OBVIOUS
<1>1. CASE UNCHANGED vars
  BY <1>1 DEF vars, Shapes, Free, Job
<1>2. CASE Restart
  BY <1>2, EntryTypes DEF Restart, Shapes, Pool, DrainType, Quiet, Free, NoEntry
<1>3. QED
  BY <1>1, <1>2, ShapesOfRuns, ShapesOfTimers, ShapesOfJobs, ShapesOfDrain DEF Next

LEMMA ShapesHold == Spec => []Shapes
<1>1. Init => Shapes
  BY EntryTypes, SchedulerAssumption DEF Init, Shapes, Pool, DrainType, Quiet, Free, NoEntry
<1>2. QED
  BY <1>1, ShapesKept, PTL DEF Spec

\* Type correctness: the retry count stays within its column's limit, and every
\* future, timer and drained entry keeps its shape.
THEOREM SchedulerTypes == Spec => []TypeOK
<1>1. Shapes => TypeOK
  BY DEF Shapes, TypeOK, Pool, DrainType
<1>2. QED
  BY <1>1, ShapesHold, PTL

-----------------------------------------------------------------------------
(* Work is tracked *)

AtWork(k) == task[k].at \in Unfinished \ {"leaving"}

\* A submission replaces only the entry of work that is over.
LEMMA SubmissionTracks ==
    ASSUME Shapes, WorkIsTracked, NEW j \in Jobs, NEW replace \in BOOLEAN,
           NEW tasks \in Pool(Tasks, TaskSteps), Submit(j, replace, tasks),
           \A k \in Tasks : tasks[k].at \in Unfinished \ {"leaving"}
                              => tasks[k] = task[k],
           replace => \A k \in Tasks : tasks[k].at \in Unfinished \ {"leaving"}
                                         => tasks[k].job # j
    PROVE  WorkIsTracked'
<1>1. CASE task' = tasks /\ UNCHANGED futures
  BY <1>1 DEF WorkIsTracked, Job
<1>2. ASSUME NEW k \in Tasks, ~(Submitted(j) /\ ~replace),
             Free(tasks[k]),
             task' = [tasks EXCEPT ![k] = [at |-> "waiting", job |-> j]],
             futures' = [futures EXCEPT ![j] = k]
      PROVE  WorkIsTracked'
  <2> SUFFICES ASSUME NEW l \in Tasks, AtWork(l)'
               PROVE  futures'[Job(l)'] = l
    BY DEF WorkIsTracked, AtWork
  <2>1. CASE l = k
    <3>1. task'[l].job = j
      BY <1>2, <2>1 DEF Pool
    <3>2. QED
      BY <1>2, <2>1, <3>1 DEF Job, Shapes
  <2>2. CASE l # k
    <3>1. task'[l] = tasks[l] /\ tasks[l] = task[l] /\ AtWork(l)
      BY <1>2, <2>2 DEF AtWork, Pool
    <3>2. futures[Job(l)] = l /\ Job(l) \in Jobs
      BY <3>1 DEF WorkIsTracked, AtWork, Shapes, Free, Unfinished
    <3>3. Job(l) # j
      <4>1. CASE replace
        BY <3>1, <4>1 DEF AtWork, Job
      <4>2. CASE ~replace
        BY <1>2, <3>1, <3>2, <4>2, SchedulerAssumption DEF Submitted, AtWork
      <4>3. QED
        BY <4>1, <4>2
    <3>4. QED
      BY <1>2, <3>1, <3>2, <3>3 DEF Job, Shapes
  <2>3. QED
    BY <2>1, <2>2
<1>3. QED
  BY <1>1, <1>2 DEF Submit

\* A run that moves on within its own task keeps its entry.
LEMMA MovingOnTracks ==
    ASSUME Shapes, WorkIsTracked, NEW k \in Tasks, AtWork(k) \/ task[k].at = "leaving",
           NEW at \in TaskSteps, at \in Unfinished \ {"leaving"} => AtWork(k),
           task' = Step(k, at), UNCHANGED futures
    PROVE  WorkIsTracked'
<1>1. /\ task'[k].at = at /\ task'[k].job = Job(k)
      /\ \A l \in Tasks \ {k} : task'[l] = task[l]
  BY StepShape DEF Shapes
<1>2. QED
  BY <1>1 DEF WorkIsTracked, AtWork, Job

LEMMA EveryStepTracks ==
    ASSUME Shapes, WorkIsTracked, [Next]_vars
    PROVE  WorkIsTracked'
<1>1. CASE UNCHANGED <<task, futures>>
  BY <1>1 DEF WorkIsTracked, Job
<1>2. ASSUME NEW k \in Tasks, Run(k)
      PROVE  WorkIsTracked'
  <2>1. CASE \/ Start(k) \/ Claim(k) \/ NoSlot(k) \/ ScheduleRetry(k)
             \/ Finish(k) \/ Raise(k) \/ Return(k)
    <3>1. UNCHANGED futures /\ (AtWork(k) \/ task[k].at = "leaving")
      BY <2>1 DEF Start, Claim, NoSlot, ScheduleRetry, Finish, Raise, Return,
         AtWork, Unfinished
    <3>2. PICK at \in TaskSteps :
            task' = Step(k, at) /\ (at \in Unfinished \ {"leaving"} => AtWork(k))
      BY <2>1 DEF Start, Claim, NoSlot, ScheduleRetry, Finish, Raise, Return,
         TaskSteps, AtWork, Unfinished
    <3>3. QED
      BY <3>1, <3>2, MovingOnTracks
  <2>2. CASE ResubmitItself(k)
    <3> DEFINE tasks == Step(k, "leaving")
    <3>1. /\ tasks \in Pool(Tasks, TaskSteps)
          /\ tasks[k].at = "leaving"
          /\ \A l \in Tasks \ {k} : tasks[l] = task[l]
      BY StepShape DEF Shapes, TaskSteps, Unfinished
    <3>2. /\ task[k].at = "raised" /\ Job(k) \in Jobs /\ futures[Job(k)] = k
          /\ Submit(Job(k), TRUE, tasks)
      BY <2>2 DEF ResubmitItself, Shapes, WorkIsTracked, Unfinished, Free
    <3> HIDE DEF tasks
    <3>3. \A l \in Tasks : tasks[l].at \in Unfinished \ {"leaving"} => tasks[l] = task[l]
      BY <3>1
    <3>4. \A l \in Tasks : tasks[l].at \in Unfinished \ {"leaving"} => tasks[l].job # Job(k)
      BY <3>1, <3>2 DEF WorkIsTracked, Job
    <3>5. QED
      BY <3>1, <3>2, <3>3, <3>4, SubmissionTracks
  <2>3. CASE Clear(k)
    <3>1. /\ task'[k] = NoEntry /\ \A l \in Tasks \ {k} : task'[l] = task[l]
          /\ Job(k) \in Jobs
      BY <2>3 DEF Clear, Shapes, Pool, Free
    <3>2. ASSUME NEW l \in Tasks, AtWork(l)'
          PROVE  futures'[Job(l)'] = l
      <4>1. l # k /\ task'[l] = task[l] /\ futures[Job(l)] = l /\ Job(l) \in Jobs
        BY <3>1, <3>2 DEF AtWork, NoEntry, Unfinished, WorkIsTracked, Shapes, Free
      <4>2. futures'[Job(l)] = futures[Job(l)]
        BY <2>3, <4>1 DEF Clear, Shapes
      <4>3. QED
        BY <4>1, <4>2 DEF Job
    <3>3. QED
      BY <3>2 DEF WorkIsTracked, AtWork
  <2>4. QED
    BY <1>2, <2>1, <2>2, <2>3 DEF Run
<1>3. ASSUME NEW j \in Jobs, Submit(j, FALSE, task)
      PROVE  WorkIsTracked'
  BY <1>3, SubmissionTracks DEF Shapes
<1>4. ASSUME NEW m \in Timers, Ring(m)
      PROVE  WorkIsTracked'
  <2>1. CASE Retry(m)
    <3>1. timer[m].job \in Jobs
      BY <2>1 DEF Retry, Shapes, Free
    <3>2. QED
      BY <1>1, <1>3, <2>1, <3>1 DEF Retry
  <2>2. QED
    BY <1>1, <1>4, <2>1 DEF Ring, Fire, Pop
<1>5. ASSUME NEW j \in Jobs, Create(j) \/ TakenElsewhere(j) \/ Resubmit(j) \/ Recover(j)
      PROVE  WorkIsTracked'
  BY <1>1, <1>3, <1>5 DEF Create, TakenElsewhere, Resubmit, Recover
<1>6. CASE Drain
  BY <1>1, <1>6 DEF Drain, DrainTimers, DrainCancel, DrainFutures, DrainAgain, DrainReturns
<1>7. CASE Restart
  BY <1>7 DEF Restart, WorkIsTracked, NoEntry, Unfinished
<1>8. QED
  BY <1>1, <1>2, <1>4, <1>5, <1>6, <1>7 DEF Next, vars

\* Every run that can still touch its job is the future a drain finds for the
\* job, although runs submit their own successors and the callbacks of finished
\* ones come late.
THEOREM RunsAreTracked == Spec => []WorkIsTracked
<1>1. Init => WorkIsTracked
  BY DEF Init, WorkIsTracked, NoEntry, Unfinished
<1>2. QED
  BY <1>1, EveryStepTracks, ShapesHold, PTL DEF Spec

\* When drain_generation_workers reports that it drained, no run is left that
\* does more than return.
THEOREM DrainsSeeRuns == Spec => DrainSeesRuns
<1>1. Shapes /\ WorkIsTracked /\ [Next]_vars => [DrainedMeansNoRuns]_vars
  <2> SUFFICES ASSUME Shapes, WorkIsTracked, [Next]_vars
               PROVE  DrainedMeansNoRuns
    OBVIOUS
  <2> SUFFICES ASSUME drain.at # "drained", drain'.at = "drained",
                      NEW k \in Tasks, task[k].at \in Unfinished
               PROVE  task[k].at = "leaving"
    BY DEF DrainedMeansNoRuns
  <2>1. DrainFutures
    <3>1. drain'.at # drain.at
      OBVIOUS
    <3>2. UNCHANGED drain \/ drain' = Quiet \/ Drain
      BY DEF Next, Create, TakenElsewhere, Resubmit, Recover, Run, Start, Claim,
         NoSlot, ScheduleRetry, Finish, Raise, ResubmitItself, Return, Clear,
         Ring, Fire, Pop, Retry, Restart, vars
    <3>3. QED
      BY <3>1, <3>2 DEF Drain, DrainTimers, DrainCancel, DrainFutures, DrainAgain,
         DrainReturns, Quiet, Shapes, DrainType
  <2>2. \A j \in Jobs : futures[j] = Nothing
    BY <2>1 DEF DrainFutures, Shapes, DrainType
  <2>3. QED
    BY <2>2, SchedulerAssumption DEF WorkIsTracked, Shapes, Free, Unfinished
<1>2. QED
  BY <1>1, RunsAreTracked, ShapesHold, PTL DEF Spec, DrainSeesRuns
=============================================================================

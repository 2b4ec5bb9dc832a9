----------------------------- MODULE AuthService -------------------------------
(***************************************************************************)
(* src/src/apps/auth: login and lock-out, refresh with rotation of the      *)
(* token family, logout, and change of password.  No method of AuthService  *)
(* spans its reads and writes with one transaction, so each statement is an *)
(* action.  A refresh token is named by the row it was signed for: anyone   *)
(* who ever received it may send it again.                                  *)
(***************************************************************************)
EXTENDS AccountTables

-------------------------------------------------------------------------------
(* POST /auth/login *)

\* The row is read once: status, lock and password are judged on that read.
LoginReads(w, u, password) ==
    /\ Exists(u)
    /\ Start(w, [op |-> IF /\ users[u].status = "active"
                           /\ ~users[u].locked
                           /\ users[u].password = password
                        THEN "login" ELSE "login_failed",
                 user |-> u, password |-> password])

\* registerFailedLogin: the increment is one statement, and returns the count.
RegisterFailedLoginEarly(w) ==
    /\ request[w].op = "login_failed"
    /\ LET u == request[w].user IN
       /\ users' = [users EXCEPT ![u].failed = @ + 1]
       /\ IF users[u].failed + 1 < MaxAttempts - 1
          THEN Finish(w)
          ELSE Become(w, [op |-> "lock", user |-> u])
    /\ UNCHANGED <<roles, assignments, sessions>>
RegisterFailedLogin(w) ==
    /\ request[w].op = "login_failed"
    /\ LET u == request[w].user IN
       /\ users' = [users EXCEPT ![u].failed = @ + 1]
       /\ IF users[u].failed + 1 < MaxAttempts
          THEN Finish(w)
          ELSE Become(w, [op |-> "lock", user |-> u])
    /\ UNCHANGED <<roles, assignments, sessions>>

LockAccount(w) ==
    /\ request[w].op = "lock"
    /\ users' = [users EXCEPT ![request[w].user].locked = TRUE]
    /\ Finish(w)
    /\ UNCHANGED <<roles, assignments, sessions>>

\* The update of a login that was let in does not look at the row again.
LoginSucceeds(w) ==
    /\ request[w].op = "login"
    /\ users' = [users EXCEPT ![request[w].user].failed = 0,
                              ![request[w].user].locked = FALSE]
    /\ Become(w, [request[w] EXCEPT !.op = "open_session"])
    /\ UNCHANGED <<roles, assignments, sessions>>

CreateAuthSessionInFamily(w) ==
    /\ request[w].op = "open_session"
    /\ sessions' = Append(sessions,
          [user |-> request[w].user, family |-> Len(sessions), from |-> 0,
           revoked |-> Live, expired |-> FALSE, opened |-> request[w].password])
    /\ Finish(w)
    /\ UNCHANGED <<users, roles, assignments>>
CreateAuthSession(w) ==
    /\ request[w].op = "open_session"
    /\ sessions' = Append(sessions,
          [user |-> request[w].user, family |-> Len(sessions) + 1, from |-> 0,
           revoked |-> Live, expired |-> FALSE, opened |-> request[w].password])
    /\ Finish(w)
    /\ UNCHANGED <<users, roles, assignments>>

-------------------------------------------------------------------------------
(* POST /auth/refresh *)

\* rotateSession up to its transaction.  An expired token fails its signature
\* check, so its row is never looked at.
RefreshReads(w, s) ==
    /\ ~sessions[s].expired
    /\ users[sessions[s].user].status = "active"
    /\ ~users[sessions[s].user].locked
    /\ sessions[s].revoked \in {Live, "rotated"}
    /\ Start(w, [op |-> IF Ledger!IsLive(s) THEN "rotate" ELSE "reuse",
                 user |-> sessions[s].user, session |-> s])

\* The transaction: the row is revoked by its id alone.
RotateKeepsOld(w) ==
    /\ request[w].op = "rotate"
    /\ LET s == request[w].session IN
       sessions' = Append(sessions,
          [sessions[s] EXCEPT !.from = s, !.revoked = Live, !.expired = FALSE])
    /\ Finish(w)
    /\ UNCHANGED <<users, roles, assignments>>
RotateSession(w) ==
    /\ request[w].op = "rotate"
    /\ LET s == request[w].session IN
       sessions' = Append([sessions EXCEPT ![s].revoked = "rotated"],
          [sessions[s] EXCEPT !.from = s, !.revoked = Live, !.expired = FALSE])
    /\ Finish(w)
    /\ UNCHANGED <<users, roles, assignments>>

\* handleRevokedRefresh: a token that was rotated away came again.
RevokeFamily(w) ==
    /\ request[w].op = "reuse"
    /\ RevokeSessions(FamilyOf(request[w].session), "refresh_reuse_detected")
    /\ Finish(w)
    /\ UNCHANGED <<users, roles, assignments>>

-------------------------------------------------------------------------------
(* Logout, and the sessions of one's own account. *)

\* Without a guard: the token's signature is all that is checked.
LogoutStarts(w, s) ==
    /\ ~sessions[s].expired
    /\ Start(w, [op |-> "logout", user |-> sessions[s].user, session |-> s])

Logout(w) ==
    /\ request[w].op = "logout"
    /\ RevokeSessions({request[w].session}, "logout")
    /\ Finish(w)
    /\ UNCHANGED <<users, roles, assignments>>

LogoutAll(w, s) ==
    /\ JwtAuthGuard(s, "logout-all")
    /\ Start(w, [op |-> "revoke_sessions", user |-> sessions[s].user,
                 why |-> "logout_all"])

RevokeOwnSessionStarts(w, s, target) ==
    /\ JwtAuthGuard(s, "sessions")
    /\ Start(w, [op |-> "revoke_own", user |-> sessions[s].user,
                 session |-> target])

RevokeOwnSession(w) ==
    /\ request[w].op = "revoke_own"
    /\ RevokeSessions({request[w].session} \intersect SessionsOf(request[w].user),
                      "user_revoked")
    /\ Finish(w)
    /\ UNCHANGED <<users, roles, assignments>>

-------------------------------------------------------------------------------
(* PATCH /auth/change-password *)

\* The user is read and both passwords compared with the stored one.
ChangePasswordReads(w, s, current, new) ==
    /\ JwtAuthGuard(s, "change-password")
    /\ users[sessions[s].user].password = current
    /\ new # current
    /\ Start(w, [op |-> "set_password", user |-> sessions[s].user,
                 password |-> new])

ChangePasswordKeepsSessions(w) ==
    /\ request[w].op = "set_password"
    /\ users' = [users EXCEPT ![request[w].user].password = request[w].password,
                              ![request[w].user].mustChange = FALSE]
    /\ Finish(w)
    /\ UNCHANGED <<roles, assignments, sessions>>
ChangePassword(w) ==
    /\ request[w].op = "set_password"
    /\ users' = [users EXCEPT ![request[w].user].password = request[w].password,
                              ![request[w].user].mustChange = FALSE]
    /\ Become(w, [op |-> "revoke_sessions", user |-> request[w].user,
                  why |-> "password_changed"])
    /\ UNCHANGED <<roles, assignments, sessions>>

-------------------------------------------------------------------------------

AuthStarts(w) ==
    /\ Free(w)
    /\ \/ \E u \in Users, p \in Passwords : LoginReads(w, u, p)
       \/ \E s \in DOMAIN sessions :
             \/ RefreshReads(w, s)
             \/ LogoutStarts(w, s)
             \/ LogoutAll(w, s)
             \/ \E t \in DOMAIN sessions : RevokeOwnSessionStarts(w, s, t)
             \/ \E p, q \in Passwords : ChangePasswordReads(w, s, p, q)

AuthSteps(w) ==
    \/ RegisterFailedLogin(w) \/ LockAccount(w) \/ LoginSucceeds(w)
    \/ CreateAuthSession(w) \/ RotateSession(w) \/ RevokeFamily(w)
    \/ Logout(w) \/ RevokeOwnSession(w) \/ ChangePassword(w)
================================================================================

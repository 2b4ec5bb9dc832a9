--------------------------- MODULE AccountsRaceProofs ---------------------------
(***************************************************************************)
(* What holds of an account while no two requests about it overlap: proofs  *)
(* about Accounts, for any users, requests in flight and length of a        *)
(* behaviour.                                                               *)
(***************************************************************************)
EXTENDS AccountsProofs

-------------------------------------------------------------------------------
(* An account that one request at most is about *)

\* What a request read about its account still holds.
Agrees(u, r) ==
    /\ r.op \in {"login", "open_session"}
       => users[u].status = "active" /\ users[u].password = r.password
    /\ r.op = "rotate"
       => users[u].status = "active" /\ users[u].password = sessions[r.session].opened
    /\ r.op = "lock" => users[u].failed >= MaxAttempts

SessionsAgree(u) ==
    \A s \in LiveOf(u) :
        users[u].status = "active" /\ sessions[s].opened = users[u].password

LockCounted(u) == users[u].locked => users[u].failed >= MaxAttempts

OneRequest(u) ==
    \A v, w \in Workers : request[v].user = u /\ request[w].user = u => v = w

Peace(u) ==
    /\ OneRequest(u)
    /\ Exists(u) =>
          /\ \A w \in Workers : request[w].user = u => Agrees(u, request[w])
          /\ \/ SessionsAgree(u)
             \/ \E w \in Workers : request[w].user = u /\ request[w].op = "revoke_sessions"
          /\ LockCounted(u)

Calm == \A u \in Users : u \in disturbed \/ Peace(u)

\* The rows of auth_sessions as a step leaves them.
LEMMA SessionsKept ==
    ASSUME Sound, [Ledger!Next]_sessions
    PROVE  \A s \in DOMAIN sessions :
              /\ s \in DOMAIN sessions'
              /\ sessions'[s].user = sessions[s].user
              /\ sessions'[s].opened = sessions[s].opened
              /\ sessions'[s].revoked = Live => sessions[s].revoked = Live
<1>1. CASE UNCHANGED sessions
  BY <1>1
<1>2. CASE Ledger!Next
  <2>1. Proved!ReasonsOK
    BY DEF Proved!ReasonsOK, Reasons, Live
  <2>2. Proved!TypeOK /\ Proved!Next
    BY <1>2 DEF Sound, Rows, Proved!TypeOK, Proved!Row, Ledger!Row, Proved!Next, Ledger!Next,
           Proved!Open, Proved!Replace, Proved!Revoke, Proved!Expire, Proved!IsLive,
           Ledger!Open, Ledger!Replace, Ledger!Revoke, Ledger!Expire, Ledger!IsLive
  <2>3. Proved!Kept(Len(sessions))
    BY <2>1, <2>2, Proved!Steps
  <2>4. DOMAIN sessions = 1..Len(sessions)
    BY RowsHold DEF Sound
  <2>5. \A s \in DOMAIN sessions : s \in DOMAIN sessions'
    <3>1. /\ sessions' \in Seq(Ledger!Row) /\ Len(sessions') \in {Len(sessions), Len(sessions) + 1}
      BY <1>2, LedgerSteps DEF Sound, Rows
    <3>2. DOMAIN sessions' = 1..Len(sessions') /\ Len(sessions) \in Nat
      BY <3>1, RowsHold DEF Sound
    <3>3. \A n \in Nat : \A m : m \in {n, n + 1} => 1..n \subseteq 1..m
      OBVIOUS
    <3>4. 1..Len(sessions) \subseteq 1..Len(sessions')
      BY <3>1, <3>2, <3>3
    <3>. QED
      BY <2>4, <3>2, <3>4
  <2>. QED
    BY <2>3, <2>4, <2>5 DEF Proved!Kept
<1>. QED
  BY <1>1, <1>2

\* No step opens a session of u, and u's row stays what the sessions rest on.
LEMMA StillAgree ==
    ASSUME Sound, [Ledger!Next]_sessions, NEW u \in Users, SessionsAgree(u),
           users'[u].status = users[u].status, users'[u].password = users[u].password,
           \A s \in DOMAIN sessions' \ DOMAIN sessions : sessions'[s].user # u
    PROVE  SessionsAgree(u)'
<1>1. \A s \in LiveOf(u)' : s \in LiveOf(u) /\ sessions'[s].opened = sessions[s].opened
  BY SessionsKept DEF LiveOf, SessionsOf, Ledger!IsLive
<1>. QED
  BY <1>1 DEF SessionsAgree

LEMMA Bystander ==
    ASSUME Sound, [Ledger!Next]_sessions, NEW u \in Users, Peace(u),
           \A s \in DOMAIN sessions' \ DOMAIN sessions : sessions'[s].user # u,
           Exists(u)' =>
              /\ Exists(u)
              /\ users'[u].status = users[u].status
              /\ users'[u].password = users[u].password
              /\ users'[u].failed = users[u].failed
              /\ users'[u].locked => users[u].locked,
           \A v \in Workers :
              request[v].user = u \/ request'[v].user = u => request'[v] = request[v]
    PROVE  Peace(u)'
<1>1. OneRequest(u)'
  BY DEF Peace, OneRequest
<1> SUFFICES ASSUME Exists(u)'
             PROVE  /\ \A w \in Workers : request'[w].user = u => Agrees(u, request[w])'
                    /\ \/ SessionsAgree(u)'
                       \/ \E w \in Workers :
                             request'[w].user = u /\ request'[w].op = "revoke_sessions"
                    /\ LockCounted(u)'
  BY <1>1 DEF Peace
<1>2. ASSUME NEW w \in Workers, request'[w].user = u PROVE Agrees(u, request[w])'
  <2>1. PICK r : r = request[w]
    OBVIOUS
  <2>2. request'[w] = r /\ Agrees(u, r)
    BY <1>2, <2>1 DEF Peace
  <2>3. r.op = "rotate" => r.session \in DOMAIN sessions
    BY <2>1, Held DEF Sound, RequestsFit, Fits
  <2>4. Agrees(u, r)'
    BY <2>2, <2>3, SessionsKept DEF Agrees
  <2>. QED
    BY <2>2, <2>4 DEF Agrees
<1>3. LockCounted(u)'
  BY DEF LockCounted, Peace
<1>4. SessionsAgree(u) => SessionsAgree(u)'
  BY StillAgree
<1>. QED
  BY <1>2, <1>3, <1>4 DEF Peace

\* The request that is about u goes on, and no other is about u.
LEMMA Actor ==
    ASSUME Sound, NEW w \in Workers, NEW u \in Users, OneRequest(u),
           request[w].user = u \/ \A v \in Workers : request[v].user # u,
           NEW r, request' = [request EXCEPT ![w] = r],
           Exists(u)' =>
              /\ r.user = u => Agrees(u, r)'
              /\ SessionsAgree(u)' \/ (r.user = u /\ r.op = "revoke_sessions")
              /\ LockCounted(u)'
    PROVE  Peace(u)'
<1>1. request'[w] = r /\ \A v \in Workers \ {w} : request'[v] = request[v]
  BY DEF Sound, RequestsFit
<1>2. \A v \in Workers \ {w} : request'[v].user # u
  BY <1>1 DEF OneRequest
<1>3. OneRequest(u)'
  BY <1>2 DEF OneRequest
<1>4. ASSUME Exists(u)', NEW v \in Workers, request'[v].user = u
      PROVE  Agrees(u, request[v])'
  <2>1. v = w
    BY <1>2, <1>4
  <2>2. Agrees(u, r)'
    BY <1>1, <1>4, <2>1
  <2>. QED
    BY <1>1, <2>1, <2>2 DEF Agrees
<1>. QED
  BY <1>1, <1>3, <1>4 DEF Peace

-------------------------------------------------------------------------------
(* Requests that begin *)

LEMMA Begins ==
    ASSUME Sound, Calm, NEW w \in Workers,
           AuthStarts(w) \/ UserStarts(w) \/ RoleStarts(w)
    PROVE  Calm'
<1>1. PICK r : Start(w, r) /\ JustRead(r)
  BY AuthBegins, AdministrationBegins
<1>2. /\ UNCHANGED <<users, sessions>> /\ request[w] = Idle
      /\ request' = [request EXCEPT ![w] = r]
      /\ disturbed' = disturbed \union
            {u \in {r.user} \ {None} : \E v \in Workers : request[v].user = u}
  BY <1>1 DEF Start, tables, Free
<1>3. ASSUME NEW u \in Users, u \notin disturbed', u # r.user PROVE Peace(u)'
  <2>1. \A v \in Workers :
            request[v].user = u \/ request'[v].user = u => request'[v] = request[v]
    BY <1>2, <1>3, AccountConstants DEF Sound, RequestsFit, Idle
  <2>2. Peace(u)
    BY <1>2, <1>3 DEF Calm
  <2>. QED
    BY <1>2, <2>1, <2>2, Bystander DEF Exists
<1>4. ASSUME NEW u \in Users, u \notin disturbed', u = r.user PROVE Peace(u)'
  <2>1. Peace(u) /\ \A v \in Workers : request[v].user # u
    BY <1>2, <1>4, AccountConstants DEF Calm
  <2>2. Exists(u) => SessionsAgree(u) /\ LockCounted(u)
    BY <2>1 DEF Peace
  <2>3. Exists(u) => Agrees(u, r)
    <3>1. r.op = "rotate" => r.session \in DOMAIN sessions
      BY <1>1, Held DEF JustRead, Fits
    <3>2. r.op = "rotate" => r.session \in LiveOf(u)
      BY <1>1, <1>4, <3>1 DEF JustRead, Fits, LiveOf, SessionsOf, Ledger!IsLive
    <3>. QED
      BY <1>1, <1>4, <2>2, <3>2 DEF Agrees, JustRead, SessionsAgree
  <2>4. Exists(u)' => Agrees(u, r)' /\ SessionsAgree(u)' /\ LockCounted(u)'
    BY <1>2, <2>2, <2>3 DEF Exists, Agrees, SessionsAgree, LockCounted, LiveOf, SessionsOf,
                            Ledger!IsLive
  <2>5. OneRequest(u)
    BY <2>1 DEF Peace
  <2>. QED
    BY <1>2, <2>1, <2>4, <2>5, Actor
<1>. QED
  BY <1>3, <1>4 DEF Calm

-------------------------------------------------------------------------------
(* Requests that go on *)

\* A step of a request is about its account, and goes on with it or ends.
Frame(w) ==
    /\ \A u \in Users : u # request[w].user => users'[u] = users[u]
    /\ \A s \in DOMAIN sessions' \ DOMAIN sessions : sessions'[s].user = request[w].user
    /\ UNCHANGED disturbed
    /\ \E r : /\ request' = [request EXCEPT ![w] = r]
              /\ r.user = request[w].user \/ r = Idle

LEMMA AuthFrames ==
    ASSUME Sound, NEW w \in Workers, AuthSteps(w) \/ RevokeUserSessions(w)
    PROVE  Frame(w)
<1>0. PICK r : r = request[w]
  OBVIOUS
<1>1. r = request[w] /\ Fits(r) /\ r \in Requests /\ users = [u \in Users |-> users[u]]
  BY <1>0 DEF Sound, RequestsFit, Fits, Rows
<1>2. CASE RegisterFailedLogin(w)
  BY <1>1, <1>2 DEF RegisterFailedLogin, Frame, Become, Finish
<1>3. CASE LockAccount(w)
  BY <1>1, <1>3 DEF LockAccount, Frame, Become, Finish
<1>4. CASE LoginSucceeds(w)
  <2>1. r = [op |-> "login", user |-> r.user, password |-> r.password]
    BY <1>1, <1>4, Held DEF LoginSucceeds
  <2>2. [r EXCEPT !.op = "open_session"].user = r.user
    BY <2>1
  <2>. QED
    BY <1>1, <1>4, <2>2 DEF LoginSucceeds, Frame, Become
<1>5. CASE CreateAuthSession(w)
  <2> DEFINE row == [user |-> r.user, family |-> Len(sessions) + 1, from |-> 0,
                     revoked |-> Live, expired |-> FALSE, opened |-> r.password]
  <2>1. sessions' = Append(sessions, row) /\ sessions \in Seq(Ledger!Row)
    BY <1>1, <1>5 DEF CreateAuthSession, Sound, Rows
  <2>2. row.user = r.user
    OBVIOUS
  <2> HIDE DEF row
  <2>3. \A s \in DOMAIN sessions' \ DOMAIN sessions : sessions'[s] = row
    BY <2>1
  <2>. QED
    BY <1>1, <1>5, <2>2, <2>3 DEF CreateAuthSession, Frame, Become, Finish
<1>6. CASE RotateSession(w)
  <2>1. r.session \in DOMAIN sessions /\ sessions[r.session].user = r.user
    BY <1>1, <1>6, Held DEF RotateSession, Fits
  <2> DEFINE s == r.session
             old == [sessions EXCEPT ![s].revoked = "rotated"]
             new == [sessions[s] EXCEPT !.from = s, !.revoked = Live, !.expired = FALSE]
  <2>2. sessions' = Append(old, new)
    BY <1>1, <1>6 DEF RotateSession
  <2>3. new.user = r.user
    BY <2>1, RowsHold DEF Sound, Ledger!Row
  <2>4. old \in Seq(Ledger!Row) /\ DOMAIN old = DOMAIN sessions
    <3>1. [sessions[s] EXCEPT !.revoked = "rotated"] \in Ledger!Row
      BY <2>1, RowsHold DEF Sound, Ledger!Row, Reasons
    <3>. QED
      BY <2>1, <3>1 DEF Sound, Rows
  <2> HIDE DEF old, new
  <2>5. \A t \in DOMAIN sessions' \ DOMAIN sessions : sessions'[t] = new
    BY <2>2, <2>4
  <2>. QED
    BY <1>1, <1>6, <2>3, <2>5 DEF RotateSession, Frame, Become, Finish
<1>7. CASE RevokeFamily(w)
  BY <1>1, <1>7 DEF RevokeFamily, RevokeSessions, Frame, Become, Finish
<1>8. CASE Logout(w)
  BY <1>1, <1>8 DEF Logout, RevokeSessions, Frame, Become, Finish
<1>9. CASE RevokeOwnSession(w)
  BY <1>1, <1>9 DEF RevokeOwnSession, RevokeSessions, Frame, Become, Finish
<1>10. CASE ChangePassword(w)
  <2>1. \A u \in Users : u # r.user => users'[u] = users[u]
    BY <1>1, <1>10 DEF ChangePassword
  <2> DEFINE next == [op |-> "revoke_sessions", user |-> r.user, why |-> "password_changed"]
  <2>2. Become(w, next) /\ UNCHANGED sessions
    BY <1>1, <1>10 DEF ChangePassword
  <2>3. next.user = r.user
    OBVIOUS
  <2> HIDE DEF next
  <2>. QED
    BY <1>1, <2>1, <2>2, <2>3 DEF Frame, Become
<1>11. CASE RevokeUserSessions(w)
  BY <1>1, <1>11 DEF RevokeUserSessions, RevokeSessions, Frame, Become, Finish
<1>. QED
  BY <1>2, <1>3, <1>4, <1>5, <1>6, <1>7, <1>8, <1>9, <1>10, <1>11 DEF AuthSteps

LEMMA AdministrationFrames ==
    ASSUME Sound, NEW w \in Workers, AdministrationSteps(w) PROVE Frame(w)
<1>0. PICK r : r = request[w]
  OBVIOUS
<1>1. r = request[w] /\ Fits(r) /\ r \in Requests /\ users = [u \in Users |-> users[u]]
  BY <1>0 DEF Sound, RequestsFit, Fits, Rows
<1>2. CASE CreateUser(w)
  BY <1>1, <1>2 DEF CreateUser, Created, Frame, Become, Finish
<1>3. CASE CheckUserStatus(w)
  BY <1>1, <1>3 DEF CheckUserStatus, Frame, Become, Finish, tables
<1>4. CASE SetUserStatus(w)
  BY <1>1, <1>4 DEF SetUserStatus, Frame, Become, Finish
<1>5. CASE SetTemporaryPassword(w)
  <2>1. \A u \in Users : u # r.user => users'[u] = users[u]
    BY <1>1, <1>5 DEF SetTemporaryPassword
  <2> DEFINE next == [op |-> "revoke_sessions", user |-> r.user, why |-> "temporary_password_set"]
  <2>2. Become(w, next) /\ UNCHANGED sessions
    BY <1>1, <1>5 DEF SetTemporaryPassword
  <2>3. next.user = r.user
    OBVIOUS
  <2> HIDE DEF next
  <2>. QED
    BY <1>1, <2>1, <2>2, <2>3 DEF Frame, Become
<1>6. CASE CreateRole(w) \/ UpdateRoleStatus(w) \/ SyncPermissionsInserts(w)
           \/ InsertAssignment(w) \/ RevokeAssignment(w)
  BY <1>1, <1>6 DEF CreateRole, UpdateRoleStatus, SyncPermissionsInserts, InsertAssignment,
                    RevokeAssignment, Frame, Become, Finish
<1>7. CASE ValidateAssignable(w)
  <2>1. r \in [op : {"validate", "assign"}, user : Users, role : Roles,
               station : Stations \union {None}, by : Users]
    BY <1>1, <1>7, Held DEF ValidateAssignable
  <2>2. [r EXCEPT !.op = "assign"].user = r.user
    BY <2>1
  <2>. QED
    BY <1>1, <1>7, <2>2 DEF ValidateAssignable, Frame, Become, Finish, tables
<1>8. CASE CheckRevocation(w)
  BY <1>1, <1>8 DEF CheckRevocation, Frame, Become, Finish, tables
<1>. QED
  BY <1>2, <1>3, <1>4, <1>5, <1>6, <1>7, <1>8 DEF AdministrationSteps

\* Whoever the step is not about is a bystander.
LEMMA OthersStayCalm ==
    ASSUME Sound, [Ledger!Next]_sessions, Calm, NEW w \in Workers, Frame(w),
           \A u \in Users : u = request[w].user /\ Exists(u)' /\ u \notin disturbed
                            /\ Peace(u) => Peace(u)',
           NEW u \in Users, u \notin disturbed
    PROVE  Peace(u)'
<1>1. Peace(u)
  BY DEF Calm
<1>2. PICK r : /\ request' = [request EXCEPT ![w] = r]
               /\ r.user = request[w].user \/ r = Idle
  BY DEF Frame
<1>3. CASE u # request[w].user
  <2>1. \A v \in Workers :
            request[v].user = u \/ request'[v].user = u => request'[v] = request[v]
    BY <1>2, <1>3, AccountConstants DEF Sound, RequestsFit, Idle
  <2>2. users'[u] = users[u] /\ \A s \in DOMAIN sessions' \ DOMAIN sessions :
                                   sessions'[s].user # u
    BY <1>3 DEF Frame
  <2>. QED
    BY <1>1, <2>1, <2>2, Bystander DEF Exists
<1>4. CASE u = request[w].user /\ ~Exists(u)'
  <2>1. OneRequest(u)
    BY <1>1 DEF Peace
  <2>. QED
    BY <1>2, <1>4, <2>1, Actor
<1>. QED
  BY <1>1, <1>3, <1>4

\* What the one request about u knows before its step.
LEMMA Knows ==
    ASSUME Sound, NEW w \in Workers, NEW u \in Users, u = request[w].user,
           Exists(u), Peace(u)
    PROVE  /\ Agrees(u, request[w]) /\ LockCounted(u) /\ users[u] \in UserRow
           /\ request[w].op # "revoke_sessions" => SessionsAgree(u)
BY DEF Peace, OneRequest, Sound, Rows, Exists

LEMMA AuthActs ==
    ASSUME Sound, [Ledger!Next]_sessions, NEW w \in Workers,
           AuthSteps(w) \/ RevokeUserSessions(w),
           NEW u \in Users, u = request[w].user, Exists(u)', Peace(u)
    PROVE  Peace(u)'
<1>0. PICK r : r = request[w]
  OBVIOUS
<1>1. r = request[w] /\ Fits(r) /\ r \in Requests /\ u = r.user /\ OneRequest(u)
  BY <1>0 DEF Sound, RequestsFit, Fits, Peace
<1>2. /\ None # u /\ Idle.user = None /\ Idle.op = "idle"
  BY AccountConstants DEF Idle
<1>3. Exists(u)
  <2>1. r.op \in OnAccount => Exists(u)
    BY <1>1 DEF Fits
  <2>2. r.op \notin OnAccount => UNCHANGED users
    BY <1>1 DEF AuthSteps, RevokeUserSessions, RegisterFailedLogin, LockAccount,
       LoginSucceeds, CreateAuthSession, RotateSession, RevokeFamily, Logout,
       RevokeOwnSession, ChangePassword, OnAccount
  <2>. QED
    BY <2>1, <2>2 DEF Exists
<1>4. /\ Agrees(u, r) /\ LockCounted(u) /\ users[u] \in UserRow
      /\ r.op # "revoke_sessions" => SessionsAgree(u)
  BY <1>1, <1>3, Knows
<1>5. users[u].failed \in Nat /\ MaxAttempts \in Nat
  BY <1>4, AccountConstants DEF UserRow
\* The request ends, and u's row and sessions are as good as before.
<1>6. ASSUME Finish(w), LockCounted(u)', SessionsAgree(u)' PROVE Peace(u)'
  BY <1>1, <1>2, <1>6, Actor DEF Finish, Become
<1>7. ASSUME r.op # "revoke_sessions", UNCHANGED users, Finish(w),
             \A s \in DOMAIN sessions' \ DOMAIN sessions : sessions'[s].user # u
      PROVE  Peace(u)'
  <2>1. SessionsAgree(u)'
    BY <1>4, <1>7, StillAgree
  <2>. QED
    BY <1>4, <1>6, <1>7, <2>1 DEF LockCounted
<1>8. CASE RegisterFailedLogin(w)
  <2>1. users'[u] = [users[u] EXCEPT !.failed = @ + 1]
    BY <1>1, <1>8 DEF RegisterFailedLogin, Sound, Rows
  <2>2. /\ users'[u].failed = users[u].failed + 1 /\ users'[u].locked = users[u].locked
        /\ users'[u].status = users[u].status /\ users'[u].password = users[u].password
    BY <1>4, <2>1 DEF UserRow
  <2>3. SessionsAgree(u)' /\ LockCounted(u)'
    BY <1>1, <1>4, <1>5, <1>8, <2>2, StillAgree DEF RegisterFailedLogin, LockCounted
  <2>4. CASE Finish(w)
    BY <1>6, <2>3, <2>4
  <2>5. CASE ~Finish(w)
    <3> DEFINE next == [op |-> "lock", user |-> u]
    <3>1. Become(w, next) /\ users'[u].failed >= MaxAttempts
      BY <1>1, <1>5, <1>8, <2>2, <2>5 DEF RegisterFailedLogin
    <3>2. Agrees(u, next)'
      BY <3>1 DEF Agrees
    <3>. QED
      BY <1>1, <2>3, <3>1, <3>2, Actor DEF Become
  <2>. QED
    BY <2>4, <2>5
<1>9. CASE LockAccount(w)
  <2>1. users'[u] = [users[u] EXCEPT !.locked = TRUE] /\ UNCHANGED sessions
    BY <1>1, <1>9 DEF LockAccount, Sound, Rows
  <2>2. /\ users'[u].failed = users[u].failed
        /\ users'[u].status = users[u].status /\ users'[u].password = users[u].password
    BY <1>4, <2>1 DEF UserRow
  <2>3. r.op = "lock" /\ Finish(w)
    BY <1>1, <1>9 DEF LockAccount
  <2>4. SessionsAgree(u)'
    BY <1>4, <2>1, <2>2, <2>3, StillAgree
  <2>5. LockCounted(u)'
    BY <1>4, <2>2, <2>3 DEF LockCounted, Agrees
  <2>. QED
    BY <1>6, <2>3, <2>4, <2>5
<1>10. CASE LoginSucceeds(w)
  <2>1. users'[u] = [users[u] EXCEPT !.failed = 0, !.locked = FALSE]
    BY <1>1, <1>10 DEF LoginSucceeds, Sound, Rows
  <2>2. /\ ~users'[u].locked
        /\ users'[u].status = users[u].status /\ users'[u].password = users[u].password
    BY <1>4, <2>1 DEF UserRow
  <2>3. r.op = "login" /\ UNCHANGED sessions
    BY <1>1, <1>10 DEF LoginSucceeds
  <2>4. r = [op |-> "login", user |-> u, password |-> r.password]
    BY <1>1, <2>3, Held
  <2> DEFINE next == [op |-> "open_session", user |-> u, password |-> r.password]
  <2>5. [r EXCEPT !.op = "open_session"] = next
    BY <2>4
  <2>6. Become(w, next)
    BY <1>1, <1>10, <2>5 DEF LoginSucceeds
  <2>7. next.op = "open_session" /\ next.user = u /\ next.password = r.password
    OBVIOUS
  <2> HIDE DEF next
  <2>8. SessionsAgree(u)' /\ LockCounted(u)'
    BY <1>4, <2>2, <2>3, StillAgree DEF LockCounted
  <2>9. Agrees(u, next)'
    BY <1>4, <2>2, <2>3, <2>7 DEF Agrees
  <2>. QED
    BY <1>1, <2>6, <2>7, <2>8, <2>9, Actor DEF Become
<1>11. CASE CreateAuthSession(w)
  <2> DEFINE row == [user |-> u, family |-> Len(sessions) + 1, from |-> 0,
                     revoked |-> Live, expired |-> FALSE, opened |-> r.password]
  <2>1. /\ sessions' = Append(sessions, row) /\ sessions \in Seq(Ledger!Row)
        /\ UNCHANGED users /\ Finish(w) /\ r.op = "open_session"
    BY <1>1, <1>11 DEF CreateAuthSession, Sound, Rows
  <2>2. row.opened = r.password
    OBVIOUS
  <2> HIDE DEF row
  <2>3. \A s \in DOMAIN sessions' \ DOMAIN sessions : sessions'[s] = row
    BY <2>1
  <2>4. \A s \in LiveOf(u)' :
              \/ s \in LiveOf(u) /\ sessions'[s].opened = sessions[s].opened
              \/ sessions'[s] = row
    BY <2>3, SessionsKept DEF LiveOf, SessionsOf, Ledger!IsLive
  <2>5. SessionsAgree(u)'
    BY <1>4, <2>1, <2>2, <2>4 DEF SessionsAgree, Agrees
  <2>. QED
    BY <1>4, <1>6, <2>1, <2>5 DEF LockCounted
<1>12. CASE RotateSession(w)
  <2>1. r.op = "rotate" /\ r.session \in DOMAIN sessions /\ UNCHANGED users /\ Finish(w)
    BY <1>1, <1>12, Held DEF RotateSession
  <2> DEFINE s == r.session
             old == [sessions EXCEPT ![s].revoked = "rotated"]
             new == [sessions[s] EXCEPT !.from = s, !.revoked = Live, !.expired = FALSE]
  <2>2. sessions' = Append(old, new)
    BY <1>1, <1>12 DEF RotateSession
  <2>3. new.opened = sessions[s].opened
    BY <2>1, RowsHold DEF Sound, Ledger!Row
  <2>4. old \in Seq(Ledger!Row) /\ DOMAIN old = DOMAIN sessions
    <3>1. [sessions[s] EXCEPT !.revoked = "rotated"] \in Ledger!Row
      BY <2>1, RowsHold DEF Sound, Ledger!Row, Reasons
    <3>. QED
      BY <2>1, <3>1 DEF Sound, Rows
  <2> HIDE DEF old, new
  <2>5. \A t \in DOMAIN sessions' \ DOMAIN sessions : sessions'[t] = new
    BY <2>2, <2>4
  <2>6. \A t \in LiveOf(u)' :
              \/ t \in LiveOf(u) /\ sessions'[t].opened = sessions[t].opened
              \/ sessions'[t] = new
    BY <2>5, SessionsKept DEF LiveOf, SessionsOf, Ledger!IsLive
  <2>7. SessionsAgree(u)'
    BY <1>4, <2>1, <2>3, <2>6 DEF SessionsAgree, Agrees
  <2>. QED
    BY <1>4, <1>6, <2>1, <2>7 DEF LockCounted
<1>13. CASE RevokeFamily(w)
  BY <1>1, <1>7, <1>13 DEF RevokeFamily, RevokeSessions
<1>14. CASE Logout(w)
  BY <1>1, <1>7, <1>14 DEF Logout, RevokeSessions
<1>15. CASE RevokeOwnSession(w)
  BY <1>1, <1>7, <1>15 DEF RevokeOwnSession, RevokeSessions
<1>16. CASE ChangePassword(w)
  <2> DEFINE next == [op |-> "revoke_sessions", user |-> u, why |-> "password_changed"]
  <2>1. Become(w, next)
    BY <1>1, <1>16 DEF ChangePassword
  <2>2. next.op = "revoke_sessions" /\ next.user = u
    OBVIOUS
  <2> HIDE DEF next
  <2>3. users'[u] = [users[u] EXCEPT !.password = r.password, !.mustChange = FALSE]
    BY <1>1, <1>16 DEF ChangePassword, Sound, Rows
  <2>4. users'[u].failed = users[u].failed /\ users'[u].locked = users[u].locked
    BY <1>4, <2>3 DEF UserRow
  <2>5. LockCounted(u)' /\ Agrees(u, next)'
    BY <1>4, <2>2, <2>4 DEF LockCounted, Agrees
  <2>. QED
    BY <1>1, <2>1, <2>2, <2>5, Actor DEF Become
<1>17. CASE RevokeUserSessions(w)
  <2>1. /\ r.op = "revoke_sessions" /\ r.why \in Reasons /\ Finish(w) /\ UNCHANGED users
        /\ RevokeSessions(SessionsOf(u), r.why)
    BY <1>1, <1>17, Held DEF RevokeUserSessions
  <2>2. \A s \in DOMAIN sessions : s \in SessionsOf(u) => sessions'[s].revoked # Live
    <3>1. ASSUME NEW s \in DOMAIN sessions, s \in SessionsOf(u), sessions[s].revoked = Live
          PROVE  sessions'[s].revoked # Live
      <4>1. sessions'[s] = [sessions[s] EXCEPT !.revoked = r.why]
        BY <2>1, <3>1 DEF RevokeSessions, Ledger!IsLive
      <4>2. sessions'[s].revoked = r.why
        BY <4>1, RowsHold DEF Sound, Ledger!Row
      <4>. QED
        BY <2>1, <4>2 DEF Reasons, Live
    <3>. QED
      BY <3>1, SessionsKept
  <2>3. DOMAIN sessions' = DOMAIN sessions
    BY <2>1 DEF RevokeSessions
  <2>4. SessionsAgree(u)'
    BY <2>2, <2>3, SessionsKept DEF SessionsAgree, LiveOf, SessionsOf, Ledger!IsLive
  <2>. QED
    BY <1>4, <1>6, <2>1, <2>4 DEF LockCounted
<1>. QED
  BY <1>8, <1>9, <1>10, <1>11, <1>12, <1>13, <1>14, <1>15, <1>16, <1>17 DEF AuthSteps

LEMMA AdministrationActs ==
    ASSUME Sound, [Ledger!Next]_sessions, NEW w \in Workers, AdministrationSteps(w),
           NEW u \in Users, u = request[w].user, Exists(u)', Peace(u)
    PROVE  Peace(u)'
<1>0. PICK r : r = request[w]
  OBVIOUS
<1>1. r = request[w] /\ Fits(r) /\ r \in Requests /\ u = r.user /\ OneRequest(u)
  BY <1>0 DEF Sound, RequestsFit, Fits, Peace
<1>2. /\ None # u /\ Idle.user = None /\ Idle.op = "idle"
  BY AccountConstants DEF Idle
<1>3. Exists(u) =>
        /\ Agrees(u, r) /\ LockCounted(u) /\ users[u] \in UserRow
        /\ r.op # "revoke_sessions" => SessionsAgree(u)
  BY <1>1, Knows
<1>4. r.op # "revoke_sessions" /\ UNCHANGED sessions
  BY <1>1 DEF AdministrationSteps, CreateUser, Created, CheckUserStatus, SetUserStatus,
     SetTemporaryPassword, CreateRole, UpdateRoleStatus, SyncPermissionsInserts,
     ValidateAssignable, InsertAssignment, CheckRevocation, RevokeAssignment, tables
<1>5. LiveOf(u)' = LiveOf(u)
  BY <1>4 DEF LiveOf, SessionsOf, Ledger!IsLive
\* The request goes on as next, which rests on nothing it read of u's row.
<1>6. ASSUME NEW next, Become(w, next), LockCounted(u)', SessionsAgree(u)',
             next.user = u => next.op \notin {"login", "open_session", "rotate", "lock"}
      PROVE  Peace(u)'
  BY <1>1, <1>6, Actor DEF Become, Agrees
<1>7. ASSUME NEW next, Become(w, next), users'[u] = users[u],
             next.user = u => next.op \notin {"login", "open_session", "rotate", "lock"}
      PROVE  Peace(u)'
  <2>1. SessionsAgree(u)' /\ LockCounted(u)'
    BY <1>3, <1>4, <1>5, <1>7 DEF SessionsAgree, LockCounted, Exists
  <2>. QED
    BY <1>6, <1>7, <2>1
<1>8. CASE CreateUser(w)
  <2>1. Become(w, Idle)
    BY <1>8 DEF CreateUser, Created, Finish
  <2>2. CASE Exists(u)
    <3>1. users' = users
      BY <1>1, <1>8, <2>2 DEF CreateUser, Created
    <3>. QED
      BY <1>2, <1>7, <2>1, <3>1
  <2>3. CASE ~Exists(u)
    <3>1. LiveOf(u) = {}
      BY <2>3 DEF Sound, Rows, LiveOf, SessionsOf
    <3>0. PICK must \in BOOLEAN :
             users' = [users EXCEPT ![r.user] =
                         [status |-> "active", failed |-> 0, locked |-> FALSE,
                          password |-> r.password, mustChange |-> must]]
      BY <1>1, <1>8, <2>3 DEF CreateUser, Created
    <3> DEFINE row == [status |-> "active", failed |-> 0, locked |-> FALSE,
                       password |-> r.password, mustChange |-> must]
    <3>2. users'[u] = row
      BY <1>1, <1>8, <2>3, <3>0 DEF Sound, Rows
    <3>3. ~row.locked
      OBVIOUS
    <3> HIDE DEF row
    <3>4. SessionsAgree(u)' /\ LockCounted(u)'
      BY <1>5, <3>1, <3>2, <3>3 DEF SessionsAgree, LockCounted
    <3>. QED
      BY <1>2, <1>6, <2>1, <3>4
  <2>. QED
    BY <2>2, <2>3
<1>9. CASE CheckUserStatus(w)
  <2>1. users'[u] = users[u]
    BY <1>9 DEF CheckUserStatus, tables
  <2> DEFINE next == [op |-> "set_status", user |-> u, status |-> r.status,
                      saw |-> GlobalSuperAdmins]
  <2>2. Become(w, Idle) \/ Become(w, next)
    BY <1>1, <1>9 DEF CheckUserStatus, Finish
  <2>3. next.op = "set_status"
    OBVIOUS
  <2> HIDE DEF next
  <2>. QED
    BY <1>2, <1>7, <2>1, <2>2, <2>3
<1>10. CASE SetUserStatus(w)
  <2>1. Exists(u) /\ users[u] \in UserRow
    BY <1>1, <1>3, <1>10 DEF SetUserStatus, Fits, OnAccount
  <2>2. users'[u] = [users[u] EXCEPT !.status = r.status, !.locked = FALSE]
    BY <1>1, <1>10 DEF SetUserStatus, Sound, Rows
  <2>3. /\ users'[u].status = r.status /\ ~users'[u].locked
        /\ users'[u].password = users[u].password
    BY <2>1, <2>2 DEF UserRow
  <2>4. LockCounted(u)'
    BY <2>3 DEF LockCounted
  <2>5. CASE r.status = "active"
    <3>1. Become(w, Idle)
      BY <1>1, <1>10, <2>5 DEF SetUserStatus, Finish
    <3>2. SessionsAgree(u)'
      BY <1>3, <1>4, <1>5, <2>1, <2>3, <2>5 DEF SessionsAgree
    <3>. QED
      BY <1>2, <1>6, <2>4, <3>1, <3>2
  <2>6. CASE r.status # "active"
    <3> DEFINE next == [op |-> "revoke_sessions", user |-> u, why |-> "user_restricted"]
    <3>1. Become(w, next)
      BY <1>1, <1>10, <2>6 DEF SetUserStatus
    <3>2. next.op = "revoke_sessions" /\ next.user = u
      OBVIOUS
    <3> HIDE DEF next
    <3>3. Agrees(u, next)'
      BY <3>2 DEF Agrees
    <3>. QED
      BY <1>1, <2>4, <3>1, <3>2, <3>3, Actor DEF Become
  <2>. QED
    BY <2>5, <2>6
<1>11. CASE SetTemporaryPassword(w)
  <2>1. Exists(u) /\ users[u] \in UserRow /\ LockCounted(u)
    BY <1>1, <1>3, <1>11 DEF SetTemporaryPassword, Fits, OnAccount
  <2>2. users'[u] = [users[u] EXCEPT !.password = r.password, !.mustChange = TRUE]
    BY <1>1, <1>11 DEF SetTemporaryPassword, Sound, Rows
  <2>3. users'[u].failed = users[u].failed /\ users'[u].locked = users[u].locked
    BY <2>1, <2>2 DEF UserRow
  <2> DEFINE next == [op |-> "revoke_sessions", user |-> u, why |-> "temporary_password_set"]
  <2>4. Become(w, next)
    BY <1>1, <1>11 DEF SetTemporaryPassword
  <2>5. next.op = "revoke_sessions" /\ next.user = u
    OBVIOUS
  <2> HIDE DEF next
  <2>6. LockCounted(u)' /\ Agrees(u, next)'
    BY <2>1, <2>3, <2>5 DEF LockCounted, Agrees
  <2>. QED
    BY <1>1, <2>4, <2>5, <2>6, Actor DEF Become
<1>12. CASE CreateRole(w) \/ UpdateRoleStatus(w) \/ SyncPermissionsInserts(w)
            \/ InsertAssignment(w) \/ RevokeAssignment(w)
  <2>1. Become(w, Idle) /\ users'[u] = users[u]
    BY <1>12 DEF CreateRole, UpdateRoleStatus, SyncPermissionsInserts, InsertAssignment,
                 RevokeAssignment, Finish
  <2>. QED
    BY <1>2, <1>7, <2>1
<1>13. CASE ValidateAssignable(w)
  <2>1. r \in [op : {"validate", "assign"}, user : Users, role : Roles,
               station : Stations \union {None}, by : Users]
    BY <1>1, <1>13, Held DEF ValidateAssignable
  <2> DEFINE next == [r EXCEPT !.op = "assign"]
  <2>2. next.op = "assign"
    BY <2>1
  <2>3. Become(w, Idle) \/ Become(w, next)
    BY <1>1, <1>13 DEF ValidateAssignable, Finish
  <2>4. users'[u] = users[u]
    BY <1>13 DEF ValidateAssignable, tables
  <2> HIDE DEF next
  <2>. QED
    BY <1>2, <1>7, <2>2, <2>3, <2>4
<1>14. CASE CheckRevocation(w)
  <2> DEFINE next == [op |-> "revoke_assignment", user |-> u, assignment |-> r.assignment,
                      saw |-> GlobalSuperAdmins]
  <2>1. next.op = "revoke_assignment"
    OBVIOUS
  <2>2. Become(w, Idle) \/ Become(w, next)
    BY <1>1, <1>14 DEF CheckRevocation, Finish
  <2>3. users'[u] = users[u]
    BY <1>14 DEF CheckRevocation, tables
  <2> HIDE DEF next
  <2>. QED
    BY <1>2, <1>7, <2>1, <2>2, <2>3
<1>. QED
  BY <1>8, <1>9, <1>10, <1>11, <1>12, <1>13, <1>14 DEF AdministrationSteps

-------------------------------------------------------------------------------
(* Every step *)

LEMMA DeathLeavesCalm ==
    ASSUME Sound, Calm, NEW w \in Workers, RequestDies(w) PROVE Calm'
<1>1. UNCHANGED <<users, sessions>>
  BY DEF RequestDies, tables
<1>2. ASSUME NEW u \in Users, u \notin disturbed' PROVE Peace(u)'
  <2>1. u \notin disturbed /\ u # request[w].user
    BY <1>2, AccountConstants DEF RequestDies
  <2>2. \A v \in Workers :
            request[v].user = u \/ request'[v].user = u => request'[v] = request[v]
    BY <2>1, AccountConstants DEF RequestDies, Sound, RequestsFit, Idle
  <2>3. Peace(u)
    BY <2>1 DEF Calm
  <2>. QED
    BY <1>1, <2>2, <2>3, Bystander DEF Exists
<1>. QED
  BY <1>2 DEF Calm

LEMMA ClockLeavesCalm ==
    ASSUME Sound, [Ledger!Next]_sessions, Calm, Clock PROVE Calm'
<1>1. UNCHANGED <<request, disturbed>> /\ DOMAIN sessions' = DOMAIN sessions
  BY DEF Clock, LockEnds, SessionExpires, AssignmentExpires
<1>2. ASSUME NEW u \in Users, Exists(u)'
      PROVE  /\ Exists(u)
             /\ users'[u].status = users[u].status
             /\ users'[u].password = users[u].password
             /\ users'[u].failed = users[u].failed
             /\ users'[u].locked => users[u].locked
  <2>1. CASE \E v \in Users : LockEnds(v)
    <3>1. PICK v \in Users : LockEnds(v)
      BY <2>1
    <3>2. CASE v = u
      <4>1. users'[u] = [users[u] EXCEPT !.locked = FALSE] /\ Exists(u)
        BY <3>1, <3>2 DEF LockEnds, Sound, Rows
      <4>2. users[u] \in UserRow
        BY <4>1 DEF Sound, Rows, Exists
      <4>. QED
        BY <4>1, <4>2 DEF UserRow
    <3>3. CASE v # u
      <4>1. users'[u] = users[u]
        BY <3>1, <3>3 DEF LockEnds, Sound, Rows
      <4>. QED
        BY <1>2, <4>1 DEF Exists
    <3>. QED
      BY <3>2, <3>3
  <2>2. CASE UNCHANGED users
    BY <1>2, <2>2 DEF Exists
  <2>. QED
    BY <2>1, <2>2 DEF Clock, SessionExpires, AssignmentExpires
<1>3. ASSUME NEW u \in Users, u \notin disturbed' PROVE Peace(u)'
  <2>1. Peace(u)
    BY <1>1, <1>3 DEF Calm
  <2>2. \A s \in DOMAIN sessions' \ DOMAIN sessions : sessions'[s].user # u
    BY <1>1
  <2>3. \A v \in Workers :
            request[v].user = u \/ request'[v].user = u => request'[v] = request[v]
    BY <1>1
  <2>. QED
    BY <1>2, <2>1, <2>2, <2>3, Bystander
<1>. QED
  BY <1>3 DEF Calm

LEMMA StepsLeaveCalm ==
    ASSUME Sound, [Ledger!Next]_sessions, Calm, NEW w \in Workers,
           AuthSteps(w) \/ RevokeUserSessions(w) \/ AdministrationSteps(w)
    PROVE  Calm'
<1>1. Frame(w)
  BY AuthFrames, AdministrationFrames
<1>2. \A u \in Users : u = request[w].user /\ Exists(u)' /\ u \notin disturbed
                       /\ Peace(u) => Peace(u)'
  BY AuthActs, AdministrationActs
<1>3. \A u \in Users : u \notin disturbed => Peace(u)'
  BY <1>1, <1>2, OthersStayCalm
<1>4. UNCHANGED disturbed
  BY <1>1 DEF Frame
<1>. QED
  BY <1>3, <1>4 DEF Calm

LEMMA CalmAtFirst ==
    ASSUME Init PROVE Calm
<1>1. PICK extra \in Extras : Seeded(Root, RootPassword, extra)
  BY DEF Init
<1>2. /\ sessions = extra.sessions
      /\ users = [u \in Users |->
            IF u = Root
            THEN [status |-> "active", failed |-> 0, locked |-> FALSE,
                  password |-> RootPassword, mustChange |-> FALSE]
            ELSE extra.users[u]]
  BY <1>1 DEF Seeded
<1>3. ASSUME NEW u \in Users PROVE Peace(u)
  <2>1. \A w \in Workers : request[w].user # u
    BY AccountConstants DEF Init, Idle
  <2>2. OneRequest(u)
    BY <2>1 DEF OneRequest
  <2>3. ASSUME Exists(u) PROVE ~users[u].locked
    <3>1. CASE u = Root
      BY <1>2, <3>1
    <3>2. CASE u # Root
      BY <1>2, <2>3, <3>2, InitialRows DEF Exists
    <3>. QED
      BY <3>1, <3>2
  <2>4. SessionsAgree(u)
    <3>1. CASE u = Root
      BY <1>2, <3>1, InitialRows DEF SessionsAgree, LiveOf, SessionsOf
    <3>2. CASE u # Root
      BY <1>2, <3>2, InitialRows DEF SessionsAgree, LiveOf, SessionsOf
    <3>. QED
      BY <3>1, <3>2
  <2>. QED
    BY <2>1, <2>2, <2>3, <2>4 DEF Peace, LockCounted
<1>. QED
  BY <1>3 DEF Calm

LEMMA CalmPreserved ==
    ASSUME Sound, Calm, [Next]_vars PROVE Sound' /\ Calm'
<1>1. Sound' /\ [Ledger!Next]_sessions
  BY Preserved
<1>2. CASE UNCHANGED vars
  <2>1. UNCHANGED <<users, sessions, request, disturbed>>
    BY <1>2 DEF vars, tables
  <2>. QED
    BY <1>1, <2>1 DEF Calm, Peace, OneRequest, Agrees, SessionsAgree, LockCounted, LiveOf,
                      SessionsOf, Exists, Ledger!IsLive
<1>3. CASE Next
  <2>1. CASE Clock
    BY <1>1, <2>1, ClockLeavesCalm
  <2>2. ASSUME NEW w \in Workers,
               \/ AuthStarts(w) \/ UserStarts(w) \/ RoleStarts(w)
               \/ AuthSteps(w) \/ AdministrationSteps(w)
               \/ RevokeUserSessions(w) \/ RequestDies(w)
        PROVE  Calm'
    BY <1>1, <2>2, Begins, StepsLeaveCalm, DeathLeavesCalm
  <2>. QED
    BY <1>1, <1>3, <2>1, <2>2 DEF Next
<1>. QED
  BY <1>2, <1>3

LEMMA AtPeace ==
    ASSUME Calm, NEW u \in Users, Quiet(u)
    PROVE  SessionsAgree(u) /\ LockCounted(u)
BY DEF Calm, Peace, Quiet

-------------------------------------------------------------------------------
(* Theorems *)

\* However requests interleave, an account that is suspended or disabled has no
\* live session left once the request that restricted it is over, if no other
\* request about it was in flight meanwhile and none died half-way.
THEOREM RestrictionsEndSessions == Spec => []RestrictedAccountsHaveNoSession
<1> DEFINE Both == Sound /\ Calm
<1>1. Init => Both
  BY Initially, CalmAtFirst
<1>2. Both /\ [Next]_vars => Both'
  BY CalmPreserved
<1>3. Both => RestrictedAccountsHaveNoSession
  BY AtPeace DEF RestrictedAccountsHaveNoSession, SessionsAgree, LiveOf
<1>. QED
  BY <1>1, <1>2, <1>3, PTL DEF Spec

\* Under the same proviso every live session of an account was opened with the
\* password the account has now: replacing it ended the others.
THEOREM ReplacedPasswordsEndSessions == Spec => []SessionsKnowThePassword
<1> DEFINE Both == Sound /\ Calm
<1>1. Init => Both
  BY Initially, CalmAtFirst
<1>2. Both /\ [Next]_vars => Both'
  BY CalmPreserved
<1>3. Both => SessionsKnowThePassword
  BY AtPeace DEF SessionsKnowThePassword, SessionsAgree
<1>. QED
  BY <1>1, <1>2, <1>3, PTL DEF Spec

\* Under the same proviso an account is locked only while its count of failed
\* logins is at the limit.
THEOREM LocksAreCounted == Spec => []LockHasItsCount
<1> DEFINE Both == Sound /\ Calm
<1>1. Init => Both
  BY Initially, CalmAtFirst
<1>2. Both /\ [Next]_vars => Both'
  BY CalmPreserved
<1>3. Both => LockHasItsCount
  BY AtPeace DEF LockHasItsCount, LockCounted
<1>. QED
  BY <1>1, <1>2, <1>3, PTL DEF Spec
================================================================================

----------------------------- MODULE AccountsProofs ------------------------------
(***************************************************************************)
(* Proofs about Accounts, for any users, roles, stations, permissions and   *)
(* requests in flight: types, the refinement of SessionLedger, and that a   *)
(* token family forks only where one of its rows was rotated twice.         *)
(***************************************************************************)
EXTENDS Accounts, FiniteSetTheorems, TLAPS

Proved == INSTANCE SessionLedgerProofs

-------------------------------------------------------------------------------
(* The inductive invariant *)

Rows ==
    /\ users \in [Users -> UserRow \union {None}]
    /\ roles \in [Roles -> RoleRow \union {None}]
    /\ assignments \in Seq(AssignmentRow)
    /\ sessions \in Seq(Ledger!Row)
    /\ \A s \in DOMAIN sessions : Exists(sessions[s].user)

\* Requests that write to an account or a role have found it.
OnAccount == {"login", "login_failed", "open_session", "lock", "set_password",
              "check_status", "set_status", "set_temporary"}
OnRole    == {"role_status", "sync"}

Fits(r) ==
    /\ r \in Requests
    /\ r.op \in OnAccount => Exists(r.user)
    /\ r.op \in OnRole => roles[r.role] # None
    /\ r.op = "rotate" => sessions[r.session].user = r.user

RequestsFit ==
    /\ request = [w \in Workers |-> request[w]]
    /\ \A w \in Workers : Fits(request[w])

Counters == disturbed \subseteq Users /\ events \in 0..MaxEvents

Sound == Rows /\ RequestsFit /\ Counters

\* Nothing that a request refers to goes away.
Grow ==
    /\ \A s \in DOMAIN sessions :
          s \in DOMAIN sessions' /\ sessions'[s].user = sessions[s].user
    /\ DOMAIN assignments \subseteq DOMAIN assignments'
    /\ \A u \in Users : Exists(u) => Exists(u)'
    /\ \A r \in Roles : roles[r] # None => roles'[r] # None

LEMMA RowsHold ==
    ASSUME Rows
    PROVE  /\ DOMAIN sessions = 1..Len(sessions) /\ Len(sessions) \in Nat
           /\ \A s \in DOMAIN sessions :
                 sessions[s] \in Ledger!Row /\ sessions[s].user \in Users
           /\ DOMAIN assignments = 1..Len(assignments) /\ Len(assignments) \in Nat
           /\ \A a \in DOMAIN assignments :
                 assignments[a] \in AssignmentRow /\ assignments[a].user \in Users
<1>1. /\ sessions \in Seq(Ledger!Row) /\ assignments \in Seq(AssignmentRow)
  BY DEF Rows
<1>2. /\ DOMAIN sessions = 1..Len(sessions) /\ Len(sessions) \in Nat
      /\ \A s \in DOMAIN sessions : sessions[s] \in Ledger!Row
  BY <1>1
<1>3. /\ DOMAIN assignments = 1..Len(assignments) /\ Len(assignments) \in Nat
      /\ \A a \in DOMAIN assignments : assignments[a] \in AssignmentRow
  BY <1>1
<1>4. \A r \in Ledger!Row : r.user \in Users
  BY DEF Ledger!Row
<1>5. \A r \in AssignmentRow : r.user \in Users
  BY DEF AssignmentRow
<1>. QED
  BY <1>2, <1>3, <1>4, <1>5

-------------------------------------------------------------------------------
(* Requests *)

LEMMA IdleFits == Fits(Idle)
BY DEF Fits, Requests, Idle, OnAccount, OnRole

\* What a request holds, by what it is about to do.
LEMMA Held ==
    ASSUME NEW r \in Requests
    PROVE  /\ r.user \in Users \union {None}
           /\ r.op \in {"login", "login_failed", "open_session", "set_password",
                        "create_user", "set_temporary"}
              => /\ r \in [op : {"login", "login_failed", "open_session", "set_password",
                                 "create_user", "set_temporary"},
                           user : Users, password : Passwords]
           /\ r.op = "lock" => r.user \in Users
           /\ r.op \in {"rotate", "reuse", "logout", "revoke_own"}
              => r.user \in Users /\ r.session \in DOMAIN sessions
           /\ r.op = "revoke_sessions" => r.user \in Users /\ r.why \in Reasons
           /\ r.op = "check_status"
              => r.user \in Users /\ r.status \in Statuses /\ r.by \in Users
           /\ r.op = "set_status" => r.user \in Users /\ r.status \in Statuses
           /\ r.op = "create_role" => r.role \in Roles
           /\ r.op = "role_status" => r.role \in Roles /\ r.status \in {"active", "inactive"}
           /\ r.op = "sync" => /\ r.role \in Roles /\ r.permissions \subseteq Permissions
           /\ r.op \in {"validate", "assign"}
              => r \in [op : {"validate", "assign"}, user : Users, role : Roles,
                        station : Stations \union {None}, by : Users]
           /\ r.op = "check_revocation"
              => r.user \in Users /\ r.assignment \in DOMAIN assignments
           /\ r.op = "revoke_assignment"
              => r.user \in Users /\ r.assignment \in DOMAIN assignments
BY DEF Requests, Idle

LEMMA StillFits ==
    ASSUME NEW r, Fits(r), Grow PROVE Fits(r)'
<1>1. Requests \subseteq Requests'
  BY DEF Requests, Grow
<1>2. r.op \in OnAccount => r.user \in Users
  BY Held DEF Fits, OnAccount
<1>3. r.op \in OnRole => r.role \in Roles
  BY Held DEF Fits, OnRole
<1>4. r.op = "rotate" => r.session \in DOMAIN sessions
  BY Held DEF Fits
<1>. QED
  BY <1>1, <1>2, <1>3, <1>4 DEF Fits, Grow

\* A step of worker w leaves the others' requests as they are.
LEMMA OneMoves ==
    ASSUME RequestsFit, Grow, NEW w \in Workers, NEW r, Fits(r)',
           request' = [request EXCEPT ![w] = r]
    PROVE  RequestsFit'
<1>2. \A v \in Workers : v # w => request'[v] = request[v]
  BY DEF RequestsFit
<1>3. request'[w] = r
  BY DEF RequestsFit
<1>4. request' = [v \in Workers |-> request'[v]]
  BY DEF RequestsFit
<1>5. ASSUME NEW v \in Workers PROVE Fits(request[v])'
  <2>1. CASE v = w
    BY <2>1, <1>3 DEF Fits
  <2>2. CASE v # w
    <3>1. PICK q : q = request[v]
      OBVIOUS
    <3>2. Fits(q)
      BY <3>1 DEF RequestsFit
    <3>3. Fits(q)'
      BY <3>2, StillFits
    <3>. QED
      BY <3>1, <3>3, <2>2, <1>2 DEF Fits
  <2>. QED
    BY <2>1, <2>2
<1>. QED
  BY <1>4, <1>5 DEF RequestsFit

LEMMA NoneMoves ==
    ASSUME RequestsFit, Grow, request' = request PROVE RequestsFit'
<1>1. ASSUME NEW v \in Workers PROVE Fits(request[v])'
  <2>1. PICK q : q = request[v]
    OBVIOUS
  <2>2. Fits(q)
    BY <2>1 DEF RequestsFit
  <2>3. Fits(q)'
    BY <2>2, StillFits
  <2>. QED
    BY <2>1, <2>3 DEF Fits
<1>. QED
  BY <1>1 DEF RequestsFit

LEMMA Becoming ==
    ASSUME RequestsFit, Counters, Grow, Rows', NEW w \in Workers, NEW r, Fits(r)',
           Become(w, r)
    PROVE  Sound'
<1>1. RequestsFit'
  BY OneMoves DEF Become
<1>2. Counters'
  BY DEF Counters, Become
<1>. QED
  BY <1>1, <1>2 DEF Sound

LEMMA Finishing ==
    ASSUME RequestsFit, Counters, Grow, Rows', NEW w \in Workers, Finish(w)
    PROVE  Sound'
<1>1. Fits(Idle)'
  BY IdleFits, StillFits
<1>. QED
  BY <1>1, Becoming DEF Finish

LEMMA Starting ==
    ASSUME Sound, NEW w \in Workers, NEW r, Fits(r), Start(w, r)
    PROVE  Sound' /\ UNCHANGED sessions
<1>1. UNCHANGED <<users, roles, assignments, sessions>>
  BY DEF Start, tables
<1>2. Rows' /\ Grow
  BY <1>1 DEF Sound, Rows, Grow, Exists
<1>3. RequestsFit'
  BY <1>2, StillFits, OneMoves DEF Start, Sound
<1>4. r.user \in Users \union {None}
  BY Held DEF Fits
<1>5. Counters'
  BY <1>4, AccountConstants DEF Counters, Start, Free, Occurs, Sound
<1>. QED
  BY <1>1, <1>2, <1>3, <1>5 DEF Sound

-------------------------------------------------------------------------------
(* Requests that begin *)

\* What a request has just read.
JustRead(r) ==
    /\ Fits(r)
    /\ r.op \notin {"idle", "open_session", "lock", "set_status", "revoke_assignment"}
    /\ r.op = "login"
       => users[r.user].status = "active" /\ users[r.user].password = r.password
    /\ r.op = "rotate"
       => users[r.user].status = "active" /\ sessions[r.session].revoked = Live

LEMMA AuthBegins ==
    ASSUME Sound, NEW w \in Workers, AuthStarts(w)
    PROVE  \E r : Start(w, r) /\ JustRead(r)
<1>1. \A s \in DOMAIN sessions : sessions[s].user \in Users
  BY RowsHold DEF Sound
<1>2. CASE \E u \in Users, p \in Passwords : LoginReads(w, u, p)
  <2>1. PICK u \in Users, p \in Passwords : LoginReads(w, u, p)
    BY <1>2
  <2>2. PICK op \in {"login", "login_failed"} :
            /\ Start(w, [op |-> op, user |-> u, password |-> p])
            /\ op = "login" => users[u].status = "active" /\ users[u].password = p
    BY <2>1 DEF LoginReads
  <2>3. JustRead([op |-> op, user |-> u, password |-> p])
    BY <2>1, <2>2 DEF JustRead, Fits, Requests, LoginReads, OnRole
  <2>. QED
    BY <2>2, <2>3
<1>3. ASSUME NEW s \in DOMAIN sessions, RefreshReads(w, s)
      PROVE  \E r : Start(w, r) /\ JustRead(r)
  <2>1. PICK op \in {"rotate", "reuse"} :
            /\ Start(w, [op |-> op, user |-> sessions[s].user, session |-> s])
            /\ op = "rotate" => sessions[s].revoked = Live
            /\ users[sessions[s].user].status = "active"
    BY <1>3 DEF RefreshReads, Ledger!IsLive
  <2>2. JustRead([op |-> op, user |-> sessions[s].user, session |-> s])
    BY <1>1, <2>1 DEF JustRead, Fits, Requests, OnAccount, OnRole
  <2>. QED
    BY <2>1, <2>2
<1>4. ASSUME NEW s \in DOMAIN sessions, LogoutStarts(w, s)
      PROVE  \E r : Start(w, r) /\ JustRead(r)
  <2>1. JustRead([op |-> "logout", user |-> sessions[s].user, session |-> s])
    BY <1>1 DEF JustRead, Fits, Requests, OnAccount, OnRole
  <2>. QED
    BY <1>4, <2>1 DEF LogoutStarts
<1>5. ASSUME NEW s \in DOMAIN sessions, LogoutAll(w, s)
      PROVE  \E r : Start(w, r) /\ JustRead(r)
  <2>1. JustRead([op |-> "revoke_sessions", user |-> sessions[s].user, why |-> "logout_all"])
    BY <1>1 DEF JustRead, Fits, Requests, OnAccount, OnRole, Reasons
  <2>. QED
    BY <1>5, <2>1 DEF LogoutAll
<1>6. ASSUME NEW s \in DOMAIN sessions, NEW t \in DOMAIN sessions,
             RevokeOwnSessionStarts(w, s, t)
      PROVE  \E r : Start(w, r) /\ JustRead(r)
  <2>1. JustRead([op |-> "revoke_own", user |-> sessions[s].user, session |-> t])
    BY <1>1 DEF JustRead, Fits, Requests, OnAccount, OnRole
  <2>. QED
    BY <1>6, <2>1 DEF RevokeOwnSessionStarts
<1>7. ASSUME NEW s \in DOMAIN sessions, NEW p \in Passwords, NEW q \in Passwords,
             ChangePasswordReads(w, s, p, q)
      PROVE  \E r : Start(w, r) /\ JustRead(r)
  <2>1. JustRead([op |-> "set_password", user |-> sessions[s].user, password |-> q])
    BY <1>1 DEF JustRead, Fits, Requests, OnRole, Sound, Rows
  <2>. QED
    BY <1>7, <2>1 DEF ChangePasswordReads
<1>. QED
  BY <1>2, <1>3, <1>4, <1>5, <1>6, <1>7 DEF AuthStarts

LEMMA AdministrationBegins ==
    ASSUME Sound, NEW w \in Workers, UserStarts(w) \/ RoleStarts(w)
    PROVE  \E r : Start(w, r) /\ JustRead(r)
<1>1. \A s \in DOMAIN sessions : sessions[s].user \in Users
  BY RowsHold DEF Sound
<1>2. \A a \in DOMAIN assignments : assignments[a].user \in Users
  BY RowsHold DEF Sound
<1>3. \A s \in Callers(w) : s \in DOMAIN sessions
  BY DEF Callers
<1>4. ASSUME NEW s \in Callers(w), NEW u \in Users, NEW p \in Passwords,
             CreateUserRequested(w, s, u, p) \/ TemporaryPasswordRequested(w, s, u, p)
      PROVE  \E r : Start(w, r) /\ JustRead(r)
  <2>1. CASE CreateUserRequested(w, s, u, p)
    <3>1. JustRead([op |-> "create_user", user |-> u, password |-> p])
      BY DEF JustRead, Fits, Requests, OnAccount, OnRole
    <3>. QED
      BY <2>1, <3>1 DEF CreateUserRequested, Admit
  <2>2. CASE TemporaryPasswordRequested(w, s, u, p)
    <3>1. JustRead([op |-> "set_temporary", user |-> u, password |-> p])
      BY <2>2 DEF JustRead, Fits, Requests, OnRole, TemporaryPasswordRequested
    <3>. QED
      BY <2>2, <3>1 DEF TemporaryPasswordRequested, Admit
  <2>. QED
    BY <1>4, <2>1, <2>2
<1>5. ASSUME NEW s \in Callers(w), NEW u \in Users, NEW status \in Statuses,
             UserStatusRequested(w, s, u, status)
      PROVE  \E r : Start(w, r) /\ JustRead(r)
  <2>1. JustRead([op |-> "check_status", user |-> u, status |-> status,
              by |-> sessions[s].user])
    BY <1>1, <1>3, <1>5 DEF JustRead, Fits, Requests, OnRole, UserStatusRequested
  <2>. QED
    BY <1>5, <2>1 DEF UserStatusRequested, Admit
<1>6. ASSUME NEW s \in Callers(w), NEW u \in Users, NEW role \in Roles,
             NEW station \in Stations \union {None},
             AssignmentRequested(w, s, u, role, station)
      PROVE  \E r : Start(w, r) /\ JustRead(r)
  <2>1. JustRead([op |-> "validate", user |-> u, role |-> role, station |-> station,
              by |-> sessions[s].user])
    BY <1>1, <1>3 DEF JustRead, Fits, Requests, OnAccount, OnRole
  <2>. QED
    BY <1>6, <2>1 DEF AssignmentRequested, Admit
<1>7. ASSUME NEW s \in Callers(w), NEW role \in Roles, CreateRoleRequested(w, s, role)
      PROVE  \E r : Start(w, r) /\ JustRead(r)
  <2>1. JustRead([op |-> "create_role", user |-> None, role |-> role])
    BY DEF JustRead, Fits, Requests, OnAccount, OnRole
  <2>. QED
    BY <1>7, <2>1 DEF CreateRoleRequested, RoleRequested, Admit
<1>8. ASSUME NEW s \in Callers(w), NEW role \in Roles,
             NEW status \in {"active", "inactive"}, RoleStatusRequested(w, s, role, status)
      PROVE  \E r : Start(w, r) /\ JustRead(r)
  <2>1. JustRead([op |-> "role_status", user |-> None, role |-> role, status |-> status])
    BY <1>8 DEF JustRead, Fits, Requests, OnAccount, RoleStatusRequested
  <2>. QED
    BY <1>8, <2>1 DEF RoleStatusRequested, RoleRequested, Admit
<1>9. ASSUME NEW s \in Callers(w), NEW role \in Roles, NEW set \in PermissionSets,
             SyncPermissionsDeletes(w, s, role, set)
      PROVE  \E r : Start(w, r) /\ JustRead(r)
  <2>1. roles[role] # None /\ roles[role].synced \in Nat
    BY <1>9 DEF SyncPermissionsDeletes, Sound, Rows, RoleRow
  <2>2. set \in SUBSET Permissions
    BY AccountConstants
  <2>3. JustRead([op |-> "sync", user |-> None, role |-> role, permissions |-> set,
              saw |-> roles[role].synced])
    BY <2>1, <2>2 DEF JustRead, Fits, Requests, OnAccount
  <2>. QED
    BY <1>9, <2>3 DEF SyncPermissionsDeletes, RoleRequested, Admit
<1>10. ASSUME NEW s \in Callers(w), NEW a \in DOMAIN assignments,
              RevocationRequested(w, s, a)
       PROVE  \E r : Start(w, r) /\ JustRead(r)
  <2>1. JustRead([op |-> "check_revocation", user |-> assignments[a].user, assignment |-> a])
    BY <1>2 DEF JustRead, Fits, Requests, OnAccount, OnRole
  <2>. QED
    BY <1>10, <2>1 DEF RevocationRequested, Admit
<1>11. CASE UserStarts(w)
  BY <1>4, <1>5, <1>11 DEF UserStarts
<1>12. CASE RoleStarts(w)
  BY <1>6, <1>7, <1>8, <1>9, <1>10, <1>12 DEF RoleStarts
<1>. QED
  BY <1>11, <1>12

-------------------------------------------------------------------------------
(* What steps do to the rows *)

\* The ledger's own proofs, for auth_sessions.
LEMMA LedgerSteps ==
    ASSUME sessions \in Seq(Ledger!Row), Ledger!Next
    PROVE  /\ sessions' \in Seq(Ledger!Row)
           /\ Len(sessions') \in {Len(sessions), Len(sessions) + 1}
           /\ \A s \in 1..Len(sessions) : sessions'[s].user = sessions[s].user
<1>1. Proved!ReasonsOK
  BY DEF Proved!ReasonsOK, Reasons, Live
<1>2. Proved!TypeOK /\ Proved!Next
  BY DEF Proved!TypeOK, Proved!Row, Ledger!Row, Proved!Next, Ledger!Next,
         Proved!Open, Proved!Replace, Proved!Revoke, Proved!Expire, Proved!IsLive,
         Ledger!Open, Ledger!Replace, Ledger!Revoke, Ledger!Expire, Ledger!IsLive
<1>3. /\ Proved!TypeOK' /\ Proved!Kept(Len(sessions))
      /\ Len(sessions') \in {Len(sessions), Len(sessions) + 1}
  BY <1>1, <1>2, Proved!Steps
<1>. QED
  BY <1>3 DEF Proved!TypeOK, Proved!Row, Ledger!Row, Proved!Kept

LEMMA SessionsMove ==
    ASSUME Rows, Ledger!Next, UNCHANGED <<users, roles, assignments>>,
           Len(sessions') = Len(sessions) + 1 => Exists(sessions'[Len(sessions) + 1].user)
    PROVE  Rows' /\ Grow
<1> DEFINE n == Len(sessions)
           m == Len(sessions')
<1>1. /\ sessions' \in Seq(Ledger!Row) /\ m \in {n, n + 1} /\ n \in Nat
      /\ \A s \in 1..n : sessions'[s].user = sessions[s].user
  BY LedgerSteps, RowsHold DEF Rows
<1>2. DOMAIN sessions = 1..n /\ DOMAIN sessions' = 1..m
  BY <1>1, RowsHold
<1>3. m = n + 1 => Exists(sessions'[n + 1].user)
  OBVIOUS
<1> HIDE DEF n, m
<1>4. \A s \in DOMAIN sessions' : Exists(sessions'[s].user)
  <2>1. \A s \in 1..n : Exists(sessions'[s].user)
    BY <1>1, <1>2 DEF Rows
  <2>2. \A s \in 1..m : s \in 1..n \/ (s = n + 1 /\ m = n + 1)
    BY <1>1
  <2>. QED
    BY <1>2, <1>3, <2>1, <2>2
<1>5. \A s \in DOMAIN sessions :
          s \in DOMAIN sessions' /\ sessions'[s].user = sessions[s].user
  BY <1>1, <1>2
<1>. QED
  BY <1>1, <1>4, <1>5 DEF Rows, Grow, Exists

LEMMA Revoking ==
    ASSUME Rows, NEW set, NEW why \in Reasons, RevokeSessions(set, why),
           UNCHANGED <<users, roles, assignments>>
    PROVE  Rows' /\ Grow /\ Ledger!Next
<1> DEFINE revoked == {s \in DOMAIN sessions : s \in set /\ Ledger!IsLive(s)}
<1>1. sessions' = [s \in DOMAIN sessions |->
                     IF s \in revoked THEN [sessions[s] EXCEPT !.revoked = why]
                                      ELSE sessions[s]]
  BY DEF RevokeSessions
<1>2. revoked \in SUBSET {s \in DOMAIN sessions : Ledger!IsLive(s)}
  OBVIOUS
<1>3. Ledger!Revoke
  BY <1>1, <1>2 DEF Ledger!Revoke
<1>4. Ledger!Next
  BY <1>3 DEF Ledger!Next
<1>5. sessions' \in Seq(Ledger!Row) /\ Len(sessions') # Len(sessions) + 1
  BY <1>1, <1>4, LedgerSteps, RowsHold DEF Rows
<1>. QED
  BY <1>4, <1>5, SessionsMove

LEMMA UsersMove ==
    ASSUME Rows, UNCHANGED <<roles, assignments, sessions>>,
           users' \in [Users -> UserRow \union {None}],
           \A u \in Users : Exists(u) => Exists(u)'
    PROVE  Rows' /\ Grow
BY RowsHold DEF Rows, Grow, Exists

\* One user's row is replaced by another.
LEMMA UserMoves ==
    ASSUME Rows, NEW u \in Users, NEW row \in UserRow,
           users' = [users EXCEPT ![u] = row], UNCHANGED <<roles, assignments, sessions>>
    PROVE  Rows' /\ Grow
<1>1. row # None
  BY InitialRows
<1>. QED
  BY <1>1, UsersMove DEF Rows, Exists

LEMMA RoleMoves ==
    ASSUME Rows, NEW r \in Roles, NEW row \in RoleRow,
           roles' = [roles EXCEPT ![r] = row], UNCHANGED <<users, assignments, sessions>>
    PROVE  Rows' /\ Grow
<1>1. row # None
  BY InitialRows
<1>. QED
  BY <1>1 DEF Rows, Grow, Exists

LEMMA AssignmentsMove ==
    ASSUME Rows, assignments' \in Seq(AssignmentRow),
           DOMAIN assignments \subseteq DOMAIN assignments',
           UNCHANGED <<users, roles, sessions>>
    PROVE  Rows' /\ Grow
BY DEF Rows, Grow, Exists

LEMMA NothingMoves ==
    ASSUME Rows, UNCHANGED tables PROVE Rows' /\ Grow
BY DEF Rows, Grow, Exists, tables

-------------------------------------------------------------------------------
(* Requests that go on *)

LEMMA AuthGoesOn ==
    ASSUME Sound, NEW w \in Workers, AuthSteps(w)
    PROVE  Sound' /\ [Ledger!Next]_sessions
<1>0. PICK r : r = request[w]
  OBVIOUS
<1>1. r = request[w] /\ Rows /\ RequestsFit /\ Counters /\ Fits(r) /\ r \in Requests
  BY <1>0 DEF Sound, RequestsFit, Fits
<1>2. \A u \in Users : Exists(u) => users[u] \in UserRow
  BY <1>1 DEF Rows, Exists
<1>3. CASE RegisterFailedLogin(w)
  <2>1. r.op = "login_failed" /\ r.user \in Users /\ Exists(r.user)
    BY <1>1, <1>3, Held DEF RegisterFailedLogin, Fits, OnAccount
  <2> DEFINE row == [users[r.user] EXCEPT !.failed = @ + 1]
  <2>2. row \in UserRow
    BY <1>2, <2>1 DEF UserRow
  <2>3. Rows' /\ Grow
    BY <1>1, <1>3, <2>1, <2>2, UserMoves DEF RegisterFailedLogin
  <2>4. Fits([op |-> "lock", user |-> r.user])'
    <3>1. Fits([op |-> "lock", user |-> r.user])
      BY <2>1 DEF Fits, Requests, OnRole
    <3>. QED
      BY <2>3, <3>1, StillFits
  <2>5. Finish(w) \/ Become(w, [op |-> "lock", user |-> r.user])
    BY <1>1, <1>3 DEF RegisterFailedLogin
  <2>. QED
    BY <1>1, <1>3, <2>3, <2>4, <2>5, Becoming, Finishing DEF RegisterFailedLogin
<1>4. CASE LockAccount(w)
  <2>1. r.op = "lock" /\ r.user \in Users /\ Exists(r.user)
    BY <1>1, <1>4, Held DEF LockAccount, Fits, OnAccount
  <2> DEFINE row == [users[r.user] EXCEPT !.locked = TRUE]
  <2>2. row \in UserRow
    BY <1>2, <2>1 DEF UserRow
  <2>3. Rows' /\ Grow
    BY <1>1, <1>4, <2>1, <2>2, UserMoves DEF LockAccount
  <2>. QED
    BY <1>1, <1>4, <2>3, Finishing DEF LockAccount
<1>5. CASE LoginSucceeds(w)
  <2>1. r.op = "login" /\ r.user \in Users /\ r.password \in Passwords /\ Exists(r.user)
        /\ r = [op |-> "login", user |-> r.user, password |-> r.password]
    BY <1>1, <1>5, Held DEF LoginSucceeds, Fits, OnAccount
  <2> DEFINE row == [users[r.user] EXCEPT !.failed = 0, !.locked = FALSE]
             next == [op |-> "open_session", user |-> r.user, password |-> r.password]
  <2>2. row \in UserRow
    BY <1>2, <2>1 DEF UserRow
  <2>3. users' = [users EXCEPT ![r.user] = row]
    BY <1>1, <1>5, <2>1 DEF LoginSucceeds, Rows
  <2>4. Rows' /\ Grow
    BY <1>1, <1>5, <2>1, <2>2, <2>3, UserMoves DEF LoginSucceeds
  <2>5. Fits(next)
    BY <2>1 DEF Fits, Requests, OnRole
  <2>6. Fits(next)'
    BY <2>4, <2>5, StillFits
  <2>7. [r EXCEPT !.op = "open_session"] = next
    BY <2>1
  <2>8. Become(w, next)
    BY <1>1, <1>5, <2>7 DEF LoginSucceeds
  <2>. QED
    BY <1>1, <1>5, <2>4, <2>6, <2>8, Becoming DEF LoginSucceeds
<1>6. CASE CreateAuthSession(w)
  <2>1. /\ r.op = "open_session" /\ r.user \in Users /\ r.password \in Passwords
        /\ Exists(r.user)
    BY <1>1, <1>6, Held DEF CreateAuthSession, Fits, OnAccount
  <2> DEFINE row == [user |-> r.user, family |-> Len(sessions) + 1, from |-> 0,
                     revoked |-> Live, expired |-> FALSE, opened |-> r.password]
  <2>2. sessions' = Append(sessions, row) /\ UNCHANGED <<users, roles, assignments>>
    BY <1>1, <1>6 DEF CreateAuthSession
  <2>3. Ledger!Next
    BY <2>1, <2>2 DEF Ledger!Next, Ledger!Open
  <2>4. sessions'[Len(sessions) + 1] = row
    BY <1>1, <2>2 DEF Rows
  <2>5. Rows' /\ Grow
    BY <1>1, <2>1, <2>2, <2>3, <2>4, SessionsMove DEF Exists
  <2>. QED
    BY <1>1, <1>6, <2>3, <2>5, Finishing DEF CreateAuthSession
<1>7. CASE RotateSession(w)
  <2>1. r.op = "rotate" /\ r.session \in DOMAIN sessions
    BY <1>1, <1>7, Held DEF RotateSession
  <2> DEFINE s == r.session
             old == [sessions EXCEPT ![s].revoked = "rotated"]
             new == [sessions[s] EXCEPT !.from = s, !.revoked = Live, !.expired = FALSE]
  <2>2. sessions' = Append(old, new) /\ UNCHANGED <<users, roles, assignments>>
    BY <1>1, <1>7 DEF RotateSession
  <2>3. Ledger!Next
    BY <2>1, <2>2 DEF Ledger!Next, Ledger!Replace
  <2>4. new.user = sessions[s].user
    BY <1>1, <2>1, RowsHold DEF Ledger!Row
  <2>5. old \in Seq(Ledger!Row) /\ Len(old) = Len(sessions)
    <3>1. [sessions[s] EXCEPT !.revoked = "rotated"] \in Ledger!Row
      BY <1>1, <2>1, RowsHold DEF Ledger!Row, Reasons
    <3>. QED
      BY <1>1, <2>1, <3>1 DEF Rows
  <2> HIDE DEF old, new
  <2>6. sessions'[Len(sessions) + 1] = new
    BY <2>2, <2>5
  <2>7. Rows' /\ Grow
    BY <1>1, <2>1, <2>2, <2>3, <2>4, <2>6, SessionsMove DEF Exists, Rows
  <2>. QED
    BY <1>1, <1>7, <2>3, <2>7, Finishing DEF RotateSession
<1>8. CASE RevokeFamily(w)
  <2>1. Rows' /\ Grow /\ Ledger!Next
    BY <1>1, <1>8, Revoking DEF RevokeFamily, Reasons
  <2>. QED
    BY <1>1, <1>8, <2>1, Finishing DEF RevokeFamily
<1>9. CASE Logout(w)
  <2>1. Rows' /\ Grow /\ Ledger!Next
    BY <1>1, <1>9, Revoking DEF Logout, Reasons
  <2>. QED
    BY <1>1, <1>9, <2>1, Finishing DEF Logout
<1>10. CASE RevokeOwnSession(w)
  <2>1. Rows' /\ Grow /\ Ledger!Next
    BY <1>1, <1>10, Revoking DEF RevokeOwnSession, Reasons
  <2>. QED
    BY <1>1, <1>10, <2>1, Finishing DEF RevokeOwnSession
<1>11. CASE ChangePassword(w)
  <2>1. r.op = "set_password" /\ r.user \in Users /\ r.password \in Passwords
        /\ Exists(r.user)
    BY <1>1, <1>11, Held DEF ChangePassword, Fits, OnAccount
  <2> DEFINE row == [users[r.user] EXCEPT !.password = r.password, !.mustChange = FALSE]
             next == [op |-> "revoke_sessions", user |-> r.user, why |-> "password_changed"]
  <2>2. row \in UserRow
    BY <1>2, <2>1 DEF UserRow
  <2>3. users' = [users EXCEPT ![r.user] = row]
    BY <1>1, <1>11, <2>1 DEF ChangePassword, Rows
  <2>4. Rows' /\ Grow
    BY <1>1, <1>11, <2>1, <2>2, <2>3, UserMoves DEF ChangePassword
  <2>5. Fits(next)
    BY <2>1 DEF Fits, Requests, OnAccount, OnRole, Reasons
  <2>6. Fits(next)'
    BY <2>4, <2>5, StillFits
  <2>7. Become(w, next)
    BY <1>1, <1>11 DEF ChangePassword
  <2>. QED
    BY <1>1, <1>11, <2>4, <2>6, <2>7, Becoming DEF ChangePassword
<1>. QED
  BY <1>3, <1>4, <1>5, <1>6, <1>7, <1>8, <1>9, <1>10, <1>11 DEF AuthSteps

LEMMA UsersGoOn ==
    ASSUME Sound, NEW w \in Workers,
           CreateUser(w) \/ CheckUserStatus(w) \/ SetUserStatus(w) \/ SetTemporaryPassword(w)
    PROVE  Sound' /\ UNCHANGED sessions
<1>0. PICK r : r = request[w]
  OBVIOUS
<1>1. r = request[w] /\ Rows /\ RequestsFit /\ Counters /\ Fits(r) /\ r \in Requests
  BY <1>0 DEF Sound, RequestsFit, Fits
<1>2. \A u \in Users : Exists(u) => users[u] \in UserRow
  BY <1>1 DEF Rows, Exists
<1>3. CASE CreateUser(w)
  <2>1. r.op = "create_user" /\ r.user \in Users /\ r.password \in Passwords
    BY <1>1, <1>3, Held DEF CreateUser, Created
  <2>0. PICK must \in BOOLEAN :
           users' = IF Exists(r.user) THEN users
                    ELSE [users EXCEPT ![r.user] =
                            [status |-> "active", failed |-> 0, locked |-> FALSE,
                             password |-> r.password, mustChange |-> must]]
    BY <1>1, <1>3 DEF CreateUser, Created
  <2> DEFINE row == [status |-> "active", failed |-> 0, locked |-> FALSE,
                     password |-> r.password, mustChange |-> must]
  <2>2. row \in UserRow
    BY <2>1, AccountConstants DEF UserRow
  <2>3. users' = users \/ users' = [users EXCEPT ![r.user] = row]
    BY <2>0
  <2>4. UNCHANGED <<roles, assignments, sessions>>
    BY <1>3 DEF CreateUser, Created
  <2>5. Rows' /\ Grow
    BY <1>1, <2>1, <2>2, <2>3, <2>4, UserMoves, NothingMoves DEF tables
  <2>. QED
    BY <1>1, <1>3, <2>5, Finishing DEF CreateUser, Created
<1>4. CASE CheckUserStatus(w)
  <2>1. r.op = "check_status" /\ r.user \in Users /\ r.status \in Statuses /\ Exists(r.user)
    BY <1>1, <1>4, Held DEF CheckUserStatus, Fits, OnAccount
  <2>2. PICK saw : saw = GlobalSuperAdmins
    OBVIOUS
  <2>3. saw \in SUBSET DOMAIN assignments
    BY <2>2 DEF GlobalSuperAdmins
  <2> DEFINE next == [op |-> "set_status", user |-> r.user, status |-> r.status,
                      saw |-> saw]
  <2>4. Rows' /\ Grow
    BY <1>1, <1>4, NothingMoves DEF CheckUserStatus
  <2>5. Fits(next)
    BY <2>1, <2>3 DEF Fits, Requests, OnRole
  <2>6. Fits(next)'
    BY <2>4, <2>5, StillFits
  <2>7. Finish(w) \/ Become(w, next)
    BY <1>1, <1>4, <2>2 DEF CheckUserStatus
  <2>8. Sound'
    BY <1>1, <2>4, <2>6, <2>7, Becoming, Finishing
  <2>. QED
    BY <1>4, <2>8 DEF CheckUserStatus, tables
<1>5. CASE SetUserStatus(w)
  <2>1. r.op = "set_status" /\ r.user \in Users /\ r.status \in Statuses /\ Exists(r.user)
    BY <1>1, <1>5, Held DEF SetUserStatus, Fits, OnAccount
  <2> DEFINE row == [users[r.user] EXCEPT !.status = r.status, !.locked = FALSE]
             next == [op |-> "revoke_sessions", user |-> r.user, why |-> "user_restricted"]
  <2>2. row \in UserRow
    BY <1>2, <2>1 DEF UserRow
  <2>3. users' = [users EXCEPT ![r.user] = row]
    BY <1>1, <1>5, <2>1 DEF SetUserStatus, Rows
  <2>4. Rows' /\ Grow
    BY <1>1, <1>5, <2>1, <2>2, <2>3, UserMoves DEF SetUserStatus
  <2>5. Fits(next)
    BY <2>1 DEF Fits, Requests, OnAccount, OnRole, Reasons
  <2>6. Fits(next)'
    BY <2>4, <2>5, StillFits
  <2>7. Finish(w) \/ Become(w, next)
    BY <1>1, <1>5 DEF SetUserStatus
  <2>. QED
    BY <1>1, <1>5, <2>4, <2>6, <2>7, Becoming, Finishing DEF SetUserStatus
<1>6. CASE SetTemporaryPassword(w)
  <2>1. r.op = "set_temporary" /\ r.user \in Users /\ r.password \in Passwords
        /\ Exists(r.user)
    BY <1>1, <1>6, Held DEF SetTemporaryPassword, Fits, OnAccount
  <2> DEFINE row == [users[r.user] EXCEPT !.password = r.password, !.mustChange = TRUE]
             next == [op |-> "revoke_sessions", user |-> r.user,
                      why |-> "temporary_password_set"]
  <2>2. row \in UserRow
    BY <1>2, <2>1 DEF UserRow
  <2>3. users' = [users EXCEPT ![r.user] = row]
    BY <1>1, <1>6, <2>1 DEF SetTemporaryPassword, Rows
  <2>4. Rows' /\ Grow
    BY <1>1, <1>6, <2>1, <2>2, <2>3, UserMoves DEF SetTemporaryPassword
  <2>5. Fits(next)
    BY <2>1 DEF Fits, Requests, OnAccount, OnRole, Reasons
  <2>6. Fits(next)'
    BY <2>4, <2>5, StillFits
  <2>7. Become(w, next)
    BY <1>1, <1>6 DEF SetTemporaryPassword
  <2>. QED
    BY <1>1, <1>6, <2>4, <2>6, <2>7, Becoming DEF SetTemporaryPassword
<1>. QED
  BY <1>3, <1>4, <1>5, <1>6

LEMMA RolesGoOn ==
    ASSUME Sound, NEW w \in Workers,
           CreateRole(w) \/ UpdateRoleStatus(w) \/ SyncPermissionsInserts(w)
    PROVE  Sound' /\ UNCHANGED sessions
<1>0. PICK r : r = request[w]
  OBVIOUS
<1>1. r = request[w] /\ Rows /\ RequestsFit /\ Counters /\ Fits(r) /\ r \in Requests
  BY <1>0 DEF Sound, RequestsFit, Fits
<1>2. \A role \in Roles : roles[role] # None => roles[role] \in RoleRow
  BY <1>1 DEF Rows
<1>3. ASSUME NEW row \in RoleRow, r.role \in Roles, Finish(w),
             roles' = roles \/ roles' = [roles EXCEPT ![r.role] = row],
             UNCHANGED <<users, assignments, sessions>>
      PROVE  Sound'
  <2>1. Rows' /\ Grow
    BY <1>1, <1>3, RoleMoves, NothingMoves DEF tables
  <2>. QED
    BY <1>1, <1>3, <2>1, Finishing
<1>4. CASE CreateRole(w)
  <2>1. r.op = "create_role" /\ r.role \in Roles
    BY <1>1, <1>4, Held DEF CreateRole
  <2>2. [system |-> FALSE, status |-> "active", permissions |-> {}, synced |-> 0] \in RoleRow
    BY DEF RoleRow
  <2>. QED
    BY <1>1, <1>3, <1>4, <2>1, <2>2 DEF CreateRole
<1>5. CASE UpdateRoleStatus(w)
  <2>1. /\ r.op = "role_status" /\ r.role \in Roles
        /\ r.status \in {"active", "inactive"} /\ roles[r.role] \in RoleRow
    BY <1>1, <1>2, <1>5, Held DEF UpdateRoleStatus, Fits, OnRole
  <2> DEFINE row == [roles[r.role] EXCEPT !.status = r.status]
  <2>2. row \in RoleRow
    BY <2>1 DEF RoleRow
  <2>3. roles' = roles \/ roles' = [roles EXCEPT ![r.role] = row]
    BY <1>1, <1>5 DEF UpdateRoleStatus
  <2>. QED
    BY <1>3, <1>5, <2>1, <2>2, <2>3 DEF UpdateRoleStatus
<1>6. CASE SyncPermissionsInserts(w)
  <2>1. /\ r.op = "sync" /\ r.role \in Roles
        /\ r.permissions \subseteq Permissions /\ roles[r.role] \in RoleRow
    BY <1>1, <1>2, <1>6, Held DEF SyncPermissionsInserts, Fits, OnRole
  <2> DEFINE left == IF roles[r.role].synced = r.saw THEN {}
                     ELSE roles[r.role].permissions
             row == [roles[r.role] EXCEPT !.permissions = left \union r.permissions,
                                          !.synced = @ + 1]
  <2>2. row \in RoleRow
    <3>1. /\ roles[r.role].synced + 1 \in Nat /\ left \union r.permissions \in SUBSET Permissions
      BY <2>1 DEF RoleRow
    <3>2. \A p \in SUBSET Permissions, n \in Nat :
              [roles[r.role] EXCEPT !.permissions = p, !.synced = n] \in RoleRow
      BY <2>1 DEF RoleRow
    <3> HIDE DEF left
    <3>3. row = [roles[r.role] EXCEPT !.permissions = left \union r.permissions,
                                      !.synced = roles[r.role].synced + 1]
      BY <2>1 DEF RoleRow
    <3>. QED
      BY <3>1, <3>2, <3>3
  <2>3. roles' = roles \/ roles' = [roles EXCEPT ![r.role] = row]
    BY <1>1, <1>6, <2>1 DEF SyncPermissionsInserts, Rows
  <2>. QED
    BY <1>3, <1>6, <2>1, <2>2, <2>3 DEF SyncPermissionsInserts
<1>. QED
  BY <1>4, <1>5, <1>6

LEMMA AssignmentsGoOn ==
    ASSUME Sound, NEW w \in Workers,
           ValidateAssignable(w) \/ InsertAssignment(w) \/ CheckRevocation(w)
              \/ RevokeAssignment(w)
    PROVE  Sound' /\ UNCHANGED sessions
<1>0. PICK r : r = request[w]
  OBVIOUS
<1>1. r = request[w] /\ Rows /\ RequestsFit /\ Counters /\ Fits(r) /\ r \in Requests
  BY <1>0 DEF Sound, RequestsFit, Fits
<1>2. CASE ValidateAssignable(w)
  <2>1. r \in [op : {"validate", "assign"}, user : Users, role : Roles,
               station : Stations \union {None}, by : Users]
    BY <1>1, <1>2, Held DEF ValidateAssignable
  <2> DEFINE next == [r EXCEPT !.op = "assign"]
  <2>2. next \in [op : {"validate", "assign"}, user : Users, role : Roles,
                  station : Stations \union {None}, by : Users] /\ next.op = "assign"
    BY <2>1
  <2>3. Rows' /\ Grow
    BY <1>1, <1>2, NothingMoves DEF ValidateAssignable
  <2>4. Fits(next)
    BY <2>2 DEF Fits, Requests, OnAccount, OnRole
  <2>5. Fits(next)'
    BY <2>3, <2>4, StillFits
  <2>6. Finish(w) \/ Become(w, next)
    BY <1>1, <1>2 DEF ValidateAssignable
  <2>7. Sound'
    BY <1>1, <2>3, <2>5, <2>6, Becoming, Finishing
  <2>. QED
    BY <1>2, <2>7 DEF ValidateAssignable, tables
<1>3. CASE InsertAssignment(w)
  <2>1. /\ r.user \in Users /\ r.role \in Roles /\ r.station \in Stations \union {None}
    BY <1>1, <1>3, Held DEF InsertAssignment
  <2> DEFINE row == [user |-> r.user, role |-> r.role, station |-> r.station,
                     life |-> "dated", revoked |-> FALSE]
  <2>2. row \in AssignmentRow
    BY <2>1 DEF AssignmentRow, Life
  <2>3. assignments' = assignments \/ assignments' = Append(assignments, row)
    BY <1>1, <1>3 DEF InsertAssignment
  <2> HIDE DEF row
  <2>4. /\ assignments' \in Seq(AssignmentRow)
        /\ DOMAIN assignments \subseteq DOMAIN assignments'
    <3>1. CASE assignments' = assignments
      BY <1>1, <3>1 DEF Rows
    <3>2. CASE assignments' = Append(assignments, row)
      <4>1. assignments' \in Seq(AssignmentRow) /\ Len(assignments') = Len(assignments) + 1
        BY <1>1, <2>2, <3>2 DEF Rows
      <4>2. DOMAIN assignments' = 1..Len(assignments')
        BY <4>1
      <4>. QED
        BY <1>1, <4>1, <4>2, RowsHold
    <3>. QED
      BY <2>3, <3>1, <3>2
  <2>5. Rows' /\ Grow
    BY <1>1, <1>3, <2>4, AssignmentsMove DEF InsertAssignment
  <2>. QED
    BY <1>1, <1>3, <2>5, Finishing DEF InsertAssignment
<1>4. CASE CheckRevocation(w)
  <2>1. r.user \in Users /\ r.assignment \in DOMAIN assignments
    BY <1>1, <1>4, Held DEF CheckRevocation
  <2>2. PICK saw : saw = GlobalSuperAdmins
    OBVIOUS
  <2>3. saw \in SUBSET DOMAIN assignments
    BY <2>2 DEF GlobalSuperAdmins
  <2> DEFINE next == [op |-> "revoke_assignment", user |-> r.user,
                      assignment |-> r.assignment, saw |-> saw]
  <2>4. Rows' /\ Grow
    BY <1>1, <1>4, NothingMoves DEF CheckRevocation
  <2>5. Fits(next)
    BY <2>1, <2>3 DEF Fits, Requests, OnAccount, OnRole
  <2>6. Fits(next)'
    BY <2>4, <2>5, StillFits
  <2>7. Finish(w) \/ Become(w, next)
    BY <1>1, <1>4, <2>2 DEF CheckRevocation
  <2>8. Sound'
    BY <1>1, <2>4, <2>6, <2>7, Becoming, Finishing
  <2>. QED
    BY <1>4, <2>8 DEF CheckRevocation, tables
<1>5. CASE RevokeAssignment(w)
  <2>1. r.assignment \in DOMAIN assignments
    BY <1>1, <1>5, Held DEF RevokeAssignment
  <2>2. [assignments[r.assignment] EXCEPT !.revoked = TRUE] \in AssignmentRow
    BY <1>1, <2>1, RowsHold DEF AssignmentRow
  <2>3. /\ assignments' \in Seq(AssignmentRow)
        /\ DOMAIN assignments \subseteq DOMAIN assignments'
    BY <1>1, <1>5, <2>1, <2>2 DEF RevokeAssignment, Rows
  <2>4. Rows' /\ Grow
    BY <1>1, <1>5, <2>3, AssignmentsMove DEF RevokeAssignment
  <2>. QED
    BY <1>1, <1>5, <2>4, Finishing DEF RevokeAssignment
<1>. QED
  BY <1>2, <1>3, <1>4, <1>5

LEMMA AdministrationGoesOn ==
    ASSUME Sound, NEW w \in Workers, AdministrationSteps(w)
    PROVE  Sound' /\ UNCHANGED sessions
BY UsersGoOn, RolesGoOn, AssignmentsGoOn DEF AdministrationSteps

LEMMA EndsOrDies ==
    ASSUME Sound, NEW w \in Workers, RevokeUserSessions(w) \/ RequestDies(w)
    PROVE  Sound' /\ [Ledger!Next]_sessions
<1>0. PICK r : r = request[w]
  OBVIOUS
<1>1. r = request[w] /\ Rows /\ RequestsFit /\ Counters /\ Fits(r) /\ r \in Requests
  BY <1>0 DEF Sound, RequestsFit, Fits
<1>2. CASE RevokeUserSessions(w)
  <2>1. r.why \in Reasons
    BY <1>1, <1>2, Held DEF RevokeUserSessions
  <2>2. Rows' /\ Grow /\ Ledger!Next
    BY <1>1, <1>2, <2>1, Revoking DEF RevokeUserSessions
  <2>. QED
    BY <1>1, <1>2, <2>2, Finishing DEF RevokeUserSessions
<1>3. CASE RequestDies(w)
  <2>1. Rows' /\ Grow
    BY <1>1, <1>3, NothingMoves DEF RequestDies
  <2>2. RequestsFit'
    BY <1>1, <1>3, <2>1, IdleFits, StillFits, OneMoves DEF RequestDies
  <2>3. r.user \in Users \union {None}
    BY <1>1, Held
  <2>4. Counters'
    BY <1>1, <1>3, <2>3 DEF Counters, RequestDies
  <2>. QED
    BY <1>3, <2>1, <2>2, <2>4 DEF Sound, RequestDies, tables
<1>. QED
  BY <1>2, <1>3

LEMMA ClockTicks ==
    ASSUME Sound, Clock PROVE Sound' /\ [Ledger!Next]_sessions
<1>1. /\ Rows /\ RequestsFit /\ Counters
  BY DEF Sound
<1>2. ASSUME Rows', Grow, Occurs, UNCHANGED <<request, disturbed>> PROVE Sound'
  <2>1. RequestsFit'
    BY <1>1, <1>2, NoneMoves
  <2>2. Counters'
    BY <1>1, <1>2, AccountConstants DEF Counters, Occurs
  <2>. QED
    BY <1>2, <2>1, <2>2 DEF Sound
<1>3. CASE \E u \in Users : LockEnds(u)
  <2>1. PICK u \in Users : LockEnds(u)
    BY <1>3
  <2> DEFINE row == [users[u] EXCEPT !.locked = FALSE]
  <2>2. row \in UserRow
    BY <1>1, <2>1 DEF LockEnds, Exists, Rows, UserRow
  <2>3. users' = [users EXCEPT ![u] = row]
    BY <2>1 DEF LockEnds
  <2>4. Rows' /\ Grow
    BY <1>1, <2>1, <2>2, <2>3, UserMoves DEF LockEnds
  <2>. QED
    BY <1>2, <2>1, <2>4 DEF LockEnds
<1>4. CASE \E s \in DOMAIN sessions : SessionExpires(s)
  <2>1. PICK s \in DOMAIN sessions : SessionExpires(s)
    BY <1>4
  <2>2. Ledger!Next
    BY <2>1 DEF SessionExpires, Ledger!Next, Ledger!Expire
  <2>3. Len(sessions') # Len(sessions) + 1
    <3>1. DOMAIN sessions' = DOMAIN sessions
      BY <2>1 DEF SessionExpires
    <3>2. sessions' \in Seq(Ledger!Row)
      BY <1>1, <2>2, LedgerSteps DEF Rows
    <3>3. /\ DOMAIN sessions = 1..Len(sessions) /\ Len(sessions) \in Nat
          /\ DOMAIN sessions' = 1..Len(sessions') /\ Len(sessions') \in Nat
      BY <1>1, <3>2, RowsHold
    <3>4. Len(sessions) + 1 \notin DOMAIN sessions
      BY <3>3
    <3>5. Len(sessions') = Len(sessions) + 1
          => Len(sessions) + 1 \in 1..Len(sessions')
      BY <3>3
    <3>6. 1..Len(sessions') = DOMAIN sessions
      BY <3>1, <3>3
    <3>. QED
      BY <3>4, <3>5, <3>6
  <2>4. Rows' /\ Grow
    BY <1>1, <2>1, <2>2, <2>3, SessionsMove DEF SessionExpires
  <2>. QED
    BY <1>2, <2>1, <2>2, <2>4 DEF SessionExpires
<1>5. CASE \E a \in DOMAIN assignments : AssignmentExpires(a)
  <2>1. PICK a \in DOMAIN assignments : AssignmentExpires(a)
    BY <1>5
  <2>2. [assignments[a] EXCEPT !.life = "expired"] \in AssignmentRow
    BY <1>1, RowsHold DEF AssignmentRow, Life
  <2>3. /\ assignments' \in Seq(AssignmentRow)
        /\ DOMAIN assignments \subseteq DOMAIN assignments'
    BY <1>1, <2>1, <2>2 DEF AssignmentExpires, Rows
  <2>4. Rows' /\ Grow
    BY <1>1, <2>1, <2>3, AssignmentsMove DEF AssignmentExpires
  <2>. QED
    BY <1>2, <2>1, <2>4 DEF AssignmentExpires
<1>. QED
  BY <1>3, <1>4, <1>5 DEF Clock

-------------------------------------------------------------------------------
(* The invariant is inductive *)

LEMMA Initially ==
    ASSUME Init PROVE Sound /\ Ledger!Init
<1>1. PICK extra \in Extras : Seeded(Root, RootPassword, extra)
  BY DEF Init
<1>2. /\ \A u \in Users \ {Root} : extra.users[u] \in UserRow \union {None}
      /\ \A r \in Roles \ {SuperAdmin} : extra.roles[r] \in RoleRow \union {None}
      /\ extra.assignments \in Seq(AssignmentRow)
      /\ extra.sessions \in Seq(Ledger!Row)
      /\ \A s \in DOMAIN extra.sessions :
            /\ extra.sessions[s].family = s /\ extra.sessions[s].from = 0
            /\ extra.sessions[s].revoked = Live
            /\ extra.sessions[s].user # Root => extra.users[extra.sessions[s].user] # None
  BY InitialRows
<1> DEFINE root == [status |-> "active", failed |-> 0, locked |-> FALSE,
                    password |-> RootPassword, mustChange |-> FALSE]
           super == [system |-> TRUE, status |-> "active",
                     permissions |-> Permissions, synced |-> 0]
           first == [user |-> Root, role |-> SuperAdmin, station |-> None,
                     life |-> "open", revoked |-> FALSE]
<1>3. root \in UserRow /\ super \in RoleRow /\ first \in AssignmentRow
  BY InitialRows, AccountConstants DEF UserRow, RoleRow, AssignmentRow, Life
<1>4. users = [u \in Users |-> IF u = Root THEN root ELSE extra.users[u]]
  BY <1>1 DEF Seeded
<1>5. roles = [r \in Roles |-> IF r = SuperAdmin THEN super ELSE extra.roles[r]]
  BY <1>1 DEF Seeded
<1>6. assignments = <<first>> \o extra.assignments /\ sessions = extra.sessions
  BY <1>1 DEF Seeded
<1>7. root # None
  BY <1>3, InitialRows
<1> HIDE DEF root, super, first
<1>8. users \in [Users -> UserRow \union {None}]
  BY <1>2, <1>3, <1>4
<1>9. roles \in [Roles -> RoleRow \union {None}]
  BY <1>2, <1>3, <1>5
<1>10. assignments \in Seq(AssignmentRow)
  BY <1>2, <1>3, <1>6
<1>11. \A s \in DOMAIN sessions : sessions[s] \in Ledger!Row
  BY <1>2, <1>6
<1>12. \A s \in DOMAIN sessions : sessions[s].user \in Users
  BY <1>11 DEF Ledger!Row
<1>13. \A s \in DOMAIN sessions : Exists(sessions[s].user)
  BY <1>2, <1>4, <1>6, <1>7, <1>12 DEF Exists
<1>14. Rows
  BY <1>2, <1>6, <1>8, <1>9, <1>10, <1>13 DEF Rows
<1>15. RequestsFit
  BY IdleFits DEF Init, RequestsFit
<1>16. Counters
  BY AccountConstants DEF Init, Counters
<1>17. Ledger!Init
  BY <1>2, <1>6 DEF Ledger!Init, Ledger!IsLive
<1>. QED
  BY <1>14, <1>15, <1>16, <1>17 DEF Sound

LEMMA Preserved ==
    ASSUME Sound, [Next]_vars PROVE Sound' /\ [Ledger!Next]_sessions
<1>1. CASE UNCHANGED vars
  <2>1. Rows' /\ Grow
    BY <1>1, NothingMoves DEF Sound, vars
  <2>2. RequestsFit'
    BY <1>1, <2>1, NoneMoves DEF Sound, vars
  <2>. QED
    BY <1>1, <2>1, <2>2 DEF Sound, Counters, vars, tables
<1>2. CASE Next
  <2>1. CASE Clock
    BY <2>1, ClockTicks
  <2>2. ASSUME NEW w \in Workers,
               \/ AuthStarts(w) \/ UserStarts(w) \/ RoleStarts(w)
               \/ AuthSteps(w) \/ AdministrationSteps(w)
               \/ RevokeUserSessions(w) \/ RequestDies(w)
        PROVE  Sound' /\ [Ledger!Next]_sessions
    <3>1. CASE AuthStarts(w) \/ UserStarts(w) \/ RoleStarts(w)
      <4>1. PICK r : Start(w, r) /\ Fits(r)
        BY <3>1, AuthBegins, AdministrationBegins DEF JustRead
      <4>. QED
        BY <4>1, Starting
    <3>. QED
      BY <2>2, <3>1, AuthGoesOn, AdministrationGoesOn, EndsOrDies
  <2>. QED
    BY <1>2, <2>1, <2>2 DEF Next
<1>. QED
  BY <1>1, <1>2

\* What the ledger's own proofs say of auth_sessions.
LEMMA LedgerHolds ==
    /\ Ledger!Init => Proved!IInv
    /\ Proved!IInv /\ [Ledger!Next]_sessions => Proved!IInv'
<1>1. Proved!ReasonsOK
  BY DEF Proved!ReasonsOK, Reasons, Live
<1>2. Ledger!Init => Proved!Init
  BY DEF Proved!Init, Proved!Row, Proved!IsLive, Ledger!Init, Ledger!Row, Ledger!IsLive
<1>3. [Ledger!Next]_sessions => [Proved!Next]_sessions
  BY DEF Proved!Next, Ledger!Next,
         Proved!Open, Proved!Replace, Proved!Revoke, Proved!Expire, Proved!IsLive,
         Ledger!Open, Ledger!Replace, Ledger!Revoke, Ledger!Expire, Ledger!IsLive
<1>. QED
  BY <1>1, <1>2, <1>3, Proved!Initially, Proved!Preserved

LEMMA ForksHaveTwins ==
    ASSUME Proved!IInv PROVE ForkNeedsDoubleRotation
<1> SUFFICES ASSUME NEW s \in DOMAIN sessions, NEW t \in DOMAIN sessions, s # t,
                    Ledger!IsLive(s), Ledger!IsLive(t),
                    sessions[s].family = sessions[t].family
             PROVE  \E p \in FamilyOf(s) : Cardinality(Children(p)) > 1
  BY DEF ForkNeedsDoubleRotation
<1>1. Proved!Twins(s)
  BY Proved!LiveRowsHaveTwins DEF Proved!IsLive, Ledger!IsLive
<1>2. PICK p, a, b \in DOMAIN sessions :
          /\ sessions[p].family = sessions[s].family
          /\ a # b /\ sessions[a].from = p /\ sessions[b].from = p
  BY <1>1 DEF Proved!Twins
<1>3. p \in FamilyOf(s) /\ a \in Children(p) /\ b \in Children(p)
  BY <1>2 DEF FamilyOf, Children
<1>4. IsFiniteSet(Children(p))
  <2>1. DOMAIN sessions = 1..Len(sessions) /\ Len(sessions) \in Nat
    BY DEF Proved!IInv, Proved!TypeOK
  <2>2. IsFiniteSet(1..Len(sessions))
    BY <2>1, FS_Interval
  <2>. QED
    BY <2>1, <2>2, FS_Subset DEF Children
<1>5. Cardinality(Children(p)) \in Nat
  BY <1>4, FS_CardinalityType
<1>6. Cardinality(Children(p)) # 0
  BY <1>3, <1>4, FS_EmptySet
<1>7. Cardinality(Children(p)) # 1
  BY <1>2, <1>3, <1>4, FS_Singleton
<1>. QED
  BY <1>3, <1>5, <1>6, <1>7

-------------------------------------------------------------------------------
(* Theorems *)

\* Every row of the account tables and every request in flight keeps its type: a
\* statement of auth, users or access-control that follows a read still finds the
\* account, the role, the session or the assignment the read found.
THEOREM TypeCorrect == Spec => []TypeOK
<1>1. Init => Sound
  BY Initially
<1>2. Sound /\ [Next]_vars => Sound'
  BY Preserved
<1>3. Sound => TypeOK
  <2> SUFFICES ASSUME Sound PROVE TypeOK
    OBVIOUS
  <2>1. request \in [Workers -> Requests]
    BY DEF Sound, RequestsFit, Fits
  <2>2. /\ \A a \in DOMAIN assignments : assignments[a] \in AssignmentRow
        /\ \A s \in DOMAIN sessions : sessions[s] \in Ledger!Row
    BY RowsHold DEF Sound
  <2>. QED
    BY <2>1, <2>2 DEF TypeOK, Sound, Rows, Counters
<1>. QED
  BY <1>1, <1>2, <1>3, PTL DEF Spec

\* Whatever requests interleave or die half-way, auth_sessions is used as the
\* ledger says: a row founds a family, takes the place of one revoked by the same
\* step, is revoked, or expires.
THEOREM SessionLedgerImplemented == Spec => ImplementsSessionLedger
<1>1. Init => Sound /\ Ledger!Init
  BY Initially
<1>2. Sound /\ [Next]_vars => Sound' /\ [Ledger!Next]_sessions
  BY Preserved
<1>. QED
  BY <1>1, <1>2, PTL DEF Spec, ImplementsSessionLedger, Ledger!Spec

\* However many refreshes and logins interleave, a token family holds two live
\* sessions only where rotateSession rotated one of its rows twice.
THEOREM ForksNeedDoubleRotation == Spec => []ForkNeedsDoubleRotation
<1> DEFINE Both == Sound /\ Proved!IInv
<1>1. Init => Both
  BY Initially, LedgerHolds
<1>2. Both /\ [Next]_vars => Both'
  BY Preserved, LedgerHolds
<1>3. Both => ForkNeedsDoubleRotation
  BY ForksHaveTwins
<1>. QED
  BY <1>1, <1>2, <1>3, PTL DEF Spec
================================================================================

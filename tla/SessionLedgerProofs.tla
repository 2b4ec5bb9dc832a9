-------------------------- MODULE SessionLedgerProofs ----------------------------
(***************************************************************************)
(* What SessionLedger promises, proved: a refresh token is spent by the     *)
(* refresh that took its place, and a revoked row stays revoked.  Accounts  *)
(* implements the ledger, so the same holds of auth_sessions.               *)
(***************************************************************************)
EXTENDS SessionLedger, SequenceTheorems, TLAPS

\* "rotated" is one of the reasons of auth_sessions.revoke_reason, and a live row
\* has none.
ReasonsOK == "rotated" \in Reasons /\ Live \notin Reasons

\* A family is numbered by the row that founds it.
FamiliesAreFounded ==
    \A s \in DOMAIN sessions :
        sessions[s].family \in DOMAIN sessions /\ sessions[s].family <= s

\* Two rows of a family from which none was rotated have, somewhere above them, a
\* row that was rotated twice.
Childless(s) == \A c \in DOMAIN sessions : sessions[c].from # s
Twins(s) ==
    \E p, a, b \in DOMAIN sessions :
        /\ sessions[p].family = sessions[s].family
        /\ a # b /\ sessions[a].from = p /\ sessions[b].from = p
LeavesHaveTwins ==
    \A s, t \in DOMAIN sessions :
        /\ s # t /\ sessions[s].family = sessions[t].family
        /\ Childless(s) /\ Childless(t)
        => Twins(s)

IInv == TypeOK /\ RotatedRowsAreSpent /\ FamiliesAreFounded /\ LeavesHaveTwins

\* What a step leaves of the rows there were, and what a new row can be.
Kept(n) ==
    \A s \in 1..n :
        /\ sessions'[s].user = sessions[s].user
        /\ sessions'[s].family = sessions[s].family
        /\ sessions'[s].from = sessions[s].from
        /\ sessions'[s].opened = sessions[s].opened
        /\ sessions[s].revoked # Live => sessions'[s].revoked # Live

Founds(t) == sessions'[t].from = 0 /\ sessions'[t].family = t
TakesPlace(t) ==
    LET s == sessions'[t].from IN
    /\ s \in 1..Len(sessions) /\ sessions'[s].revoked # Live
    /\ sessions'[t].user = sessions'[s].user
    /\ sessions'[t].family = sessions'[s].family

\* Every step of the ledger keeps the rows there are, and adds at most one that
\* founds a family or takes another's place.
LEMMA Steps ==
    ASSUME ReasonsOK, TypeOK, Next
    PROVE  /\ TypeOK'
           /\ Kept(Len(sessions))
           /\ \/ Len(sessions') = Len(sessions)
              \/ /\ Len(sessions') = Len(sessions) + 1
                 /\ Founds(Len(sessions) + 1) \/ TakesPlace(Len(sessions) + 1)
<1> DEFINE n == Len(sessions)
<1>1. /\ sessions \in Seq(Row) /\ n \in Nat /\ DOMAIN sessions = 1..n
      /\ \A s \in 1..n : sessions[s] \in Row
  BY DEF TypeOK
<1>2. CASE Open
  <2>1. PICK u \in Users, p \in Passwords :
            sessions' = Append(sessions,
                [user |-> u, family |-> n + 1, from |-> 0, revoked |-> Live,
                 expired |-> FALSE, opened |-> p])
    BY <1>2 DEF Open
  <2>2. [user |-> u, family |-> n + 1, from |-> 0, revoked |-> Live,
         expired |-> FALSE, opened |-> p] \in Row
    BY <1>1 DEF Row
  <2>3. /\ TypeOK' /\ Len(sessions') = n + 1
        /\ \A s \in 1..n : sessions'[s] = sessions[s]
        /\ Founds(n + 1)
    BY <1>1, <2>1, <2>2 DEF TypeOK, Founds
  <2>. QED
    BY <2>3 DEF Kept
<1>3. CASE Replace
  <2>1. PICK s \in 1..n :
            sessions' = Append([sessions EXCEPT ![s].revoked = "rotated"],
                [sessions[s] EXCEPT !.from = s, !.revoked = Live, !.expired = FALSE])
    BY <1>1, <1>3 DEF Replace
  <2> DEFINE old == [sessions EXCEPT ![s].revoked = "rotated"]
             new == [sessions[s] EXCEPT !.from = s, !.revoked = Live, !.expired = FALSE]
  <2>2. /\ [sessions[s] EXCEPT !.revoked = "rotated"] \in Row
        /\ new \in Row /\ new.from = s
        /\ new.user = sessions[s].user /\ new.family = sessions[s].family
    <3>1. sessions[s] \in Row /\ s \in Nat
      BY <1>1
    <3>2. [sessions[s] EXCEPT !.revoked = "rotated"] \in Row
      BY <3>1 DEF Row, ReasonsOK
    <3>3. /\ new \in Row /\ new.from = s
          /\ new.user = sessions[s].user /\ new.family = sessions[s].family
      BY <3>1 DEF Row
    <3>. QED
      BY <3>2, <3>3
  <2>3. /\ old \in Seq(Row) /\ Len(old) = n
        /\ \A r \in 1..n : r # s => old[r] = sessions[r]
        /\ old[s] = [sessions[s] EXCEPT !.revoked = "rotated"]
    BY <1>1, <2>2
  <2> HIDE DEF old, new
  <2>4. /\ TypeOK' /\ Len(sessions') = n + 1
        /\ \A r \in 1..n : sessions'[r] = old[r]
        /\ sessions'[n + 1] = new
    BY <1>1, <2>1, <2>2, <2>3 DEF TypeOK, old, new
  <2>5. /\ old[s].user = sessions[s].user /\ old[s].family = sessions[s].family
        /\ old[s].from = sessions[s].from /\ old[s].opened = sessions[s].opened
        /\ old[s].revoked = "rotated"
    BY <1>1, <2>3 DEF Row
  <2>6. Kept(n)
    BY <2>3, <2>4, <2>5 DEF Kept, ReasonsOK
  <2>7. TakesPlace(n + 1)
    BY <2>1, <2>2, <2>4, <2>5 DEF TakesPlace, ReasonsOK
  <2>. QED
    BY <2>4, <2>6, <2>7
<1>4. CASE Revoke
  <2>1. PICK why \in Reasons, set \in SUBSET {s \in DOMAIN sessions : IsLive(s)} :
            sessions' = [s \in DOMAIN sessions |->
                            IF s \in set THEN [sessions[s] EXCEPT !.revoked = why]
                                         ELSE sessions[s]]
    BY <1>4 DEF Revoke
  <2>2. \A s \in 1..n : [sessions[s] EXCEPT !.revoked = why] \in Row
    BY <1>1 DEF Row
  <2>3. \A s \in 1..n :
            sessions'[s] = IF s \in set THEN [sessions[s] EXCEPT !.revoked = why]
                                        ELSE sessions[s]
    BY <1>1, <2>1
  <2>4. sessions' \in [1..n -> Row]
    BY <1>1, <2>1, <2>2
  <2>5. TypeOK' /\ Len(sessions') = n
    BY <1>1, <2>4 DEF TypeOK
  <2>6. Kept(n)
    BY <1>1, <2>1, <2>3 DEF Kept, Row, ReasonsOK, IsLive
  <2>. QED
    BY <2>5, <2>6
<1>5. CASE Expire
  <2>1. PICK s \in 1..n : sessions' = [sessions EXCEPT ![s].expired = TRUE]
    BY <1>1, <1>5 DEF Expire
  <2>2. [sessions[s] EXCEPT !.expired = TRUE] \in Row
    BY <1>1 DEF Row
  <2>3. /\ TypeOK' /\ Len(sessions') = n
        /\ \A r \in 1..n : r # s => sessions'[r] = sessions[r]
        /\ sessions'[s] = [sessions[s] EXCEPT !.expired = TRUE]
    BY <1>1, <2>1, <2>2 DEF TypeOK
  <2>4. Kept(n)
    BY <1>1, <2>3 DEF Kept, Row
  <2>. QED
    BY <2>3, <2>4
<1>. QED
  BY <1>2, <1>3, <1>4, <1>5 DEF Next

LEMMA Initially ==
    ASSUME Init PROVE IInv
<1>1. TypeOK /\ RotatedRowsAreSpent
  BY DEF Init, TypeOK, RotatedRowsAreSpent
<1>2. \A s \in DOMAIN sessions : s \in Nat
  BY <1>1 DEF TypeOK
<1>3. FamiliesAreFounded
  BY <1>2 DEF Init, FamiliesAreFounded
<1>4. LeavesHaveTwins
  BY DEF Init, LeavesHaveTwins
<1>. QED
  BY <1>1, <1>3, <1>4 DEF IInv

LEMMA Preserved ==
    ASSUME ReasonsOK, IInv, [Next]_sessions PROVE IInv'
<1>1. CASE UNCHANGED sessions
  BY <1>1 DEF IInv, TypeOK, RotatedRowsAreSpent, IsLive, FamiliesAreFounded,
              LeavesHaveTwins, Childless, Twins
<1>2. CASE Next
  <2> DEFINE n == Len(sessions)
  <2>1. /\ TypeOK' /\ Kept(n)
        /\ \/ Len(sessions') = n
           \/ Len(sessions') = n + 1 /\ (Founds(n + 1) \/ TakesPlace(n + 1))
    BY <1>2, Steps DEF IInv
  <2> DEFINE m == Len(sessions')
  <2>2. /\ n \in Nat /\ DOMAIN sessions = 1..n
        /\ m \in Nat /\ DOMAIN sessions' = 1..m
    BY <2>1 DEF IInv, TypeOK
  <2>3. \/ m = n
        \/ m = n + 1 /\ (Founds(n + 1) \/ TakesPlace(n + 1))
    BY <2>1
  <2>4. Kept(n)
    BY <2>1
  <2> HIDE DEF n, m
  <2>5. ASSUME NEW t \in DOMAIN sessions', sessions'[t].from # 0
        PROVE  LET s == sessions'[t].from IN
               /\ s \in DOMAIN sessions' /\ s < t
               /\ sessions'[s].revoked # Live
               /\ sessions'[s].user = sessions'[t].user
               /\ sessions'[s].family = sessions'[t].family
    <3>1. CASE t \in 1..n
      <4>1. LET s == sessions[t].from IN
            /\ s \in 1..n /\ s < t /\ sessions[s].revoked # Live
            /\ sessions[s].user = sessions[t].user
            /\ sessions[s].family = sessions[t].family
        BY <2>4, <2>2, <2>5, <3>1 DEF Kept, IInv, RotatedRowsAreSpent, IsLive
      <4>. QED
        BY <2>3, <2>4, <2>2, <3>1, <4>1 DEF Kept
    <3>2. CASE t \notin 1..n
      <4>1. t = n + 1 /\ m = n + 1
        BY <2>3, <2>2, <3>2
      <4>2. Founds(n + 1) \/ TakesPlace(n + 1)
        BY <2>3, <2>2, <4>1
      <4>3. ~Founds(n + 1)
        BY <2>5, <4>1 DEF Founds
      <4>4. TakesPlace(n + 1)
        BY <4>2, <4>3
      <4>. QED
        BY <2>2, <4>1, <4>4 DEF TakesPlace, n
    <3>. QED
      BY <3>1, <3>2
  <2>6. RotatedRowsAreSpent'
    BY <2>5 DEF RotatedRowsAreSpent, IsLive
  <2>7. \/ m = n
        \/ /\ m = n + 1
           /\ \/ sessions'[m].from = 0 /\ sessions'[m].family = m
              \/ /\ sessions'[m].from \in 1..n
                 /\ sessions'[m].family = sessions[sessions'[m].from].family
    <3>1. TakesPlace(n + 1) =>
             /\ sessions'[n + 1].from \in 1..n
             /\ sessions'[n + 1].family = sessions[sessions'[n + 1].from].family
      BY <2>4 DEF TakesPlace, Kept, n
    <3>. QED
      BY <2>3, <3>1 DEF Founds
  <2>8. /\ \A s \in 1..n : sessions[s].family \in 1..n /\ sessions[s].family <= s
        /\ \A s \in 1..n : sessions[s].from = 0 \/ sessions[s].from \in 1..n
    BY <2>2 DEF IInv, FamiliesAreFounded, RotatedRowsAreSpent
  <2>9. \A s \in 1..n : /\ sessions'[s].family = sessions[s].family
                         /\ sessions'[s].from = sessions[s].from
    BY <2>4 DEF Kept
  <2>10. FamiliesAreFounded'
    BY <2>2, <2>7, <2>8, <2>9 DEF FamiliesAreFounded
  <2>11. \A s \in 1..n : Twins(s) => Twins(s)'
    <3>1. \A x \in 1..n : x \in 1..m
      BY <2>2, <2>7
    <3>. QED
      BY <3>1, <2>2, <2>9 DEF Twins
  <2>12. \A s \in 1..n : Childless(s)' => Childless(s)
    BY <2>2, <2>7, <2>9 DEF Childless
  <2>13. ASSUME NEW s \in 1..n, NEW t \in 1..n, s # t,
                sessions[s].family = sessions[t].family, Childless(s)', Childless(t)'
         PROVE  Twins(s)'
    BY <2>2, <2>11, <2>12, <2>13 DEF IInv, LeavesHaveTwins
  <2>14. ASSUME NEW s \in 1..n, NEW t, t = m, m = n + 1,
                sessions'[t].family = sessions'[s].family, Childless(s)'
         PROVE  Twins(s)' /\ Twins(t)'
    <3> DEFINE p == sessions'[m].from
    <3>1. /\ p \in 1..n /\ sessions[p].family = sessions[s].family
      BY <2>7, <2>8, <2>9, <2>14, <2>2
    <3> HIDE DEF p
    <3>2. p # s /\ sessions'[m].from = p
      BY <2>2, <2>14 DEF Childless, p
    <3>3. Twins(s)'
      <4>1. CASE Childless(p)
        BY <2>2, <2>11, <2>12, <2>14, <3>1, <3>2, <4>1 DEF IInv, LeavesHaveTwins
      <4>2. CASE ~Childless(p)
        <5>1. PICK c \in 1..n : sessions[c].from = p
          BY <2>2, <4>2 DEF Childless
        <5>2. /\ c \in 1..m /\ m \in 1..m /\ p \in 1..m /\ c # m
              /\ sessions'[c].from = p /\ sessions'[p].family = sessions'[s].family
          BY <2>2, <2>9, <2>14, <3>1, <5>1
        <5>. QED
          BY <2>2, <3>2, <5>2 DEF Twins
      <4>. QED
        BY <4>1, <4>2
    <3>. QED
      BY <2>14, <3>3 DEF Twins
  <2>15. ASSUME NEW s \in DOMAIN sessions', NEW t \in DOMAIN sessions', s # t,
                sessions'[s].family = sessions'[t].family, Childless(s)', Childless(t)'
         PROVE  Twins(s)'
    <3>1. \A x \in 1..m : x \in 1..n \/ (x = m /\ m = n + 1)
      BY <2>2, <2>7
    <3>2. CASE s \in 1..n /\ t \in 1..n
      BY <2>9, <2>13, <2>15, <3>2
    <3>3. CASE s \in 1..n /\ t = m /\ m = n + 1
      BY <2>14, <2>15, <3>3
    <3>4. CASE t \in 1..n /\ s = m /\ m = n + 1
      BY <2>14, <2>15, <3>4
    <3>. QED
      BY <2>2, <2>15, <3>1, <3>2, <3>3, <3>4
  <2>16. LeavesHaveTwins'
    BY <2>15 DEF LeavesHaveTwins, Childless, Twins
  <2>. QED
    BY <2>1, <2>6, <2>10, <2>16 DEF IInv
<1>. QED
  BY <1>1, <1>2

\* A live row has not been rotated, so two of them in one family are leaves.
LEMMA LiveRowsHaveTwins ==
    ASSUME IInv, NEW s \in DOMAIN sessions, NEW t \in DOMAIN sessions, s # t,
           IsLive(s), IsLive(t), sessions[s].family = sessions[t].family
    PROVE  Twins(s)
<1>1. 0 \notin DOMAIN sessions
  BY DEF IInv, TypeOK
<1>2. \A x \in DOMAIN sessions : IsLive(x) => Childless(x)
  BY <1>1 DEF Childless, IInv, RotatedRowsAreSpent
<1>. QED
  BY <1>2 DEF IInv, LeavesHaveTwins

\* Every row of the ledger keeps its type, whatever interleaves.
THEOREM TypeCorrect ==
    ASSUME ReasonsOK PROVE Spec => []TypeOK
<1>1. Init => IInv
  BY Initially
<1>2. IInv /\ [Next]_sessions => IInv'
  BY Preserved
<1>3. IInv => TypeOK
  BY DEF IInv
<1>. QED
  BY <1>1, <1>2, <1>3, PTL DEF Spec

\* A refresh token is spent by the refresh that took its place (auth-session.service.ts,
\* rotateSession).
THEOREM RotatedAreSpent ==
    ASSUME ReasonsOK PROVE Spec => []RotatedRowsAreSpent
<1>1. Init => IInv
  BY Initially
<1>2. IInv /\ [Next]_sessions => IInv'
  BY Preserved
<1>3. IInv => RotatedRowsAreSpent
  BY DEF IInv
<1>. QED
  BY <1>1, <1>2, <1>3, PTL DEF Spec

\* A revoked row is never live again, and no row changes its user or its family.
THEOREM StaysRevoked ==
    ASSUME ReasonsOK PROVE Spec => RevokedForGood
<1> DEFINE Keeps == \A s \in DOMAIN sessions :
              /\ s \in DOMAIN sessions'
              /\ sessions[s].revoked # Live => sessions'[s].revoked # Live
              /\ sessions'[s].user = sessions[s].user
              /\ sessions'[s].family = sessions[s].family
<1>1. Init => IInv
  BY Initially
<1>2. IInv /\ [Next]_sessions => IInv'
  BY Preserved
<1>3. IInv /\ [Next]_sessions => [Keeps]_sessions
  <2> SUFFICES ASSUME IInv, Next PROVE Keeps
    OBVIOUS
  <2>1. /\ TypeOK' /\ Kept(Len(sessions))
        /\ Len(sessions') = Len(sessions) \/ Len(sessions') = Len(sessions) + 1
    BY Steps DEF IInv
  <2> DEFINE n == Len(sessions)
  <2>2. /\ DOMAIN sessions = 1..n /\ n \in Nat
        /\ DOMAIN sessions' = 1..n \/ DOMAIN sessions' = 1..(n + 1)
    BY <2>1 DEF IInv, TypeOK
  <2>3. Kept(n)
    BY <2>1
  <2> HIDE DEF n
  <2>. QED
    BY <2>2, <2>3 DEF Kept
<1>. QED
  BY <1>1, <1>2, <1>3, PTL DEF Spec, RevokedForGood
================================================================================

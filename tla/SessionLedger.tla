---------------------------- MODULE SessionLedger ------------------------------
(***************************************************************************)
(* What the rows of auth_sessions promise whoever holds a refresh token,    *)
(* whatever the requests in flight: a row is written once; it belongs to a  *)
(* user and to a token family for good; a new row either founds a family or *)
(* takes the place of a row that the same step revokes; and a revoked row   *)
(* stays revoked.                                                           *)
(***************************************************************************)
EXTENDS Naturals, Sequences

CONSTANTS Users, Passwords, Reasons, Live

VARIABLE sessions

Row == [user : Users, family : Nat, from : Nat, revoked : Reasons \union {Live},
        expired : BOOLEAN, opened : Passwords]

IsLive(s) == sessions[s].revoked = Live

Init ==
    /\ sessions \in Seq(Row)
    /\ \A s \in DOMAIN sessions :
          sessions[s].from = 0 /\ sessions[s].family = s /\ IsLive(s)

\* A login founds a family.
Open ==
    \E u \in Users, p \in Passwords :
        sessions' = Append(sessions,
            [user |-> u, family |-> Len(sessions) + 1, from |-> 0,
             revoked |-> Live, expired |-> FALSE, opened |-> p])

\* A refresh revokes one row and puts one in its place.
Replace ==
    \E s \in DOMAIN sessions :
        sessions' = Append([sessions EXCEPT ![s].revoked = "rotated"],
            [sessions[s] EXCEPT !.from = s, !.revoked = Live, !.expired = FALSE])

\* Any set of live rows is revoked for one reason.
Revoke ==
    \E why \in Reasons, set \in SUBSET {s \in DOMAIN sessions : IsLive(s)} :
        sessions' = [s \in DOMAIN sessions |->
                        IF s \in set THEN [sessions[s] EXCEPT !.revoked = why]
                                    ELSE sessions[s]]

Expire ==
    \E s \in DOMAIN sessions : sessions' = [sessions EXCEPT ![s].expired = TRUE]

Next == Open \/ Replace \/ Revoke \/ Expire

Spec == Init /\ [][Next]_sessions

-------------------------------------------------------------------------------
(* What follows from that *)

TypeOK == sessions \in Seq(Row)

\* A row that another one was rotated from is revoked, and the two share user and
\* family: a refresh token is spent by the refresh that took its place.
RotatedRowsAreSpent ==
    \A t \in DOMAIN sessions :
        LET s == sessions[t].from IN
        s # 0 => /\ s \in DOMAIN sessions /\ s < t
                 /\ ~IsLive(s)
                 /\ sessions[s].user = sessions[t].user
                 /\ sessions[s].family = sessions[t].family

\* A revoked row stays revoked, and no row changes hands.
RevokedForGood ==
    [][ \A s \in DOMAIN sessions :
          /\ s \in DOMAIN sessions'
          /\ sessions[s].revoked # Live => sessions'[s].revoked # Live
          /\ sessions'[s].user = sessions[s].user
          /\ sessions'[s].family = sessions[s].family ]_sessions
================================================================================

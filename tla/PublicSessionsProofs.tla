------------------------- MODULE PublicSessionsProofs --------------------------
(***************************************************************************)
(* Theorems about PublicSessions for every set of payments, lockers, ports, *)
(* tokens, PINs and requests in flight.                                     *)
(***************************************************************************)
EXTENDS PublicSessions, TLAPS

\* A token was issued, and while its record lives it is the payment's.
IsTokenOf(t, p) ==
    /\ flow[t].state # "unissued"
    /\ flow[t].state = "live" => flow[t].payment = p

LatestOK == \A p \in Payments : latest[p] # "none" => IsTokenOf(latest[p], p)

(* What a request in flight relies on when it writes.                       *)

AcceptOK(w) == request[w].op = "accept" => request[w].payment \in paid

PublishOK(w) ==
    request[w].op = "publish" => IsTokenOf(request[w].token, request[w].payment)

SessionOK(w) ==
    request[w].op \in {"bind", "bindSave", "claim"} => HasSession(request[w].payment)

BindOK(w) ==
    (request[w].op = "bindSave" /\ request[w].to # "none")
        => IsTokenOf(request[w].to, request[w].payment)

RequestsOK ==
    \A w \in Workers : AcceptOK(w) /\ PublishOK(w) /\ SessionOK(w) /\ BindOK(w)

ClaimedHasSession == \A p \in Payments : code[p] # "none" => HasSession(p)

IInv ==
    /\ TypeOK
    /\ LatestOK
    /\ RequestsOK
    /\ ClaimedHasSession
    /\ LockersAreExclusive
    /\ PinOpensLocker
    /\ BoundTokenHasSession

--------------------------------------------------------------------------------
(* Type correctness *)

\* The fields a request carries, by the operation it performs.
LEMMA RequestFields ==
    ASSUME TypeOK, NEW w \in Workers
    PROVE  /\ request[w].op \in {"accept", "issue", "publish", "ensure", "reserve",
                                 "bind", "bindSave", "claim"} =>
                 request[w].payment \in Payments
           /\ request[w].op \in {"publish", "ensure", "reserve", "bind", "bindSave"} =>
                 request[w].token \in Tokens
           /\ request[w].op = "reserve" => request[w].free \subseteq Ports
           /\ request[w].op = "bindSave" => request[w].to \in Tokens \union {"none"}
           /\ request[w].op = "setLocker" => /\ request[w].locker \in Lockers
                                             /\ request[w].to \in {"available", "out"}
           /\ request[w].op = "setPort" => /\ request[w].port \in Ports
                                           /\ request[w].to \in {"available", "out"}
<1>1. request[w] \in Requests
  BY DEF TypeOK
<1>. QED
  BY <1>1 DEF Requests, Idle

LEMMA FlowFields ==
    ASSUME TypeOK, NEW t \in Tokens
    PROVE  /\ flow[t].state \in {"unissued", "expired", "live"}
           /\ flow[t].state = "live" =>
                 /\ flow[t].payment \in Payments
                 /\ flow[t].bound \in BOOLEAN
                 /\ flow[t] = Flow(flow[t].payment, flow[t].bound)
<1>1. flow[t] \in Flows
  BY DEF TypeOK
<1>. QED
  BY <1>1 DEF Flows, Unissued, Expired, Flow

\* Setting the bound flag of a live record leaves the rest of it.
LEMMA BindFields ==
    ASSUME TypeOK, NEW t \in Tokens, flow[t].state = "live",
           flow' = [flow EXCEPT ![t].bound = TRUE]
    PROVE  /\ flow' \in [Tokens -> Flows]
           /\ flow'[t] = Flow(flow[t].payment, TRUE)
           /\ \A u \in Tokens \ {t} : flow'[u] = flow[u]
<1>1. flow[t].payment \in Payments /\ flow[t] = Flow(flow[t].payment, flow[t].bound)
  BY FlowFields
<1>2. flow'[t] = Flow(flow[t].payment, TRUE)
  BY <1>1 DEF TypeOK, Flow
<1>3. flow'[t] \in Flows
  <2>1. Flow(flow[t].payment, TRUE)
           \in [state : {"live"}, payment : Payments, bound : BOOLEAN]
    BY <1>1 DEF Flow
  <2>. QED
    BY <1>2, <2>1 DEF Flows
<1>4. /\ flow' = [u \in Tokens |-> flow'[u]]
      /\ \A u \in Tokens \ {t} : flow'[u] = flow[u]
  BY DEF TypeOK
<1>5. \A u \in Tokens : flow'[u] \in Flows
  BY <1>3, <1>4 DEF TypeOK
<1>6. flow' \in [Tokens -> Flows]
  BY <1>4, <1>5
<1>. QED
  BY <1>2, <1>4, <1>6

\* Every action keeps the types.
LEMMA TypeStep == TypeOK /\ RequestsOK /\ [Next]_vars => TypeOK'
<1>. SUFFICES ASSUME TypeOK, RequestsOK, [Next]_vars PROVE TypeOK'
  OBVIOUS
<1>. USE RequestFields
     DEF Start, Become, Finish, paymentVars, tokenVars, slotVars, claimVars
<1>0. Idle \in Requests
  BY DEF Requests
<1>1. ASSUME NEW w \in Workers, NEW p \in Payments, Initiate(w, p) PROVE TypeOK'
  <2>1. [op |-> IF NeedsTransaction(p) THEN "accept" ELSE "issue", payment |-> p]
           \in Requests
    BY DEF Requests
  <2>. QED
    BY <1>1, <2>1 DEF Initiate, TypeOK
<1>2. ASSUME NEW w \in Workers, AcceptTransaction(w) PROVE TypeOK'
  <2>1. request[w].payment \in paid
    BY <1>2 DEF AcceptTransaction, RequestsOK, AcceptOK
  <2>2. [op |-> "issue", payment |-> request[w].payment] \in Requests
    BY <1>2 DEF AcceptTransaction, Requests
  <2>. QED
    BY <1>2, <2>1, <2>2 DEF AcceptTransaction, TypeOK
<1>3. ASSUME NEW w \in Workers, NEW t \in Tokens, IssueToken(w, t) PROVE TypeOK'
  <2>1. /\ [op |-> "publish", payment |-> request[w].payment, token |-> t] \in Requests
        /\ Flow(request[w].payment, FALSE) \in Flows
    BY <1>3 DEF IssueToken, Requests, Flow, Flows
  <2>. QED
    BY <1>3, <2>1 DEF IssueToken, TypeOK
<1>4. ASSUME NEW w \in Workers, PublishToken(w) PROVE TypeOK'
  BY <1>0, <1>4 DEF PublishToken, TypeOK
<1>5. ASSUME NEW t \in Tokens, TokenExpires(t) PROVE TypeOK'
  <2>1. Expired \in Flows
    BY DEF Flows
  <2>. QED
    BY <1>5, <2>1 DEF TokenExpires, TypeOK
<1>6. ASSUME NEW w \in Workers, NEW t \in Tokens, StatusRead(w, t) PROVE TypeOK'
  <2>1. [op |-> "ensure", payment |-> flow[t].payment, token |-> t] \in Requests
    BY <1>6, FlowFields DEF StatusRead, Requests
  <2>. QED
    BY <1>6, <2>1 DEF StatusRead, TypeOK
<1>7. ASSUME NEW w \in Workers, EnsureLock(w) PROVE TypeOK'
  <2>1. Free \in SUBSET Ports
    BY DEF Free
  <2>2. /\ [op |-> "bind", payment |-> request[w].payment,
            token |-> request[w].token] \in Requests
        /\ [op |-> "reserve", payment |-> request[w].payment,
            token |-> request[w].token, free |-> Free] \in Requests
    BY <1>7, <2>1 DEF EnsureLock, Requests
  <2>3. PICK r \in Requests : request' = [request EXCEPT ![w] = r]
    BY <1>7, <2>2 DEF EnsureLock
  <2>. QED
    BY <1>7, <2>3 DEF EnsureLock, TypeOK
<1>8. ASSUME NEW w \in Workers, NEW q \in Ports, Reserve(w, q) PROVE TypeOK'
  <2>1. [op |-> "bind", payment |-> request[w].payment,
         token |-> request[w].token] \in Requests
    BY <1>8 DEF Reserve, Requests
  <2>. QED
    BY <1>8, <2>1 DEF Reserve, ReservedStatus, LockerStatuses, TypeOK
<1>9. ASSUME NEW w \in Workers, BindLookup(w) PROVE TypeOK'
  <2>1. [op |-> "bindSave", payment |-> request[w].payment,
         token |-> request[w].token, to |-> latest[request[w].payment]] \in Requests
    BY <1>9 DEF BindLookup, Requests, TypeOK
  <2>. QED
    BY <1>9, <2>1 DEF BindLookup, TypeOK
<1>10. ASSUME NEW w \in Workers, BindSave(w) PROVE TypeOK'
  <2>1. flow' \in [Tokens -> Flows]
    BY <1>10, BindFields DEF BindSave, TypeOK
  <2>. QED
    BY <1>0, <1>10, <2>1 DEF BindSave, TypeOK
<1>11. ASSUME NEW w \in Workers, NEW t \in Tokens, ClaimRead(w, t) PROVE TypeOK'
  <2>1. [op |-> "claim", payment |-> flow[t].payment] \in Requests
    BY <1>11, FlowFields DEF ClaimRead, Requests
  <2>. QED
    BY <1>11, <2>1 DEF ClaimRead, TypeOK
<1>12. ASSUME NEW w \in Workers, NEW pin \in Pins, ClaimStore(w, pin) PROVE TypeOK'
  BY <1>0, <1>12 DEF ClaimStore, TypeOK
<1>13. ASSUME NEW w \in Workers, NEW s \in {"available", "out"}, NEW l \in Lockers,
              LockerChangeRead(w, l, s)
       PROVE  TypeOK'
  BY <1>13 DEF LockerChangeRead, Requests, TypeOK
<1>14. ASSUME NEW w \in Workers, LockerChangeSave(w) PROVE TypeOK'
  BY <1>0, <1>14 DEF LockerChangeSave, LockerStatuses, TypeOK
<1>15. ASSUME NEW w \in Workers, NEW s \in {"available", "out"}, NEW q \in Ports,
              PortChangeRead(w, q, s)
       PROVE  TypeOK'
  BY <1>15 DEF PortChangeRead, Requests, TypeOK
<1>16. ASSUME NEW w \in Workers, PortChangeSave(w) PROVE TypeOK'
  BY <1>0, <1>16 DEF PortChangeSave, PortStatuses, TypeOK
<1>17. ASSUME NEW q \in Ports, NEW s \in PortStatuses, PortReported(q, s)
       PROVE  TypeOK'
  BY <1>17 DEF PortReported, TypeOK
<1>18. ASSUME NEW w \in Workers,
              NoSlot(w) \/ ClaimRefused(w) \/ RequestDies(w)
                 \/ \E q \in Ports : ReserveCollides(w, q)
       PROVE  TypeOK'
  BY <1>0, <1>18
     DEF NoSlot, AfterNoSlot, ClaimRefused, RequestDies, ReserveCollides, TypeOK
<1>19. CASE UNCHANGED vars
  BY <1>19 DEF vars, TypeOK
<1>. QED
  BY <1>1, <1>2, <1>3, <1>4, <1>5, <1>6, <1>7, <1>8, <1>9, <1>10, <1>11, <1>12,
     <1>13, <1>14, <1>15, <1>16, <1>17, <1>18, <1>19 DEF Next

--------------------------------------------------------------------------------
(* The payments, their sessions and their PINs                              *)

\* Only these actions write a session, a PIN, a token record or the lookup.
LEMMA SlotWriters ==
    [Next]_vars =>
        \/ UNCHANGED <<session, claimVars, flow, latest>>
        \/ \E w \in Workers, t \in Tokens : IssueToken(w, t)
        \/ \E w \in Workers : PublishToken(w) \/ BindSave(w)
        \/ \E t \in Tokens : TokenExpires(t)
        \/ \E w \in Workers, q \in Ports : Reserve(w, q)
        \/ \E w \in Workers, pin \in Pins : ClaimStore(w, pin)
BY DEF Next, vars, tokenVars, slotVars, claimVars, Initiate, AcceptTransaction,
       StatusRead, EnsureLock, ReserveCollides, NoSlot, BindLookup, ClaimRead,
       ClaimRefused, LockerChangeRead, LockerChangeSave, PortChangeRead,
       PortChangeSave, PortReported, RequestDies

\* A session is never taken away, and a token stays with its payment.
LEMMA TokensAndSessionsStay ==
    ASSUME TypeOK, [Next]_vars
    PROVE  /\ \A p \in Payments : HasSession(p) => session'[p] = session[p]
           /\ \A t \in Tokens, p \in Payments : IsTokenOf(t, p) => IsTokenOf(t, p)'
<1>1. ASSUME NEW w \in Workers, NEW t \in Tokens, IssueToken(w, t),
             NEW u \in Tokens, flow[u].state # "unissued"
      PROVE  flow'[u] = flow[u]
  <2>1. flow[t].state = "unissued"
    BY <1>1 DEF IssueToken, Unissued
  <2>2. u # t
    BY <1>1, <2>1
  <2>. QED
    BY <1>1, <2>2 DEF IssueToken, TypeOK
<1>2. ASSUME NEW t \in Tokens, TokenExpires(t), NEW u \in Tokens
      PROVE  flow'[u] = flow[u] \/ flow'[u].state = "expired"
  BY <1>2 DEF TokenExpires, Expired, TypeOK
<1>3. ASSUME NEW w \in Workers, BindSave(w), NEW u \in Tokens
      PROVE  /\ flow'[u].state = flow[u].state
             /\ flow[u].state = "live" => flow'[u].payment = flow[u].payment
  <2>1. CASE flow' = flow
    BY <2>1
  <2>2. CASE flow' # flow
    <3>. DEFINE t == request[w].to
    <3>1. /\ t \in Tokens /\ flow[t].state = "live"
          /\ flow' = [flow EXCEPT ![t].bound = TRUE]
      BY <1>3, <2>2, RequestFields DEF BindSave
    <3>2. /\ flow'[t] = Flow(flow[t].payment, TRUE)
          /\ \A v \in Tokens \ {t} : flow'[v] = flow[v]
      BY <3>1, BindFields
    <3>. HIDE DEF t
    <3>. QED
      BY <3>1, <3>2 DEF Flow
  <2>. QED
    BY <2>1, <2>2
<1>4. ASSUME NEW w \in Workers, NEW q \in Ports, Reserve(w, q)
      PROVE  \A p \in Payments : HasSession(p) => session'[p] = session[p]
  BY <1>4, RequestFields DEF Reserve, Admitted, HasSession, TypeOK
<1>5. \A p \in Payments : HasSession(p) => session'[p] = session[p]
  BY <1>4, SlotWriters
     DEF IssueToken, PublishToken, BindSave, TokenExpires, ClaimStore, slotVars
<1>6. \A t \in Tokens, p \in Payments : IsTokenOf(t, p) => IsTokenOf(t, p)'
  <2>. SUFFICES ASSUME NEW t \in Tokens, NEW p \in Payments, IsTokenOf(t, p)
                PROVE  IsTokenOf(t, p)'
    OBVIOUS
  <2>1. \/ flow'[t] = flow[t]
        \/ flow'[t].state = "expired"
        \/ /\ flow'[t].state = flow[t].state
           /\ flow[t].state = "live" => flow'[t].payment = flow[t].payment
    BY <1>1, <1>2, <1>3, SlotWriters
       DEF IsTokenOf, PublishToken, Reserve, ClaimStore, tokenVars
  <2>. QED
    BY <2>1 DEF IsTokenOf
<1>. QED
  BY <1>5, <1>6

\* What the two databases say of a payment agrees after every step.
SlotsOK ==
    /\ LatestOK
    /\ ClaimedHasSession
    /\ LockersAreExclusive
    /\ PinOpensLocker
    /\ BoundTokenHasSession

LEMMA SlotStep == IInv /\ [Next]_vars => SlotsOK'
<1>. SUFFICES ASSUME IInv, [Next]_vars PROVE SlotsOK'
  OBVIOUS
<1>. TypeOK /\ RequestsOK /\ SlotsOK
  BY DEF IInv, SlotsOK
<1>. USE DEF SlotsOK
<1>1. CASE UNCHANGED <<session, claimVars, flow, latest>>
  BY <1>1 DEF LatestOK, IsTokenOf, ClaimedHasSession, LockersAreExclusive,
              PinOpensLocker, BoundTokenHasSession, HasSession, claimVars
<1>2. ASSUME UNCHANGED <<session, claimVars>>
      PROVE  ClaimedHasSession' /\ LockersAreExclusive' /\ PinOpensLocker'
  BY <1>2 DEF ClaimedHasSession, LockersAreExclusive, PinOpensLocker, HasSession,
              claimVars
<1>3. ASSUME UNCHANGED latest PROVE LatestOK'
  BY <1>3, TokensAndSessionsStay DEF LatestOK, TypeOK
<1>4. ASSUME NEW w \in Workers, NEW t \in Tokens, IssueToken(w, t) PROVE SlotsOK'
  <2>1. BoundTokenHasSession'
    BY <1>4 DEF IssueToken, Flow, BoundTokenHasSession, HasSession, slotVars, TypeOK
  <2>. QED
    BY <1>2, <1>3, <1>4, <2>1 DEF IssueToken, slotVars
<1>5. ASSUME NEW w \in Workers, PublishToken(w) PROVE SlotsOK'
  <2>1. /\ request[w].payment \in Payments /\ request[w].token \in Tokens
        /\ IsTokenOf(request[w].token, request[w].payment)
    BY <1>5, RequestFields DEF PublishToken, RequestsOK, PublishOK
  <2>2. LatestOK'
    BY <1>5, <2>1 DEF PublishToken, LatestOK, IsTokenOf, TypeOK
  <2>3. BoundTokenHasSession'
    BY <1>5 DEF PublishToken, BoundTokenHasSession, HasSession, slotVars
  <2>. QED
    BY <1>2, <1>5, <2>2, <2>3 DEF PublishToken, slotVars
<1>6. ASSUME NEW w \in Workers, BindSave(w) PROVE SlotsOK'
  <2>1. BoundTokenHasSession'
    <3>. DEFINE t == request[w].to
                p == request[w].payment
    <3>1. CASE flow' = flow
      BY <1>6, <3>1 DEF BindSave, BoundTokenHasSession, HasSession, slotVars
    <3>2. CASE flow' # flow
      <4>1. /\ t \in Tokens /\ flow[t].state = "live"
            /\ flow' = [flow EXCEPT ![t].bound = TRUE]
            /\ t # "none"
        BY <1>6, <3>2, RequestFields DEF BindSave
      <4>2. flow[t].payment = p /\ HasSession(p)
        BY <1>6, <4>1 DEF BindSave, RequestsOK, BindOK, SessionOK, IsTokenOf
      <4>3. /\ flow'[t] = Flow(p, TRUE)
            /\ \A v \in Tokens \ {t} : flow'[v] = flow[v]
        BY <4>1, <4>2, BindFields
      <4>4. session' = session
        BY <1>6 DEF BindSave, slotVars
      <4>. HIDE DEF t, p
      <4>. QED
        BY <4>2, <4>3, <4>4 DEF Flow, BoundTokenHasSession, HasSession
    <3>. QED
      BY <3>1, <3>2
  <2>. QED
    BY <1>2, <1>3, <1>6, <2>1 DEF BindSave, slotVars
<1>7. ASSUME NEW t \in Tokens, TokenExpires(t) PROVE SlotsOK'
  <2>1. BoundTokenHasSession'
    BY <1>7 DEF TokenExpires, Expired, BoundTokenHasSession, HasSession, slotVars,
                TypeOK
  <2>. QED
    BY <1>2, <1>3, <1>7, <2>1 DEF TokenExpires, slotVars
<1>8. ASSUME NEW w \in Workers, NEW q \in Ports, Reserve(w, q) PROVE SlotsOK'
  <2>. DEFINE p == request[w].payment
  <2>1. /\ p \in Payments /\ ~HasSession(p) /\ ~Occupied(LockerOf[q])
        /\ session' = [session EXCEPT ![p] = q]
        /\ UNCHANGED <<claimVars, flow, latest>>
    BY <1>8, RequestFields DEF Reserve, Admitted, tokenVars
  <2>2. q # "none"
    BY SlotConstants
  <2>. HIDE DEF p
  <2>3. LockersAreExclusive'
    BY <2>1 DEF LockersAreExclusive, Occupied, HasSession, TypeOK
  <2>4. ClaimedHasSession' /\ PinOpensLocker'
    BY <2>1, <2>2 DEF ClaimedHasSession, PinOpensLocker, claimVars, HasSession, TypeOK
  <2>5. BoundTokenHasSession'
    BY <2>1, <2>2 DEF BoundTokenHasSession, HasSession, TypeOK
  <2>. QED
    BY <1>3, <2>1, <2>3, <2>4, <2>5
<1>9. ASSUME NEW w \in Workers, NEW pin \in Pins, ClaimStore(w, pin) PROVE SlotsOK'
  <2>. DEFINE p == request[w].payment
  <2>1. /\ p \in Payments /\ HasSession(p) /\ code[p] = "none"
        /\ code' = [code EXCEPT ![p] = pin]
        /\ command' = [command EXCEPT ![p] = IF @ = "none" THEN pin ELSE @]
        /\ shown' = [shown EXCEPT ![p] = @ \union {pin}]
        /\ UNCHANGED <<session, flow, latest>>
    BY <1>9, RequestFields
       DEF ClaimStore, Unclaimed, RequestsOK, SessionOK, tokenVars, slotVars
  <2>. HIDE DEF p
  <2>2. shown[p] = {} /\ command[p] = "none"
    BY <2>1, SlotConstants DEF PinOpensLocker, TypeOK
  <2>3. PinOpensLocker'
    BY <2>1, <2>2 DEF PinOpensLocker, TypeOK
  <2>4. ClaimedHasSession' /\ LockersAreExclusive' /\ BoundTokenHasSession'
    BY <2>1 DEF ClaimedHasSession, LockersAreExclusive, BoundTokenHasSession,
                HasSession, TypeOK
  <2>. QED
    BY <1>3, <2>1, <2>3, <2>4
<1>. QED
  BY <1>1, <1>4, <1>5, <1>6, <1>7, <1>8, <1>9, SlotWriters

--------------------------------------------------------------------------------
(* Requests in flight *)

\* A request that starts or goes on does one of these.
LEMMA RequestWriters ==
    ASSUME TypeOK, [Next]_vars, NEW w \in Workers
    PROVE  \/ request'[w] = request[w]
           \/ request'[w].op \in {"idle", "issue", "setLocker", "setPort"}
           \/ \E p \in Payments : Initiate(w, p)
           \/ \E t \in Tokens : IssueToken(w, t) \/ StatusRead(w, t) \/ ClaimRead(w, t)
           \/ EnsureLock(w) \/ BindLookup(w)
           \/ \E q \in Ports : Reserve(w, q)
<1>. DEFINE Named == \/ \E p \in Payments : Initiate(w, p)
                     \/ \E t \in Tokens : IssueToken(w, t) \/ StatusRead(w, t)
                                         \/ ClaimRead(w, t)
                     \/ EnsureLock(w) \/ BindLookup(w)
                     \/ \E q \in Ports : Reserve(w, q)
            Plain == request'[w].op \in {"idle", "issue", "setLocker", "setPort"}
<1>. USE DEF Start, Become, Finish, Idle
<1>1. ASSUME NEW v \in Workers, NEW r, v # w,
             request' = [request EXCEPT ![v] = r]
      PROVE  request'[w] = request[w]
  BY <1>1 DEF TypeOK
<1>2. ASSUME NEW v \in Workers, NEW p \in Payments, Initiate(v, p)
      PROVE  request'[w] = request[w] \/ Named
  BY <1>1, <1>2 DEF Initiate
<1>3. ASSUME NEW v \in Workers, NEW t \in Tokens,
             IssueToken(v, t) \/ StatusRead(v, t) \/ ClaimRead(v, t)
      PROVE  request'[w] = request[w] \/ Named
  BY <1>1, <1>3 DEF IssueToken, StatusRead, ClaimRead
<1>4. ASSUME NEW v \in Workers, EnsureLock(v) \/ BindLookup(v)
      PROVE  request'[w] = request[w] \/ Named
  BY <1>1, <1>4 DEF EnsureLock, BindLookup
<1>5. ASSUME NEW v \in Workers, NEW q \in Ports, Reserve(v, q)
      PROVE  request'[w] = request[w] \/ Named
  BY <1>1, <1>5 DEF Reserve
<1>6. ASSUME NEW v \in Workers,
             \/ AcceptTransaction(v) \/ PublishToken(v) \/ NoSlot(v) \/ BindSave(v)
             \/ ClaimRefused(v) \/ LockerChangeSave(v) \/ PortChangeSave(v)
             \/ RequestDies(v)
             \/ \E q \in Ports : ReserveCollides(v, q)
             \/ \E pin \in Pins : ClaimStore(v, pin)
             \/ \E s \in {"available", "out"} :
                   \/ \E l \in Lockers : LockerChangeRead(v, l, s)
                   \/ \E q \in Ports : PortChangeRead(v, q, s)
      PROVE  request'[w] = request[w] \/ Plain
  <2>1. CASE v = w
    BY <1>6, <2>1
       DEF AcceptTransaction, PublishToken, NoSlot, AfterNoSlot, BindSave,
           ClaimRefused, LockerChangeSave, PortChangeSave, RequestDies,
           ReserveCollides, ClaimStore, LockerChangeRead, PortChangeRead, TypeOK
  <2>2. CASE v # w
    BY <1>1, <1>6, <2>2
       DEF AcceptTransaction, PublishToken, NoSlot, AfterNoSlot, BindSave,
           ClaimRefused, LockerChangeSave, PortChangeSave, RequestDies,
           ReserveCollides, ClaimStore, LockerChangeRead, PortChangeRead
  <2>. QED
    BY <2>1, <2>2
<1>7. CASE UNCHANGED request
  BY <1>7
<1>8. \/ UNCHANGED request
      \/ \E v \in Workers : EnsureLock(v) \/ BindLookup(v)
      \/ \E v \in Workers, p \in Payments : Initiate(v, p)
      \/ \E v \in Workers, t \in Tokens :
            IssueToken(v, t) \/ ClaimRead(v, t) \/ StatusRead(v, t)
      \/ \E v \in Workers, q \in Ports : Reserve(v, q) \/ ReserveCollides(v, q)
      \/ \E v \in Workers :
            \/ AcceptTransaction(v) \/ PublishToken(v) \/ NoSlot(v) \/ BindSave(v)
            \/ ClaimRefused(v) \/ LockerChangeSave(v) \/ PortChangeSave(v)
            \/ RequestDies(v)
      \/ \E v \in Workers, pin \in Pins : ClaimStore(v, pin)
      \/ \E v \in Workers, s \in {"available", "out"} :
            \/ \E l \in Lockers : LockerChangeRead(v, l, s)
            \/ \E q \in Ports : PortChangeRead(v, q, s)
  BY DEF Next, vars, TokenExpires, PortReported
<1>. QED
  BY <1>2, <1>3, <1>4, <1>5, <1>6, <1>7, <1>8

LEMMA RequestStep == IInv /\ [Next]_vars => RequestsOK'
<1>. SUFFICES ASSUME IInv, [Next]_vars, NEW w \in Workers
              PROVE  (AcceptOK(w) /\ PublishOK(w) /\ SessionOK(w) /\ BindOK(w))'
  BY DEF RequestsOK
<1>. TypeOK /\ RequestsOK
  BY DEF IInv
<1>. DEFINE Goal == (AcceptOK(w) /\ PublishOK(w) /\ SessionOK(w) /\ BindOK(w))'
<1>. USE DEF AcceptOK, PublishOK, SessionOK, BindOK
<1>0. paid \subseteq paid' /\ \A p \in Payments : HasSession(p) => HasSession(p)'
  <2>1. paid \subseteq paid'
    BY DEF Next, vars, paymentVars, Initiate, TokenExpires, IssueToken, StatusRead,
           ClaimRead, AcceptTransaction, PublishToken, EnsureLock, NoSlot,
           BindLookup, BindSave, ClaimRefused, LockerChangeSave, PortChangeSave,
           RequestDies, Reserve, ReserveCollides, ClaimStore, LockerChangeRead,
           PortChangeRead, PortReported
  <2>. QED
    BY <2>1, TokensAndSessionsStay DEF HasSession
<1>1. CASE request'[w] = request[w]
  BY <1>0, <1>1, RequestFields, TokensAndSessionsStay DEF RequestsOK
<1>2. CASE request'[w].op \in {"idle", "issue", "setLocker", "setPort"}
  BY <1>2
<1>3. ASSUME NEW p \in Payments, Initiate(w, p) PROVE Goal
  BY <1>3 DEF Initiate, Start, TypeOK
<1>4. ASSUME NEW t \in Tokens, IssueToken(w, t) PROVE Goal
  <2>1. /\ request[w].payment \in Payments
        /\ request'[w] = [op |-> "publish", payment |-> request[w].payment, token |-> t]
        /\ flow'[t] = Flow(request[w].payment, FALSE)
    BY <1>4, RequestFields DEF IssueToken, Become, TypeOK
  <2>. QED
    BY <2>1 DEF IsTokenOf, Flow
<1>5. CASE EnsureLock(w)
  <2>1. request[w].payment \in Payments
    BY <1>5, RequestFields DEF EnsureLock
  <2>2. \/ /\ request'[w] = [op |-> "bind", payment |-> request[w].payment,
                             token |-> request[w].token]
           /\ HasSession(request[w].payment)
        \/ request'[w].op = "reserve"
    BY <1>5 DEF EnsureLock, Become, TypeOK
  <2>. QED
    BY <1>0, <2>1, <2>2
<1>6. ASSUME NEW q \in Ports, Reserve(w, q) PROVE Goal
  <2>1. /\ request[w].payment \in Payments
        /\ request'[w] = [op |-> "bind", payment |-> request[w].payment,
                          token |-> request[w].token]
        /\ session'[request[w].payment] = q /\ q # "none"
    BY <1>6, RequestFields, SlotConstants DEF Reserve, Become, TypeOK
  <2>. QED
    BY <2>1 DEF HasSession
<1>7. CASE BindLookup(w)
  <2>1. PICK p \in Payments, t \in Tokens \union {"none"} :
           /\ HasSession(p) /\ t = latest[p]
           /\ request'[w] = [op |-> "bindSave", payment |-> p,
                             token |-> request[w].token, to |-> t]
    BY <1>7, RequestFields DEF BindLookup, Become, RequestsOK, TypeOK
  <2>2. t # "none" => t \in Tokens /\ IsTokenOf(t, p)
    BY <2>1 DEF IInv, LatestOK
  <2>3. t # "none" => IsTokenOf(t, p)'
    BY <2>2, TokensAndSessionsStay
  <2>. QED
    BY <1>0, <2>1, <2>3
<1>8. ASSUME NEW t \in Tokens, ClaimRead(w, t) PROVE Goal
  <2>1. /\ flow[t].payment \in Payments /\ HasSession(flow[t].payment)
        /\ request'[w] = [op |-> "claim", payment |-> flow[t].payment]
    BY <1>8, FlowFields DEF ClaimRead, Start, IInv, BoundTokenHasSession, TypeOK
  <2>. QED
    BY <1>0, <2>1
<1>9. ASSUME NEW t \in Tokens, StatusRead(w, t) PROVE Goal
  BY <1>9 DEF StatusRead, Start, TypeOK
<1>. QED
  BY <1>1, <1>2, <1>3, <1>4, <1>5, <1>6, <1>7, <1>8, <1>9, RequestWriters

--------------------------------------------------------------------------------
(* The inductive invariant and what follows from it                         *)

LEMMA InitIInv == Init => IInv
<1>. SUFFICES ASSUME Init PROVE IInv
  OBVIOUS
<1>1. TypeOK
  BY DEF Init, TypeOK, Flows, Requests, LockerStatuses, PortStatuses
<1>2. RequestsOK
  BY DEF Init, RequestsOK, AcceptOK, PublishOK, SessionOK, BindOK, Idle
<1>3. BoundTokenHasSession
  BY DEF Init, BoundTokenHasSession, Unissued
<1>4. LatestOK /\ ClaimedHasSession /\ LockersAreExclusive /\ PinOpensLocker
  BY DEF Init, LatestOK, ClaimedHasSession, LockersAreExclusive, PinOpensLocker,
         HasSession
<1>. QED
  BY <1>1, <1>2, <1>3, <1>4 DEF IInv

LEMMA NextIInv == IInv /\ [Next]_vars => IInv'
<1>. SUFFICES ASSUME IInv, [Next]_vars PROVE IInv'
  OBVIOUS
<1>1. TypeOK'
  BY TypeStep DEF IInv
<1>. QED
  BY <1>1, SlotStep, RequestStep DEF IInv, SlotsOK

\* Requests, Redis records and database rows fit together in every reachable
\* state.
THEOREM Inductive == Spec => []IInv
BY InitIInv, NextIInv, PTL DEF Spec

\* Every variable keeps its type, and no transaction row lacks its payment.
THEOREM TypeCorrect == Spec => []TypeOK
<1>1. IInv => TypeOK
  BY DEF IInv
<1>. QED
  BY <1>1, Inductive, PTL

\* No locker serves two sessions, for any number of customers, lockers, ports
\* and administrators.
THEOREM LockersStayExclusive == Spec => []LockersAreExclusive
<1>1. IInv => LockersAreExclusive
  BY DEF IInv
<1>. QED
  BY <1>1, Inductive, PTL

\* The session, the device command and the customer have one PIN, whatever
\* claims race.
THEOREM OnePin == Spec => []PinOpensLocker
<1>1. IInv => PinOpensLocker
  BY DEF IInv
<1>. QED
  BY <1>1, Inductive, PTL

\* A Redis record that names a session never runs ahead of PostgreSQL.
THEOREM BoundTokens == Spec => []BoundTokenHasSession
<1>1. IInv => BoundTokenHasSession
  BY DEF IInv
<1>. QED
  BY <1>1, Inductive, PTL

--------------------------------------------------------------------------------
(* Whom the device serves                                                   *)

\* Past the transaction row, a request works for a payment that has one.
PayerOK(w) ==
    request[w].op \in {"issue", "publish", "ensure", "reserve", "bind", "bindSave",
                       "claim"} => request[w].payment \in accepted

PayersOK == OnlyPayersAreServed /\ \A w \in Workers : PayerOK(w)

LEMMA PayersInit == Init => PayersOK
BY DEF Init, PayersOK, OnlyPayersAreServed, PayerOK, HasSession, Idle, Unissued

LEMMA AcceptedStays ==
    ASSUME TypeOK, [Next]_vars
    PROVE  accepted \subseteq accepted'
BY DEF Next, vars, paymentVars, Initiate, TokenExpires, IssueToken, StatusRead,
       ClaimRead, AcceptTransaction, PublishToken, EnsureLock, NoSlot, BindLookup,
       BindSave, ClaimRefused, LockerChangeSave, PortChangeSave, RequestDies,
       Reserve, ReserveCollides, ClaimStore, LockerChangeRead, PortChangeRead,
       PortReported

\* A request takes the payment it works for from its own last step, from a token
\* that lives, or from a customer whose transaction is recorded.
LEMMA PayerStep ==
    ASSUME TypeOK, PayersOK, [Next]_vars, NEW w \in Workers
    PROVE  PayerOK(w)'
<1>. USE AcceptedStays, RequestFields DEF PayerOK, PayersOK, Start, Become, Finish
<1>. Idle.op = "idle"
  BY DEF Idle
<1>1. ASSUME NEW v \in Workers, NEW r, request' = [request EXCEPT ![v] = r],
             v = w => \/ r.op \notin {"issue", "publish", "ensure", "reserve", "bind",
                                      "bindSave", "claim"}
                      \/ r.payment \in accepted'
      PROVE  PayerOK(w)'
  <2>1. CASE v = w
    BY <1>1, <2>1 DEF TypeOK
  <2>2. CASE v # w
    BY <1>1, <2>2 DEF TypeOK
  <2>. QED
    BY <2>1, <2>2
<1>2. CASE UNCHANGED request
  BY <1>2 DEF TypeOK
<1>3. ASSUME NEW v \in Workers, NEW p \in Payments, Initiate(v, p)
      PROVE  PayerOK(w)'
  BY <1>1, <1>3 DEF Initiate, NeedsTransaction
<1>4. ASSUME NEW v \in Workers, AcceptTransaction(v) PROVE PayerOK(w)'
  BY <1>1, <1>4 DEF AcceptTransaction
<1>5. ASSUME NEW v \in Workers, NEW t \in Tokens,
             IssueToken(v, t) \/ StatusRead(v, t) \/ ClaimRead(v, t)
      PROVE  PayerOK(w)'
  BY <1>1, <1>5 DEF IssueToken, StatusRead, ClaimRead, OnlyPayersAreServed
<1>6. ASSUME NEW v \in Workers, EnsureLock(v) \/ BindLookup(v) PROVE PayerOK(w)'
  BY <1>1, <1>6 DEF EnsureLock, BindLookup
<1>7. ASSUME NEW v \in Workers, NEW q \in Ports, Reserve(v, q) PROVE PayerOK(w)'
  BY <1>1, <1>7 DEF Reserve
<1>8. ASSUME NEW v \in Workers, Finish(v) PROVE PayerOK(w)'
  BY <1>1, <1>8
<1>9. ASSUME NEW v \in Workers,
             \/ PublishToken(v) \/ NoSlot(v) \/ BindSave(v) \/ ClaimRefused(v)
             \/ LockerChangeSave(v) \/ PortChangeSave(v) \/ RequestDies(v)
             \/ \E q \in Ports : ReserveCollides(v, q)
             \/ \E pin \in Pins : ClaimStore(v, pin)
      PROVE  Finish(v)
  BY <1>9 DEF PublishToken, NoSlot, AfterNoSlot, BindSave, ClaimRefused,
              LockerChangeSave, PortChangeSave, RequestDies, ReserveCollides,
              ClaimStore
<1>10. ASSUME NEW v \in Workers, NEW s \in {"available", "out"},
              \/ \E l \in Lockers : LockerChangeRead(v, l, s)
              \/ \E q \in Ports : PortChangeRead(v, q, s)
       PROVE  PayerOK(w)'
  BY <1>1, <1>10 DEF LockerChangeRead, PortChangeRead
<1>. QED
  BY <1>2, <1>3, <1>4, <1>5, <1>6, <1>7, <1>8, <1>9, <1>10
     DEF Next, vars, TokenExpires, PortReported

LEMMA PayersStep == IInv /\ PayersOK /\ [Next]_vars => PayersOK'
<1>. SUFFICES ASSUME IInv, PayersOK, [Next]_vars PROVE OnlyPayersAreServed'
  BY PayerStep DEF IInv, PayersOK
<1>. TypeOK
  BY DEF IInv
<1>. USE AcceptedStays, RequestFields DEF PayersOK, OnlyPayersAreServed, HasSession
<1>1. CASE UNCHANGED <<session, claimVars, flow, latest>>
  BY <1>1 DEF claimVars, TypeOK
<1>2. ASSUME NEW w \in Workers, NEW t \in Tokens, IssueToken(w, t)
      PROVE  OnlyPayersAreServed'
  BY <1>2 DEF IssueToken, Flow, PayerOK, slotVars, claimVars, TypeOK
<1>3. ASSUME NEW w \in Workers, PublishToken(w) PROVE OnlyPayersAreServed'
  BY <1>3 DEF PublishToken, slotVars, claimVars
<1>4. ASSUME NEW w \in Workers, BindSave(w) PROVE OnlyPayersAreServed'
  <2>1. CASE flow' = flow
    BY <1>4, <2>1 DEF BindSave, slotVars, claimVars
  <2>2. CASE flow' # flow
    <3>. DEFINE to == request[w].to
    <3>1. /\ to \in Tokens /\ flow[to].state = "live"
          /\ flow' = [flow EXCEPT ![to].bound = TRUE]
      BY <1>4, <2>2 DEF BindSave
    <3>2. /\ flow'[to] = Flow(flow[to].payment, TRUE)
          /\ \A u \in Tokens \ {to} : flow'[u] = flow[u]
      BY <3>1, BindFields
    <3>3. UNCHANGED <<session, shown>>
      BY <1>4 DEF BindSave, slotVars, claimVars
    <3>. HIDE DEF to
    <3>. QED
      BY <3>1, <3>2, <3>3 DEF Flow
  <2>. QED
    BY <2>1, <2>2
<1>5. ASSUME NEW t \in Tokens, TokenExpires(t) PROVE OnlyPayersAreServed'
  BY <1>5 DEF TokenExpires, Expired, slotVars, claimVars, TypeOK
<1>6. ASSUME NEW w \in Workers, NEW q \in Ports, Reserve(w, q)
      PROVE  OnlyPayersAreServed'
  BY <1>6 DEF Reserve, PayerOK, tokenVars, claimVars, TypeOK
<1>7. ASSUME NEW w \in Workers, NEW pin \in Pins, ClaimStore(w, pin)
      PROVE  OnlyPayersAreServed'
  BY <1>7 DEF ClaimStore, PayerOK, tokenVars, slotVars, TypeOK
<1>. QED
  BY <1>1, <1>2, <1>3, <1>4, <1>5, <1>6, <1>7, SlotWriters

\* A record is never there without the one it rests on, wherever the requests that
\* write them died and however they were repeated.
THEOREM OrderIsKept == Spec => []StoresKeepOrder
<1>1. PayersOK => OnlyPayersAreServed
  BY DEF PayersOK
<1>2. Spec => []PayersOK
  BY Inductive, PayersInit, PayersStep, PTL DEF Spec
<1>. QED
  BY <1>1, <1>2, BoundTokens, PTL DEF StoresKeepOrder

--------------------------------------------------------------------------------
(* What a token was told it can do                                          *)

Asking == {"ensure", "reserve", "bind", "bindSave"}

\* A token is published by one request and once; a request that asks for a status
\* works with a token that was published; and where the lookup gave it another
\* token than its own, its own is not the latest, for good.
AskingOK(w) ==
    /\ request[w].op \in Asking =>
          request[w].token \in held /\ IsTokenOf(request[w].token, request[w].payment)
    /\ (request[w].op = "bindSave" /\ request[w].to # request[w].token) =>
          latest[request[w].payment] # request[w].token

PublishedOnce(w) ==
    request[w].op = "publish" =>
        /\ request[w].token \notin held
        /\ \A v \in Workers \ {w} :
              request[v].op = "publish" => request[v].token # request[w].token

OffersOK ==
    /\ offered \subseteq held
    /\ \A t \in held : flow[t].state # "unissued"
    /\ \A p \in Payments : latest[p] # "none" => latest[p] \in held
    /\ \A w \in Workers : AskingOK(w) /\ PublishedOnce(w)
    /\ OfferStandsForLatest

LEMMA OffersInit == Init => OffersOK
BY DEF Init, OffersOK, AskingOK, PublishedOnce, OfferStandsForLatest, Idle, Asking

\* Who writes what the offers rest on, whatever request it goes on with.
LEMMA OfferWriters ==
    [Next]_vars =>
        \/ UNCHANGED <<flow, latest, held, offered>>
        \/ \E w \in Workers, t \in Tokens : IssueToken(w, t)
        \/ \E w \in Workers : PublishToken(w) \/ BindSave(w)
        \/ \E t \in Tokens : TokenExpires(t)
BY DEF Next, vars, tokenVars, Initiate, AcceptTransaction, StatusRead, EnsureLock,
       Reserve, ReserveCollides, NoSlot, BindLookup, ClaimRead, ClaimStore,
       ClaimRefused, LockerChangeRead, LockerChangeSave, PortChangeRead,
       PortChangeSave, PortReported, RequestDies

\* A latest token that is replaced is never the latest again: what is published
\* was not published before.
LEMMA LatestMovesOn ==
    ASSUME TypeOK, OffersOK, [Next]_vars, NEW p \in Payments, NEW t \in held,
           latest[p] # t
    PROVE  latest'[p] # t
<1>1. ASSUME NEW w \in Workers, PublishToken(w) PROVE latest'[p] # t
  BY <1>1, RequestFields DEF PublishToken, OffersOK, PublishedOnce, TypeOK
<1>. QED
  BY <1>1, OfferWriters DEF IssueToken, BindSave, TokenExpires

LEMMA OfferStep ==
    ASSUME IInv, OffersOK, [Next]_vars
    PROVE  /\ (offered \subseteq held)'
           /\ (\A t \in held : flow[t].state # "unissued")'
           /\ (\A p \in Payments : latest[p] # "none" => latest[p] \in held)'
           /\ OfferStandsForLatest'
<1>. TypeOK /\ RequestsOK
  BY DEF IInv
<1>. DEFINE Goal == /\ (offered \subseteq held)'
                    /\ (\A t \in held : flow[t].state # "unissued")'
                    /\ (\A p \in Payments : latest[p] # "none" => latest[p] \in held)'
                    /\ OfferStandsForLatest'
<1>. USE DEF OffersOK, OfferStandsForLatest
<1>1. CASE UNCHANGED <<flow, latest, held, offered>>
  BY <1>1
<1>2. ASSUME NEW w \in Workers, NEW t \in Tokens, IssueToken(w, t) PROVE Goal
  <2>1. t \notin held /\ flow[t].state = "unissued"
    BY <1>2 DEF IssueToken, Unissued
  <2>2. /\ \A u \in Tokens \ {t} : flow'[u] = flow[u]
        /\ flow'[t].state = "live"
        /\ UNCHANGED <<latest, held, offered>>
    BY <1>2 DEF IssueToken, Flow, TypeOK
  <2>. QED
    BY <2>1, <2>2 DEF TypeOK
<1>3. ASSUME NEW w \in Workers, PublishToken(w) PROVE Goal
  <2>1. /\ request[w].token \in Tokens \ held
        /\ IsTokenOf(request[w].token, request[w].payment)
        /\ latest' = [latest EXCEPT ![request[w].payment] = request[w].token]
        /\ held' = held \union {request[w].token}
        /\ UNCHANGED <<flow, offered>>
    BY <1>3, RequestFields DEF PublishToken, PublishedOnce, RequestsOK, PublishOK
  <2>2. OfferStandsForLatest'
    <3>. SUFFICES ASSUME NEW t \in offered, flow[t].state = "live",
                         latest'[flow[t].payment] = t
                  PROVE  flow[t].bound
      BY <2>1
    <3>1. flow[t].payment \in Payments /\ t \in held
      BY FlowFields DEF TypeOK
    <3>. QED
      BY <3>1, LatestMovesOn
  <2>. QED
    BY <2>1, <2>2 DEF IsTokenOf, TypeOK
<1>4. ASSUME NEW t \in Tokens, TokenExpires(t) PROVE Goal
  BY <1>4 DEF TokenExpires, Expired, TypeOK
<1>5. ASSUME NEW w \in Workers, BindSave(w) PROVE Goal
  <2>. DEFINE own == request[w].token
              to == request[w].to
  <2>1. /\ own \in held /\ own \in Tokens /\ IsTokenOf(own, request[w].payment)
        /\ to # own => latest[request[w].payment] # own
        /\ to \in Tokens \union {"none"} /\ own # "none"
        /\ offered' = offered \union {own}
        /\ UNCHANGED <<latest, held>>
    BY <1>5, RequestFields, SlotConstants DEF BindSave, AskingOK, Asking
  <2>2. \A u \in Tokens :
           /\ flow'[u].state = flow[u].state
           /\ flow[u].state = "live" => /\ flow'[u].payment = flow[u].payment
                                        /\ flow[u].bound => flow'[u].bound
                                        /\ u = to => flow'[u].bound
    <3>1. CASE to # "none" /\ flow[to].state = "live"
      <4>1. to \in Tokens /\ flow' = [flow EXCEPT ![to].bound = TRUE]
        BY <1>5, <2>1, <3>1 DEF BindSave
      <4>2. /\ flow'[to] = Flow(flow[to].payment, TRUE)
            /\ \A u \in Tokens \ {to} : flow'[u] = flow[u]
        BY <3>1, <4>1, BindFields
      <4>. HIDE DEF to
      <4>. QED
        BY <3>1, <4>1, <4>2 DEF Flow
    <3>2. CASE ~(to # "none" /\ flow[to].state = "live")
      BY <1>5, <3>2, SlotConstants DEF BindSave
    <3>. QED
      BY <3>1, <3>2
  <2>. HIDE DEF own, to
  <2>3. OfferStandsForLatest'
    BY <2>1, <2>2 DEF IsTokenOf, TypeOK
  <2>. QED
    BY <2>1, <2>2, <2>3 DEF TypeOK
<1>. QED
  BY <1>1, <1>2, <1>3, <1>4, <1>5, OfferWriters

\* A request keeps the token it was asked with until it answers.
LEMMA AskingStep ==
    ASSUME IInv, OffersOK, [Next]_vars, NEW w \in Workers
    PROVE  AskingOK(w)'
<1>. TypeOK
  BY DEF IInv
<1>0. held \subseteq held'
  BY OfferWriters DEF IssueToken, PublishToken, BindSave, TokenExpires
<1>. USE DEF Start, Become
<1>1. CASE request'[w] = request[w]
  <2>. SUFFICES ASSUME request[w].op \in Asking PROVE AskingOK(w)'
    BY <1>1 DEF AskingOK, Asking
  <2>1. PICK t \in held, p \in Payments :
           request[w].token = t /\ request[w].payment = p /\ t \in Tokens /\ IsTokenOf(t, p)
    BY RequestFields DEF Asking, OffersOK, AskingOK
  <2>2. IsTokenOf(t, p)'
    BY <2>1, TokensAndSessionsStay
  <2>3. latest[p] # t => latest'[p] # t
    BY <2>1, LatestMovesOn
  <2>4. request'[w].token \in held' /\ IsTokenOf(request[w].token, request[w].payment)'
    BY <1>0, <1>1, <2>1, <2>2 DEF IsTokenOf
  <2>5. request[w].op = "bindSave" /\ request[w].to # t => latest[p] # t
    BY <2>1 DEF OffersOK, AskingOK
  <2>. QED
    BY <1>1, <2>1, <2>3, <2>4, <2>5 DEF AskingOK
<1>2. ASSUME request'[w].op \notin Asking PROVE AskingOK(w)'
  BY <1>2 DEF AskingOK, Asking
<1>3. ASSUME NEW p \in Payments, Initiate(w, p) PROVE AskingOK(w)'
  BY <1>2, <1>3 DEF Initiate, Asking, TypeOK
<1>4. ASSUME NEW t \in Tokens, IssueToken(w, t) \/ ClaimRead(w, t) PROVE AskingOK(w)'
  <2>1. CASE IssueToken(w, t)
    BY <1>2, <2>1 DEF IssueToken, Asking, TypeOK
  <2>2. CASE ClaimRead(w, t)
    <3>1. request'[w] = [op |-> "claim", payment |-> flow[t].payment]
      BY <2>2 DEF ClaimRead, TypeOK
    <3>. QED
      BY <1>2, <3>1 DEF Asking
  <2>. QED
    BY <1>4, <2>1, <2>2
<1>5. ASSUME NEW t \in Tokens, StatusRead(w, t) PROVE AskingOK(w)'
  <2>1. /\ t \in held /\ flow[t].state = "live"
        /\ request'[w] = [op |-> "ensure", payment |-> flow[t].payment, token |-> t]
        /\ UNCHANGED <<flow, held>>
    BY <1>5 DEF StatusRead, tokenVars, TypeOK
  <2>. QED
    BY <2>1 DEF AskingOK, IsTokenOf
<1>6. ASSUME request[w].op \in Asking, request'[w].op \in Asking \ {"bindSave"},
             request'[w].token = request[w].token,
             request'[w].payment = request[w].payment,
             UNCHANGED <<flow, held>>
      PROVE  AskingOK(w)'
  BY <1>6 DEF OffersOK, AskingOK, IsTokenOf, Asking
<1>7. CASE EnsureLock(w)
  <2>1. /\ request[w].op = "ensure" /\ UNCHANGED <<flow, held>>
        /\ \/ request'[w] = [op |-> "bind", payment |-> request[w].payment,
                             token |-> request[w].token]
           \/ request'[w] = [op |-> "reserve", payment |-> request[w].payment,
                             token |-> request[w].token, free |-> Free]
    BY <1>7 DEF EnsureLock, tokenVars, TypeOK
  <2>. QED
    BY <1>6, <2>1 DEF Asking
<1>8. ASSUME NEW q \in Ports, Reserve(w, q) PROVE AskingOK(w)'
  <2>1. /\ request[w].op = "reserve" /\ UNCHANGED <<flow, held>>
        /\ request'[w] = [op |-> "bind", payment |-> request[w].payment,
                          token |-> request[w].token]
    BY <1>8 DEF Reserve, tokenVars, TypeOK
  <2>. QED
    BY <1>6, <2>1 DEF Asking
<1>9. CASE BindLookup(w)
  <2>1. /\ request[w].op = "bind" /\ UNCHANGED <<flow, held, latest>>
        /\ request'[w] = [op |-> "bindSave", payment |-> request[w].payment,
                          token |-> request[w].token,
                          to |-> latest[request[w].payment]]
    BY <1>9 DEF BindLookup, tokenVars, TypeOK
  <2>. QED
    BY <2>1 DEF OffersOK, AskingOK, IsTokenOf, Asking
<1>. QED
  BY <1>1, <1>2, <1>3, <1>4, <1>5, <1>7, <1>8, <1>9, RequestWriters DEF Asking

\* A token is given to a request before its record exists, and to no other.
LEMMA PublishedStep ==
    ASSUME IInv, OffersOK, [Next]_vars
    PROVE  (\A w \in Workers : PublishedOnce(w))'
<1>. TypeOK /\ RequestsOK
  BY DEF IInv
<1>. USE DEF Start, Become
<1>1. ASSUME NEW w \in Workers, request'[w].op = "publish",
             ~\E t \in Tokens : IssueToken(w, t)
      PROVE  request'[w] = request[w]
  BY <1>1, RequestWriters
     DEF Initiate, StatusRead, ClaimRead, EnsureLock, BindLookup, Reserve, TypeOK
<1>2. ASSUME NEW w \in Workers, request[w].op = "publish"
      PROVE  flow[request[w].token].state # "unissued"
  BY <1>2 DEF RequestsOK, PublishOK, IsTokenOf
<1>3. ASSUME NEW v \in Workers, NEW t \in Tokens, IssueToken(v, t)
      PROVE  (\A w \in Workers : PublishedOnce(w))'
  <2>1. /\ flow[t].state = "unissued" /\ t \notin held /\ held' = held
        /\ request'[v].token = t
        /\ \A w \in Workers \ {v} : request'[w] = request[w]
    BY <1>3 DEF IssueToken, Unissued, OffersOK, TypeOK
  <2>. QED
    BY <1>2, <2>1 DEF OffersOK, PublishedOnce
<1>4. ASSUME \A v \in Workers, t \in Tokens : ~IssueToken(v, t)
      PROVE  (\A w \in Workers : PublishedOnce(w))'
  <2>1. \A w \in Workers : request'[w].op = "publish" => request'[w] = request[w]
    BY <1>1, <1>4
  <2>2. ASSUME NEW w \in Workers, request'[w].op = "publish"
        PROVE  request[w].token \notin held'
    <3>1. request[w].op = "publish" /\ PublishedOnce(w)
      BY <2>1, <2>2 DEF OffersOK
    <3>2. ASSUME NEW v \in Workers, PublishToken(v)
          PROVE  request[w].token \notin held'
      <4>1. v # w
        BY <2>2, <3>2 DEF PublishToken, Finish, Idle, TypeOK
      <4>. QED
        BY <3>1, <3>2, <4>1 DEF PublishToken, PublishedOnce
    <3>3. ASSUME held' = held PROVE request[w].token \notin held'
      BY <3>1, <3>3 DEF PublishedOnce
    <3>. QED
      BY <1>4, <3>2, <3>3, OfferWriters DEF BindSave, TokenExpires
  <2>. QED
    BY <2>1, <2>2 DEF OffersOK, PublishedOnce
<1>. QED
  BY <1>3, <1>4

LEMMA OffersStep == IInv /\ OffersOK /\ [Next]_vars => OffersOK'
BY OfferStep, AskingStep, PublishedStep DEF OffersOK

\* For any number of tokens, requests and lost answers, an offer is void only
\* where another token of the payment was published after it.
THEOREM OffersStand == Spec => []OfferStandsForLatest
<1>1. OffersOK => OfferStandsForLatest
  BY DEF OffersOK
<1>2. Spec => []OffersOK
  BY Inductive, OffersInit, OffersStep, PTL DEF Spec
<1>. QED
  BY <1>1, <1>2, PTL

--------------------------------------------------------------------------------
(* The services implement the allocation                                    *)

LEMMA AllocationInit == Init => Allocation!Init
BY DEF Init, Allocation!Init

LEMMA AllocationStep == IInv /\ [Next]_vars => [Allocation!Next]_Allocation!vars
<1>. SUFFICES ASSUME IInv, [Next]_vars
              PROVE  Allocation!Next \/ UNCHANGED <<session, code>>
  BY DEF Allocation!vars
<1>. TypeOK /\ RequestsOK
  BY DEF IInv
<1>1. ASSUME NEW w \in Workers, NEW q \in Ports, Reserve(w, q)
      PROVE  Allocation!Next
  <2>1. /\ request[w].payment \in Payments
        /\ Allocation!Assign(request[w].payment, q)
    BY <1>1, RequestFields
       DEF Reserve, Admitted, HasSession, Occupied, claimVars, Allocation!Assign
  <2>. QED
    BY <2>1 DEF Allocation!Next
<1>2. ASSUME NEW w \in Workers, NEW pin \in Pins, ClaimStore(w, pin)
      PROVE  Allocation!Next
  <2>1. /\ request[w].payment \in Payments
        /\ Allocation!Claim(request[w].payment, pin)
    BY <1>2, RequestFields
       DEF ClaimStore, Unclaimed, RequestsOK, SessionOK, HasSession, slotVars,
           Allocation!Claim
  <2>. QED
    BY <2>1 DEF Allocation!Next
<1>. QED
  BY <1>1, <1>2, SlotWriters
     DEF IssueToken, PublishToken, BindSave, TokenExpires, claimVars, slotVars

\* The services keep the promise to the customers: one slot, a locker of their
\* own, one PIN, for any number of all of them.
THEOREM AllocationImplemented == Spec => ImplementsAllocation
BY AllocationInit, AllocationStep, Inductive, PTL
   DEF Spec, ImplementsAllocation, Allocation!Spec

\* What the allocation itself promises, by its steps alone: payments with a slot
\* are in different lockers, and a PIN is of a payment with a slot.
AllocationPromise ==
    /\ session \in [Payments -> Ports \union {"none"}]
    /\ code \in [Payments -> Pins \union {"none"}]
    /\ LockersAreExclusive
    /\ ClaimedHasSession

\* Neither the slot nor the PIN of a payment is ever replaced.
AllocationIsFinal ==
    [][\A p \in Payments : /\ HasSession(p) => session'[p] = session[p]
                           /\ code[p] # "none" => code'[p] = code[p]]_<<session, code>>

\* The abstract specification says what its comment says: exclusive lockers, and
\* a slot and a PIN that stay, for the services that implement it as well.
THEOREM AllocationKeepsPromise ==
    Allocation!Spec => []AllocationPromise /\ AllocationIsFinal
<1>. DEFINE Keeps == \A p \in Payments :
                        /\ HasSession(p) => session'[p] = session[p]
                        /\ code[p] # "none" => code'[p] = code[p]
<1>1. Allocation!Init => AllocationPromise
  BY DEF Allocation!Init, AllocationPromise, LockersAreExclusive, ClaimedHasSession,
         HasSession
<1>2. ASSUME AllocationPromise, [Allocation!Next]_(Allocation!vars)
      PROVE  AllocationPromise' /\ [Keeps]_<<session, code>>
  <2>. USE DEF AllocationPromise, LockersAreExclusive, ClaimedHasSession, HasSession
  <2>1. ASSUME NEW p \in Payments, NEW q \in Ports, Allocation!Assign(p, q)
        PROVE  AllocationPromise' /\ Keeps
    <3>1. q # "none"
      BY SlotConstants
    <3>. QED
      BY <1>2, <2>1, <3>1 DEF Allocation!Assign
  <2>2. ASSUME NEW p \in Payments, NEW pin \in Pins, Allocation!Claim(p, pin)
        PROVE  AllocationPromise' /\ Keeps
    BY <1>2, <2>2 DEF Allocation!Claim
  <2>3. CASE UNCHANGED <<session, code>>
    BY <1>2, <2>3
  <2>. QED
    BY <1>2, <2>1, <2>2, <2>3 DEF Allocation!Next, Allocation!vars
<1>. QED
  BY <1>1, <1>2, PTL DEF Allocation!Spec, Allocation!vars, AllocationIsFinal
===============================================================================

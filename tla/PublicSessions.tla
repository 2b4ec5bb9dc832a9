---------------------------- MODULE PublicSessions -----------------------------
(***************************************************************************)
(* The customer side of one device (src/src/apps/public-charging): a public *)
(* payment, its flow tokens in Redis, the charging session created for it   *)
(* when its status is read, the locker reserved with it, and the PIN claim; *)
(* and the administrators and device events that change lockers and ports   *)
(* meanwhile.  A payment is identified by its idempotency key and is        *)
(* confirmed from the start, a session by its payment.                      *)
(***************************************************************************)
EXTENDS FiniteSets

CONSTANTS
    Payments,    \* idempotency keys customers pay under
    Lockers,
    Ports,
    LockerOf,    \* charging_ports.locker_id
    Tokens,      \* customer flow tokens
    Pins,        \* access codes
    Workers      \* HTTP requests a server can have in flight

ASSUME SlotConstants ==
    /\ LockerOf \in [Ports -> Lockers]
    /\ "none" \notin Ports \union Pins \union Tokens

VARIABLES
    paid,       \* payments with a row
    accepted,   \* payments with a qr_payment_transactions row
    flow,       \* public:flow:<token> in Redis: its payment, and whether the
                \* record names the session
    latest,     \* public:payment-flow:<payment> in Redis: the token it points to
    session,    \* charging_port_id of the payment's session, or "none"
    locker,     \* lockers.availability_status; "out": none of the first two
    port,       \* charging_ports.status; "out": not 'available'
    alerted,    \* the PUBLIC_SLOT_UNAVAILABLE alert is open
    code,       \* the PIN behind charging_sessions.access_code_hash
    command,    \* the PIN behind the verifier in the charging.prepare command
    held,       \* tokens sent to a customer (one that is lost is never used)
    offered,    \* tokens whose status response had canClaimLockerPin
    shown,      \* PINs sent to the customer
    request     \* what each in-flight request read and does next

paymentVars == <<paid, accepted>>
tokenVars   == <<flow, latest, held>>
slotVars    == <<session, locker, port, alerted>>
claimVars   == <<code, command, shown>>
vars == <<paid, accepted, flow, latest, session, locker, port, alerted, code,
          command, held, offered, shown, request>>

Idle    == [op |-> "idle"]
Unissued == [state |-> "unissued"]
Expired  == [state |-> "expired"]
Flow(p, bound) == [state |-> "live", payment |-> p, bound |-> bound]
Flows    == {Unissued, Expired} \union
            [state : {"live"}, payment : Payments, bound : BOOLEAN]

LockerStatuses == {"available", "reserved", "out"}
PortStatuses   == {"available", "out"}

Requests == {Idle}
      \union [op : {"accept", "issue"}, payment : Payments]
      \union [op : {"publish"}, payment : Payments, token : Tokens]
      \union [op : {"ensure", "bind"}, payment : Payments, token : Tokens]
      \union [op : {"reserve"}, payment : Payments, token : Tokens, free : SUBSET Ports]
      \union [op : {"bindSave"}, payment : Payments, token : Tokens,
              to : Tokens \union {"none"}]
      \union [op : {"claim"}, payment : Payments]
      \union [op : {"setLocker"}, locker : Lockers, to : {"available", "out"}]
      \union [op : {"setPort"}, port : Ports, to : {"available", "out"}]

TypeOK ==
    /\ accepted \subseteq paid /\ paid \subseteq Payments
    /\ flow \in [Tokens -> Flows]
    /\ latest \in [Payments -> Tokens \union {"none"}]
    /\ session \in [Payments -> Ports \union {"none"}]
    /\ locker \in [Lockers -> LockerStatuses]
    /\ port \in [Ports -> PortStatuses]
    /\ alerted \in BOOLEAN
    /\ code \in [Payments -> Pins \union {"none"}]
    /\ command \in [Payments -> Pins \union {"none"}]
    /\ held \subseteq Tokens
    /\ offered \subseteq Tokens
    /\ shown \in [Payments -> SUBSET Pins]
    /\ request \in [Workers -> Requests]

Init ==
    /\ paid = {} /\ accepted = {}
    /\ flow = [t \in Tokens |-> Unissued]
    /\ latest = [p \in Payments |-> "none"]
    /\ session = [p \in Payments |-> "none"]
    /\ locker = [l \in Lockers |-> "available"]
    /\ port = [q \in Ports |-> "available"]
    /\ alerted = FALSE
    /\ code = [p \in Payments |-> "none"]
    /\ command = [p \in Payments |-> "none"]
    /\ held = {} /\ offered = {}
    /\ shown = [p \in Payments |-> {}]
    /\ request = [w \in Workers |-> Idle]

Start(w, r)  == request[w] = Idle /\ request' = [request EXCEPT ![w] = r]
Become(w, r) == request' = [request EXCEPT ![w] = r]
Finish(w)    == request' = [request EXCEPT ![w] = Idle]

HasSession(p) == session[p] # "none"
Occupied(l)   == \E p \in Payments : HasSession(p) /\ LockerOf[session[p]] = l

-------------------------------------------------------------------------------
(* Paying: the payment row, its transaction row, a token record and the      *)
(* lookup that points to the token are four writes.  A repeated request      *)
(* finds the rows and is issued another token; of two that race, the unique  *)
(* keys let one insert and end the other in an error.                        *)

NeedsTransactionIfNew(p) == p \notin paid
NeedsTransaction(p) == p \notin accepted

Initiate(w, p) ==
    /\ Start(w, [op |-> IF NeedsTransaction(p) THEN "accept" ELSE "issue", payment |-> p])
    /\ paid' = paid \union {p}
    /\ UNCHANGED <<accepted, tokenVars, slotVars, claimVars, offered>>

AcceptTransaction(w) ==
    /\ request[w].op = "accept"
    /\ request[w].payment \notin accepted
    /\ accepted' = accepted \union {request[w].payment}
    /\ Become(w, [op |-> "issue", payment |-> request[w].payment])
    /\ UNCHANGED <<paid, tokenVars, slotVars, claimVars, offered>>

IssueToken(w, t) ==
    /\ request[w].op = "issue"
    /\ flow[t] = Unissued
    /\ flow' = [flow EXCEPT ![t] = Flow(request[w].payment, FALSE)]
    /\ Become(w, [op |-> "publish", payment |-> request[w].payment, token |-> t])
    /\ UNCHANGED <<paymentVars, latest, held, slotVars, claimVars, offered>>

PublishToken(w) ==
    /\ request[w].op = "publish"
    /\ latest' = [latest EXCEPT ![request[w].payment] = request[w].token]
    /\ held' = held \union {request[w].token}
    /\ Finish(w)
    /\ UNCHANGED <<paymentVars, flow, slotVars, claimVars, offered>>

TokenExpires(t) ==
    /\ flow[t].state = "live"
    /\ flow' = [flow EXCEPT ![t] = Expired]
    /\ UNCHANGED <<paymentVars, latest, held, slotVars, claimVars, offered, request>>

-------------------------------------------------------------------------------
(* Reading the status: the session is found or created in a transaction that *)
(* holds the payment row, then bound to the token the lookup points to.      *)

StatusRead(w, t) ==
    /\ t \in held
    /\ flow[t].state = "live"
    /\ Start(w, [op |-> "ensure", payment |-> flow[t].payment, token |-> t])
    /\ UNCHANGED <<paymentVars, tokenVars, slotVars, claimVars, offered>>

\* The slots one statement sees: both rows available, no session on either.
Free == {q \in Ports : /\ locker[LockerOf[q]] = "available"
                       /\ port[q] = "available"
                       /\ ~Occupied(LockerOf[q])}

PaymentUnlocked(w, p) ==
    \A v \in Workers \ {w} : request[v].op = "reserve" => request[v].payment # p

EnsureLockBindsNew(w) ==
    /\ request[w].op = "ensure"
    /\ LET p == request[w].payment
           t == request[w].token
       IN /\ PaymentUnlocked(w, p)
          /\ offered' = offered \union (IF HasSession(p) THEN {t} ELSE {})
          /\ Become(w, IF HasSession(p) THEN Idle
                       ELSE [op |-> "reserve", payment |-> p, token |-> t, free |-> Free])
    /\ UNCHANGED <<paymentVars, tokenVars, slotVars, claimVars>>

EnsureLock(w) ==
    /\ request[w].op = "ensure"
    /\ LET p == request[w].payment
           t == request[w].token
       IN /\ PaymentUnlocked(w, p)
          /\ IF HasSession(p)
             THEN Become(w, [op |-> "bind", payment |-> p, token |-> t])
             ELSE Become(w, [op |-> "reserve", payment |-> p, token |-> t,
                             free |-> Free])
    /\ UNCHANGED <<paymentVars, tokenVars, slotVars, claimVars, offered>>

\* FOR UPDATE looks again at the statuses of the rows it locks, not at the
\* sessions; SKIP LOCKED may pass over any row another transaction holds.
Lockable(w, q) ==
    /\ q \in request[w].free
    /\ locker[LockerOf[q]] = "available"
    /\ port[q] = "available"

\* The unique indexes on the lockers of live sessions and on linked payments.
AdmittedToAnyLocker(w, q) == ~HasSession(request[w].payment)
Admitted(w, q) == ~HasSession(request[w].payment) /\ ~Occupied(LockerOf[q])

ReservedStatusMisnamed == "occupied"
ReservedStatus == "reserved"

Reserve(w, q) ==
    /\ request[w].op = "reserve"
    /\ Lockable(w, q)
    /\ Admitted(w, q)
    /\ session' = [session EXCEPT ![request[w].payment] = q]
    /\ locker' = [locker EXCEPT ![LockerOf[q]] = ReservedStatus]
    /\ Become(w, [op |-> "bind", payment |-> request[w].payment,
                  token |-> request[w].token])
    /\ UNCHANGED <<paymentVars, tokenVars, port, alerted, claimVars, offered>>

\* An index refuses a row and the transaction is rolled back.
ReserveCollides(w, q) ==
    /\ request[w].op = "reserve"
    /\ Lockable(w, q)
    /\ ~Admitted(w, q)
    /\ Finish(w)
    /\ UNCHANGED <<paymentVars, tokenVars, slotVars, claimVars, offered>>

\* Nothing to lock, or every such row skipped: no session in the response.  Of
\* two requests that both find no open alert, one ends in an error.
AfterNoSlotBound(w) == [op |-> "bind", payment |-> request[w].payment,
                        token |-> request[w].token]
AfterNoSlot(w) == Idle

NoSlot(w) ==
    /\ request[w].op = "reserve"
    /\ alerted' = TRUE
    /\ Become(w, AfterNoSlot(w))
    /\ UNCHANGED <<paymentVars, tokenVars, session, locker, port, claimVars, offered>>

BindLookup(w) ==
    /\ request[w].op = "bind"
    /\ Become(w, [op |-> "bindSave", payment |-> request[w].payment,
                  token |-> request[w].token,
                  to |-> latest[request[w].payment]])
    /\ UNCHANGED <<paymentVars, tokenVars, slotVars, claimVars, offered>>

\* A record that expired since is written back, but no longer honoured.
BindSave(w) ==
    /\ request[w].op = "bindSave"
    /\ LET to == request[w].to IN
         flow' = IF to # "none" /\ flow[to].state = "live"
                 THEN [flow EXCEPT ![to].bound = TRUE] ELSE flow
    /\ offered' = offered \union {request[w].token}
    /\ Finish(w)
    /\ UNCHANGED <<paymentVars, latest, held, slotVars, claimVars>>

-------------------------------------------------------------------------------
(* Claiming the PIN: checks without a lock, then a transaction that locks    *)
(* the session, looks again, stores the verifier and queues charging.prepare *)
(* under a key of the session.                                               *)

ClaimRead(w, t) ==
    /\ t \in held
    /\ flow[t].state = "live"
    /\ flow[t].bound
    /\ code[flow[t].payment] = "none"
    /\ Start(w, [op |-> "claim", payment |-> flow[t].payment])
    /\ UNCHANGED <<paymentVars, tokenVars, slotVars, claimVars, offered>>

UnclaimedUnlocked(p) == TRUE
Unclaimed(p) == code[p] = "none"

ClaimStore(w, pin) ==
    /\ request[w].op = "claim"
    /\ LET p == request[w].payment IN
         /\ Unclaimed(p)
         /\ code' = [code EXCEPT ![p] = pin]
         /\ command' = [command EXCEPT ![p] = IF @ = "none" THEN pin ELSE @]
         /\ shown' = [shown EXCEPT ![p] = @ \union {pin}]
    /\ Finish(w)
    /\ UNCHANGED <<paymentVars, tokenVars, slotVars, offered>>

ClaimRefused(w) ==
    /\ request[w].op = "claim"
    /\ code[request[w].payment] # "none"
    /\ Finish(w)
    /\ UNCHANGED <<paymentVars, tokenVars, slotVars, claimVars, offered>>

-------------------------------------------------------------------------------
(* Administrators change a status from counts read before; a device reports  *)
(* the status of a port.                                                     *)

LockerChangeRead(w, l, s) ==
    /\ ~Occupied(l)
    /\ Start(w, [op |-> "setLocker", locker |-> l, to |-> s])
    /\ UNCHANGED <<paymentVars, tokenVars, slotVars, claimVars, offered>>

LockerChangeSave(w) ==
    /\ request[w].op = "setLocker"
    /\ locker' = [locker EXCEPT ![request[w].locker] = request[w].to]
    /\ Finish(w)
    /\ UNCHANGED <<paymentVars, tokenVars, session, port, alerted, claimVars, offered>>

\* Only taking a port out of use asks for sessions.
PortChangeRead(w, q, s) ==
    /\ s = "out" => \A p \in Payments : session[p] # q
    /\ Start(w, [op |-> "setPort", port |-> q, to |-> s])
    /\ UNCHANGED <<paymentVars, tokenVars, slotVars, claimVars, offered>>

PortChangeSave(w) ==
    /\ request[w].op = "setPort"
    /\ port' = [port EXCEPT ![request[w].port] = request[w].to]
    /\ Finish(w)
    /\ UNCHANGED <<paymentVars, tokenVars, session, locker, alerted, claimVars, offered>>

\* 'available' is refused while a session is 'active', which none ever is.
PortReported(q, s) ==
    /\ port' = [port EXCEPT ![q] = s]
    /\ UNCHANGED <<paymentVars, tokenVars, session, locker, alerted, claimVars,
                   offered, request>>

RequestDies(w) ==
    /\ request[w] # Idle
    /\ Finish(w)
    /\ UNCHANGED <<paymentVars, tokenVars, slotVars, claimVars, offered>>

Next ==
    \/ \E w \in Workers, p \in Payments : Initiate(w, p)
    \/ \E t \in Tokens : TokenExpires(t)
    \/ \E w \in Workers, t \in Tokens :
          IssueToken(w, t) \/ StatusRead(w, t) \/ ClaimRead(w, t)
    \/ \E w \in Workers :
          \/ AcceptTransaction(w) \/ PublishToken(w)
          \/ EnsureLock(w) \/ NoSlot(w) \/ BindLookup(w) \/ BindSave(w)
          \/ ClaimRefused(w)
          \/ LockerChangeSave(w) \/ PortChangeSave(w)
          \/ RequestDies(w)
    \/ \E w \in Workers, q \in Ports : Reserve(w, q) \/ ReserveCollides(w, q)
    \/ \E w \in Workers, pin \in Pins : ClaimStore(w, pin)
    \/ \E w \in Workers, s \in {"available", "out"} :
          \/ \E l \in Lockers : LockerChangeRead(w, l, s)
          \/ \E q \in Ports : PortChangeRead(w, q, s)
    \/ \E q \in Ports, s \in PortStatuses : PortReported(q, s)

Spec == Init /\ [][Next]_vars

-------------------------------------------------------------------------------
(* Safety *)

\* No locker serves two sessions, although a reservation looks for sessions in
\* a snapshot older than its locks and an administrator may meanwhile put a
\* locker back to 'available' from a count that is stale.
LockersAreExclusive ==
    \A p, o \in Payments :
        (p # o /\ HasSession(p) /\ HasSession(o))
            => LockerOf[session[p]] # LockerOf[session[o]]

\* The PIN a customer has been shown, the verifier the session keeps and the
\* verifier the device receives are of one PIN, whatever claims raced.
PinOpensLocker ==
    \A p \in Payments :
        /\ shown[p] \subseteq {code[p]}
        /\ command[p] = code[p]

\* The record of a token in Redis names a session only if PostgreSQL has it,
\* although the two are written one after the other.
BoundTokenHasSession ==
    \A t \in Tokens :
        (flow[t].state = "live" /\ flow[t].bound) => HasSession(flow[t].payment)

\* A token that was told it can claim the PIN can do so, whichever of the requests
\* that created the session or found it have died, unless another token of the
\* payment has been published since.
OfferStandsForLatest ==
    \A t \in offered :
        flow[t].state = "live" /\ latest[flow[t].payment] = t => flow[t].bound

\* Tokens, sessions and PINs are only for payments the provider's transaction is
\* recorded for, also when a repeat goes on with a payment whose first request
\* died between the two rows, or races one that is still between them.
OnlyPayersAreServed ==
    /\ \A p \in Payments : HasSession(p) \/ shown[p] # {} => p \in accepted
    /\ \A t \in Tokens : flow[t].state = "live" => flow[t].payment \in accepted

\* Payment, transaction, session and token record are written one after the other,
\* in two stores, by requests that may end between any two of them: none is ever
\* there without the one it rests on.
StoresKeepOrder == BoundTokenHasSession /\ OnlyPayersAreServed

Allocation == INSTANCE SlotAllocation
ImplementsAllocation == Allocation!Spec

-------------------------------------------------------------------------------
(* What the interface says.                                                  *)

\* A status response with canClaimLockerPin tells the customer that the token
\* it was asked with can claim the PIN.
OfferStands ==
    \A t \in offered : flow[t].state = "live" => flow[t].bound
===============================================================================

------------------------------ MODULE Payments -------------------------------
(***************************************************************************)
(* Device-initiated payments (src/src/apps/payments): a row of the payments *)
(* table, its QR transaction, the coin events credited to it, and every     *)
(* service that writes them.  A database transaction is one action.  A      *)
(* service that reads a row first and writes it in a later statement or     *)
(* transaction is two actions with its request record in between, because   *)
(* the webhook, a coin, the expiry timer or another request may commit in   *)
(* the gap.  A payment is identified by the idempotency key it was opened   *)
(* under; a request that repeats a key returns the row unchanged.           *)
(***************************************************************************)
EXTENDS Naturals, FiniteSets, FiniteSetsExt

CONSTANTS
    CoinPayments,     \* idempotency keys of payments by coin
    QrPayments,       \* idempotency keys of payments by QR
    CoinEvents,       \* payment.coin_inserted events of the devices
    Workers,          \* HTTP requests a server can have in flight
    Timers,           \* runs of the expiry timer that can overlap
    Price,            \* expected_amount_minor, from the package snapshot
    CoinValues,       \* denominations of coin.pulse_mapping; 0: unmapped pulses
    BatchLimit,       \* rows one expiry run takes (100 in the code)
    MaxRefundCalls    \* bound: refund calls to the provider per payment

Payments == CoinPayments \union QrPayments

ASSUME PaymentConstants ==
    /\ CoinPayments \intersect QrPayments = {}
    /\ Price \in Nat \ {0}
    /\ CoinValues \subseteq Nat
    /\ BatchLimit \in Nat \ {0}
    /\ MaxRefundCalls \in Nat

VARIABLES
    status,       \* payments.status; "none" before the row exists
    received,     \* payments.received_amount_minor
    confirmed,    \* payments with confirmed_at set
    qr,           \* qr_payment_transactions.provider_status; "none": no row
    due,          \* payments past the pending window or their qr_expires_at
    refundCalls,  \* refunds the provider has executed
    event,        \* device_events row of a coin event
    coin,         \* coin_insertions row of a coin event
    request,      \* what each in-flight request read and does next
    batch         \* the candidates each running expiry batch has read

vars == <<status, received, confirmed, qr, due, refundCalls, event, coin,
          request, batch>>

\* The status of PaymentStatusPolicy.
Live     == {"pending", "processing"}
Terminal == {"failed", "expired", "cancelled", "refunded"}
Statuses == {"none", "confirmed"} \union Live \union Terminal

QrStatuses == {"none", "pending", "confirmed", "failed", "expired",
               "cancelled", "refunded"}
WebhookStatuses == {"confirmed", "failed", "expired"}

\* An event names the payment and, through the pulse mapping, the value.
Idle     == [op |-> "idle"]
NoEvent  == [state |-> "none"]
EventRows == {NoEvent} \union
             [state : {"received", "processed", "failed"},
              payment : Payments, value : CoinValues]
Requests == {Idle}
      \union [op : {"openQr"}, payment : QrPayments]
      \union [op : {"cancel"}, payment : Payments, withQr : BOOLEAN]
      \union [op : {"refund", "refundSave"}, payment : QrPayments]
      \union [op : {"coin", "coinDone", "coinFailed"}, event : CoinEvents]

TypeOK ==
    /\ status \in [Payments -> Statuses]
    /\ received \in [Payments -> Nat]
    /\ confirmed \subseteq Payments
    /\ qr \in [QrPayments -> QrStatuses]
    /\ due \subseteq Payments
    /\ refundCalls \in [QrPayments -> Nat]
    /\ event \in [CoinEvents -> EventRows]
    /\ coin \in [CoinEvents -> {"none", "accepted", "rejected"}]
    /\ request \in [Workers -> Requests]
    /\ batch \in [Timers -> SUBSET Payments]

Init ==
    /\ status = [p \in Payments |-> "none"]
    /\ received = [p \in Payments |-> 0]
    /\ confirmed = {}
    /\ qr = [p \in QrPayments |-> "none"]
    /\ due = {}
    /\ refundCalls = [p \in QrPayments |-> 0]
    /\ event = [e \in CoinEvents |-> NoEvent]
    /\ coin = [e \in CoinEvents |-> "none"]
    /\ request = [w \in Workers |-> Idle]
    /\ batch = [t \in Timers |-> {}]

IsTerminal(s) == s \in Terminal \union {"confirmed"}

\* PaymentStatusPolicy.assertTransition: what the service lets through.
MayBecome(from, to) ==
    \/ from = to
    \/ from = "pending" /\ to \in {"processing", "confirmed", "failed",
                                   "expired", "cancelled"}
    \/ from = "processing" /\ to \in {"confirmed", "failed", "expired", "cancelled"}
    \/ from = "confirmed" /\ to = "refunded"

\* The idempotency key is looked up, and unique in the table.
UnopenedWithoutKey(p) == TRUE
Unopened(p) == status[p] = "none"

Start(w, r)  == request[w] = Idle /\ request' = [request EXCEPT ![w] = r]
Become(w, r) == request' = [request EXCEPT ![w] = r]
Finish(w)    == request' = [request EXCEPT ![w] = Idle]

-----------------------------------------------------------------------------
(* Initiation: insert the row; for QR, then create the provider transaction *)
(* and its row, or write 'failed' when that throws.                         *)

OpenCoin(p) ==
    /\ p \in CoinPayments
    /\ Unopened(p)
    /\ status' = [status EXCEPT ![p] = "pending"]
    /\ UNCHANGED <<received, confirmed, qr, due, refundCalls, event, coin,
                   request, batch>>

OpenQr(w, p) ==
    /\ p \in QrPayments
    /\ Unopened(p)
    /\ Start(w, [op |-> "openQr", payment |-> p])
    /\ status' = [status EXCEPT ![p] = "pending"]
    /\ UNCHANGED <<received, confirmed, qr, due, refundCalls, event, coin, batch>>

\* The status the provider adapter reports for a transaction it created.
CreatedStatusUnmapped == "accepted"
CreatedStatus == "pending"

CreateQrTransaction(w) ==
    /\ request[w].op = "openQr"
    /\ qr' = [qr EXCEPT ![request[w].payment] = CreatedStatus]
    /\ Finish(w)
    /\ UNCHANGED <<status, received, confirmed, due, refundCalls, event, coin, batch>>

\* The update names only the id: whatever the row holds by now is overwritten.
QrCreationFails(w) ==
    /\ request[w].op = "openQr"
    /\ status' = [status EXCEPT ![request[w].payment] = "failed"]
    /\ Finish(w)
    /\ UNCHANGED <<received, confirmed, qr, due, refundCalls, event, coin, batch>>

-----------------------------------------------------------------------------
(* Cancellation by the device: a read with its checks, then a transaction.  *)

HasQrRow(p) == p \in QrPayments /\ qr[p] # "none"

CancelRead(w, p) ==
    /\ status[p] # "none"
    /\ ~IsTerminal(status[p])
    /\ MayBecome(status[p], "cancelled")
    /\ Start(w, [op |-> "cancel", payment |-> p, withQr |-> HasQrRow(p)])
    /\ UNCHANGED <<status, received, confirmed, qr, due, refundCalls, event,
                   coin, batch>>

CancelCommit(w) ==
    /\ request[w].op = "cancel"
    /\ LET p == request[w].payment IN
         /\ qr' = IF request[w].withQr THEN [qr EXCEPT ![p] = "cancelled"] ELSE qr
         /\ status' = [status EXCEPT ![p] = "cancelled"]
    /\ Finish(w)
    /\ UNCHANGED <<received, confirmed, due, refundCalls, event, coin, batch>>

-----------------------------------------------------------------------------
(* The provider's webhook: one transaction under FOR UPDATE.  A different   *)
(* status for a terminal payment, or a wrong amount, leaves the rows alone. *)

PaymentData(p, s) ==
    /\ status' = [status EXCEPT ![p] = s]
    /\ received' = IF s = "confirmed" THEN [received EXCEPT ![p] = Price]
                                      ELSE received
    /\ confirmed' = IF s = "confirmed" THEN confirmed \union {p} ELSE confirmed

UpdatePaymentStatus(p, s) ==
    /\ MayBecome(status[p], s)
    /\ qr' = [qr EXCEPT ![p] = s]
    /\ PaymentData(p, s)

Webhook(p, s) ==
    /\ HasQrRow(p)
    /\ IsTerminal(status[p]) => status[p] = s
    /\ UpdatePaymentStatus(p, s)
    /\ UNCHANGED <<due, refundCalls, event, coin, request, batch>>

-----------------------------------------------------------------------------
(* Refund by an administrator: a read with its checks, the provider's call, *)
(* then the transaction that records it.                                    *)

RefundableAfterSale(p) == status[p] \in {"confirmed", "cancelled"}
Refundable(p) == status[p] = "confirmed" /\ MayBecome(status[p], "refunded")

RefundRead(w, p) ==
    /\ HasQrRow(p)
    /\ Refundable(p)
    /\ Start(w, [op |-> "refund", payment |-> p])
    /\ UNCHANGED <<status, received, confirmed, qr, due, refundCalls, event,
                   coin, batch>>

\* A request without an idempotency key gets a random one, so that the provider
\* cannot tell a repeat from a second refund.
RefundAtProvider(w) ==
    /\ request[w].op = "refund"
    /\ LET p == request[w].payment IN
         /\ refundCalls[p] < MaxRefundCalls
         /\ refundCalls' = [refundCalls EXCEPT ![p] = @ + 1]
         /\ Become(w, [op |-> "refundSave", payment |-> p])
    /\ UNCHANGED <<status, received, confirmed, qr, due, event, coin, batch>>

RefundedAtOnce(w) == request[w].op \in {"refund", "refundSave"}
RefundedAtProvider(w) == request[w].op = "refundSave"

RefundCommit(w) ==
    /\ RefundedAtProvider(w)
    /\ LET p == request[w].payment IN
         /\ qr' = [qr EXCEPT ![p] = "refunded"]
         /\ status' = [status EXCEPT ![p] = "refunded"]
    /\ Finish(w)
    /\ UNCHANGED <<received, confirmed, due, refundCalls, event, coin, batch>>

-----------------------------------------------------------------------------
(* Coin events: the event row is inserted, the handler's transaction runs   *)
(* under FOR UPDATE, and a third write records how processing ended.  A     *)
(* repeated delivery finds the event row and changes nothing.               *)

CoinArrives(w, e, p, v) ==
    /\ event[e] = NoEvent
    /\ Start(w, [op |-> "coin", event |-> e])
    /\ event' = [event EXCEPT ![e] =
                    [state |-> "received", payment |-> p, value |-> v]]
    /\ UNCHANGED <<status, received, confirmed, qr, due, refundCalls, coin, batch>>

\* The coin_insertions row is unique per event; the payment must be a coin
\* payment of this device that is not terminal.
TakesCoinAnyStatus(e) ==
    /\ coin[e] = "none"
    /\ event[e].payment \in CoinPayments
    /\ status[event[e].payment] # "none"
TakesCoin(e) ==
    /\ coin[e] = "none"
    /\ event[e].payment \in CoinPayments
    /\ status[event[e].payment] # "none"
    /\ ~IsTerminal(status[event[e].payment])

CreditReplaces(p, v) == v
Credit(p, v) == received[p] + v

ReachesAbove(total) == total > Price
Reaches(total) == total >= Price

AcceptCoin(w) ==
    /\ request[w].op = "coin"
    /\ LET e     == request[w].event
           p     == event[e].payment
           total == Credit(p, event[e].value)
           next  == IF Reaches(total) THEN "confirmed" ELSE "processing"
       IN /\ TakesCoin(e)
          /\ event[e].value > 0
          /\ MayBecome(status[p], next)
          /\ coin' = [coin EXCEPT ![e] = "accepted"]
          /\ received' = [received EXCEPT ![p] = total]
          /\ status' = [status EXCEPT ![p] = next]
          /\ confirmed' = IF next = "confirmed" THEN confirmed \union {p}
                                                ELSE confirmed
          /\ Become(w, [op |-> "coinDone", event |-> e])
    /\ UNCHANGED <<qr, due, refundCalls, event, batch>>

\* Pulses without a mapping: a rejected row, and the payment is left alone.
RejectCoin(w) ==
    /\ request[w].op = "coin"
    /\ LET e == request[w].event IN
         /\ TakesCoin(e)
         /\ event[e].value = 0
         /\ coin' = [coin EXCEPT ![e] = "rejected"]
         /\ Become(w, [op |-> "coinDone", event |-> e])
    /\ UNCHANGED <<status, received, confirmed, qr, due, refundCalls, event, batch>>

\* The handler throws: its transaction leaves no coin_insertions row behind.
ThrownButProcessed(e) == [op |-> "coinDone", event |-> e]
Thrown(e) == [op |-> "coinFailed", event |-> e]

RefuseCoin(w) ==
    /\ request[w].op = "coin"
    /\ LET e == request[w].event IN
         /\ ~TakesCoin(e)
         /\ Become(w, Thrown(e))
    /\ UNCHANGED <<status, received, confirmed, qr, due, refundCalls, event,
                   coin, batch>>

MarkProcessed(w) ==
    /\ request[w].op = "coinDone"
    /\ event' = [event EXCEPT ![request[w].event].state = "processed"]
    /\ Finish(w)
    /\ UNCHANGED <<status, received, confirmed, qr, due, refundCalls, coin, batch>>

\* The catch around the handler also covers the update to 'processed'.
MarkFailed(w) ==
    /\ request[w].op \in {"coinDone", "coinFailed"}
    /\ event' = [event EXCEPT ![request[w].event].state = "failed"]
    /\ Finish(w)
    /\ UNCHANGED <<status, received, confirmed, qr, due, refundCalls, coin, batch>>

-----------------------------------------------------------------------------
(* Time and the expiry timer.                                               *)

\* A coin payment's window ends; a QR transaction reaches its qr_expires_at.
Deadline(p) ==
    /\ status[p] # "none"
    /\ p \in CoinPayments \/ HasQrRow(p)
    /\ p \notin due
    /\ due' = due \union {p}
    /\ UNCHANGED <<status, received, confirmed, qr, refundCalls, event, coin,
                   request, batch>>

ExpirablePending == {p \in due : status[p] = "pending"}
Expirable == {p \in due : status[p] \in Live}

TakeSize == IF Cardinality(Expirable) < BatchLimit THEN Cardinality(Expirable)
                                                   ELSE BatchLimit

\* findMany with take: any TakeSize rows, in no particular order.
ExpireRead(t) ==
    /\ batch[t] = {}
    /\ Expirable # {}
    /\ \E rows \in SUBSET Expirable :
         /\ Cardinality(rows) = TakeSize
         /\ batch' = [batch EXCEPT ![t] = rows]
    /\ UNCHANGED <<status, received, confirmed, qr, due, refundCalls, event,
                   coin, request>>

\* updateMany repeats the status condition on the rows the batch has read.
AllOfBatch(t) == batch[t]
StillLive(t) == {p \in batch[t] : status[p] \in Live}

QrAnyOpen(p) == qr[p] # "none"
QrOpen(p) == qr[p] = "pending"

ExpireCommit(t) ==
    /\ batch[t] # {}
    /\ qr' = [p \in QrPayments |->
                 IF p \in batch[t] /\ QrOpen(p) THEN "expired" ELSE qr[p]]
    /\ status' = [p \in Payments |->
                     IF p \in StillLive(t) THEN "expired" ELSE status[p]]
    /\ batch' = [batch EXCEPT ![t] = {}]
    /\ UNCHANGED <<received, confirmed, due, refundCalls, event, coin, request>>

-----------------------------------------------------------------------------
(* A request or a timer run ends between two of its steps: the process      *)
(* stops, a connection is lost, or PostgreSQL aborts the transaction.       *)

RequestDies(w) ==
    /\ request[w] # Idle
    /\ Finish(w)
    /\ UNCHANGED <<status, received, confirmed, qr, due, refundCalls, event,
                   coin, batch>>

BatchDies(t) ==
    /\ batch[t] # {}
    /\ batch' = [batch EXCEPT ![t] = {}]
    /\ UNCHANGED <<status, received, confirmed, qr, due, refundCalls, event,
                   coin, request>>

WorkerStep(w) ==
    \/ CreateQrTransaction(w) \/ QrCreationFails(w)
    \/ CancelCommit(w)
    \/ RefundAtProvider(w) \/ RefundCommit(w)
    \/ AcceptCoin(w) \/ RejectCoin(w) \/ RefuseCoin(w)
    \/ MarkProcessed(w) \/ MarkFailed(w)

Next ==
    \/ \E p \in Payments : OpenCoin(p) \/ Deadline(p)
    \/ \E w \in Workers, p \in Payments :
          OpenQr(w, p) \/ CancelRead(w, p) \/ RefundRead(w, p)
    \/ \E p \in QrPayments, s \in WebhookStatuses : Webhook(p, s)
    \/ \E w \in Workers, e \in CoinEvents, p \in Payments, v \in CoinValues :
          CoinArrives(w, e, p, v)
    \/ \E w \in Workers : WorkerStep(w) \/ RequestDies(w)
    \/ \E t \in Timers : ExpireRead(t) \/ ExpireCommit(t) \/ BatchDies(t)

Spec == Init /\ [][Next]_vars

(***************************************************************************)
(* The interval timer keeps running, a request in flight goes on unless it  *)
(* dies, and deadlines pass.  A batch may fail any number of times, but not *)
(* every time from some point on: strong fairness of its transaction.       *)
(***************************************************************************)
Fairness ==
    /\ \A p \in Payments : WF_vars(Deadline(p))
    /\ \A w \in Workers : WF_vars(WorkerStep(w))
    /\ \A t \in Timers : WF_vars(ExpireRead(t)) /\ SF_vars(ExpireCommit(t))

FairSpec == Spec /\ Fairness

-----------------------------------------------------------------------------
(* Safety *)

\* A payment is confirmed exactly when the full price has been received, and
\* only a payment that was confirmed reads 'confirmed' or 'refunded': what the
\* trigger validate_payment_state demands of every write, met by every service
\* without ever tripping it.
ConfirmedIffPaid ==
    \A p \in Payments :
        /\ p \in confirmed <=> received[p] >= Price
        /\ status[p] \in {"confirmed", "refunded"} => p \in confirmed

\* However a batch read earlier, a late webhook or a coin interleave, money
\* that was confirmed never ends as 'failed' or 'expired', and no coin takes
\* the payment back to a live status.
ConfirmedNeverLapses ==
    \A p \in confirmed : status[p] \in {"confirmed", "refunded", "cancelled"}

\* The payment and its QR transaction are written by separate statements of
\* five services and still agree: an outcome of a QR payment is that of its
\* transaction, and a transaction the provider confirmed belongs to a payment
\* that is confirmed or was cancelled.
ProviderAgrees ==
    \A p \in QrPayments :
        /\ status[p] \in {"confirmed", "refunded", "expired"} => qr[p] = status[p]
        /\ status[p] \in Live => qr[p] \in {"none", "pending"}
        /\ qr[p] = "confirmed" => status[p] \in {"confirmed", "cancelled"}

CreditedTo(p) ==
    {e \in CoinEvents : coin[e] = "accepted" /\ event[e].payment = p}

\* received_amount_minor of a coin payment is the sum of its accepted coin
\* rows, across concurrent coins, retries and requests that died half-way.
CoinsAreCredited ==
    \A p \in CoinPayments :
        received[p] = MapThenSumSet(LAMBDA e : event[e].value, CreditedTo(p))

\* An event marked 'processed' has left its coin_insertions row.
ProcessedCoinHasRow ==
    \A e \in CoinEvents :
        event[e] # NoEvent /\ event[e].state = "processed" => coin[e] # "none"

\* A payment is recorded as refunded only after the provider has paid back.
RefundIsBacked ==
    \A p \in QrPayments : status[p] = "refunded" => refundCalls[p] > 0

\* The provider pays back only what somebody has paid.
OnlyPaidIsRefunded ==
    \A p \in QrPayments : refundCalls[p] > 0 => p \in confirmed

\* A refund is of money: nothing is recorded as paid back, and nothing is paid
\* back, that was not paid, however often refunds are asked for, retried or lost
\* half-way.
RefundsAreDue == RefundIsBacked /\ OnlyPaidIsRefunded

\* What a confirmed payment has received is final: no late coin, repeated webhook
\* or request that read the payment before adds to the amount or replaces it, and
\* no timer or failed QR creation writes the payment off.
ConfirmedIsKept ==
    [][\A p \in confirmed :
          /\ p \in confirmed'
          /\ received'[p] = received[p]
          /\ status'[p] \in {"confirmed", "refunded", "cancelled"}]_vars

\* The services together implement the promise of the payments table.
Ledger == INSTANCE PaymentLedger
ImplementsLedger == Ledger!Spec

-----------------------------------------------------------------------------
(* Liveness *)

\* A live payment past its deadline, with the row the deadline is kept in,
\* is brought to an end by the expiry timer, if nothing else ends it first.
StalePaymentsEnd ==
    \A p \in Payments :
        (p \in due /\ status[p] \in Live) ~> status[p] \notin Live

-----------------------------------------------------------------------------
(* What the documentation says of payments.                                 *)

\* docs/payments.md, Status Rules, list confirmed -> refunded as the only
\* change of a confirmed payment.
ConfirmedIsOnlyRefunded ==
    [][\A p \in Payments :
          status[p] = "confirmed" => MayBecome("confirmed", status'[p])]_vars

\* docs/payments.md: refunds are limited to confirmed QR payments, and a
\* refunded payment is confirmed no more, so the provider pays each payment
\* back at most once.  The service checks the row before it calls the provider
\* and writes it afterwards: two requests read the row confirmed, or one is
\* repeated after the first died between the two.
RefundedOnce == \A p \in QrPayments : refundCalls[p] <= 1

\* docs/payments.md, Expiration: the expiration service expires stale pending
\* and processing payments, so none stays live for ever.
EveryLivePaymentEnds ==
    \A p \in Payments : status[p] \in Live ~> status[p] \notin Live
=============================================================================

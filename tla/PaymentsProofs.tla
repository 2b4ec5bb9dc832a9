---------------------------- MODULE PaymentsProofs ---------------------------
(***************************************************************************)
(* Theorems about Payments for every set of payments, coins, requests and   *)
(* timers, and every price and denomination.                                *)
(***************************************************************************)
EXTENDS Payments, FiniteSetTheorems, WellFoundedInduction, TLAPS

(* What a request in flight relies on when it writes.                       *)

\* Only one request opens a QR payment, and nobody else gives it a row.
OpeningOK(w) ==
    request[w].op = "openQr" =>
        /\ qr[request[w].payment] = "none"
        /\ status[request[w].payment] \in {"pending", "cancelled"}
        /\ request[w].payment \notin confirmed
        /\ \A v \in Workers \ {w} :
              request[v].op = "openQr" => request[v].payment # request[w].payment

CancelOK(w) ==
    request[w].op = "cancel" =>
        /\ status[request[w].payment] # "none"
        /\ request[w].withQr => HasQrRow(request[w].payment)

RefundOK(w) ==
    request[w].op \in {"refund", "refundSave"} =>
        /\ request[w].payment \in confirmed
        /\ qr[request[w].payment] # "none"
        /\ request[w].op = "refundSave" => refundCalls[request[w].payment] > 0

StartedOK(w) ==
    request[w].op \in {"coin", "coinDone", "coinFailed"} =>
        event[request[w].event] # NoEvent

CoinOK(w) ==
    /\ StartedOK(w)
    /\ request[w].op = "coinDone" => coin[request[w].event] # "none"

RequestsOK == \A w \in Workers : OpeningOK(w) /\ CancelOK(w) /\ RefundOK(w) /\ CoinOK(w)

\* A payment with a deadline has the row the deadline is kept in.
HasDeadlineRow(p) == status[p] # "none" /\ (p \in QrPayments => qr[p] # "none")

DeadlinesOK ==
    /\ \A p \in due : HasDeadlineRow(p)
    /\ \A t \in Timers : \A p \in batch[t] : HasDeadlineRow(p)
    /\ \A p \in QrPayments : status[p] = "none" => qr[p] = "none"

MoneyOK == ConfirmedIffPaid /\ ConfirmedNeverLapses /\ ProviderAgrees

IInv ==
    /\ TypeOK
    /\ MoneyOK
    /\ RequestsOK
    /\ DeadlinesOK
    /\ RefundIsBacked
    /\ ProcessedCoinHasRow

-----------------------------------------------------------------------------
(* Type correctness *)

\* The fields a request carries, by the operation it performs.
LEMMA RequestFields ==
    ASSUME TypeOK, NEW w \in Workers
    PROVE  /\ request[w].op \in {"idle", "openQr", "cancel", "refund",
                                 "refundSave", "coin", "coinDone", "coinFailed"}
           /\ request[w].op \in {"openQr", "refund", "refundSave"} =>
                 request[w].payment \in QrPayments
           /\ request[w].op = "cancel" =>
                 request[w].payment \in Payments /\ request[w].withQr \in BOOLEAN
           /\ request[w].op \in {"coin", "coinDone", "coinFailed"} =>
                 request[w].event \in CoinEvents
<1>1. request[w] \in Requests
  BY DEF TypeOK
<1>. QED
  BY <1>1 DEF Requests, Idle

LEMMA EventFields ==
    ASSUME TypeOK, NEW e \in CoinEvents, event[e] # NoEvent
    PROVE  /\ event[e].payment \in Payments
           /\ event[e].value \in CoinValues
           /\ event[e].state \in {"received", "processed", "failed"}
           /\ event[e] = [state |-> event[e].state, payment |-> event[e].payment,
                          value |-> event[e].value]
<1>1. event[e] \in EventRows
  BY DEF TypeOK
<1>. QED
  BY <1>1 DEF EventRows, NoEvent

\* Every action keeps the types.
LEMMA TypeStep ==
    TypeOK /\ (\A w \in Workers : StartedOK(w)) /\ [Next]_vars => TypeOK'
<1>. SUFFICES ASSUME TypeOK, \A w \in Workers : StartedOK(w), [Next]_vars
              PROVE  TypeOK'
  OBVIOUS
<1>. USE DEF Start, Become, Finish
<1>1. ASSUME NEW p \in Payments, OpenCoin(p) PROVE TypeOK'
  BY <1>1 DEF OpenCoin, TypeOK, Statuses, Live
<1>2. ASSUME NEW p \in Payments, Deadline(p) PROVE TypeOK'
  BY <1>2 DEF Deadline, TypeOK
<1>3. ASSUME NEW w \in Workers, NEW p \in Payments, OpenQr(w, p) PROVE TypeOK'
  BY <1>3 DEF OpenQr, TypeOK, Statuses, Live, Requests
<1>4. ASSUME NEW w \in Workers, NEW p \in Payments, CancelRead(w, p) PROVE TypeOK'
  BY <1>4 DEF CancelRead, TypeOK, Requests, HasQrRow
<1>5. ASSUME NEW w \in Workers, NEW p \in Payments, RefundRead(w, p) PROVE TypeOK'
  BY <1>5 DEF RefundRead, Refundable, TypeOK, Requests, HasQrRow
<1>6. ASSUME NEW p \in QrPayments, NEW s \in WebhookStatuses, Webhook(p, s)
      PROVE  TypeOK'
  <2>1. s \in Statuses /\ s \in QrStatuses /\ p \in Payments
    BY DEF WebhookStatuses, Statuses, QrStatuses, Terminal, Payments
  <2>. QED
    BY <1>6, <2>1, PaymentConstants DEF Webhook, UpdatePaymentStatus, PaymentData,
         TypeOK
<1>7. ASSUME NEW w \in Workers, NEW e \in CoinEvents, NEW p \in Payments,
             NEW v \in CoinValues, CoinArrives(w, e, p, v)
      PROVE  TypeOK'
  <2>1. /\ [op |-> "coin", event |-> e] \in Requests
        /\ [state |-> "received", payment |-> p, value |-> v] \in EventRows
    BY DEF Requests, EventRows
  <2>. QED
    BY <1>7, <2>1 DEF CoinArrives, TypeOK
<1>8. ASSUME NEW w \in Workers, WorkerStep(w) PROVE TypeOK'
  <2>. USE RequestFields
  <2>0. Idle \in Requests
    BY DEF Requests
  <2>1. CASE CreateQrTransaction(w)
    BY <2>0, <2>1 DEF CreateQrTransaction, CreatedStatus, TypeOK, QrStatuses
  <2>2. CASE QrCreationFails(w)
    BY <2>0, <2>2 DEF QrCreationFails, TypeOK, Statuses, Terminal, Payments
  <2>3. CASE CancelCommit(w)
    BY <2>0, <2>3 DEF CancelCommit, TypeOK, Statuses, Terminal, QrStatuses
  <2>4. CASE RefundAtProvider(w)
    <3>1. [op |-> "refundSave", payment |-> request[w].payment] \in Requests
      BY <2>4 DEF RefundAtProvider, Requests
    <3>. QED
      BY <2>4, <3>1 DEF RefundAtProvider, TypeOK
  <2>5. CASE RefundCommit(w)
    BY <2>0, <2>5 DEF RefundCommit, RefundedAtProvider, TypeOK, Statuses,
                      Terminal, QrStatuses, Payments
  <2>6. CASE AcceptCoin(w)
    <3>. DEFINE e == request[w].event
                p == event[e].payment
                total == Credit(p, event[e].value)
    <3>1. e \in CoinEvents /\ event[e] # NoEvent
      BY <2>6 DEF AcceptCoin, StartedOK
    <3>2. p \in Payments /\ event[e].value \in Nat
      BY <3>1, EventFields, PaymentConstants
    <3>3. total \in Nat
      BY <3>2 DEF Credit, TypeOK
    <3>4. [op |-> "coinDone", event |-> e] \in Requests
      BY <3>1 DEF Requests
    <3>. QED
      BY <2>6, <3>1, <3>2, <3>3, <3>4 DEF AcceptCoin, TypeOK, Statuses, Live
  <2>7. CASE RejectCoin(w)
    <3>1. [op |-> "coinDone", event |-> request[w].event] \in Requests
      BY <2>7 DEF RejectCoin, Requests
    <3>. QED
      BY <2>7, <3>1 DEF RejectCoin, TypeOK
  <2>8. CASE RefuseCoin(w)
    <3>1. Thrown(request[w].event) \in Requests
      BY <2>8 DEF RefuseCoin, Thrown, Requests
    <3>. QED
      BY <2>8, <3>1 DEF RefuseCoin, TypeOK
  <2>9. CASE MarkProcessed(w)
    <3>1. request[w].event \in CoinEvents /\ event[request[w].event] # NoEvent
      BY <2>9 DEF MarkProcessed, StartedOK
    <3>. QED
      BY <2>0, <2>9, <3>1, EventFields DEF MarkProcessed, TypeOK, EventRows
  <2>10. CASE MarkFailed(w)
    <3>1. request[w].event \in CoinEvents /\ event[request[w].event] # NoEvent
      BY <2>10 DEF MarkFailed, StartedOK
    <3>. QED
      BY <2>0, <2>10, <3>1, EventFields DEF MarkFailed, TypeOK, EventRows
  <2>. QED
    BY <1>8, <2>1, <2>2, <2>3, <2>4, <2>5, <2>6, <2>7, <2>8, <2>9, <2>10
       DEF WorkerStep
<1>9. ASSUME NEW w \in Workers, RequestDies(w) PROVE TypeOK'
  BY <1>9 DEF RequestDies, TypeOK, Requests
<1>10. ASSUME NEW t \in Timers, ExpireRead(t) PROVE TypeOK'
  BY <1>10 DEF ExpireRead, Expirable, TypeOK
<1>11. ASSUME NEW t \in Timers, ExpireCommit(t) PROVE TypeOK'
  BY <1>11 DEF ExpireCommit, StillLive, TypeOK, Statuses, Terminal, QrStatuses
<1>12. ASSUME NEW t \in Timers, BatchDies(t) PROVE TypeOK'
  BY <1>12 DEF BatchDies, TypeOK
<1>13. CASE UNCHANGED vars
  BY <1>13 DEF vars, TypeOK
<1>. QED
  BY <1>1, <1>2, <1>3, <1>4, <1>5, <1>6, <1>7, <1>8, <1>9, <1>10, <1>11,
     <1>12, <1>13 DEF Next

-----------------------------------------------------------------------------
(* The money invariants *)

moneyVars == <<status, received, confirmed, qr>>

\* Only these actions write a payment's status, money or transaction.
LEMMA MoneyWriters ==
    [Next]_vars =>
        \/ UNCHANGED moneyVars
        \/ \E p \in Payments : OpenCoin(p)
        \/ \E w \in Workers, p \in Payments : OpenQr(w, p)
        \/ \E p \in QrPayments, s \in WebhookStatuses : Webhook(p, s)
        \/ \E w \in Workers : \/ CreateQrTransaction(w) \/ QrCreationFails(w)
                              \/ CancelCommit(w) \/ RefundCommit(w)
                              \/ AcceptCoin(w)
        \/ \E t \in Timers : ExpireCommit(t)
BY DEF Next, WorkerStep, vars, moneyVars, Deadline, CancelRead, RefundRead,
       CoinArrives, RefundAtProvider, RejectCoin, RefuseCoin, MarkProcessed,
       MarkFailed, RequestDies, ExpireRead, BatchDies

LEMMA MoneyStep == IInv /\ [Next]_vars => MoneyOK'
<1>. SUFFICES ASSUME IInv, [Next]_vars PROVE MoneyOK'
  OBVIOUS
<1>. USE DEF MoneyOK, ConfirmedIffPaid, ConfirmedNeverLapses, ProviderAgrees
<1>. TypeOK /\ MoneyOK /\ RequestsOK /\ DeadlinesOK
  BY DEF IInv
<1>. /\ Price \in Nat \ {0}
     /\ CoinPayments \intersect QrPayments = {}
  BY PaymentConstants
<1>1. CASE UNCHANGED moneyVars
  BY <1>1 DEF moneyVars
<1>2. ASSUME NEW p \in Payments, OpenCoin(p) PROVE MoneyOK'
  BY <1>2 DEF OpenCoin, Unopened, TypeOK, Payments, DeadlinesOK
<1>3. ASSUME NEW w \in Workers, NEW p \in Payments, OpenQr(w, p) PROVE MoneyOK'
  <2>1. qr[p] = "none" /\ status[p] = "none" /\ p \in QrPayments
    BY <1>3 DEF OpenQr, Unopened, DeadlinesOK
  <2>. QED
    BY <1>3, <2>1 DEF OpenQr, TypeOK, Payments, Live
<1>4. ASSUME NEW p \in QrPayments, NEW s \in WebhookStatuses, Webhook(p, s)
      PROVE  MoneyOK'
  <2>1. s \in {"confirmed", "failed", "expired"} /\ p \in Payments
    BY DEF WebhookStatuses, Payments
  <2>2. status[p] \in {"pending", "processing"} \/ status[p] = s
    BY <1>4 DEF Webhook, UpdatePaymentStatus, PaymentData, HasQrRow, MayBecome,
                IsTerminal, Terminal, DeadlinesOK
  <2>3. CASE s = "confirmed"
    <3>1. /\ status' = [status EXCEPT ![p] = "confirmed"]
          /\ qr' = [qr EXCEPT ![p] = "confirmed"]
          /\ received' = [received EXCEPT ![p] = Price]
          /\ confirmed' = confirmed \union {p}
      BY <1>4, <2>3 DEF Webhook, UpdatePaymentStatus, PaymentData
    <3>. QED
      BY <2>1, <3>1 DEF TypeOK, Payments, Live
  <2>4. CASE s # "confirmed"
    <3>1. /\ status' = [status EXCEPT ![p] = s]
          /\ qr' = [qr EXCEPT ![p] = s]
          /\ received' = received /\ confirmed' = confirmed
      BY <1>4, <2>4 DEF Webhook, UpdatePaymentStatus, PaymentData
    <3>2. p \notin confirmed
      BY <2>1, <2>2, <2>4
    <3>. QED
      BY <2>1, <2>4, <3>1, <3>2 DEF TypeOK, Payments, Live
  <2>. QED
    BY <2>3, <2>4
<1>5. ASSUME NEW w \in Workers, CreateQrTransaction(w) PROVE MoneyOK'
  <2>1. /\ request[w].payment \in QrPayments
        /\ status[request[w].payment] \in {"pending", "cancelled"}
    BY <1>5, RequestFields DEF CreateQrTransaction, RequestsOK, OpeningOK
  <2>. QED
    BY <1>5, <2>1 DEF CreateQrTransaction, CreatedStatus, TypeOK
<1>6. ASSUME NEW w \in Workers, QrCreationFails(w) PROVE MoneyOK'
  <2>1. /\ request[w].payment \in QrPayments
        /\ qr[request[w].payment] = "none"
        /\ status[request[w].payment] \in {"pending", "cancelled"}
    BY <1>6, RequestFields DEF QrCreationFails, RequestsOK, OpeningOK
  <2>2. request[w].payment \notin confirmed
    BY <1>6, RequestFields DEF QrCreationFails, RequestsOK, OpeningOK
  <2>. QED
    BY <1>6, <2>1, <2>2 DEF QrCreationFails, TypeOK, Payments, Live
<1>7. ASSUME NEW w \in Workers, CancelCommit(w) PROVE MoneyOK'
  <2>1. request[w].payment \in Payments
    BY <1>7, RequestFields DEF CancelCommit
  <2>. QED
    BY <1>7, <2>1 DEF CancelCommit, TypeOK, Payments, Live
<1>8. ASSUME NEW w \in Workers, RefundCommit(w) PROVE MoneyOK'
  <2>1. request[w].payment \in QrPayments /\ request[w].payment \in confirmed
    BY <1>8, RequestFields
       DEF RefundCommit, RefundedAtProvider, RequestsOK, RefundOK
  <2>. QED
    BY <1>8, <2>1 DEF RefundCommit, TypeOK, Payments, Live
<1>9. ASSUME NEW w \in Workers, AcceptCoin(w) PROVE MoneyOK'
  <2>. DEFINE e == request[w].event
              p == event[e].payment
              total == received[p] + event[e].value
  <2>1. e \in CoinEvents /\ event[e] # NoEvent
    BY <1>9, RequestFields DEF AcceptCoin, RequestsOK, CoinOK, StartedOK
  <2>2. event[e].value \in Nat
    BY <2>1, EventFields, PaymentConstants
  <2>3. p \in CoinPayments /\ p \in Payments /\ p \notin QrPayments
    BY <1>9 DEF AcceptCoin, TakesCoin, Payments
  <2>4. p \notin confirmed
    BY <1>9, <2>3 DEF AcceptCoin, TakesCoin, IsTerminal, Terminal
  <2>5. CASE total >= Price
    <3>1. /\ received' = [received EXCEPT ![p] = total]
          /\ status' = [status EXCEPT ![p] = "confirmed"]
          /\ confirmed' = confirmed \union {p}
          /\ qr' = qr
      BY <1>9, <2>5 DEF AcceptCoin, Credit, Reaches
    <3>. HIDE DEF p, total
    <3>. QED
      BY <2>3, <2>4, <2>5, <3>1 DEF TypeOK, Payments, Live
  <2>6. CASE ~(total >= Price)
    <3>1. /\ received' = [received EXCEPT ![p] = total]
          /\ status' = [status EXCEPT ![p] = "processing"]
          /\ confirmed' = confirmed
          /\ qr' = qr
      BY <1>9, <2>6 DEF AcceptCoin, Credit, Reaches
    <3>. HIDE DEF p, total
    <3>. QED
      BY <2>3, <2>4, <2>6, <3>1 DEF TypeOK, Payments, Live
  <2>. QED
    BY <2>5, <2>6
<1>10. ASSUME NEW t \in Timers, ExpireCommit(t) PROVE MoneyOK'
  <2>1. \A p \in QrPayments : p \in batch[t] => qr[p] # "none"
    BY DEF DeadlinesOK, HasDeadlineRow, TypeOK
  <2>2. \A p \in StillLive(t) :
           p \in batch[t] /\ p \notin confirmed /\ status[p] \in Live
    BY DEF StillLive, Live, TypeOK
  <2>. QED
    BY <1>10, <2>1, <2>2 DEF ExpireCommit, QrOpen, StillLive, TypeOK, Payments, Live
<1>. QED
  BY <1>1, <1>2, <1>3, <1>4, <1>5, <1>6, <1>7, <1>8, <1>9, <1>10, MoneyWriters

-----------------------------------------------------------------------------
(* The rows a request or a batch relies on do not go away under it.         *)

\* A row never disappears, a deadline needs one, and a confirmed_at, a coin
\* row, an event row and an executed refund are never taken back.
LEMMA RowsStay ==
    ASSUME IInv, [Next]_vars
    PROVE  /\ \A p \in Payments : status[p] # "none" => status'[p] # "none"
           /\ \A p \in QrPayments : qr[p] # "none" => qr'[p] # "none"
           /\ confirmed \subseteq confirmed'
           /\ \A e \in CoinEvents : event[e] # NoEvent => event'[e] # NoEvent
           /\ \A e \in CoinEvents : coin[e] # "none" => coin'[e] # "none"
           /\ \A p \in QrPayments : refundCalls[p] > 0 => refundCalls'[p] > 0
<1>. TypeOK
  BY DEF IInv
<1>1. \A p \in Payments : status[p] # "none" => status'[p] # "none"
  BY MoneyWriters
     DEF moneyVars, OpenCoin, OpenQr, Webhook, UpdatePaymentStatus, PaymentData,
         WebhookStatuses, CreateQrTransaction, QrCreationFails, CancelCommit,
         RefundCommit, AcceptCoin, ExpireCommit, StillLive, TypeOK
<1>2. \A p \in QrPayments : qr[p] # "none" => qr'[p] # "none"
  <2>1. CASE UNCHANGED qr
    BY <2>1
  <2>2. ASSUME NEW p \in QrPayments, NEW s \in QrStatuses \ {"none"},
               qr' = [qr EXCEPT ![p] = s]
        PROVE  \A q \in QrPayments : qr[q] # "none" => qr'[q] # "none"
    BY <2>2 DEF TypeOK
  <2>3. ASSUME NEW t \in Timers, ExpireCommit(t)
        PROVE  \A p \in QrPayments : qr[p] # "none" => qr'[p] # "none"
    BY <2>3 DEF ExpireCommit
  <2>4. ASSUME NEW p \in QrPayments, NEW s \in WebhookStatuses, Webhook(p, s)
        PROVE  \E r \in QrStatuses \ {"none"} : qr' = [qr EXCEPT ![p] = r]
    BY <2>4 DEF Webhook, UpdatePaymentStatus, PaymentData, WebhookStatuses, QrStatuses
  <2>5. ASSUME NEW w \in Workers,
               CreateQrTransaction(w) \/ CancelCommit(w) \/ RefundCommit(w)
        PROVE  \/ UNCHANGED qr
               \/ \E p \in QrPayments, r \in QrStatuses \ {"none"} :
                     qr' = [qr EXCEPT ![p] = r]
    <3>1. CASE CreateQrTransaction(w)
      <4>. "pending" \in QrStatuses \ {"none"}
        BY DEF QrStatuses
      <4>. QED
        BY <3>1, RequestFields DEF CreateQrTransaction, CreatedStatus
    <3>2. CASE CancelCommit(w)
      <4>. "cancelled" \in QrStatuses \ {"none"}
        BY DEF QrStatuses
      <4>. request[w].withQr => request[w].payment \in QrPayments
        BY <3>2 DEF CancelCommit, IInv, RequestsOK, CancelOK, HasQrRow
      <4>. QED
        BY <3>2 DEF CancelCommit
    <3>3. CASE RefundCommit(w)
      <4>. "refunded" \in QrStatuses \ {"none"}
        BY DEF QrStatuses
      <4>. QED
        BY <3>3, RequestFields DEF RefundCommit, RefundedAtProvider
    <3>. QED
      BY <2>5, <3>1, <3>2, <3>3
  <2>6. \/ UNCHANGED qr
        \/ \E p \in QrPayments, r \in QrStatuses \ {"none"} :
              qr' = [qr EXCEPT ![p] = r]
        \/ \E t \in Timers : ExpireCommit(t)
    BY <2>4, <2>5, MoneyWriters
       DEF moneyVars, OpenCoin, OpenQr, QrCreationFails, AcceptCoin
  <2>. QED
    BY <2>1, <2>2, <2>3, <2>6
<1>3. confirmed \subseteq confirmed'
  BY MoneyWriters
     DEF moneyVars, OpenCoin, OpenQr, Webhook, UpdatePaymentStatus, PaymentData,
         CreateQrTransaction, QrCreationFails, CancelCommit, RefundCommit,
         AcceptCoin, ExpireCommit
<1>4. \A e \in CoinEvents : event[e] # NoEvent => event'[e] # NoEvent
  <2>1. CASE UNCHANGED event
    BY <2>1
  <2>2. ASSUME NEW w \in Workers, NEW d \in CoinEvents, NEW p \in Payments,
               NEW v \in CoinValues, CoinArrives(w, d, p, v)
        PROVE  \A e \in CoinEvents : event[e] # NoEvent => event'[e] # NoEvent
    BY <2>2 DEF CoinArrives, TypeOK
  <2>3. ASSUME NEW w \in Workers, MarkProcessed(w) \/ MarkFailed(w)
        PROVE  \A e \in CoinEvents : event[e] # NoEvent => event'[e] # NoEvent
    <3>1. /\ request[w].event \in CoinEvents
          /\ event[request[w].event] # NoEvent
      BY <2>3, RequestFields
         DEF MarkProcessed, MarkFailed, IInv, RequestsOK, CoinOK, StartedOK
    <3>2. PICK s : event' = [event EXCEPT ![request[w].event].state = s]
      BY <2>3 DEF MarkProcessed, MarkFailed
    <3>3. event'[request[w].event].payment = event[request[w].event].payment
      BY <3>1, <3>2, EventFields DEF TypeOK
    <3>4. event'[request[w].event] # NoEvent
      <4>1. DOMAIN event'[request[w].event] = {"state", "payment", "value"}
        BY <3>1, <3>2, EventFields DEF TypeOK
      <4>. QED
        BY <4>1 DEF NoEvent
    <3>. QED
      BY <3>1, <3>2, <3>4 DEF TypeOK
  <2>. QED
    BY <2>1, <2>2, <2>3
       DEF Next, WorkerStep, vars, OpenCoin, Deadline, OpenQr, CancelRead,
           RefundRead, Webhook, UpdatePaymentStatus, PaymentData,
           CreateQrTransaction, QrCreationFails, CancelCommit, RefundAtProvider,
           RefundCommit, AcceptCoin, RejectCoin, RefuseCoin, RequestDies,
           ExpireRead, ExpireCommit, BatchDies
<1>5. \A e \in CoinEvents : coin[e] # "none" => coin'[e] # "none"
  BY DEF Next, WorkerStep, vars, OpenCoin, Deadline, OpenQr, CancelRead,
         RefundRead, Webhook, UpdatePaymentStatus, PaymentData, CoinArrives,
         CreateQrTransaction, QrCreationFails, CancelCommit, RefundAtProvider,
         RefundCommit, AcceptCoin, RejectCoin, RefuseCoin, MarkProcessed,
         MarkFailed, RequestDies, ExpireRead, ExpireCommit, BatchDies, TypeOK
<1>6. \A p \in QrPayments : refundCalls[p] > 0 => refundCalls'[p] > 0
  <2>1. CASE UNCHANGED refundCalls
    BY <2>1
  <2>2. ASSUME NEW w \in Workers, RefundAtProvider(w)
        PROVE  \A p \in QrPayments : refundCalls[p] > 0 => refundCalls'[p] > 0
    <3>1. request[w].payment \in QrPayments
      BY <2>2, RequestFields DEF RefundAtProvider
    <3>2. refundCalls' = [refundCalls EXCEPT ![request[w].payment]
                             = refundCalls[request[w].payment] + 1]
      BY <2>2 DEF RefundAtProvider
    <3>. QED
      BY <3>1, <3>2 DEF TypeOK
  <2>. QED
    BY <2>1, <2>2
       DEF Next, WorkerStep, vars, OpenCoin, Deadline, OpenQr, CancelRead,
           RefundRead, Webhook, UpdatePaymentStatus, PaymentData, CoinArrives,
           CreateQrTransaction, QrCreationFails, CancelCommit, RefundCommit,
           AcceptCoin, RejectCoin, RefuseCoin, MarkProcessed, MarkFailed,
           RequestDies, ExpireRead, ExpireCommit, BatchDies
<1>. QED
  BY <1>1, <1>2, <1>3, <1>4, <1>5, <1>6

\* Until its request goes on, nobody but a cancellation touches a payment that
\* is being opened: the webhook and the timer need the QR row it lacks.
LEMMA OpeningStays ==
    ASSUME IInv, [Next]_vars, NEW w \in Workers,
           request[w].op = "openQr", request'[w] = request[w]
    PROVE  /\ qr'[request[w].payment] = "none"
           /\ status'[request[w].payment] \in {"pending", "cancelled"}
           /\ request[w].payment \notin confirmed'
<1>. DEFINE p == request[w].payment
            Goal == /\ qr'[p] = "none"
                    /\ status'[p] \in {"pending", "cancelled"}
                    /\ p \notin confirmed'
<1>. TypeOK /\ RequestsOK /\ DeadlinesOK
  BY DEF IInv
<1>a. /\ p \in QrPayments /\ p \in Payments /\ p \notin CoinPayments
      /\ qr[p] = "none" /\ status[p] \in {"pending", "cancelled"}
      /\ p \notin confirmed
  BY RequestFields, PaymentConstants DEF RequestsOK, OpeningOK, Payments
<1>b. request[w] # Idle
  BY DEF Idle
<1>c. \A v \in Workers \ {w} : request[v].op = "openQr" => request[v].payment # p
  BY DEF RequestsOK, OpeningOK
<1>. HIDE DEF p
<1>1. ASSUME UNCHANGED moneyVars PROVE Goal
  BY <1>1, <1>a DEF moneyVars
<1>2. ASSUME NEW q \in Payments, OpenCoin(q) PROVE Goal
  BY <1>2, <1>a DEF OpenCoin, Unopened, TypeOK
<1>3. ASSUME NEW v \in Workers, NEW q \in Payments, OpenQr(v, q) PROVE Goal
  BY <1>3, <1>a DEF OpenQr, Unopened, TypeOK
<1>4. ASSUME NEW q \in QrPayments, NEW s \in WebhookStatuses, Webhook(q, s)
      PROVE  Goal
  <2>1. q # p
    BY <1>4, <1>a DEF Webhook, UpdatePaymentStatus, PaymentData, HasQrRow
  <2>. QED
    BY <1>4, <1>a, <2>1 DEF Webhook, UpdatePaymentStatus, PaymentData, TypeOK
<1>5. ASSUME NEW v \in Workers, CreateQrTransaction(v) \/ QrCreationFails(v)
      PROVE  Goal
  <2>1. request'[v] = Idle
    BY <1>5 DEF CreateQrTransaction, QrCreationFails, Finish, TypeOK
  <2>2. request[v].payment # p
    BY <1>5, <1>b, <1>c, <2>1 DEF CreateQrTransaction, QrCreationFails
  <2>. QED
    BY <1>5, <1>a, <2>2 DEF CreateQrTransaction, QrCreationFails, TypeOK
<1>6. ASSUME NEW v \in Workers, CancelCommit(v) PROVE Goal
  <2>1. request[v].withQr => request[v].payment # p
    BY <1>6, <1>a DEF CancelCommit, RequestsOK, CancelOK, HasQrRow
  <2>2. qr'[p] = "none" /\ confirmed' = confirmed
    BY <1>6, <1>a, <2>1 DEF CancelCommit, TypeOK
  <2>3. status'[p] \in {"pending", "cancelled"}
    BY <1>6, <1>a DEF CancelCommit, TypeOK
  <2>. QED
    BY <1>a, <2>2, <2>3
<1>7. ASSUME NEW v \in Workers, RefundCommit(v) PROVE Goal
  <2>1. request[v].payment # p
    BY <1>7, <1>a DEF RefundCommit, RefundedAtProvider, RequestsOK, RefundOK
  <2>. QED
    BY <1>7, <1>a, <2>1 DEF RefundCommit, TypeOK
<1>8. ASSUME NEW v \in Workers, AcceptCoin(v) PROVE Goal
  <2>1. event[request[v].event].payment # p
    BY <1>8, <1>a DEF AcceptCoin, TakesCoin
  <2>. QED
    BY <1>8, <1>a, <2>1 DEF AcceptCoin, TypeOK
<1>9. ASSUME NEW t \in Timers, ExpireCommit(t) PROVE Goal
  <2>1. p \notin batch[t]
    BY <1>a DEF DeadlinesOK, HasDeadlineRow
  <2>. QED
    BY <1>9, <1>a, <2>1 DEF ExpireCommit, StillLive, TypeOK
<1>. QED
  BY <1>1, <1>2, <1>3, <1>4, <1>5, <1>6, <1>7, <1>8, <1>9, MoneyWriters DEF p

\* How the request of a worker may change in a step.
LEMMA RequestWriters ==
    ASSUME TypeOK, [Next]_vars, NEW w \in Workers
    PROVE  \/ request'[w] = request[w]
           \/ request'[w] = Idle
           \/ \E p \in Payments :
                 OpenQr(w, p) \/ CancelRead(w, p) \/ RefundRead(w, p)
           \/ \E e \in CoinEvents, p \in Payments, v \in CoinValues :
                 CoinArrives(w, e, p, v)
           \/ RefundAtProvider(w)
           \/ AcceptCoin(w) \/ RejectCoin(w) \/ RefuseCoin(w)
<1>1. CASE UNCHANGED request
  BY <1>1
<1>2. ASSUME NEW u \in Workers, NEW r, request' = [request EXCEPT ![u] = r], u # w
      PROVE  request'[w] = request[w]
  BY <1>2 DEF TypeOK
<1>3. ASSUME NEW u \in Workers, Finish(u)
      PROVE  request'[w] = request[w] \/ request'[w] = Idle
  BY <1>3 DEF Finish, TypeOK
<1>4. ASSUME NEW u \in Workers, NEW p \in Payments,
             OpenQr(u, p) \/ CancelRead(u, p) \/ RefundRead(u, p)
      PROVE  u = w \/ request'[w] = request[w]
  BY <1>2, <1>4 DEF OpenQr, CancelRead, RefundRead, Start
<1>5. ASSUME NEW u \in Workers, NEW e \in CoinEvents, NEW p \in Payments,
             NEW v \in CoinValues, CoinArrives(u, e, p, v)
      PROVE  u = w \/ request'[w] = request[w]
  BY <1>2, <1>5 DEF CoinArrives, Start
<1>6. ASSUME NEW u \in Workers,
             \/ RefundAtProvider(u)
             \/ AcceptCoin(u) \/ RejectCoin(u) \/ RefuseCoin(u)
      PROVE  u = w \/ request'[w] = request[w]
  BY <1>2, <1>6 DEF RefundAtProvider, AcceptCoin, RejectCoin, RefuseCoin, Become
<1>7. ASSUME NEW u \in Workers, WorkerStep(u) \/ RequestDies(u)
      PROVE  \/ Finish(u)
             \/ RefundAtProvider(u)
             \/ AcceptCoin(u) \/ RejectCoin(u) \/ RefuseCoin(u)
  BY <1>7 DEF WorkerStep, RequestDies, CreateQrTransaction, QrCreationFails,
              CancelCommit, RefundCommit, MarkProcessed, MarkFailed
<1>8. ASSUME \/ \E p \in Payments : OpenCoin(p) \/ Deadline(p)
             \/ \E p \in QrPayments, s \in WebhookStatuses : Webhook(p, s)
             \/ \E t \in Timers : ExpireRead(t) \/ ExpireCommit(t) \/ BatchDies(t)
             \/ UNCHANGED vars
      PROVE  UNCHANGED request
  BY <1>8 DEF OpenCoin, Deadline, Webhook, UpdatePaymentStatus, PaymentData,
              ExpireRead, ExpireCommit, BatchDies, vars
<1>. QED
  BY <1>1, <1>3, <1>4, <1>5, <1>6, <1>7, <1>8 DEF Next

LEMMA RequestStep == IInv /\ [Next]_vars => RequestsOK'
<1>. SUFFICES ASSUME IInv, [Next]_vars, NEW w \in Workers
              PROVE  (OpeningOK(w) /\ CancelOK(w) /\ RefundOK(w) /\ CoinOK(w))'
  BY DEF RequestsOK
<1>. DEFINE Goal == OpeningOK(w)' /\ CancelOK(w)' /\ RefundOK(w)' /\ CoinOK(w)'
<1>. TypeOK /\ RequestsOK /\ DeadlinesOK /\ MoneyOK
  BY DEF IInv
<1>. USE DEF Start, Become
<1>0. TypeOK'
  BY TypeStep DEF RequestsOK, CoinOK
<1>1. CASE request'[w] = request[w]
  <2>1. CancelOK(w)'
    <3>. SUFFICES ASSUME request[w].op = "cancel"
                  PROVE  /\ status'[request[w].payment] # "none"
                         /\ request[w].withQr =>
                               /\ request[w].payment \in QrPayments
                               /\ qr'[request[w].payment] # "none"
      BY <1>1 DEF CancelOK, HasQrRow
    <3>1. status'[request[w].payment] # "none"
      BY RequestFields, RowsStay DEF RequestsOK, CancelOK
    <3>2. ASSUME request[w].withQr
          PROVE  /\ request[w].payment \in QrPayments
                 /\ qr'[request[w].payment] # "none"
      BY <3>2, RowsStay DEF RequestsOK, CancelOK, HasQrRow
    <3>. QED
      BY <3>1, <3>2
  <2>2. RefundOK(w)'
    BY <1>1, RequestFields, RowsStay DEF RequestsOK, RefundOK
  <2>3. CoinOK(w)'
    BY <1>1, RequestFields, RowsStay DEF RequestsOK, CoinOK, StartedOK
  <2>4. ASSUME NEW v \in Workers \ {w}, request[w].op = "openQr",
               request'[v].op = "openQr"
        PROVE  request'[v].payment # request[w].payment
    <3>1. CASE request'[v] = request[v]
      BY <2>4, <3>1 DEF RequestsOK, OpeningOK
    <3>2. CASE \E p \in Payments : OpenQr(v, p)
      <4>1. PICK p \in Payments : OpenQr(v, p)
        BY <3>2
      <4>2. request'[v].payment = p /\ status[p] = "none"
        BY <4>1 DEF OpenQr, Unopened, TypeOK
      <4>3. status[request[w].payment] # "none"
        BY <2>4 DEF RequestsOK, OpeningOK
      <4>. QED
        BY <4>2, <4>3
    <3>3. ~ \/ request'[v] = Idle
            \/ \E p \in Payments : CancelRead(v, p) \/ RefundRead(v, p)
            \/ \E e \in CoinEvents, p \in Payments, c \in CoinValues :
                  CoinArrives(v, e, p, c)
            \/ RefundAtProvider(v)
            \/ AcceptCoin(v) \/ RejectCoin(v) \/ RefuseCoin(v)
      BY <2>4 DEF Idle, CancelRead, RefundRead, CoinArrives, RefundAtProvider,
                  AcceptCoin, RejectCoin, RefuseCoin, Thrown, TypeOK
    <3>. QED
      BY <3>1, <3>2, <3>3, RequestWriters
  <2>5. OpeningOK(w)'
    BY <1>1, <2>4, OpeningStays DEF OpeningOK
  <2>. QED
    BY <2>1, <2>2, <2>3, <2>5
<1>2. CASE request'[w] = Idle
  BY <1>2 DEF Idle, OpeningOK, CancelOK, RefundOK, CoinOK, StartedOK
<1>3. ASSUME NEW p \in Payments, OpenQr(w, p) PROVE Goal
  <2>1. /\ request'[w] = [op |-> "openQr", payment |-> p]
        /\ p \in QrPayments /\ status[p] = "none" /\ status'[p] = "pending"
        /\ qr' = qr /\ confirmed' = confirmed
        /\ \A v \in Workers \ {w} : request'[v] = request[v]
    BY <1>3 DEF OpenQr, Unopened, TypeOK
  <2>2. qr[p] = "none" /\ p \notin confirmed
    BY <2>1 DEF DeadlinesOK, MoneyOK, ConfirmedNeverLapses
  <2>3. \A v \in Workers \ {w} :
           request[v].op = "openQr" => request[v].payment # p
    BY <2>1 DEF RequestsOK, OpeningOK
  <2>4. OpeningOK(w)'
    BY <2>1, <2>2, <2>3 DEF OpeningOK
  <2>. QED
    BY <2>1, <2>4 DEF CancelOK, RefundOK, CoinOK, StartedOK
<1>4. ASSUME NEW p \in Payments, CancelRead(w, p) PROVE Goal
  <2>1. /\ request'[w] = [op |-> "cancel", payment |-> p, withQr |-> HasQrRow(p)]
        /\ status[p] # "none" /\ status' = status /\ qr' = qr
    BY <1>4 DEF CancelRead, TypeOK
  <2>2. /\ request'[w].op = "cancel" /\ request'[w].payment = p
        /\ request'[w].withQr = HasQrRow(p)
    BY <2>1
  <2>3. CancelOK(w)'
    BY <2>1, <2>2, Zenon DEF CancelOK, HasQrRow
  <2>. QED
    BY <2>2, <2>3 DEF OpeningOK, RefundOK, CoinOK, StartedOK
<1>5. ASSUME NEW p \in Payments, RefundRead(w, p) PROVE Goal
  <2>1. /\ request'[w] = [op |-> "refund", payment |-> p]
        /\ HasQrRow(p) /\ status[p] = "confirmed"
        /\ qr' = qr /\ confirmed' = confirmed
    BY <1>5 DEF RefundRead, Refundable, TypeOK
  <2>2. p \in confirmed
    BY <2>1 DEF MoneyOK, ConfirmedIffPaid
  <2>. QED
    BY <2>1, <2>2 DEF OpeningOK, CancelOK, RefundOK, CoinOK, StartedOK, HasQrRow
<1>6. ASSUME NEW e \in CoinEvents, NEW p \in Payments, NEW v \in CoinValues,
             CoinArrives(w, e, p, v)
      PROVE  Goal
  <2>1. /\ request'[w] = [op |-> "coin", event |-> e]
        /\ event'[e] = [state |-> "received", payment |-> p, value |-> v]
    BY <1>6 DEF CoinArrives, TypeOK
  <2>2. event'[e] # NoEvent
    <3>1. DOMAIN event'[e] # DOMAIN NoEvent
      BY <2>1 DEF NoEvent
    <3>. QED
      BY <3>1
  <2>. QED
    BY <2>1, <2>2 DEF OpeningOK, CancelOK, RefundOK, CoinOK, StartedOK
<1>7. CASE RefundAtProvider(w)
  <2>. DEFINE p == request[w].payment
  <2>1. /\ request'[w] = [op |-> "refundSave", payment |-> p]
        /\ p \in QrPayments /\ p \in confirmed /\ qr[p] # "none"
        /\ confirmed' = confirmed /\ qr' = qr
    BY <1>7, RequestFields DEF RefundAtProvider, TypeOK, RequestsOK, RefundOK
  <2>2. refundCalls'[p] > 0
    <3>1. /\ refundCalls[p] \in Nat
          /\ refundCalls'[p] = refundCalls[p] + 1
      BY <1>7, <2>1 DEF RefundAtProvider, TypeOK
    <3>. QED
      BY <3>1
  <2>. QED
    BY <2>1, <2>2 DEF OpeningOK, CancelOK, RefundOK, CoinOK, StartedOK
<1>8. CASE AcceptCoin(w) \/ RejectCoin(w) \/ RefuseCoin(w)
  <2>. DEFINE e == request[w].event
  <2>1. e \in CoinEvents /\ event[e] # NoEvent /\ event' = event
    BY <1>8, RequestFields
       DEF AcceptCoin, RejectCoin, RefuseCoin, RequestsOK, CoinOK, StartedOK
  <2>2. \/ /\ request'[w] = [op |-> "coinDone", event |-> e]
           /\ coin'[e] # "none"
        \/ request'[w] = [op |-> "coinFailed", event |-> e]
    BY <1>8, <2>1 DEF AcceptCoin, RejectCoin, RefuseCoin, Thrown, TypeOK
  <2>. QED
    BY <2>1, <2>2 DEF OpeningOK, CancelOK, RefundOK, CoinOK, StartedOK
<1>. QED
  BY <1>1, <1>2, <1>3, <1>4, <1>5, <1>6, <1>7, <1>8, RequestWriters

-----------------------------------------------------------------------------
(* Deadlines, refunds and coin rows                                         *)

LEMMA DeadlineStep == IInv /\ [Next]_vars => DeadlinesOK'
<1>. SUFFICES ASSUME IInv, [Next]_vars PROVE DeadlinesOK'
  OBVIOUS
<1>. TypeOK /\ DeadlinesOK /\ RequestsOK
  BY DEF IInv
<1>0. TypeOK'
  BY TypeStep DEF RequestsOK, CoinOK
<1>1. \A p \in Payments : HasDeadlineRow(p) => HasDeadlineRow(p)'
  BY RowsStay DEF HasDeadlineRow
<1>2. \A p \in due' : p \in due \/ HasDeadlineRow(p)'
  <2>1. CASE UNCHANGED due
    BY <2>1
  <2>2. ASSUME NEW p \in Payments, Deadline(p)
        PROVE  \A q \in due' : q \in due \/ HasDeadlineRow(q)'
    <3>1. HasDeadlineRow(p)
      BY <2>2, PaymentConstants DEF Deadline, HasDeadlineRow, HasQrRow
    <3>. QED
      BY <1>1, <2>2, <3>1 DEF Deadline
  <2>. QED
    BY <2>1, <2>2
       DEF Next, WorkerStep, vars, OpenCoin, OpenQr, CancelRead, RefundRead,
           Webhook, UpdatePaymentStatus, PaymentData, CoinArrives,
           CreateQrTransaction, QrCreationFails, CancelCommit, RefundAtProvider,
           RefundCommit, AcceptCoin, RejectCoin, RefuseCoin, MarkProcessed,
           MarkFailed, RequestDies, ExpireRead, ExpireCommit, BatchDies
<1>3. \A t \in Timers : \A p \in batch'[t] : p \in batch[t] \/ p \in due
  <2>1. CASE UNCHANGED batch
    BY <2>1
  <2>2. ASSUME NEW u \in Timers, NEW rows, rows \subseteq due,
               batch' = [batch EXCEPT ![u] = rows]
        PROVE  \A t \in Timers : \A p \in batch'[t] : p \in batch[t] \/ p \in due
    BY <2>2 DEF TypeOK
  <2>3. ASSUME NEW u \in Timers, ExpireRead(u) \/ ExpireCommit(u) \/ BatchDies(u)
        PROVE  \E rows : rows \subseteq due /\ batch' = [batch EXCEPT ![u] = rows]
    BY <2>3 DEF ExpireRead, ExpireCommit, BatchDies, Expirable
  <2>. QED
    BY <2>1, <2>2, <2>3
       DEF Next, WorkerStep, vars, OpenCoin, Deadline, OpenQr, CancelRead,
           RefundRead, Webhook, UpdatePaymentStatus, PaymentData, CoinArrives,
           CreateQrTransaction, QrCreationFails, CancelCommit, RefundAtProvider,
           RefundCommit, AcceptCoin, RejectCoin, RefuseCoin, MarkProcessed,
           MarkFailed, RequestDies
<1>4. \A p \in QrPayments : status'[p] = "none" => qr'[p] = "none"
  <2>1. CASE UNCHANGED qr
    <3>. QrPayments \subseteq Payments
      BY DEF Payments
    <3>. QED
      BY <2>1, RowsStay DEF DeadlinesOK
  <2>2. ASSUME NEW q \in QrPayments, status'[q] # "none",
               NEW r, qr' = [qr EXCEPT ![q] = r]
        PROVE  \A p \in QrPayments : status'[p] = "none" => qr'[p] = "none"
    <3>. QrPayments \subseteq Payments
      BY DEF Payments
    <3>. QED
      BY <2>2, RowsStay DEF DeadlinesOK, TypeOK
  <2>3. ASSUME NEW q \in QrPayments, NEW s \in WebhookStatuses, Webhook(q, s)
        PROVE  status'[q] # "none" /\ \E r : qr' = [qr EXCEPT ![q] = r]
    BY <2>3 DEF Webhook, UpdatePaymentStatus, PaymentData, WebhookStatuses, TypeOK,
                Payments
  <2>4. ASSUME NEW w \in Workers,
               CreateQrTransaction(w) \/ CancelCommit(w) \/ RefundCommit(w)
        PROVE  \/ UNCHANGED qr
               \/ \E q \in QrPayments :
                     status'[q] # "none" /\ \E r : qr' = [qr EXCEPT ![q] = r]
    <3>1. CASE CreateQrTransaction(w)
      <4>1. /\ request[w].payment \in QrPayments
            /\ status[request[w].payment] # "none" /\ status' = status
        BY <3>1, RequestFields DEF CreateQrTransaction, RequestsOK, OpeningOK
      <4>. QED
        BY <3>1, <4>1 DEF CreateQrTransaction
    <3>2. CASE CancelCommit(w)
      <4>1. CASE ~request[w].withQr
        BY <3>2, <4>1 DEF CancelCommit
      <4>2. CASE request[w].withQr
        <5>1. request[w].payment \in QrPayments
          BY <3>2, <4>2 DEF CancelCommit, RequestsOK, CancelOK, HasQrRow
        <5>. QED
          BY <3>2, <4>2, <5>1 DEF CancelCommit, TypeOK, Payments
      <4>. QED
        BY <4>1, <4>2
    <3>3. CASE RefundCommit(w)
      <4>1. request[w].payment \in QrPayments
        BY <3>3, RequestFields DEF RefundCommit, RefundedAtProvider
      <4>. QED
        BY <3>3, <4>1 DEF RefundCommit, TypeOK, Payments
    <3>. QED
      BY <2>4, <3>1, <3>2, <3>3
  <2>5. ASSUME NEW t \in Timers, ExpireCommit(t)
        PROVE  \A p \in QrPayments : status'[p] = "none" => qr'[p] = "none"
    <3>1. \A p \in QrPayments : p \in batch[t] => status[p] # "none"
      BY DEF DeadlinesOK, HasDeadlineRow
    <3>2. \A p \in QrPayments : status'[p] = "none" => status[p] = "none"
      BY RowsStay DEF Payments
    <3>. QED
      BY <2>5, <3>1, <3>2 DEF ExpireCommit, DeadlinesOK
  <2>. QED
    BY <2>1, <2>2, <2>3, <2>4, <2>5, MoneyWriters
       DEF moneyVars, OpenCoin, OpenQr, QrCreationFails, AcceptCoin
<1>. QED
  BY <1>0, <1>1, <1>2, <1>3, <1>4 DEF DeadlinesOK, TypeOK

LEMMA RefundStep == IInv /\ [Next]_vars => RefundIsBacked'
<1>. SUFFICES ASSUME IInv, [Next]_vars, NEW p \in QrPayments,
                     status'[p] = "refunded"
              PROVE  refundCalls'[p] > 0
  BY DEF RefundIsBacked
<1>. TypeOK /\ RequestsOK /\ p \in Payments
  BY DEF IInv, Payments
<1>1. CASE status[p] = "refunded"
  BY <1>1, RowsStay DEF IInv, RefundIsBacked
<1>2. CASE status[p] # "refunded"
  <2>1. ASSUME NEW w \in Workers, RefundCommit(w) PROVE refundCalls'[p] > 0
    <3>1. p = request[w].payment
      BY <1>2, <2>1 DEF RefundCommit, TypeOK
    <3>. QED
      BY <2>1, <3>1 DEF RefundCommit, RefundedAtProvider, RequestsOK, RefundOK
  <2>2. ~ \/ UNCHANGED moneyVars
          \/ \E q \in Payments : OpenCoin(q)
          \/ \E w \in Workers, q \in Payments : OpenQr(w, q)
          \/ \E q \in QrPayments, s \in WebhookStatuses : Webhook(q, s)
          \/ \E w \in Workers : CreateQrTransaction(w) \/ QrCreationFails(w)
          \/ \E w \in Workers : CancelCommit(w) \/ AcceptCoin(w)
          \/ \E t \in Timers : ExpireCommit(t)
    BY <1>2 DEF moneyVars, OpenCoin, OpenQr, Webhook, UpdatePaymentStatus,
                PaymentData, WebhookStatuses, CreateQrTransaction, QrCreationFails,
                CancelCommit, AcceptCoin, ExpireCommit, TypeOK
  <2>. QED
    BY <2>1, <2>2, MoneyWriters
<1>. QED
  BY <1>1, <1>2

LEMMA ProcessedStep == IInv /\ [Next]_vars => ProcessedCoinHasRow'
<1>. SUFFICES ASSUME IInv, [Next]_vars, NEW e \in CoinEvents,
                     event'[e] # NoEvent, event'[e].state = "processed"
              PROVE  coin'[e] # "none"
  BY DEF ProcessedCoinHasRow
<1>. TypeOK /\ RequestsOK
  BY DEF IInv
<1>1. CASE event'[e] = event[e]
  BY <1>1, RowsStay DEF IInv, ProcessedCoinHasRow
<1>2. ASSUME NEW w \in Workers, NEW d \in CoinEvents, NEW p \in Payments,
             NEW v \in CoinValues, CoinArrives(w, d, p, v)
      PROVE  event'[e] = event[e]
  BY <1>2 DEF CoinArrives, TypeOK
<1>3. ASSUME NEW w \in Workers, MarkProcessed(w)
      PROVE  event'[e] = event[e] \/ coin'[e] # "none"
  <2>1. request[w].event \in CoinEvents /\ coin[request[w].event] # "none"
    BY <1>3, RequestFields DEF MarkProcessed, RequestsOK, CoinOK
  <2>. QED
    BY <1>3, <2>1 DEF MarkProcessed, TypeOK
<1>4. ASSUME NEW w \in Workers, MarkFailed(w) PROVE event'[e] = event[e]
  <2>1. request[w].event \in CoinEvents /\ event[request[w].event] # NoEvent
    BY <1>4, RequestFields DEF MarkFailed, RequestsOK, CoinOK, StartedOK
  <2>2. e # request[w].event
    BY <1>4, <2>1, EventFields DEF MarkFailed, TypeOK
  <2>. QED
    BY <1>4, <2>1, <2>2 DEF MarkFailed, TypeOK
<1>5. \/ UNCHANGED event
      \/ \E w \in Workers, d \in CoinEvents, p \in Payments, v \in CoinValues :
            CoinArrives(w, d, p, v)
      \/ \E w \in Workers : MarkProcessed(w) \/ MarkFailed(w)
  BY DEF Next, WorkerStep, vars, OpenCoin, Deadline, OpenQr, CancelRead,
         RefundRead, Webhook, UpdatePaymentStatus, PaymentData,
         CreateQrTransaction, QrCreationFails, CancelCommit, RefundAtProvider,
         RefundCommit, AcceptCoin, RejectCoin, RefuseCoin, RequestDies, ExpireRead,
         ExpireCommit, BatchDies
<1>. QED
  BY <1>1, <1>2, <1>3, <1>4, <1>5

-----------------------------------------------------------------------------
(* The inductive invariant and what follows from it                         *)

LEMMA InitIInv == Init => IInv
<1>. SUFFICES ASSUME Init PROVE IInv
  OBVIOUS
<1>. Price \in Nat \ {0}
  BY PaymentConstants
<1>1. TypeOK
  BY DEF Init, TypeOK, Statuses, QrStatuses, EventRows, Requests
<1>2. MoneyOK
  BY DEF Init, MoneyOK, ConfirmedIffPaid, ConfirmedNeverLapses, ProviderAgrees,
         Payments, Live
<1>3. RequestsOK
  BY DEF Init, RequestsOK, OpeningOK, CancelOK, RefundOK, CoinOK, StartedOK, Idle
<1>4. DeadlinesOK
  BY DEF Init, DeadlinesOK
<1>5. RefundIsBacked /\ ProcessedCoinHasRow
  BY DEF Init, RefundIsBacked, ProcessedCoinHasRow, Payments
<1>. QED
  BY <1>1, <1>2, <1>3, <1>4, <1>5 DEF IInv

LEMMA NextIInv == IInv /\ [Next]_vars => IInv'
<1>. SUFFICES ASSUME IInv, [Next]_vars PROVE IInv'
  OBVIOUS
<1>1. TypeOK'
  BY TypeStep DEF IInv, RequestsOK, CoinOK
<1>. QED
  BY <1>1, MoneyStep, RequestStep, DeadlineStep, RefundStep, ProcessedStep DEF IInv

\* What a request or a batch has read stays good enough for its write, in every
\* reachable state: the invariant all the other theorems rest on.
THEOREM Inductive == Spec => []IInv
BY InitIInv, NextIInv, PTL DEF Spec

\* Every variable keeps its type, whatever the payments, events and requests.
THEOREM TypeCorrect == Spec => []TypeOK
<1>1. IInv => TypeOK
  BY DEF IInv
<1>. QED
  BY <1>1, Inductive, PTL

\* A payment is confirmed exactly when its price has been received: no
\* interleaving of coins, webhooks, timers and requests confirms it otherwise.
THEOREM PaidIsConfirmed == Spec => []ConfirmedIffPaid
<1>1. IInv => ConfirmedIffPaid
  BY DEF IInv, MoneyOK
<1>. QED
  BY <1>1, Inductive, PTL

\* A payment that was confirmed never reads as failed, expired or live again,
\* although the timer and a failed QR creation write without looking.
THEOREM ConfirmedStays == Spec => []ConfirmedNeverLapses
<1>1. IInv => ConfirmedNeverLapses
  BY DEF IInv, MoneyOK
<1>. QED
  BY <1>1, Inductive, PTL

\* The payment and its QR transaction agree after every statement of the
\* services that write the two rows.
THEOREM ProviderAgreement == Spec => []ProviderAgrees
<1>1. IInv => ProviderAgrees
  BY DEF IInv, MoneyOK
<1>. QED
  BY <1>1, Inductive, PTL

\* A payment recorded as refunded has been paid back by the provider.
THEOREM RefundsAreBacked == Spec => []RefundIsBacked
<1>1. IInv => RefundIsBacked
  BY DEF IInv
<1>. QED
  BY <1>1, Inductive, PTL

\* A coin event marked processed has its coin_insertions row, whichever of the
\* three writes of its request was the last to happen.
THEOREM ProcessedCoins == Spec => []ProcessedCoinHasRow
<1>1. IInv => ProcessedCoinHasRow
  BY DEF IInv
<1>. QED
  BY <1>1, Inductive, PTL

-----------------------------------------------------------------------------
(* Totals.  A fold chooses its elements one by one, so what it comes to is   *)
(* shown by induction over how many there are: Nat is the only set of        *)
(* numbers that holds 0 and the successor of each of its members.            *)

\* What the rows of S are worth together.
Total(rows, S) == MapThenSumSet(LAMBDA e : rows[e].value, S)

\* The element a fold takes first, and what it makes of the rest.
Chosen(s) == CHOOSE x \in s : TRUE
Summed(rows, g, s) == IF s = {} THEN 0 ELSE rows[Chosen(s)].value + g[s \ {Chosen(s)}]

\* g adds up the values of the subsets of S; those of up to n elements.
AddsUp(rows, S, g) == g = [s \in SUBSET S |-> Summed(rows, g, s)]
AddsUpTo(rows, S, g, n) ==
    /\ g \in [SUBSET S -> Nat]
    /\ \A s \in SUBSET S : Cardinality(s) <= n => g[s] = Summed(rows, g, s)

Valued(rows, S) == IsFiniteSet(S) /\ \A e \in S : rows[e].value \in Nat

\* Induction over the numbers, for a set of them.
LEMMA NatSetInduction ==
    ASSUME NEW T \in SUBSET Nat, 0 \in T, \A n \in T : n + 1 \in T
    PROVE  T = Nat
<1>. SUFFICES ASSUME Nat \ T # {} PROVE FALSE
  OBVIOUS
<1>1. PICK n \in Nat \ T : \A m \in Nat \ T : ~(<<m, n>> \in OpToRel(<, Nat))
  BY NatLessThanWellFounded, WFMin
<1>2. n # 0 /\ n - 1 \in Nat
  OBVIOUS
<1>3. <<n - 1, n>> \in OpToRel(<, Nat)
  BY <1>2 DEF OpToRel
<1>4. n - 1 \in T
  BY <1>1, <1>2, <1>3
<1>. QED
  BY <1>4

\* Taking the first element away leaves one less.
LEMMA ChosenRest ==
    ASSUME NEW S, IsFiniteSet(S), NEW s \in SUBSET S, s # {}
    PROVE  /\ Chosen(s) \in s /\ s \ {Chosen(s)} \in SUBSET S
           /\ Cardinality(s) \in Nat /\ Cardinality(s \ {Chosen(s)}) = Cardinality(s) - 1
           /\ Cardinality(s) # 0
<1>1. Chosen(s) \in s
  BY DEF Chosen
<1>2. IsFiniteSet(s)
  BY FS_Subset
<1>3. Cardinality(s) \in Nat /\ Cardinality(s) # 0
  BY <1>2, FS_CardinalityType, FS_EmptySet
<1>. QED
  BY <1>1, <1>2, <1>3, FS_RemoveElement

\* How many elements a part of a finite set has.
LEMMA PartSizes ==
    ASSUME NEW S, IsFiniteSet(S), NEW s \in SUBSET S
    PROVE  /\ IsFiniteSet(s) /\ Cardinality(s) \in Nat
           /\ Cardinality(s) <= Cardinality(S) /\ Cardinality(S) \in Nat
           /\ Cardinality(s) = 0 <=> s = {}
<1>1. IsFiniteSet(s) /\ Cardinality(s) <= Cardinality(S)
  BY FS_Subset
<1>. QED
  BY <1>1, FS_CardinalityType, FS_EmptySet

\* A function that adds up exists: one that is right for n elements, applied once
\* more, is right for n + 1.
LEMMA SumsExist ==
    ASSUME NEW rows, NEW S, Valued(rows, S)
    PROVE  \E g \in [SUBSET S -> Nat] : AddsUp(rows, S, g)
<1>. DEFINE T == {n \in Nat : \E g : AddsUpTo(rows, S, g, n)}
<1>1. 0 \in T
  <2>. DEFINE g == [s \in SUBSET S |-> 0]
  <2>1. ASSUME NEW s \in SUBSET S, Cardinality(s) <= 0 PROVE g[s] = Summed(rows, g, s)
    <3>1. s = {}
      BY <2>1, PartSizes DEF Valued
    <3>. QED
      BY <3>1 DEF Summed
  <2>2. AddsUpTo(rows, S, g, 0)
    BY <2>1 DEF AddsUpTo
  <2>. QED
    BY <2>2
<1>2. ASSUME NEW n \in T PROVE n + 1 \in T
  <2>1. PICK g : AddsUpTo(rows, S, g, n)
    OBVIOUS
  <2>. DEFINE h == [s \in SUBSET S |-> Summed(rows, g, s)]
  <2>2. h \in [SUBSET S -> Nat]
    <3>1. ASSUME NEW s \in SUBSET S PROVE Summed(rows, g, s) \in Nat
      <4>1. CASE s = {}
        BY <4>1 DEF Summed
      <4>2. CASE s # {}
        <5>1. Chosen(s) \in s /\ s \ {Chosen(s)} \in SUBSET S
          BY <4>2, ChosenRest DEF Valued
        <5>2. rows[Chosen(s)].value \in Nat /\ g[s \ {Chosen(s)}] \in Nat
          BY <5>1, <2>1 DEF AddsUpTo, Valued
        <5>. QED
          BY <4>2, <5>2 DEF Summed
      <4>. QED
        BY <4>1, <4>2
    <3>. QED
      BY <3>1
  <2>3. ASSUME NEW s \in SUBSET S, Cardinality(s) <= n + 1
        PROVE  h[s] = Summed(rows, h, s)
    <3>1. CASE s = {}
      BY <3>1 DEF Summed
    <3>2. CASE s # {}
      <4>. DEFINE u == s \ {Chosen(s)}
      <4>1. u \in SUBSET S /\ Cardinality(u) <= n
        BY <3>2, <2>3, ChosenRest DEF Valued
      <4>2. g[u] = h[u]
        BY <2>1, <4>1 DEF AddsUpTo
      <4>. QED
        BY <3>2, <4>1, <4>2 DEF Summed
    <3>. QED
      BY <3>1, <3>2
  <2>4. AddsUpTo(rows, S, h, n + 1)
    BY <2>2, <2>3 DEF AddsUpTo
  <2>. QED
    BY <2>4
<1>3. T = Nat
  <2>. HIDE DEF T
  <2>1. T \in SUBSET Nat
    BY DEF T
  <2>. QED
    BY <1>1, <1>2, <2>1, NatSetInduction
<1>4. Cardinality(S) \in T
  BY <1>3, FS_CardinalityType DEF Valued
<1>5. PICK g : AddsUpTo(rows, S, g, Cardinality(S))
  BY <1>4
<1>6. \A s \in SUBSET S : g[s] = Summed(rows, g, s)
  BY <1>5, PartSizes DEF AddsUpTo, Valued
<1>7. g \in [SUBSET S -> Nat]
  BY <1>5 DEF AddsUpTo
<1>. QED
  BY <1>6, <1>7 DEF AddsUp

\* Of a part of two sets whose values are the same there is one sum.
LEMMA SumsAreUnique ==
    ASSUME NEW rows, NEW S, NEW g, AddsUp(rows, S, g),
           NEW others, NEW R, NEW h, AddsUp(others, R, h),
           NEW U, U \subseteq S, U \subseteq R, IsFiniteSet(U),
           \A e \in U : rows[e].value = others[e].value
    PROVE  g[U] = h[U]
<1>. DEFINE T == {n \in Nat : \A s \in SUBSET U : Cardinality(s) = n => g[s] = h[s]}
<1>1. 0 \in T
  <2>. SUFFICES ASSUME NEW s \in SUBSET U, Cardinality(s) = 0 PROVE g[s] = h[s]
    OBVIOUS
  <2>1. s = {} /\ s \in SUBSET S /\ s \in SUBSET R
    BY PartSizes
  <2>2. g[s] = Summed(rows, g, s) /\ h[s] = Summed(others, h, s)
    BY <2>1 DEF AddsUp
  <2>. QED
    BY <2>1, <2>2 DEF Summed
<1>2. ASSUME NEW n \in T PROVE n + 1 \in T
  <2>. SUFFICES ASSUME NEW s \in SUBSET U, Cardinality(s) = n + 1 PROVE g[s] = h[s]
    OBVIOUS
  <2>1. s # {}
    BY PartSizes
  <2>. DEFINE u == s \ {Chosen(s)}
  <2>2. Chosen(s) \in U /\ u \in SUBSET U /\ Cardinality(u) = n
    BY <2>1, ChosenRest
  <2>3. g[u] = h[u]
    BY <2>2
  <2>4. g[s] = Summed(rows, g, s) /\ h[s] = Summed(others, h, s)
    <3>1. s \in SUBSET S /\ s \in SUBSET R
      OBVIOUS
    <3>. QED
      BY <3>1 DEF AddsUp
  <2>. QED
    BY <2>1, <2>2, <2>3, <2>4 DEF Summed
<1>3. T = Nat
  <2>. HIDE DEF T
  <2>1. T \in SUBSET Nat
    BY DEF T
  <2>. QED
    BY <1>1, <1>2, <2>1, NatSetInduction
<1>4. Cardinality(U) \in T
  BY <1>3, FS_CardinalityType
<1>. QED
  BY <1>4

\* The sum of the community modules adds up.
LEMMA TotalAddsUp ==
    ASSUME NEW rows, NEW S, Valued(rows, S)
    PROVE  \E g \in [SUBSET S -> Nat] : AddsUp(rows, S, g) /\ Total(rows, S) = g[S]
<1>. DEFINE P(g) == AddsUp(rows, S, g)
            c == CHOOSE g : P(g)
<1>1. PICK h \in [SUBSET S -> Nat] : AddsUp(rows, S, h)
  BY SumsExist
<1>2. P(c)
  <2>1. P(h)
    BY <1>1
  <2>. QED
    BY <2>1
<1>3. Total(rows, S) = c[S]
  BY DEF Total, MapThenSumSet, MapThenFoldSet, AddsUp, Summed, Chosen
<1>. HIDE DEF c
<1>4. c[S] = h[S]
  BY <1>1, <1>2, SumsAreUnique DEF Valued
<1>. QED
  BY <1>1, <1>3, <1>4

SplitsAnywhere(rows, S, g) ==
    \A s \in SUBSET S : \A x \in s : g[s] = rows[x].value + g[s \ {x}]

\* The sum does not depend on the order in which the elements are taken.
LEMMA AnyFirst ==
    ASSUME NEW rows, NEW S, Valued(rows, S), NEW g, g \in [SUBSET S -> Nat],
           AddsUp(rows, S, g)
    PROVE  SplitsAnywhere(rows, S, g)
<1>. DEFINE Splits(u) == \A y \in u : g[u] = rows[y].value + g[u \ {y}]
            T == {n \in Nat : \A u \in SUBSET S : Cardinality(u) = n => Splits(u)}
<1>1. 0 \in T
  BY PartSizes DEF Valued
<1>2. ASSUME NEW n \in T PROVE n + 1 \in T
  <2>. SUFFICES ASSUME NEW u \in SUBSET S, Cardinality(u) = n + 1, NEW y \in u
                PROVE  g[u] = rows[y].value + g[u \ {y}]
    OBVIOUS
  <2>. DEFINE c == Chosen(u)
              v == (u \ {y}) \ {c}
  <2>1. c \in u /\ u \ {c} \in SUBSET S /\ Cardinality(u \ {c}) = n
    BY ChosenRest DEF Valued
  <2>2. g[u] = rows[c].value + g[u \ {c}]
    BY DEF AddsUp, Summed
  <2>3. CASE y = c
    BY <2>2, <2>3
  <2>4. CASE y # c
    <3>1. u \ {y} \in SUBSET S /\ Cardinality(u \ {y}) = n
      <4>1. IsFiniteSet(u) /\ n \in Nat
        BY PartSizes DEF Valued
      <4>2. Cardinality(u \ {y}) = Cardinality(u) - 1
        BY <4>1, FS_RemoveElement
      <4>. QED
        BY <4>1, <4>2
    <3>2. c \in u \ {y} /\ y \in u \ {c} /\ (u \ {c}) \ {y} = v /\ v \in SUBSET S
      BY <2>1, <2>4
    <3>3. g[u \ {y}] = rows[c].value + g[v]
      BY <3>1, <3>2
    <3>4. g[u \ {c}] = rows[y].value + g[v]
      BY <2>1, <3>2
    <3>5. rows[c].value \in Nat /\ rows[y].value \in Nat /\ g[v] \in Nat
      BY <2>1, <3>2 DEF Valued
    <3>. HIDE DEF c, v
    <3>. QED
      BY <2>2, <3>3, <3>4, <3>5
  <2>. QED
    BY <2>3, <2>4
<1>3. T = Nat
  <2>. HIDE DEF T
  <2>1. T \in SUBSET Nat
    BY DEF T
  <2>. QED
    BY <1>1, <1>2, <2>1, NatSetInduction
<1>. QED
  <2>. SUFFICES ASSUME NEW s \in SUBSET S, NEW x \in s
                PROVE  g[s] = rows[x].value + g[s \ {x}]
    BY DEF SplitsAnywhere
  <2>1. Cardinality(s) \in T
    BY <1>3, PartSizes DEF Valued
  <2>. QED
    BY <2>1

\* Nothing is worth nothing.
LEMMA TotalOfNone == ASSUME NEW rows PROVE Total(rows, {}) = 0
<1>1. Valued(rows, {})
  BY FS_EmptySet DEF Valued
<1>2. PICK g \in [SUBSET {} -> Nat] : AddsUp(rows, {}, g) /\ Total(rows, {}) = g[{}]
  BY <1>1, TotalAddsUp
<1>. QED
  BY <1>2 DEF AddsUp, Summed

\* The total is that of the values, whatever else the rows say.
LEMMA TotalOfSame ==
    ASSUME NEW rows, NEW others, NEW S, Valued(rows, S),
           \A e \in S : rows[e].value = others[e].value
    PROVE  Total(rows, S) = Total(others, S)
<1>1. Valued(others, S)
  BY DEF Valued
<1>2. PICK g \in [SUBSET S -> Nat] : AddsUp(rows, S, g) /\ Total(rows, S) = g[S]
  BY TotalAddsUp
<1>3. PICK h \in [SUBSET S -> Nat] : AddsUp(others, S, h) /\ Total(others, S) = h[S]
  BY <1>1, TotalAddsUp
<1>4. g[S] = h[S]
  BY <1>2, <1>3, SumsAreUnique DEF Valued
<1>. QED
  BY <1>2, <1>3, <1>4

\* Each element adds its value.
LEMMA TotalWithOneMore ==
    ASSUME NEW rows, NEW R, Valued(rows, R), NEW x \in R
    PROVE  Total(rows, R) = Total(rows, R \ {x}) + rows[x].value
<1>. DEFINE S == R \ {x}
<1>1. Valued(rows, S)
  BY FS_RemoveElement DEF Valued
<1>2. PICK g \in [SUBSET R -> Nat] : AddsUp(rows, R, g) /\ Total(rows, R) = g[R]
  BY TotalAddsUp
<1>3. PICK h \in [SUBSET S -> Nat] : AddsUp(rows, S, h) /\ Total(rows, S) = h[S]
  BY <1>1, TotalAddsUp
<1>4. g[S] = h[S]
  BY <1>1, <1>2, <1>3, SumsAreUnique DEF Valued
<1>5. g[R] = rows[x].value + g[S]
  <2>1. g \in [SUBSET R -> Nat] /\ AddsUp(rows, R, g)
    BY <1>2
  <2>2. SplitsAnywhere(rows, R, g)
    BY <2>1, AnyFirst
  <2>. QED
    BY <2>2 DEF SplitsAnywhere
<1>6. rows[x].value \in Nat /\ h[S] \in Nat
  BY DEF Valued
<1>. QED
  BY <1>2, <1>3, <1>4, <1>5, <1>6
-----------------------------------------------------------------------------
(* Coins and what they have been credited to                                *)

\* A coin that was taken or rejected has its event; a payment's accepted coins
\* are finitely many, and what it received is their total.
Booked == \A e \in CoinEvents : coin[e] # "none" => event[e] # NoEvent
Credited ==
    \A p \in CoinPayments :
        IsFiniteSet(CreditedTo(p)) /\ received[p] = Total(event, CreditedTo(p))

CoinsOK == Booked /\ Credited

\* The coins credited to a payment have values that can be added.
LEMMA CreditedValues ==
    ASSUME TypeOK, CoinsOK, NEW p \in CoinPayments
    PROVE  Valued(event, CreditedTo(p))
<1>1. ASSUME NEW e \in CreditedTo(p) PROVE event[e].value \in Nat
  <2>1. e \in CoinEvents /\ event[e] # NoEvent
    BY DEF CreditedTo, CoinsOK, Booked
  <2>. QED
    BY <2>1, EventFields, PaymentConstants
<1>. QED
  BY <1>1 DEF Valued, CoinsOK, Credited

\* A step that takes no coin keeps the rows of those taken, and their payments.
KeepsCredits ==
    /\ \A e \in CoinEvents :
          /\ coin'[e] = "accepted" <=> coin[e] = "accepted"
          /\ coin[e] = "accepted" => /\ event'[e].payment = event[e].payment
                                     /\ event'[e].value = event[e].value
    /\ \A p \in CoinPayments : received'[p] = received[p]

\* What such a step leaves is still what the payment received.
LEMMA CreditsStay ==
    ASSUME TypeOK, CoinsOK, KeepsCredits PROVE Credited'
<1>. SUFFICES ASSUME NEW p \in CoinPayments
              PROVE  /\ IsFiniteSet(CreditedTo(p)')
                     /\ received'[p] = Total(event', CreditedTo(p)')
  BY DEF Credited
<1>1. CreditedTo(p)' = CreditedTo(p)
  BY DEF CreditedTo, KeepsCredits
<1>2. \A e \in CreditedTo(p) : event[e].value = event'[e].value
  BY DEF CreditedTo, KeepsCredits
<1>3. Total(event, CreditedTo(p)) = Total(event', CreditedTo(p))
  BY <1>2, CreditedValues, TotalOfSame
<1>. QED
  BY <1>1, <1>3 DEF CoinsOK, Credited, KeepsCredits

\* An accepted coin adds its value to the payment its event names, and to no other.
LEMMA AcceptedIsCredited ==
    ASSUME TypeOK, CoinsOK, RequestsOK, NEW w \in Workers, AcceptCoin(w)
    PROVE  Credited'
<1>. DEFINE e == request[w].event
            q == event[e].payment
<1>1. e \in CoinEvents /\ event[e] # NoEvent /\ coin[e] = "none" /\ q \in CoinPayments
  BY RequestFields DEF AcceptCoin, TakesCoin, RequestsOK, CoinOK, StartedOK
<1>2. /\ event' = event /\ coin' = [coin EXCEPT ![e] = "accepted"]
      /\ received' = [received EXCEPT ![q] = received[q] + event[e].value]
  BY DEF AcceptCoin, Credit
<1>3. event[e].value \in Nat
  BY <1>1, EventFields, PaymentConstants
<1>. HIDE DEF e
<1>. SUFFICES ASSUME NEW p \in CoinPayments
              PROVE  /\ IsFiniteSet(CreditedTo(p)')
                     /\ received'[p] = Total(event, CreditedTo(p)')
  BY <1>2 DEF Credited
<1>4. p \in Payments
  BY DEF Payments
<1>5. CASE p = q
  <2>1. CreditedTo(p)' = CreditedTo(p) \union {e} /\ e \notin CreditedTo(p)
    BY <1>1, <1>2, <1>5 DEF CreditedTo, TypeOK
  <2>. DEFINE R == CreditedTo(p) \union {e}
  <2>2. Valued(event, R)
    <3>1. IsFiniteSet(R)
      BY FS_AddElement DEF CoinsOK, Credited
    <3>. QED
      BY <3>1, <1>3, CreditedValues DEF Valued
  <2>3. Total(event, R) = Total(event, CreditedTo(p)) + event[e].value
    <3>1. e \in R /\ R \ {e} = CreditedTo(p)
      BY <2>1
    <3>. QED
      BY <2>2, <3>1, TotalWithOneMore
  <2>4. received'[p] = received[p] + event[e].value
    BY <1>2, <1>4, <1>5 DEF TypeOK
  <2>. QED
    BY <2>1, <2>2, <2>3, <2>4 DEF CoinsOK, Credited, Valued
<1>6. CASE p # q
  <2>1. received'[p] = received[p]
    BY <1>2, <1>4, <1>6 DEF TypeOK
  <2>2. CreditedTo(p)' = CreditedTo(p)
    BY <1>1, <1>2, <1>6 DEF CreditedTo, TypeOK
  <2>. QED
    BY <2>1, <2>2 DEF CoinsOK, Credited
<1>. QED
  BY <1>5, <1>6

\* Every step keeps the books.
LEMMA CoinsStep == IInv /\ CoinsOK /\ [Next]_vars => CoinsOK'
<1>. SUFFICES ASSUME IInv, CoinsOK, [Next]_vars PROVE CoinsOK'
  OBVIOUS
<1>. TypeOK /\ RequestsOK
  BY DEF IInv
<1>. DEFINE Quiet == /\ UNCHANGED <<event, coin>>
                     /\ \A p \in CoinPayments : received'[p] = received[p]
<1>1. ASSUME Quiet PROVE CoinsOK'
  <2>1. KeepsCredits
    BY <1>1 DEF KeepsCredits
  <2>2. Booked'
    BY <1>1 DEF CoinsOK, Booked
  <2>. QED
    BY <2>1, <2>2, CreditsStay DEF CoinsOK
<1>2. ASSUME NEW p \in QrPayments, NEW s \in WebhookStatuses, Webhook(p, s) PROVE Quiet
  <2>1. \A q \in CoinPayments : q # p
    BY PaymentConstants
  <2>. QED
    BY <1>2, <2>1 DEF Webhook, UpdatePaymentStatus, PaymentData, TypeOK
<1>3. ASSUME NEW w \in Workers, NEW e \in CoinEvents, NEW p \in Payments,
             NEW v \in CoinValues, CoinArrives(w, e, p, v)
      PROVE  CoinsOK'
  <2>1. coin[e] = "none" /\ coin' = coin /\ received' = received
    BY <1>3 DEF CoinArrives, CoinsOK, Booked
  <2>2. \A f \in CoinEvents \ {e} : event'[f] = event[f]
    BY <1>3 DEF CoinArrives, TypeOK
  <2>3. KeepsCredits
    BY <2>1, <2>2 DEF KeepsCredits
  <2>4. Booked'
    BY <2>1, <2>2 DEF CoinsOK, Booked
  <2>. QED
    BY <2>3, <2>4, CreditsStay DEF CoinsOK
<1>4. ASSUME NEW w \in Workers, AcceptCoin(w) PROVE CoinsOK'
  <2>1. Booked'
    BY <1>4, RequestFields
       DEF AcceptCoin, CoinsOK, Booked, RequestsOK, CoinOK, StartedOK, TypeOK
  <2>. QED
    BY <1>4, <2>1, AcceptedIsCredited DEF CoinsOK
<1>5. ASSUME NEW w \in Workers, RejectCoin(w) PROVE CoinsOK'
  <2>. DEFINE e == request[w].event
  <2>1. /\ e \in CoinEvents /\ event[e] # NoEvent /\ coin[e] = "none"
        /\ event' = event /\ received' = received
        /\ coin' = [coin EXCEPT ![e] = "rejected"]
    BY <1>5, RequestFields DEF RejectCoin, TakesCoin, RequestsOK, CoinOK, StartedOK
  <2>2. KeepsCredits
    BY <2>1 DEF KeepsCredits, TypeOK
  <2>3. Booked'
    BY <2>1 DEF CoinsOK, Booked, TypeOK
  <2>. QED
    BY <2>2, <2>3, CreditsStay DEF CoinsOK
<1>6. ASSUME NEW w \in Workers, MarkProcessed(w) \/ MarkFailed(w) PROVE CoinsOK'
  <2>. DEFINE e == request[w].event
  <2>1. e \in CoinEvents /\ event[e] # NoEvent /\ coin' = coin /\ received' = received
    BY <1>6, RequestFields DEF MarkProcessed, MarkFailed, RequestsOK, CoinOK, StartedOK
  <2>2. PICK state : event' = [event EXCEPT ![e].state = state]
    BY <1>6 DEF MarkProcessed, MarkFailed
  <2>3. /\ event'[e].payment = event[e].payment /\ event'[e].value = event[e].value
        /\ event'[e] # NoEvent
        /\ \A f \in CoinEvents \ {e} : event'[f] = event[f]
    BY <2>1, <2>2, EventFields DEF NoEvent, TypeOK
  <2>4. KeepsCredits
    BY <2>1, <2>3 DEF KeepsCredits
  <2>5. Booked'
    BY <2>1, <2>3 DEF CoinsOK, Booked
  <2>. QED
    BY <2>4, <2>5, CreditsStay DEF CoinsOK
<1>7. ASSUME NEW w \in Workers, WorkerStep(w),
             ~(AcceptCoin(w) \/ RejectCoin(w) \/ MarkProcessed(w) \/ MarkFailed(w))
      PROVE  Quiet
  BY <1>7 DEF WorkerStep, CreateQrTransaction, QrCreationFails, CancelCommit,
       RefundAtProvider, RefundCommit, RefuseCoin
<1>8. ASSUME \/ \E p \in Payments : OpenCoin(p) \/ Deadline(p)
             \/ \E w \in Workers, p \in Payments :
                   OpenQr(w, p) \/ CancelRead(w, p) \/ RefundRead(w, p)
             \/ \E w \in Workers : RequestDies(w)
             \/ \E t \in Timers : ExpireRead(t) \/ ExpireCommit(t) \/ BatchDies(t)
             \/ UNCHANGED vars
      PROVE  Quiet
  BY <1>8 DEF OpenCoin, Deadline, OpenQr, CancelRead, RefundRead, RequestDies,
       ExpireRead, ExpireCommit, BatchDies, vars
<1>. QED
  BY <1>1, <1>2, <1>3, <1>4, <1>5, <1>6, <1>7, <1>8 DEF Next

\* They are right at the start.
LEMMA CoinsInit == Init => CoinsOK
<1>. SUFFICES ASSUME Init PROVE CoinsOK
  OBVIOUS
<1>1. \A p \in CoinPayments : CreditedTo(p) = {} /\ received[p] = 0
  BY DEF Init, CreditedTo, Payments
<1>. QED
  BY <1>1, FS_EmptySet, TotalOfNone DEF CoinsOK, Booked, Credited, Init

\* For any set of coins, values, retries and requests that died half-way, what a
\* coin payment has received is the sum of its accepted coin_insertions rows.
THEOREM CreditedInFull == Spec => []CoinsAreCredited
<1>1. CoinsOK => CoinsAreCredited
  BY DEF CoinsOK, Credited, CoinsAreCredited, Total
<1>2. Spec => []CoinsOK
  BY Inductive, CoinsInit, CoinsStep, PTL DEF Spec
<1>. QED
  BY <1>1, <1>2, PTL

-----------------------------------------------------------------------------
(* What a confirmed payment holds is final                                  *)

\* A QR payment has received nothing or its price: no sum of parts.
QrAmounts == \A p \in QrPayments : received[p] \in {0, Price}

FinalOK == QrAmounts /\ OnlyPaidIsRefunded

\* Money is received by a webhook that confirms a QR payment or by an accepted
\* coin, and nobody else writes the amount.
LEMMA AmountWriters ==
    ASSUME IInv, [Next]_vars
    PROVE  \/ UNCHANGED <<received, confirmed>>
           \/ \E p \in QrPayments, s \in WebhookStatuses :
                 /\ Webhook(p, s)
                 /\ received' = [received EXCEPT ![p] = Price]
                 /\ confirmed' = confirmed \union {p}
           \/ \E w \in Workers :
                 LET p == event[request[w].event].payment IN
                 /\ AcceptCoin(w)
                 /\ p \in CoinPayments \ confirmed
                 /\ received' = [received EXCEPT
                                    ![p] = Credit(p, event[request[w].event].value)]
                 /\ confirmed' \in {confirmed, confirmed \union {p}}
<1>1. ASSUME NEW p \in QrPayments, NEW s \in WebhookStatuses, Webhook(p, s)
      PROVE  \/ UNCHANGED <<received, confirmed>>
             \/ /\ received' = [received EXCEPT ![p] = Price]
                /\ confirmed' = confirmed \union {p}
  BY <1>1 DEF Webhook, UpdatePaymentStatus, PaymentData
<1>2. ASSUME NEW w \in Workers, AcceptCoin(w)
      PROVE  LET p == event[request[w].event].payment IN
             /\ p \in CoinPayments \ confirmed
             /\ received' = [received EXCEPT
                                ![p] = Credit(p, event[request[w].event].value)]
             /\ confirmed' \in {confirmed, confirmed \union {p}}
  BY <1>2 DEF AcceptCoin, TakesCoin, IsTerminal, Terminal, IInv, MoneyOK,
              ConfirmedNeverLapses
<1>3. CASE UNCHANGED moneyVars
  BY <1>3 DEF moneyVars
<1>. QED
  BY <1>1, <1>2, <1>3, MoneyWriters
     DEF OpenCoin, OpenQr, CreateQrTransaction, QrCreationFails, CancelCommit,
         RefundCommit, ExpireCommit

LEMMA FinalInit == Init => FinalOK
BY DEF Init, FinalOK, QrAmounts, OnlyPaidIsRefunded, Payments

\* Refunds are executed only for a request that found its payment confirmed.
LEMMA FinalStep == IInv /\ FinalOK /\ [Next]_vars => FinalOK'
<1>. SUFFICES ASSUME IInv, FinalOK, [Next]_vars PROVE FinalOK'
  OBVIOUS
<1>. TypeOK /\ RequestsOK
  BY DEF IInv
<1>1. QrAmounts'
  <2>. SUFFICES ASSUME NEW q \in QrPayments, received'[q] # received[q]
                PROVE  received'[q] = Price
    BY DEF FinalOK, QrAmounts
  <2>1. q \in Payments /\ q \notin CoinPayments
    BY PaymentConstants DEF Payments
  <2>. QED
    BY <2>1, AmountWriters DEF TypeOK
<1>2. OnlyPaidIsRefunded'
  <2>. SUFFICES ASSUME NEW q \in QrPayments, refundCalls'[q] > 0
                PROVE  q \in confirmed'
    BY DEF OnlyPaidIsRefunded
  <2>1. confirmed \subseteq confirmed'
    BY RowsStay
  <2>2. CASE refundCalls'[q] = refundCalls[q]
    BY <2>1, <2>2 DEF FinalOK, OnlyPaidIsRefunded
  <2>3. ASSUME NEW w \in Workers, RefundAtProvider(w)
        PROVE  refundCalls'[q] = refundCalls[q] \/ q \in confirmed
    BY <2>3, RequestFields DEF RefundAtProvider, RequestsOK, RefundOK, TypeOK
  <2>4. \/ UNCHANGED refundCalls
        \/ \E w \in Workers : RefundAtProvider(w)
    BY DEF Next, WorkerStep, vars, OpenCoin, Deadline, OpenQr, CancelRead,
           RefundRead, Webhook, CreateQrTransaction, QrCreationFails, CancelCommit,
           RefundCommit, AcceptCoin, RejectCoin, RefuseCoin, CoinArrives,
           MarkProcessed, MarkFailed, RequestDies, ExpireRead, ExpireCommit, BatchDies
  <2>. QED
    BY <2>1, <2>2, <2>3, <2>4
<1>. QED
  BY <1>1, <1>2 DEF FinalOK

LEMMA FinalAlways == Spec => []FinalOK
BY Inductive, FinalInit, FinalStep, PTL DEF Spec

\* Refunds are of confirmed payments and recorded when paid, for any number of
\* refund requests that overlap, are repeated or die between two of their steps.
THEOREM RefundsArePaidFor == Spec => []RefundsAreDue
<1>1. IInv /\ FinalOK => RefundsAreDue
  BY DEF FinalOK, IInv, RefundsAreDue
<1>. QED
  BY <1>1, Inductive, FinalAlways, PTL

\* No step takes a confirmed_at back or changes the amount beside it: a repeated
\* webhook writes the price again, and a coin finds the payment ended.
THEOREM ConfirmedIsFinal == Spec => ConfirmedIsKept
<1>. DEFINE Keeps == \A p \in confirmed :
                        /\ p \in confirmed'
                        /\ received'[p] = received[p]
                        /\ status'[p] \in {"confirmed", "refunded", "cancelled"}
<1>1. IInv /\ IInv' /\ FinalOK /\ [Next]_vars => [Keeps]_vars
  <2>. SUFFICES ASSUME IInv, IInv', FinalOK, [Next]_vars, NEW p \in confirmed
                PROVE  /\ p \in confirmed'
                       /\ received'[p] = received[p]
                       /\ status'[p] \in {"confirmed", "refunded", "cancelled"}
    OBVIOUS
  <2>. TypeOK /\ ConfirmedIffPaid
    BY DEF IInv, MoneyOK
  <2>1. p \in Payments /\ Price \in Nat \ {0}
    BY PaymentConstants DEF TypeOK
  <2>2. p \in confirmed'
    BY RowsStay
  <2>3. p \in QrPayments => received[p] = Price
    BY <2>1 DEF FinalOK, QrAmounts, ConfirmedIffPaid
  <2>4. status'[p] \in {"confirmed", "refunded", "cancelled"}
    BY <2>2 DEF IInv, MoneyOK, ConfirmedNeverLapses
  <2>. QED
    BY <2>1, <2>2, <2>3, <2>4, AmountWriters DEF TypeOK
<1>. QED
  BY <1>1, Inductive, FinalAlways, PTL DEF Spec, ConfirmedIsKept

-----------------------------------------------------------------------------
(* The services implement the ledger                                        *)

LEMMA LedgerInit == Init => Ledger!Init
BY DEF Init, Ledger!Init

\* Every action is a step of the ledger or leaves its two variables alone.
LEMMA LedgerStep == IInv /\ [Next]_vars => [Ledger!Next]_(Ledger!vars)
<1>. SUFFICES ASSUME IInv, [Next]_vars
              PROVE  Ledger!Next \/ UNCHANGED <<status, confirmed>>
  BY DEF Ledger!vars
<1>. DEFINE Goal == Ledger!Next \/ UNCHANGED <<status, confirmed>>
<1>. TypeOK /\ RequestsOK /\ DeadlinesOK /\ MoneyOK
  BY DEF IInv
<1>. QrPayments \subseteq Payments
  BY DEF Payments
<1>1. CASE UNCHANGED moneyVars
  BY <1>1 DEF moneyVars
<1>2. ASSUME NEW p \in Payments,
             OpenCoin(p) \/ (\E w \in Workers : OpenQr(w, p))
      PROVE  Goal
  <2>1. Ledger!Open(p)
    BY <1>2 DEF OpenCoin, OpenQr, Unopened, Ledger!Open
  <2>. QED
    BY <2>1 DEF Ledger!Next
<1>3. ASSUME NEW p \in QrPayments, NEW s \in WebhookStatuses, Webhook(p, s)
      PROVE  Goal
  <2>1. CASE status[p] = s
    <3>1. s = "confirmed" => p \in confirmed
      BY <2>1 DEF MoneyOK, ConfirmedIffPaid
    <3>2. status' = status
      BY <1>3, <2>1 DEF Webhook, UpdatePaymentStatus, PaymentData, TypeOK
    <3>3. confirmed' = confirmed
      BY <1>3, <3>1 DEF Webhook, UpdatePaymentStatus, PaymentData
    <3>. QED
      BY <3>2, <3>3
  <2>2. CASE status[p] # s
    <3>1. status[p] \in Ledger!Live
      BY <1>3, <2>2 DEF Webhook, UpdatePaymentStatus, PaymentData, HasQrRow,
           MayBecome, IsTerminal, Terminal, DeadlinesOK, Ledger!Live
    <3>2. p \notin confirmed
      BY <3>1 DEF MoneyOK, ConfirmedNeverLapses, Ledger!Live
    <3>3. CASE s = "confirmed"
      <4>1. Ledger!Confirm(p)
        BY <1>3, <3>1, <3>3 DEF Webhook, UpdatePaymentStatus, PaymentData,
             Ledger!Confirm
      <4>. QED
        BY <4>1 DEF Ledger!Next
    <3>4. CASE s = "failed"
      <4>1. Ledger!Fail(p)
        BY <1>3, <3>1, <3>2, <3>4 DEF Webhook, UpdatePaymentStatus, PaymentData,
             Ledger!Fail
      <4>. QED
        BY <4>1 DEF Ledger!Next
    <3>5. CASE s = "expired"
      <4>1. status' = [q \in Payments |-> IF q \in {p} THEN "expired" ELSE status[q]]
        BY <1>3, <3>5 DEF Webhook, UpdatePaymentStatus, PaymentData, TypeOK
      <4>2. Ledger!Expire({p})
        BY <1>3, <3>1, <3>5, <4>1 DEF Webhook, UpdatePaymentStatus, PaymentData,
             Ledger!Expire
      <4>3. {p} \in SUBSET Payments
        OBVIOUS
      <4>. QED
        BY <4>2, <4>3 DEF Ledger!Next
    <3>. QED
      BY <3>3, <3>4, <3>5 DEF WebhookStatuses
  <2>. QED
    BY <2>1, <2>2
<1>4. ASSUME NEW w \in Workers, CreateQrTransaction(w) PROVE Goal
  BY <1>4 DEF CreateQrTransaction
<1>5. ASSUME NEW w \in Workers, QrCreationFails(w) PROVE Goal
  <2>. DEFINE p == request[w].payment
  <2>1. /\ p \in Payments /\ p \notin confirmed
        /\ status[p] \in Ledger!Live \union {"cancelled"}
    BY <1>5, RequestFields
       DEF QrCreationFails, RequestsOK, OpeningOK, Ledger!Live
  <2>2. Ledger!Fail(p)
    BY <1>5, <2>1 DEF QrCreationFails, Ledger!Fail
  <2>. QED
    BY <2>1, <2>2 DEF Ledger!Next
<1>6. ASSUME NEW w \in Workers, CancelCommit(w) PROVE Goal
  <2>. DEFINE p == request[w].payment
  <2>1. p \in Payments /\ status[p] # "none"
    BY <1>6, RequestFields DEF CancelCommit, RequestsOK, CancelOK
  <2>2. Ledger!Cancel(p)
    BY <1>6, <2>1 DEF CancelCommit, Ledger!Cancel
  <2>. QED
    BY <2>1, <2>2 DEF Ledger!Next
<1>7. ASSUME NEW w \in Workers, RefundCommit(w) PROVE Goal
  <2>. DEFINE p == request[w].payment
  <2>1. p \in Payments /\ p \in confirmed
    BY <1>7, RequestFields DEF RefundCommit, RefundedAtProvider, RequestsOK, RefundOK
  <2>2. Ledger!Refund(p)
    BY <1>7, <2>1 DEF RefundCommit, Ledger!Refund
  <2>. QED
    BY <2>1, <2>2 DEF Ledger!Next
<1>8. ASSUME NEW w \in Workers, AcceptCoin(w) PROVE Goal
  <2>. DEFINE p == event[request[w].event].payment
              total == Credit(p, event[request[w].event].value)
  <2>1. p \in Payments /\ status[p] \in Ledger!Live
    BY <1>8 DEF AcceptCoin, TakesCoin, IsTerminal, Terminal, TypeOK, Statuses,
                Live, Payments, Ledger!Live
  <2>2. CASE Reaches(total)
    <3>1. Ledger!Confirm(p)
      BY <1>8, <2>1, <2>2 DEF AcceptCoin, Ledger!Confirm
    <3>. QED
      BY <2>1, <3>1 DEF Ledger!Next
  <2>3. CASE ~Reaches(total)
    <3>1. Ledger!Progress(p)
      BY <1>8, <2>1, <2>3 DEF AcceptCoin, Ledger!Progress
    <3>. QED
      BY <2>1, <3>1 DEF Ledger!Next
  <2>. QED
    BY <2>2, <2>3
<1>9. ASSUME NEW t \in Timers, ExpireCommit(t) PROVE Goal
  <2>1. StillLive(t) \in SUBSET Payments /\ \A p \in StillLive(t) : status[p] \in Ledger!Live
    BY DEF StillLive, TypeOK, Live, Ledger!Live
  <2>2. Ledger!Expire(StillLive(t))
    BY <1>9, <2>1 DEF ExpireCommit, Ledger!Expire
  <2>. QED
    BY <2>1, <2>2 DEF Ledger!Next
<1>. QED
  BY <1>1, <1>2, <1>3, <1>4, <1>5, <1>6, <1>7, <1>8, <1>9, MoneyWriters

\* All services, requests and timers together implement the promise of the
\* payments table: each of their steps is one legal change of one payment (of a
\* batch, for the timer) or no change at all.
THEOREM LedgerImplemented == Spec => ImplementsLedger
<1>. QED
  BY LedgerInit, LedgerStep, Inductive, PTL DEF Spec, ImplementsLedger, Ledger!Spec

\* What the ledger itself promises, by its steps alone: a payment once confirmed
\* reads confirmed, refunded or cancelled, and nothing else is refunded.
LedgerPromise ==
    /\ confirmed \subseteq Payments
    /\ status \in [Payments -> Statuses]
    /\ \A p \in Payments :
          /\ p \in confirmed => status[p] \in {"confirmed", "refunded", "cancelled"}
          /\ status[p] \in {"confirmed", "refunded"} => p \in confirmed

\* The abstract specification says what its comment says: any system that
\* implements it, this one included, keeps the promise.
THEOREM LedgerKeepsPromise == Ledger!Spec => []LedgerPromise
<1>1. Ledger!Init => LedgerPromise
  BY DEF Ledger!Init, LedgerPromise, Statuses
<1>2. LedgerPromise /\ [Ledger!Next]_(Ledger!vars) => LedgerPromise'
  <2>. SUFFICES ASSUME LedgerPromise, [Ledger!Next]_(Ledger!vars) PROVE LedgerPromise'
    OBVIOUS
  <2>. USE DEF LedgerPromise, Statuses, Live, Terminal, Ledger!Live
  <2>1. ASSUME NEW p \in Payments, Ledger!Open(p) \/ Ledger!Progress(p)
        PROVE  LedgerPromise'
    BY <2>1 DEF Ledger!Open, Ledger!Progress
  <2>2. ASSUME NEW p \in Payments, Ledger!Confirm(p) \/ Ledger!Refund(p)
        PROVE  LedgerPromise'
    BY <2>2 DEF Ledger!Confirm, Ledger!Refund
  <2>3. ASSUME NEW p \in Payments, Ledger!Fail(p) \/ Ledger!Cancel(p)
        PROVE  LedgerPromise'
    BY <2>3 DEF Ledger!Fail, Ledger!Cancel
  <2>4. ASSUME NEW rows \in SUBSET Payments, Ledger!Expire(rows)
        PROVE  LedgerPromise'
    BY <2>4 DEF Ledger!Expire
  <2>5. CASE UNCHANGED <<status, confirmed>>
    BY <2>5
  <2>. QED
    BY <2>1, <2>2, <2>3, <2>4, <2>5 DEF Ledger!Next, Ledger!vars
<1>. QED
  BY <1>1, <1>2, PTL DEF Ledger!Spec

\* No customer pays into a payment that has ended, and no timer waits for it.
EndedNeverRevives ==
    [][\A p \in Payments :
          status[p] \notin Live \union {"none"} => status'[p] \notin Live \union {"none"}]_vars

\* A payment that has ended never becomes live again: no step of the ledger
\* reopens one, and every step of the services is a step of the ledger.
THEOREM EndedStays == Spec => EndedNeverRevives
<1>. DEFINE Stays == \A p \in Payments :
                        status[p] \notin Live \union {"none"}
                           => status'[p] \notin Live \union {"none"}
<1>1. IInv /\ [Ledger!Next]_(Ledger!vars) => Stays
  <2>. SUFFICES ASSUME IInv, [Ledger!Next]_(Ledger!vars), NEW p \in Payments,
                       status[p] \notin Live \union {"none"}
                PROVE  status'[p] \notin Live \union {"none"}
    OBVIOUS
  <2>. TypeOK
    BY DEF IInv
  <2>. QED
    BY DEF TypeOK, Live, Ledger!Next, Ledger!vars, Ledger!Open, Ledger!Progress,
           Ledger!Confirm, Ledger!Fail, Ledger!Expire, Ledger!Cancel, Ledger!Refund,
           Ledger!Live
<1>2. IInv /\ [Next]_vars => [Stays]_vars
  BY <1>1, LedgerStep
<1>. QED
  BY <1>2, Inductive, PTL DEF Spec, EndedNeverRevives
=============================================================================

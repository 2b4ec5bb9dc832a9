# Verification of the coin acceptor backend

TLA+ models, model-checking runs and machine-checked proofs of the protocols in
the NestJS backend of a phone-charging kiosk system (`src/src/apps`, with the
PostgreSQL schema `src/charging_system_source_of_truth.sql`). A station has
devices; a device has lockers with charging ports, a coin acceptor and a screen.
Customers pay by coin or QR at the device, or with their own phone through the
public API, and get a locker and a PIN.

Every server instance handles many HTTP requests at once over one PostgreSQL
database (READ COMMITTED) and one Redis. Nearly all hazards come from that: a
service reads a row, checks it, and writes it by its id in a later statement or
transaction, while a webhook, a device event, an interval timer or another
request writes the same row; and any of them may end between two of its steps.

## Inventory

| Component (`src/src/apps/...`) | State it keeps | Operations | Hard behaviour | Status |
|---|---|---|---|---|
| `payments` | `payments`, `qr_payment_transactions`, `coin_insertions` | initiate, QR creation, cancel, webhook, refund, coin credit, expiry | races of five writers on one row; crash between rows; late and repeated webhooks; retried refunds | modelled: `Payments` |
| `device-commands` | `device_commands` | create, cancel, poll, acknowledge, expire | lost poll responses, concurrent polls, late and repeated acknowledgements, expiry against both | modelled: `DeviceCommands` |
| `public-charging` | token records in Redis; `charging_sessions`, `charging_session_payments`; a locker status; the open alert | QR resolution, checkout token, public payment, status (creates the session), PIN claim | reservation against stale snapshots, two stores written one after the other, repeated payments, racing claims, a checkout that outlives the service of its device | modelled: `PublicSessions`, `Checkout` |
| `device-ingestion` | `device_events`, nonces, device, locker and port reports | authenticate (HMAC, API key), ingest, dispatch to handlers | repeated requests, duplicates, a crash between the handler and the event row, reordering, a restart that forgets nonces | modelled: `DeviceAccess`, `DeviceReports`; coins in `Payments`, acknowledgements in `DeviceCommands` |
| `devices`, `stations` | `devices`, `stations` | create, move, lifecycle, status | counts of devices and sessions read before the write by id | modelled: `FleetAdministration` |
| `lockers`, `charging-ports` | `lockers`, `charging_ports` | create, edit, change status or channel | changes checked against sessions and reports read earlier | modelled: `FleetAdministration`, `PublicSessions` |
| `device-credentials` | `device_credentials` | create, rotate, revoke | the last active credential, counted before the write | modelled: `DeviceAccess` |
| `auth` | `auth_sessions`, lock-out counters on `users` | login, refresh, logout, change of password | concurrent refresh of one token, replay of a rotated one, a login under way while the account is restricted | modelled: `AuthService` |
| `users`, `access-control` | `users`, `roles`, `role_permissions`, `user_role_assignments` | create, restrict, reset a password; roles, their permissions, grant, revoke; guards and scope queries | check-then-act on the last global super admin; guard and service deciding apart | modelled: `AccountAdministration`, `AccountTables`, `AdminRoutes` |
| `audit-logs` | `audit_logs` | append, read | none between steps | who may read: `AdminRoutes` |
| `settings`, `iot-contract`, `health` | configuration, none | read | none between steps | not modelled; the QR settings are constants of `Checkout` |
| `alerts`, `reports`, `charging-sessions` | none | none | empty feature modules | not modelled |
| `common`, `config`, bootstrap | none | none | none | not modelled |

How they interact: device events enter through `device-ingestion`, which inserts a
`device_events` row, calls one handler (a coin goes to `payments`, an
acknowledgement to `device-commands`, a port report to `charging_ports`) and marks
the row. `public-charging` writes a confirmed payment, reserves a locker with the
charging session and queues `charging.prepare` in `device_commands`. The timers of
`payments` and `device-commands` run inside every server. Administrators reach
`stations`, `devices`, `lockers`, `charging-ports`, `device-credentials`, `users` and
`access-control` through `auth`'s guard and then `access-control`'s; what they change
is what customers and devices meet: a device is resolved from its QR code only while
it and its station are in service, and authenticates only with a live credential.

What makes each part correct:

* payments: money that was received is confirmed once, is never lost to a timer, a
  webhook or a race, agrees with the provider's transaction, and is refunded only
  when the provider paid back;
* commands: a command goes out in at most one poll response, an answer is never
  attributed to the wrong event, an acknowledgement reported as processed has left
  its mark, and an expired command settles;
* public sessions: no locker is given to two customers, one PIN is ever stored and
  it is the one the customer saw and the device verifies, and the token store never
  runs ahead of the database;
* accounts: a refresh token is good for one successor, a restricted account or a
  replaced password leaves no session behind, a lock has its failed logins, the last
  global super admin is never removed knowingly, and guard and service let the same
  people through;
* fleet: what is decommissioned stays so and holds neither devices nor sessions, a
  device in service keeps a credential, a signed request is taken once, a report is
  taken in hand and leaves its mark once, and a port is rewired only at rest.

## Modules

| Module | Models |
|---|---|
| `PaymentLedger` | abstract: what the payments table promises its readers |
| `Payments` | the payment services, the coin handler, webhook and expiry timer; refines `PaymentLedger` |
| `PaymentsProofs` | its inductive invariant and theorems |
| `CommandQueue` | abstract: what the command table promises a device |
| `DeviceCommands` | the command services, acknowledgement handler, polls and expiry; refines `CommandQueue` |
| `DeviceCommandsProofs` | its inductive invariant and theorems |
| `SlotAllocation` | abstract: one slot per payment, one payment per locker, one PIN |
| `PublicSessions` | public payment, tokens, session creation, PIN claim, with administrators and port reports; refines `SlotAllocation` |
| `PublicSessionsProofs` | its inductive invariant and theorems |
| `SessionLedger` | abstract: what the rows of `auth_sessions` promise the holder of a refresh token |
| `SessionLedgerProofs` | its inductive invariant and theorems |
| `AccountTables` | the tables of accounts, the permission and scope queries, the guards, requests and the clock |
| `AuthService` | login, refresh, logout, change of password |
| `AccountAdministration` | users, roles, permissions, assignments |
| `AdminRoutes` | each administrative route: its guard and the scope of its service |
| `Accounts` | composes `AuthService`, `AccountAdministration` and `AdminRoutes`; refines `SessionLedger` |
| `AccountsProofs` | its inductive invariant and theorems: types, refinement, forks |
| `AccountsRaceProofs` | theorems about accounts that one request at a time is about |
| `AuthorityProofs` | theorems about who may do what, and about the last super admin |
| `FleetTables` | the tables of stations, devices, places, credentials, reports and customers; requests |
| `FleetAdministration` | stations, devices, lockers, charging ports |
| `DeviceAccess` | credentials, authentication, nonces, restarts |
| `DeviceReports` | the event row and the handlers |
| `Checkout` | QR resolution, checkout tokens, payment and session of a customer |
| `Fleet` | composes the five above |
| `FleetProofs` | its inductive invariants and theorems |
| `MCPayments`, `MCDeviceCommands`, `MCPublicSessions`, `MCAccounts`, `MCFleet` | constants, initial tables and symmetry for TLC |

Conventions of all detailed modules:

* A database transaction, or a single statement outside one, is one action. A
  service that reads and later writes is two actions or more, with a record in
  `request` (one per request in flight, `Workers` of them) that holds what it read.
  Locks (`FOR UPDATE`) are what makes the read and the write one action, or a guard
  (`PaymentUnlocked`) where the transaction is split to expose a stale snapshot.
* `RequestDies` ends a request between any two steps: a stopped process, a lost
  connection, a transaction PostgreSQL aborts as a deadlock victim. Since every
  request record may die and the tables stay, this is also the crash and restart of
  a server. `BatchDies` does it for a timer run.
* A row's identity is its idempotency key (or event id), so a retry is the same
  element again. Time is a set of deadlines that have passed (`due`, `available`,
  `lapsed`), which grows at any moment.
* A property that quotes a document and is refuted has a run of its own.

### `Payments`

| Action | Code |
|---|---|
| `OpenCoin`, `OpenQr`, `CreateQrTransaction`, `QrCreationFails` | `payment-initiation.service.ts`, `qr-payment.service.ts`, mock provider |
| `CancelRead`, `CancelCommit` | `payment-cancellation.service.ts` |
| `Webhook` | `payment-webhook.service.ts`, `payment-webhook-state.ts` |
| `RefundRead`, `RefundAtProvider`, `RefundCommit` | `payment-refund.service.ts` |
| `CoinArrives`, `AcceptCoin`, `RejectCoin`, `RefuseCoin`, `MarkProcessed`, `MarkFailed` | `device-event.service.ts`, `coin-insertion-event.handler.ts` |
| `Deadline`, `ExpireRead`, `ExpireCommit` | `payment-expiration.service.ts` |

Abstracted: amounts are multiples of a small unit, a coin's value stands for its
pulse count (0 is a count without a mapping), a webhook carries one of the statuses
`parseWebhook` accepts, and one with a wrong amount or signature writes nothing.
`confirmed` is the set of rows with `confirmed_at`.

### `DeviceCommands`

| Action | Code |
|---|---|
| `CreateRead`, `Insert`, `InsertCollides` | `device-commands.service.ts`, `command-idempotency.service.ts` |
| `QueueForClaim` | `access-code-claim.service.ts` (the upsert of `charging.prepare`) |
| `CancelRead`, `CancelCommit` | `device-commands.service.ts` |
| `Poll` | `command-polling.service.ts` |
| `AckArrives`, `AckRead`, `AckCommit`, `MarkProcessed`, `MarkFailed` | `device-event.service.ts`, `command-acknowledgement.service.ts`, `command-transition.policy.ts` |
| `BecomeAvailable`, `Lapse`, `ExpireBatch` | `command-expiry.service.ts` |

A payload is what it says and the order of its JSON keys: the column is JSONB, so
`Jsonb` forgets the order (`Matches` compares text). `received` is what the device
knows: a poll response may be lost. The order of a poll is left open, because
`SKIP LOCKED` may pass over any row. The device is not trusted beyond answering only
commands it received.

### `PublicSessions`

| Action | Code |
|---|---|
| `Initiate`, `AcceptTransaction` | `public-payment.service.ts` |
| `IssueToken`, `PublishToken`, `TokenExpires`, `BindLookup`, `BindSave` | `anonymous-customer-flow.service.ts`, `public-redis-token.store.ts` |
| `StatusRead`, `EnsureLock`, `Reserve`, `ReserveCollides`, `NoSlot` | `public-payment.service.ts`, `public-session-creation.service.ts`, the unique indexes |
| `ClaimRead`, `ClaimStore`, `ClaimRefused` | `access-code-claim.service.ts` |
| `LockerChangeRead`, `LockerChangeSave`, `PortChangeRead`, `PortChangeSave` | `lockers.service.ts`, `charging-ports.service.ts` and their operations |
| `PortReported` | `charging-port-event.handler.ts` |

The transaction of a reservation is split: `EnsureLock` takes the lock on the
payment and the snapshot in which `NOT EXISTS (... charging_sessions ...)` is
evaluated, `Reserve` locks and re-reads the locker and port rows, inserts, and
commits. That is what READ COMMITTED does, and it is why the unique index on live
sessions, not the query, is what keeps a locker from being given twice. Statuses of
lockers other than `available` and `reserved`, and of ports other than `available`,
are one value (`out`); door, lock and power state, which only refuse an
administrator's change, are left to the choice of the change itself; which free slot
is taken first is left open. A lost response is a token or PIN nobody uses.
Redis may drop a record at any time after it was written (`TokenExpires`).
Public payments are confirmed when inserted and stay so: the webhook and refund
services look the provider up in a registry that knows only `mock`. No service ends
a session, so a session is a port that is set once. One device is modelled: nothing
is shared between devices.

### `Accounts`

| Action | Code |
|---|---|
| `LoginReads`, `RegisterFailedLogin`, `LockAccount`, `LoginSucceeds`, `CreateAuthSession` | `auth.service.ts`, `auth-account.service.ts` |
| `RefreshReads`, `RotateSession`, `RevokeFamily` | `auth-session.service.ts` (`rotateSession`, `handleRevokedRefresh`) |
| `LogoutStarts`, `Logout`, `LogoutAll`, `RevokeOwnSessionStarts`, `RevokeOwnSession`, `RevokeUserSessions` | `auth.controller.ts`, `auth-session.service.ts` |
| `ChangePasswordReads`, `ChangePassword` | `auth.service.ts` |
| `CreateUserRequested`, `CreateUser`, `UserStatusRequested`, `CheckUserStatus`, `SetUserStatus`, `TemporaryPasswordRequested`, `SetTemporaryPassword` | `users.service.ts` |
| `CreateRoleRequested`, `CreateRole`, `RoleStatusRequested`, `UpdateRoleStatus`, `SyncPermissionsDeletes`, `SyncPermissionsInserts` | `roles.service.ts` |
| `AssignmentRequested`, `ValidateAssignable`, `InsertAssignment`, `RevocationRequested`, `CheckRevocation`, `RevokeAssignment` | `role-assignments.service.ts` |
| `LockEnds`, `SessionExpires`, `AssignmentExpires` | the passing of the columns' times |

`AuthService` uses no transaction but the one of `RotateSession`, so each statement is
an action. A refresh token is the row it was signed for, and whoever received it once
may send it again at any time. `Admit` is `JwtAuthGuard` followed by
`PermissionsGuard`; a request the guards turn away changes nothing and does not
start. Names, phone numbers and descriptions are left out, and with them the requests
that edit nothing else. The existence of the station of a grant is not a matter of
the model.

`AdminRoutes` transcribes every route: the permission in its decorator, where its
request has a place for a station, and the permission its service asks for, of the
row's station, of a named one, of both (a device that moves) or as the scope of a
list. `PermissionsGuard` takes a `stationId` from the path, the body or the query of
any request, before any pipe has looked at it (`stationIdFromRequest`), so what the
guard is told and what the service is told are two fields of a request (`Asked`): a
list takes its filter from the query alone, and a station can be named on a route
whose service has no use for it. `Served` is the outcome of guard and service
together. The lists of users, role assignments and audit logs filter by the station
and check nothing. `createRestart` stands for the command types that need one
permission more.

### `Fleet`

| Action | Code |
|---|---|
| `CreateStation`, `StationStatusRequested`, `SetStationStatus` | `station-write.service.ts`, `station-status.service.ts`, `station-status.policy.ts` |
| `CreateDeviceRequested`, `CreateDevice`, `MoveDeviceRequested`, `MoveDevice` | `device-write.service.ts` and its policies |
| `LifecycleRequested`, `SetLifecycle` | `device-lifecycle.service.ts`, `device-lifecycle.policy.ts` |
| `CreateLockerRequested`, `CreateLocker`, `AvailabilityRequested`, `SetAvailability` | `lockers` operations and policy |
| `CreatePortRequested`, `CreatePort`, `ChannelChangeRequested`, `SetChannel`, `PortStatusRequested`, `SetPortStatus` | `charging-ports` operations and policies |
| `CreateCredentialRequested`, `CreateCredential`, `RotateRequested`, `Rotate`, `RevokeRequested`, `Revoke`, `CredentialExpires` | `device-credentials` |
| `Signed`, `Redelivered`, `FindCredential`, `NonceReserved`, `NonceRefused`, `AuthenticateApiKey`, `TimePasses`, `ServerRestarts` | `device-hmac.service.ts`, `device-replay-protection.service.ts`, `device-api-key.service.ts` |
| `Ingest`, `Unhandled`, `HeartbeatRead`, `Heartbeat`, `Telemetry`, `LockerReport`, `PortReport`, `Mark`, `MarkFails` | `device-event.service.ts` and the handlers |
| `Resolve`, `IssueCheckout`, `CheckoutExpires`, `Initiate`, `CreatePayment`, `EnsureSession` | `public-qr-resolution.service.ts`, `anonymous-checkout.service.ts`, `public-payment.service.ts`, `public-session-creation.service.ts` |

An administrator's request passes its guards and makes its first read and its checks
in one action, and writes by id in the next; that the caller may ask is the matter of
`Accounts`. The database's own checks (unique keys, foreign keys) are part of the
write. `disturbed` records the rows that two requests had in hand at one time, or
that a request died with; `overtaken` the devices decommissioned while a customer
was under way; `abandoned` the reports whose request died. They are auxiliary: no
action reads them, and the properties use them to say exactly when a check made
before its write can go wrong. The clock counts seconds; what is remembered of a
nonce is its credential and until when, in the memory of one server or in Redis, and
only the memory is lost by `ServerRestarts`. A signed request takes three steps: its
stamp is checked on arrival (`AuthenticateHmac`), its credential is read, and its nonce
is reserved, with the clock free to go on between them. While Redis does not answer
every nonce is refused, and Redis may have kept it (`NonceRefused`). A signature is who
signed.

A report is a record of what its event type and its payload say, `None` for a field
that neither says: a locker report may change door and lock, a port report status and
power, each to any value the handler accepts, and a value it does not accept fails the
report. Two reports are duplicates by external id or by sequence number, which nothing
else reads. `ActiveSessions` is empty, since no service makes a session active, so the
refusal of `available` on a charging port is there and never comes to pass. `MarkFails`
is the update to `processed` that throws: the report ends failed with its effect in
place, because one `catch` is around handler and update.

One port stands for the ports of a locker; names, labels, electrical limits, sensor
states, audit rows and key material are left out. QR
settings exist from the start (no service of the repository writes them), and the
customer's choice among packages on offer is left out. `EnsureSession` is one action
here: `PublicSessions` has its steps.

## Runs

| Run | Checks | Shows |
|---|---|---|
| `payments_safety` | `TypeOK`, `ConfirmedIffPaid`, `ProviderAgrees`, `CoinsAreCredited`, `ProcessedCoinHasRow`, `RefundsAreDue`, `ConfirmedIsKept`, `ImplementsLedger` | holds |
| `payments_liveness` | `StalePaymentsEnd` | holds |
| `payments_stuck` | `EveryLivePaymentEnds` | refuted: a QR payment without a transaction row never expires |
| `payments_cancel_race` | `ConfirmedIsOnlyRefunded` | refuted: a cancellation overwrites a confirmation |
| `payments_double_refund` | `RefundedOnce` | refuted: the provider refunds twice |
| `commands_safety` | `TypeOK`, `HandedOutOnce`, `RowsAgreeWithAnswers`, `ProcessedAckLeftMark`, `ImplementsQueue`, `LapsedCommandsSettle` | holds |
| `commands_terminal` | `TerminalStays` | refuted: terminal commands are overwritten |
| `commands_key_conflict` | `RefusedKeysDiffer` | refuted: a repeated create is refused |
| `sessions_safety` | `TypeOK`, `LockersAreExclusive`, `PinOpensLocker`, `StoresKeepOrder`, `OfferStandsForLatest`, `ImplementsAllocation` | holds |
| `sessions_stale_token` | `OfferStands` | refuted: a token is told it can claim, and cannot |
| `accounts_safety` | `TypeOK`, `ForkNeedsDoubleRotation`, `RestrictedAccountsHaveNoSession`, `SessionsKnowThePassword`, `LockHasItsCount`, `AuthorityQueriesAgree`, `RoutesServeWhatIsPermitted`, `LastSuperAdminIsLostToARace`, `ImplementsSessionLedger` | holds |
| `fleet_safety` | `TypeOK`, `ClosedStationsHaveNoLiveDevice`, `RetiredDevicesHoldNoSession`, `TakenAgainOnlyAfterItsNonce`, `ReceivedReportsAreInHand`, `DoorIsAsLastReported`, `DecommissionIsFinal`, `ChannelsChangeAtRest`, `LastCredentialIsLostToARace`, `OnlyTelemetryWakesARetiredDevice` | holds |

`OfferStandsForLatest` says what is left of the promise `OfferStands` refutes: an offer
is void only where another token of the payment was published after it.

Many of the last two runs' properties name a race as the only way in which something
goes wrong. That the race does happen is seen by deleting the disjunct: TLC then
refutes the property (`saw = {}` in `LastSuperAdminIsLostToARace` excepted, which takes
more steps than the bounds allow and which its proof needs). They say what a team may
rely on when requests do not overlap, and which overlap takes it away.

Bounds, and why the interesting cases happen within them:

* Payments: one coin and one QR payment (rows do not interact except in a batch),
  two coin events (two are what it takes for one credit to overwrite another), two
  requests in flight (one between its read and its write while another acts; the
  webhook and the timer act beside them), a price of two units with coins of 0, 1
  and 3 (unmapped, half, beyond the price; two halves meet it exactly).
  `MaxRefundCalls` bounds the only counter. `BatchLimit` is 2 in the safety run and 1
  in the liveness run, where it forces more rows than one run takes.
* Commands: two commands, one with an expiry, two acknowledgement events and two
  requests, so two answers to one command can be in flight at once. Each command
  and event is used once, so no counter needs a bound; both limits are reached.
  One payload is sent under each key, in two orders of its JSON keys; that of two
  different ones the first stays is proved (`CommandQueue` keeps the content), since
  an instance that sends both takes more than twice as long.
* Public sessions: two customers, one locker with one port, two tokens, two PINs and
  three requests: two reservations and an administrator's change, which is what it
  takes to reach the unique index. With more lockers the customers would not
  compete.
* Accounts: two users, one of them seeded as super admin, two roles, two stations,
  two passwords, `MaxAttempts` 2, two requests in flight and `MaxEvents` (requests
  and clock events together) 3: two requests race and a third, or the clock, acts
  before, between or after. Three initial tables: an account with an attendant's
  role at one station that is a second super admin as well, in two `families` of
  requests (accounts are used and restricted; authority is given and taken, without
  the requests that set a password), and one where the second account and role are
  still to be created.
* Fleet: two stations, two devices, two lockers of one device, two channels, two QR
  codes of which one has been rotated, two idempotency keys (`IdempotencyKeys`),
  `Skew` 1 with `Horizon` twice that (a nonce, and then the stamp of its request, run
  out), two requests in flight and `MaxEvents` 3. A customer's session, the expiry
  of a checkout, the passing of time and the steps of requests are not counted. Seven
  initial tables, each with the kinds of request that meet on it (`asked`): stations
  against devices; customers against administrators; places and reports against a
  customer who has paid; reports of two devices; reports against the lifecycle and
  the clock; credentials that are rotated, revoked and expire; requests that are
  signed and delivered again, with either store of nonces (`Signable` limits what is
  signed). Eight reports (`Contents`): a door that opens and one that closes, a port
  in use and one at fault under the same external id, a heartbeat, telemetry, a value
  no handler accepts for a locker that may not be there, and a report no handler takes
  with the sequence number of another. About two million states.

`CHECK_DEADLOCK FALSE` is set where every key and event has been used up and
nothing is left to do, or the bound on events is reached; `sessions_safety` checks
for deadlock.

Fairness. `Payments`: deadlines pass, a request that goes on makes its next step,
and the interval timer (`setInterval`, 60 s) starts runs (weak fairness). A run's
transaction may be aborted any number of times, as in the lock-order conflict with
the webhook, but not for ever: strong fairness of `ExpireCommit`. `DeviceCommands`:
expiry times pass, and for each lapsed command some batch that contains it is taken
in the end, which the order by `expires_at` in the batch justifies. No fairness of
customers, devices, administrators or the provider is assumed anywhere.
`Accounts` and `Fleet` state no fairness: nothing in them runs but at the request of
a person or a device.
`PublicSessions` has no liveness property: a session appears only when a customer
polls, and nothing in the code ends one.

## Proofs

All theorems hold for every value of the constants: any number of payments,
commands, lockers, tokens and requests. Assumptions are the named `ASSUME`s of each
module (price and limits positive, absent values distinct from real ones), which TLC
also evaluates. The same goes for `InitialRows` of `Accounts` and `InitialFleets` of
`Fleet`, about the tables they start from, and for `FleetInputs`, about what is sent.
The argument is the same each time: an inductive invariant is preserved by each action,
and each property is one of its conjuncts, or follows from them.

* `PaymentsProofs`: the properties alone are not inductive, because they do not say what
  a request relies on when it writes unchecked. `IInv` adds that a QR row is created by
  one request only, and before it nothing was confirmed (`OpeningOK`); that a refund in
  flight is of a payment that was confirmed, and has been paid back when it is about to
  be recorded (`RefundOK`); that a coin about to be marked processed has its row
  (`CoinOK`); and that whatever is due has its deadline's row (`DeadlinesOK`), without
  which expiry could end a payment whose transaction is only created afterwards.
  Theorems: `Inductive`, `TypeCorrect`, `PaidIsConfirmed`, `ConfirmedStays`,
  `ProviderAgreement`, `RefundsAreBacked`, `ProcessedCoins`, and `LedgerImplemented`
  (refinement). `RefundsArePaidFor` (`RefundsAreDue`) and `ConfirmedIsFinal`
  (`ConfirmedIsKept`) need one invariant more (`FinalOK`): a QR payment has received
  nothing or the price, and what was paid back was confirmed. `EndedStays`, that no
  payment revives, follows from the ledger's steps. `CreditedInFull` needs that a
  payment's accepted coins are finitely many and add up (`CoinsOK`), and that adding one
  coin adds its value to their sum (`TotalWithOneMore`). The sum of the community
  modules is a recursive function that takes one element after another by `CHOOSE`; that
  it does not depend on the order is proved by induction over the size of the set, for a
  set of numbers instead of a predicate (`NatSetInduction`), which the provers can
  instantiate.
* `DeviceCommandsProofs`: `IInv` adds that the device knows only commands that were sent
  and that a sent command is never queued again (`SentOK`), which is why the unchecked
  writes of cancellation and acknowledgement cannot put a command out a second time;
  that the event a row names has left its timestamp (`AckEventOK`); and what each
  acknowledgement in flight has established (`AckOK`). Theorems: `Inductive`,
  `TypeCorrect`, `HandedOut`, `AnswersAgree`, `ProcessedAcks`, `QueueImplemented`
  (refinement). `AnswersAgree` is about `RowsAgreeWithAnswers`: status and
  `acknowledgement_event_id` (`AnswersRecorded`), the order of the timestamps that the
  CHECK constraints demand (`TimestampsOrdered`), and that each is backed by an event
  (`BackedStep`).
* `PublicSessionsProofs`: `IInv` adds that the token a payment's lookup names, and those
  that requests are about to publish or bind, were issued to that payment (`LatestOK`,
  `PublishOK`, `BindOK`), and that a request about to bind or claim has its session
  (`SessionOK`). Theorems: `Inductive`, `TypeCorrect`, `LockersStayExclusive`, `OnePin`,
  `AllocationImplemented` (refinement). `OrderIsKept` (`StoresKeepOrder`) takes
  `BoundTokens` and what each request knows about the payment it works for: that its
  transaction is recorded, from the moment a status can be asked for (`PayersOK`).
  `OffersStand` adds that a token is published by one request and once, so that a lookup
  which has moved on from a token never comes back to it, and that a request for a
  status works with a published token (`OffersOK`).

* `SessionLedgerProofs`: with the type of the rows, that a rotated row is spent is
  inductive (`Replace` revokes the row it copies, and nothing brings a row back).
  `FamiliesAreFounded` and `LeavesHaveTwins` are part of the invariant for the sake
  of `AccountsProofs`.
  Theorems: `TypeCorrect`, `RotatedAreSpent`, `StaysRevoked`. They hold of
  `auth_sessions` because `Accounts` implements the ledger.
* `AccountsProofs`: `Sound` types the rows, says that a session belongs to an account
  that exists, and that a request in flight still finds what it has read: accounts and
  roles are never deleted and the two tables of rows only grow (`Grow`), so `Fits` of
  the other requests survives a step of one. `Preserved` adds that every step is a step
  of the ledger or leaves it alone, which lets the ledger's own invariant be used for
  `auth_sessions`; there, of two childless rows of one family some ancestor was rotated
  twice (`LeavesHaveTwins`), and a live row is childless. Theorems: `TypeCorrect`,
  `SessionLedgerImplemented` (refinement), `ForksNeedDoubleRotation`.
* `AccountsRaceProofs`: the three properties that except an account two requests were
  about at once. `Calm` says of every other account (`Peace`) that one request at most
  is about it, that what this request has read still holds, and that the account's live
  sessions agree with its row unless that request is about to revoke them. A step about
  another account disturbs none of it, because each write touches the rows of one
  account. Theorems: `RestrictionsEndSessions`, `ReplacedPasswordsEndSessions`,
  `LocksAreCounted`.
* `AuthorityProofs`: the queries agree because each looks for one of the assignments
  in force that give the permission (`Holding`), and no set of stations is the value
  that stands for everywhere; what guard and service come to is then shown kind of
  route by kind (`Matched`), for whatever they are told (`ToldApart`). For the last
  super admin, `Guarded` adds that the system role stays active (`RoleStands`) and what
  the check of each request in flight saw (`Foreseen`): one that takes an administrator
  away saw another one, saw none at all, or takes none away. Theorems:
  `AuthorityAgrees`, `RoutesServed`, `LastSuperAdminKept`. With these, every property of
  `accounts_safety` is proved.

* `FleetProofs`: `Sound` types the rows, says that what a row or a request refers to
  exists (rows are never deleted, so a step of one request takes nothing from another),
  and that a row two requests have in hand is `disturbed`. On top of it stand four
  invariants. `InHandOfOne`: a report in hand is still received, and in the hand of one
  request, for its row is inserted once under the unique key. `Remembering`: the nonce
  of every acceptance of this run, or of every run with Redis, is remembered until
  `Skew` seconds after it (`Guarded`), and the stamp of a request that has not reserved
  its nonce yet was in time when it was checked (`InTime`); how long a repeat has waited
  is the difference of the two. `DoorsFollow`: for a locker nobody disturbs, the report
  in hand is the latest about it, and the door is as the latest that speaks of it says
  (a report whose mark fails disturbs its locker); that a heartbeat may take two
  statements and nothing else does (`BeatsAreHeartbeats`) is needed to know which step
  shows the door. `Orderly`: what a request has checked holds until it writes, unless
  its rows are disturbed (`Stands`), and whoever is under way with a decommissioned
  device was overtaken or disturbed (`NoneUnderway`); without the two, neither of the
  properties about decommissioned rows is inductive. The action properties follow from
  `Sound`, or from `Orderly`, step by step. Theorems: `TypeCorrect`,
  `LastCredentialKept`, `RetiredDevicesWakeOnlyByReport`, `ReportsAreSeenTo`,
  `TakenOncePerNonce`, `DoorsAreAsReported`, `ClosedStationsAreEmpty`,
  `RetiredDevicesAreFree`, `DecommissioningIsFinal`, `ChannelsAreSetAtRest`. With these,
  every property of `fleet_safety` is proved.

The abstract specifications are held to their comments as well: `LedgerKeepsPromise`,
`QueueKeepsPromise` and `AllocationKeepsPromise` prove from the steps of
`PaymentLedger`, `CommandQueue` and `SlotAllocation` alone what each promises, as
`SessionLedgerProofs` does for `SessionLedger`. A refinement would show little if the
specification that is implemented allowed too much.

Only model-checked: the liveness properties `StalePaymentsEnd` and
`LapsedCommandsSettle`, which are beyond the prover (it knows neither `ENABLED` nor
fairness). Every safety property and refinement of the passing runs is a theorem.

## Where the code and its documents disagree

1. `payment-cancellation.service.ts:52`: a cancellation overwrites a confirmation
   made after its check; `docs/payments.md` allows only `confirmed -> refunded`.
2. `payment-refund.service.ts:56`: two refunds of one payment reach the provider.
3. `payment-expiration.service.ts:40`: a pending QR payment without a transaction row
   never expires.
4. `command-acknowledgement.service.ts:43`, `device-commands.service.ts:123`: terminal
   commands are overwritten.
5. `command-idempotency.service.ts:14`: a repeated create can be refused as a conflict.
6. `public-payment.service.ts:97`: `canClaimLockerPin` is promised to tokens that
   cannot claim.

What the races of `Accounts` and `Fleet` cost, where no document promises otherwise or
the property names the exception:

* two refreshes with one token both succeed (`auth-session.service.ts:79`), and the
  refresh that read a session before it was revoked opens its successor afterwards; a
  refresh whose answer was lost is taken for reuse when it is repeated (`:68`);
* a restriction, a change of password and a temporary password revoke sessions in a
  later statement (`users.service.ts:159`): a login let in before opens one after it;
* the last global super admin can expire, or be lost to two requests
  (`users.service.ts:153`, `role-assignments.service.ts:113`);
* two concurrent replacements of a role's permissions can leave the union
  (`roles.service.ts:183`); an expired assignment that was never revoked keeps an
  equivalent one from being granted (`role-assignments.service.ts:79`);
* a nonce is kept for `Skew` seconds while a stamp is accepted for twice that
  (`device-hmac.service.ts:54`, `:79`), and the stamp is not looked at again after the
  two awaits before the nonce is reserved: a request signed by a clock ahead of the
  server's can be taken twice, any request whose repeat waits long enough between the
  two, and any request after a restart without Redis.
  `docs/device-authentication.md:83-84` says the nonces are stored "for the replay
  window"; they are stored for half of it. `TakenAgainOnlyAfterItsNonce` says what the
  code keeps of that; there is no run that refutes the document's words;
* users, roles, role assignments and audit logs have no service that looks at the
  stations of its user: the guard alone decides, by the station the request names,
  wherever it names it and whatever row the request is about
  (`permissions.guard.ts:47`); the lists of the other services rely on the guard in
  the same way once their filter names a station (`station-scope.service.ts`);
* a coin thrown into a terminal payment leaves no `coin_insertions` row
  (`coin-insertion-event.handler.ts:47`), where the schema's comment (`:1422`) has one
  row per accepted or rejected coin;
* reports are applied in the order they arrive: sequence numbers find duplicates
  (`device-event.service.ts:117`) and are not compared;
* telemetry puts a decommissioned device online (`telemetry-event.handler.ts:28`), a
  heartbeat does so only in a race;
* a change of lifecycle or station status that read its row before a decommission
  undoes it (`device-lifecycle.service.ts:44`, `station-status.service.ts:43`);
* `activeCredentialCount` counts expired credentials and certificates, which cannot
  authenticate (`credential-record.service.ts:24`), and two rotations of one leave two;
* a checkout token or a payment outlives the service of its device: neither payment
  nor session creation looks at the lifecycle again (`public-payment.service.ts:34`,
  `public-session-creation.service.ts:34`).

## Not modelled

Audit rows (written beside other writes, never read back by a service), rate
limiting, cryptography and hashing, response shapes, pagination, health probes,
configuration, the test mode of authentication, and the empty feature modules. The
lifecycle of a session after `charging.prepare` is described in
`docs/charging-session-lifecycle.md` as device work and has no code. In `Payments`,
`DeviceCommands` and `PublicSessions` the permission and scope checks before the first
step are left out: they are `AdminRoutes`' matter.

The report `power.source_changed` changes fields no module has; heartbeats and
telemetry are those whose payload their handlers accept.

Some hazards have no property, each with its reason in `PROJECT.json`. Of the races
that the code leaves open, the properties of `Accounts` and `Fleet` except exactly the
requests that overlap: a customer's session between a count and a decommissioning, a
device between a count and the closing of its station, a login between the check and
the revocation of sessions, a port report between a check and a change of channel.
Those properties show that nothing else leads there, and do not catch the race, which
the model reaches. The others are an order no document promises (of a poll, of
reports), a coin event that fails by design, and two waits that no code ends (a
payment for its customer, a locker for its release).

## Plan

1. done: `Payments`, `DeviceCommands`, `PublicSessions`, their abstract
   specifications, runs and proofs;
2. done: `Accounts` with `SessionLedger`, and `Fleet`, with one safety run each;
3. done: proofs of all that `accounts_safety` and `fleet_safety` check;
4. done: the sum behind `CoinsAreCredited`; what is final about payments and commands;
   what an offer to a customer is worth; what the abstract specifications promise;
5. the coin and acknowledgement paths of `Payments` and `DeviceCommands` composed with
   `DeviceReports`, once a run of the composition stays within reach of TLC.

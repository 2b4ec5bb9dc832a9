-------------------------------- MODULE Checkout ---------------------------------
(***************************************************************************)
(* A customer at a device (src/src/apps/public-charging): the code on the   *)
(* device resolves to a checkout token, the token pays, and the payment is  *)
(* given a session once its status is asked for.  Only the first of the     *)
(* three looks at the device and its station.  Customers ask for packages   *)
(* that are on offer; what follows the session is PublicSessions' matter.   *)
(***************************************************************************)
EXTENDS FleetTables

Elsewhere == <<stations, devices, ports, credentials, reports, abandoned, access,
               overtaken>>

-------------------------------------------------------------------------------
(* PublicQrResolutionService *)

ActiveHashes(setting) ==
    {h.qr : h \in {g \in setting.hashes : g.status = "active" /\ ~g.expired}}

MatchingSettings(qr) ==
    {s \in QrSettings : s.status = "active" /\ qr \in ActiveHashes(s)}

PublicDevice(d) ==
    /\ Exists(d) /\ devices[d].lifecycle = "active"
    /\ stations[devices[d].station] = "active"

Resolve(w, qr) ==
    \E setting \in MatchingSettings(qr) :
        /\ PublicDevice(setting.device)
        /\ Start(w, [op |-> "issue", about |-> {setting.device},
                     device |-> setting.device])
        /\ UNCHANGED tables

-------------------------------------------------------------------------------
(* AnonymousCheckoutService.  A token may be used any number of times before *)
(* its record runs out; a record may be lost sooner.                         *)

IssueCheckout(w) ==
    /\ request[w].op = "issue"
    /\ checkouts' = Append(checkouts, [device |-> request[w].device, expired |-> FALSE])
    /\ Finish(w)
    /\ UNCHANGED <<lockers, sessions, payments, Elsewhere>>

CheckoutExpires(c) ==
    /\ ~checkouts[c].expired
    /\ checkouts' = [checkouts EXCEPT ![c].expired = TRUE]
    /\ UNCHANGED <<lockers, sessions, payments, Elsewhere, request, asked,
                   disturbed, events>>

RequireCheckout(c) == c \in DOMAIN checkouts /\ ~checkouts[c].expired

-------------------------------------------------------------------------------
(* PublicPaymentService *)

Initiate(w, c, key) ==
    /\ RequireCheckout(c)
    /\ Start(w, [op |-> "pay", about |-> {checkouts[c].device}, checkout |-> c,
                 key |-> key])
    /\ UNCHANGED tables

\* A public payment is confirmed when its row is inserted; the idempotency key is
\* made of the checkout and the customer's key, and under one that is taken the
\* payment there is answers.
CreatePayment(w) ==
    /\ request[w].op = "pay"
    /\ LET c == request[w].checkout  key == request[w].key IN
       payments' = IF \E i \in DOMAIN payments :
                        payments[i].checkout = c /\ payments[i].key = key
                   THEN payments
                   ELSE Append(payments, [device |-> checkouts[c].device, checkout |-> c,
                                          key |-> key, served |-> FALSE])
    /\ Finish(w)
    /\ UNCHANGED <<lockers, sessions, checkouts, Elsewhere>>

-------------------------------------------------------------------------------
(* PublicSessionCreationService: one transaction gives the payment a locker   *)
(* of its device, whatever the device's lifecycle by then.                    *)

Slot(d, l) ==
    /\ DeviceOf[l] = d /\ HasLocker(l) /\ HasPort(l) /\ l \notin sessions
    /\ lockers[l].availability = "available" /\ ports[l].status = "available"

EnsureSession(i, l) ==
    /\ ~payments[i].served
    /\ Slot(payments[i].device, l)
    /\ lockers' = [lockers EXCEPT ![l].availability = "reserved"]
    /\ sessions' = sessions \union {l}
    /\ payments' = [payments EXCEPT ![i].served = TRUE]
    /\ disturbed' = disturbed \union ({l, payments[i].device} \intersect InHand)
    /\ UNCHANGED <<checkouts, Elsewhere, request, asked, events>>

-------------------------------------------------------------------------------

CustomerStarts(w) ==
    \/ \E qr \in QrTokens : Resolve(w, qr)
    \/ \E c \in DOMAIN checkouts, key \in IdempotencyKeys : Initiate(w, c, key)

CustomerSteps(w) == IssueCheckout(w) \/ CreatePayment(w)

CustomerEvents ==
    \/ \E c \in DOMAIN checkouts : CheckoutExpires(c)
    \/ \E i \in DOMAIN payments, l \in Lockers : EnsureSession(i, l)
================================================================================

------------------------------ MODULE DeviceAccess ------------------------------
(***************************************************************************)
(* The credentials of devices (src/src/apps/device-credentials) and the     *)
(* authentication of what the devices send with them                        *)
(* (src/src/apps/device-ingestion).  A signed request carries a nonce and   *)
(* the device's time and may be delivered more than once.  It is refused    *)
(* when its time is more than Skew from the server's on arrival, or when    *)
(* its nonce is remembered once its credential has been read.  Key          *)
(* material, signatures and permissions are left out.                       *)
(***************************************************************************)
EXTENDS FleetTables

Credential(d, type, from) ==
    [device |-> d, type |-> type, active |-> TRUE, expired |-> FALSE, from |-> from]

Untouched == <<fleet, reports, abandoned, access>>

-------------------------------------------------------------------------------
(* DeviceCredentialService *)

CreateCredentialRequested(w, d, type) ==
    /\ Exists(d)
    /\ devices[d].lifecycle \notin {"disabled", "decommissioned"}
    /\ Start(w, [op |-> "create_credential", about |-> {d}, device |-> d, type |-> type])
    /\ UNCHANGED tables

CreateCredential(w) ==
    /\ request[w].op = "create_credential"
    /\ credentials' = Append(credentials,
                             Credential(request[w].device, request[w].type, 0))
    /\ Finish(w)
    /\ UNCHANGED Untouched

RotateRequested(w, c) ==
    /\ credentials[c].active
    /\ Start(w, [op |-> "rotate", about |-> {credentials[c].device}, credential |-> c])
    /\ UNCHANGED tables

\* The new row and the end of the old one are one transaction; the old one is
\* not looked at again.
Rotate(w) ==
    /\ request[w].op = "rotate"
    /\ LET c == request[w].credential IN
       credentials' = Append([credentials EXCEPT ![c].active = FALSE],
                             Credential(credentials[c].device, credentials[c].type, c))
    /\ Finish(w)
    /\ UNCHANGED Untouched

\* validateFinalActiveRevoke: the counted credentials include the revoked one.
FinalRevokeAllowedAtOne(lifecycle, count, force) ==
    lifecycle # "active" \/ count >= 1 \/ force
FinalRevokeAllowed(lifecycle, count, force) ==
    lifecycle # "active" \/ count > 1 \/ force

RevokeRequested(w, c, force) ==
    LET d == credentials[c].device IN
    /\ credentials[c].active
    /\ FinalRevokeAllowed(devices[d].lifecycle, Cardinality(ActiveCredentials(d)), force)
    /\ Start(w, [op |-> "revoke", about |-> {d}, credential |-> c, force |-> force,
                 lifecycle |-> devices[d].lifecycle,
                 others |-> ActiveCredentials(d) \ {c}])
    /\ UNCHANGED tables

Revoke(w) ==
    /\ request[w].op = "revoke"
    /\ credentials' = [credentials EXCEPT ![request[w].credential].active = FALSE]
    /\ Finish(w)
    /\ UNCHANGED Untouched

CredentialExpires(c) ==
    /\ ~credentials[c].expired
    /\ Occurs
    /\ credentials' = [credentials EXCEPT ![c].expired = TRUE]
    /\ UNCHANGED <<Untouched, request, disturbed>>

-------------------------------------------------------------------------------
(* DeviceAuthService *)

Usable(c) == credentials[c].active /\ ~credentials[c].expired

Fresh(stamp) == stamp <= now + Skew /\ now <= stamp + Skew

\* reserveMemoryNonce drops what has run out before it looks; Redis lets keys
\* run out by itself.
Remembered == {n \in nonces : n.until > now}
Reserved(c, nonce) == \E n \in Remembered : n.credential = c /\ n.nonce = nonce

ReserveNonceForgetful(c, nonce) ==
    /\ ~Reserved(c, nonce)
    /\ nonces' = Remembered \union
                    {[credential |-> c, nonce |-> nonce, until |-> now]}
ReserveNonce(c, nonce) ==
    /\ ~Reserved(c, nonce)
    /\ nonces' = Remembered \union
                    {[credential |-> c, nonce |-> nonce, until |-> now + Skew]}

\* What an authenticated request carries on: the device, and the station it was at
\* when the credential was read.
RowsOf(d, content) == {d} \union ({content.locker} \ {None})
Context(d, station, content) ==
    [op |-> "ingest", about |-> RowsOf(d, content), device |-> d, station |-> station,
     content |-> content]

\* DeviceHmacService looks at the stamp first.
AuthenticateHmac(w, m) ==
    /\ Fresh(m.stamp)
    /\ Start(w, [op |-> "find_credential", about |-> {}, message |-> m, checked |-> now])
    /\ UNCHANGED <<fleet, credentials, reports, abandoned, nonces, store, now, boot, taken>>

\* A device signs a request under a nonce of its own, by its own clock; or one it
\* has signed is delivered again.
Signed(w, c, stamp, content) ==
    LET m == [credential |-> c, nonce |-> Len(signed) + 1, stamp |-> stamp,
              content |-> content]
    IN  /\ credentials[c].type = "hmac"
        /\ AuthenticateHmac(w, m) /\ signed' = Append(signed, m)

Redelivered(w, i) == AuthenticateHmac(w, signed[i]) /\ UNCHANGED signed

FindCredential(w) ==
    /\ request[w].op = "find_credential"
    /\ LET m == request[w].message  c == m.credential  d == credentials[c].device IN
       IF Usable(c) /\ credentials[c].type = "hmac"
       THEN /\ TakeUp(w, [op |-> "reserve_nonce", about |-> RowsOf(d, m.content),
                          message |-> m, checked |-> request[w].checked,
                          device |-> d, station |-> devices[d].station])
            /\ UNCHANGED <<asked, events>>
       ELSE Finish(w)
    /\ UNCHANGED tables

\* The stamp is not looked at again.
NonceReserved(w) ==
    /\ request[w].op = "reserve_nonce"
    /\ LET r == request[w]  m == r.message IN
       /\ ReserveNonce(m.credential, m.nonce)
       /\ taken' = Append(taken, [message |-> m, checked |-> r.checked, at |-> now,
                                  boot |-> boot])
       /\ Become(w, Context(r.device, r.station, m.content))
    /\ UNCHANGED <<fleet, credentials, reports, abandoned, store, now, boot, signed>>

\* A nonce that is remembered is refused, and every nonce while Redis does not
\* answer, which may have kept it.
NonceRefused(w) ==
    /\ request[w].op = "reserve_nonce"
    /\ LET m == request[w].message IN
       \/ Reserved(m.credential, m.nonce) /\ UNCHANGED nonces
       \/ store = "redis" /\ (UNCHANGED nonces \/ ReserveNonce(m.credential, m.nonce))
    /\ Finish(w)
    /\ UNCHANGED <<fleet, credentials, reports, abandoned, store, now, boot, signed, taken>>

AuthenticateApiKey(w, c, content) ==
    /\ Usable(c) /\ credentials[c].type = "api_key"
    /\ LET d == credentials[c].device IN
       Start(w, Context(d, devices[d].station, content))
    /\ UNCHANGED tables

TimePasses ==
    /\ now < Horizon
    /\ now' = now + 1
    /\ UNCHANGED <<fleet, credentials, reports, abandoned, nonces, store, boot,
                   signed, taken, request, asked, disturbed, events>>

\* Every request in flight dies; only Redis outlives the server.
ServerRestarts ==
    /\ Occurs
    /\ Dying({w \in Workers : request[w] # Idle})
    /\ boot' = boot + 1
    /\ nonces' = IF store = "memory" THEN {} ELSE nonces
    /\ UNCHANGED <<fleet, credentials, reports, store, now, signed, taken>>

-------------------------------------------------------------------------------

CredentialStarts(w) ==
    \/ \E d \in Devices, type \in CredentialTypes : CreateCredentialRequested(w, d, type)
    \/ \E c \in DOMAIN credentials :
          RotateRequested(w, c) \/ \E force \in BOOLEAN : RevokeRequested(w, c, force)

KeyedStarts(w) ==
    \E c \in DOMAIN credentials, content \in Contents : AuthenticateApiKey(w, c, content)

SignedStarts(w) ==
    \/ \E c \in DOMAIN credentials, content \in Signable, stamp \in 0..now + Skew :
          Signed(w, c, stamp, content)
    \/ \E i \in DOMAIN signed : Redelivered(w, i)

CredentialSteps(w) == CreateCredential(w) \/ Rotate(w) \/ Revoke(w)

HmacSteps(w) == FindCredential(w) \/ NonceReserved(w) \/ NonceRefused(w)

AccessClock ==
    \/ \E c \in DOMAIN credentials : CredentialExpires(c)
    \/ ServerRestarts
================================================================================

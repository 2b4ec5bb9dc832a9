---------------------------- MODULE PaymentLedger ----------------------------
(***************************************************************************)
(* What the payments table promises its readers, whatever the service that  *)
(* wrote a row: money is confirmed at most once and only out of a live      *)
(* status, a payment that was ever confirmed never reads as failed or       *)
(* expired, and only money that was confirmed is refunded.  Cancelling is   *)
(* deliberately loose: the code writes 'cancelled' from a status it read    *)
(* before its transaction, so the row may meanwhile hold anything.          *)
(***************************************************************************)

CONSTANT Payments

VARIABLES
    status,     \* payments.status, "none" before the row exists
    confirmed   \* the payments whose confirmed_at is set

vars == <<status, confirmed>>

Live == {"pending", "processing"}

Init ==
    /\ status = [p \in Payments |-> "none"]
    /\ confirmed = {}

Open(p) ==
    /\ status[p] = "none"
    /\ status' = [status EXCEPT ![p] = "pending"]
    /\ UNCHANGED confirmed

Progress(p) ==
    /\ status[p] \in Live
    /\ status' = [status EXCEPT ![p] = "processing"]
    /\ UNCHANGED confirmed

Confirm(p) ==
    /\ status[p] \in Live
    /\ status' = [status EXCEPT ![p] = "confirmed"]
    /\ confirmed' = confirmed \union {p}

\* A live payment fails; so does one whose opening never completed, even when
\* it was cancelled in the meantime.
Fail(p) ==
    /\ status[p] \in Live \union {"cancelled"}
    /\ p \notin confirmed
    /\ status' = [status EXCEPT ![p] = "failed"]
    /\ UNCHANGED confirmed

\* One timer run expires every live payment of a batch.
Expire(batch) ==
    /\ \A p \in batch : status[p] \in Live
    /\ status' = [p \in Payments |->
                     IF p \in batch THEN "expired" ELSE status[p]]
    /\ UNCHANGED confirmed

Cancel(p) ==
    /\ status[p] # "none"
    /\ status' = [status EXCEPT ![p] = "cancelled"]
    /\ UNCHANGED confirmed

Refund(p) ==
    /\ p \in confirmed
    /\ status' = [status EXCEPT ![p] = "refunded"]
    /\ UNCHANGED confirmed

Next ==
    \/ \E p \in Payments :
          Open(p) \/ Progress(p) \/ Confirm(p) \/ Fail(p) \/ Cancel(p) \/ Refund(p)
    \/ \E batch \in SUBSET Payments : Expire(batch)

Spec == Init /\ [][Next]_vars
=============================================================================

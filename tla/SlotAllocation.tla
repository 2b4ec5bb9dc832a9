---------------------------- MODULE SlotAllocation -----------------------------
(***************************************************************************)
(* What a customer who has paid is promised: at most one slot, a locker     *)
(* nobody else holds, and one PIN for it that is never replaced.            *)
(***************************************************************************)

CONSTANTS Payments, Ports, Lockers, LockerOf, Pins

VARIABLES
    session,    \* the port of the charging session of a payment, or "none"
    code        \* the PIN whose verifier the session holds, or "none"

vars == <<session, code>>

Init ==
    /\ session = [p \in Payments |-> "none"]
    /\ code = [p \in Payments |-> "none"]

Assign(p, q) ==
    /\ session[p] = "none"
    /\ \A o \in Payments : session[o] # "none" => LockerOf[session[o]] # LockerOf[q]
    /\ session' = [session EXCEPT ![p] = q]
    /\ UNCHANGED code

Claim(p, pin) ==
    /\ session[p] # "none"
    /\ code[p] = "none"
    /\ code' = [code EXCEPT ![p] = pin]
    /\ UNCHANGED session

Next ==
    \/ \E p \in Payments, q \in Ports : Assign(p, q)
    \/ \E p \in Payments, pin \in Pins : Claim(p, pin)

Spec == Init /\ [][Next]_vars
===============================================================================

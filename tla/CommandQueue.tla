----------------------------- MODULE CommandQueue -----------------------------
(***************************************************************************)
(* What the device_commands table promises the devices: a command waits,    *)
(* is handed out in at most one poll response, and once it is settled       *)
(* (answered, expired or cancelled) it neither waits nor goes out again.    *)
(* How a command is settled is left open: the code lets a late write        *)
(* replace one final status by another.  What a command says is decided by  *)
(* the request that enqueues it, and by no other that sends the same key.   *)
(***************************************************************************)

CONSTANTS Commands, Contents, NoContent

VARIABLES
    phase,      \* of every command: "none", "waiting", "out" or "settled"
    content     \* what the device will read

vars == <<phase, content>>

Init ==
    /\ phase = [c \in Commands |-> "none"]
    /\ content = [c \in Commands |-> NoContent]

Enqueue(c, v) ==
    /\ phase[c] = "none"
    /\ phase' = [phase EXCEPT ![c] = "waiting"]
    /\ content' = [content EXCEPT ![c] = v]

HandOut(cs) ==
    /\ \A c \in cs : phase[c] = "waiting"
    /\ phase' = [c \in Commands |-> IF c \in cs THEN "out" ELSE phase[c]]
    /\ UNCHANGED content

Settle(cs) ==
    /\ \A c \in cs : phase[c] # "none"
    /\ phase' = [c \in Commands |-> IF c \in cs THEN "settled" ELSE phase[c]]
    /\ UNCHANGED content

Next ==
    \/ \E c \in Commands, v \in Contents : Enqueue(c, v)
    \/ \E cs \in SUBSET Commands : HandOut(cs) \/ Settle(cs)

Spec == Init /\ [][Next]_vars
===============================================================================

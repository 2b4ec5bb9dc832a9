--------------------------- MODULE MCPublicSessions ----------------------------
(* Instances of PublicSessions small enough for TLC.                         *)
EXTENDS PublicSessions, TLC

CONSTANTS l1

Symmetry ==
    Permutations(Workers) \union Permutations(Tokens) \union
    Permutations(Payments) \union Permutations(Pins)

\* Every port is in the one locker.
MCLockerOf == [q \in Ports |-> l1]
===============================================================================

--------------------------- MODULE MCDeviceCommands ----------------------------
(* Instances of DeviceCommands small enough for TLC.                         *)
EXTENDS DeviceCommands, TLC

CONSTANTS c1, c2

\* A retry of c1 may write the keys of its payload in another order.
MCSends ==
    [c \in Commands |->
        [data : {"d"}, keys : IF c = c1 THEN {"jsonb", "asWritten"} ELSE {"jsonb"}]]
===============================================================================

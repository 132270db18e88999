--------------------------- MODULE MCDeviceBridge ---------------------------
(* Instances of DeviceBridge for TLC *)
EXTENDS DeviceBridge

(* One gram each time: two feeds empty the hopper, a third finds it empty *)
MCGrams == [c \in Command |-> 1]
=============================================================================

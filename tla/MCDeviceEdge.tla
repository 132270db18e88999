---------------------------- MODULE MCDeviceEdge ----------------------------
(* Four deliveries: two commands for one device, the first one delivered twice,
   and a command for another device *)
EXTENDS DeviceEdge

MCDelivery == 1 .. 4
MCCommandOf == <<"a", "b", "a", "c">>
MCCommand == {"a", "b", "c"}
MCDeviceOf == [c \in MCCommand |-> IF c = "c" THEN "dev2" ELSE "dev1"]
MCDevice == {"dev1", "dev2"}
MCGrams == [c \in MCCommand |-> IF c = "a" THEN 2 ELSE 1]
MCRoll == [c \in MCCommand |-> IF c = "a" THEN 0 ELSE 99]
=============================================================================

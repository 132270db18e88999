----------------------------- MODULE MCAdmission -----------------------------
EXTENDS Admission

(* A cooldown is per room, the limit per cat *)
MCCat == [r \in Rooms |-> "cat"]
MCDevice == [r \in Rooms |-> r]
MCDefault == [room |-> 1, user |-> 2, daily |-> 3]
MCEnv == [room |-> 1, user |-> -1, daily |-> 8]
MCPuts == {[room |-> 2, user |-> 0, daily |-> 4], [room |-> 0, user |-> 1, daily |-> 2]}
MCDemoLimits == [room |-> 1, user |-> 2, daily |-> 2]
MCFlagWrites ==
    {[flag |-> "allow", value |-> FALSE], [flag |-> "maintenance", value |-> Rooms],
     [flag |-> "qps", value |-> 1]}

(* Racing requests with a fault, and across a restart; two operators beside a
   request, and alone for longer than PolicyTTL; an operator beside racing
   requests; a restart beside an operator *)
MCBounds ==
    {[backend |-> "redis", feeds |-> 2, ops |-> 0, time |-> 2, faults |-> 1, restarts |-> 0],
     [backend |-> "memory", feeds |-> 2, ops |-> 0, time |-> 1, faults |-> 0, restarts |-> 1],
     [backend |-> "memory", feeds |-> 1, ops |-> 2, time |-> 1, faults |-> 0, restarts |-> 0],
     [backend |-> "memory", feeds |-> 0, ops |-> 2, time |-> 3, faults |-> 1, restarts |-> 0],
     [backend |-> "redis", feeds |-> 2, ops |-> 1, time |-> 0, faults |-> 0, restarts |-> 0],
     [backend |-> "memory", feeds |-> 1, ops |-> 1, time |-> 0, faults |-> 1, restarts |-> 1]}
=============================================================================

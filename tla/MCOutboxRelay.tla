--------------------------- MODULE MCOutboxRelay ---------------------------
(* Instances of OutboxRelay for TLC *)
EXTENDS OutboxRelay

(* The first and the last row belong to one request *)
TwoKeys == [r \in Row |-> IF r = 2 THEN "k2" ELSE "k1"]
=============================================================================

------------------------------ MODULE MCWallet ------------------------------
(* Instances of WalletPg for TLC *)
EXTENDS WalletPg

(* Two pairs of calls, each racing on one key, spend from one wallet *)
OneUser == [c \in Call |-> "u1"]
TwoKeys == [c \in Call |-> IF c \in {"c1", "c2"} THEN "k1" ELSE "k2"]
SmallGrams == [c \in Call |-> IF c \in {"c1", "c2"} THEN 1 ELSE 2]
=============================================================================

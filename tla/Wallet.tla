------------------------------- MODULE Wallet -------------------------------
(***************************************************************************)
(* billing-svc wallets: what Reserve, Confirm, Cancel and TopUp promise.    *)
(*                                                                          *)
(* This is the memory store, where every operation is one critical section  *)
(* of memoryStore.mu.  WalletPg, the PostgreSQL store, is shown to          *)
(* implement it.  A Reserve call makes at most one hold, so a hold is named *)
(* by the call that made it.                                                *)
(***************************************************************************)
EXTENDS Integers, FiniteSetsExt

CONSTANTS
    Call,       \* Reserve calls, also the names of the holds they make
    User,
    Key,        \* idempotency keys
    UserOf,     \* the user each call reserves for
    KeyOf,      \* the idempotency key each call carries
    Grams,      \* the amount each call asks for
    TopUpFen,   \* amounts a wallet may be topped up with
    MaxFen      \* bound: what one wallet is given in all

ASSUME WalletAssumption ==
    /\ UserOf \in [Call -> User]
    /\ KeyOf \in [Call -> Key]
    /\ Grams \in [Call -> Nat \ {0}]      \* Reserve refuses an amount of 0
    /\ TopUpFen \subseteq Nat \ {0}
    /\ MaxFen \in Nat
    /\ {"pending", "insufficient", "error"} \cap Call = {}

VARIABLES
    wallet,     \* balance_fen and reserved_fen of each user
    hold,       \* status of each hold, "none" before it exists
    result      \* the hold a Reserve call returned, or how it failed

vars == <<wallet, hold, result>>

TypeOK ==
    /\ wallet \in [User -> [balance : Int, reserved : Int]]
    /\ hold \in [Call -> {"none", "reserved", "confirmed", "cancelled"}]
    /\ result \in [Call -> Call \cup {"pending", "insufficient", "error"}]

ConvertGramsToFen(grams) == grams * 5

AmountFen(c) == ConvertGramsToFen(Grams[c])

(* An absent wallet counts as an empty one: ensureWallet *)
Init ==
    /\ wallet = [u \in User |-> [balance |-> 0, reserved |-> 0]]
    /\ hold = [c \in Call |-> "none"]
    /\ result = [c \in Call |-> "pending"]

-----------------------------------------------------------------------------
(* holdsIdx: the holds stored under the same user and idempotency key *)
Existing(c) ==
    {h \in Call : hold[h] # "none" /\ UserOf[h] = UserOf[c] /\ KeyOf[h] = KeyOf[c]}

Affordable(c) ==
    wallet[UserOf[c]].balance - wallet[UserOf[c]].reserved >= AmountFen(c)

Reserved(w, c) ==
    [w EXCEPT ![UserOf[c]].reserved = @ + AmountFen(c)]

ReserveExisting(c) ==
    /\ result[c] = "pending"
    /\ \E h \in Existing(c) : result' = [result EXCEPT ![c] = h]
    /\ UNCHANGED <<wallet, hold>>

ReserveInsufficient(c) ==
    /\ result[c] = "pending"
    /\ Existing(c) = {}
    /\ ~ Affordable(c)
    /\ result' = [result EXCEPT ![c] = "insufficient"]
    /\ UNCHANGED <<wallet, hold>>

ReserveHold(c) ==
    /\ result[c] = "pending"
    /\ Existing(c) = {}
    /\ Affordable(c)
    /\ wallet' = Reserved(wallet, c)
    /\ hold' = [hold EXCEPT ![c] = "reserved"]
    /\ result' = [result EXCEPT ![c] = c]

(* A hold that is confirmed or cancelled is returned, or refused, as it is *)
Confirmed(w, h) ==
    [w EXCEPT ![UserOf[h]] = [balance  |-> @.balance - AmountFen(h),
                              reserved |-> @.reserved - AmountFen(h)]]

ConfirmHold(h) ==
    /\ hold[h] = "reserved"
    /\ hold' = [hold EXCEPT ![h] = "confirmed"]
    /\ wallet' = Confirmed(wallet, h)
    /\ UNCHANGED result

Released(w, h) ==
    [w EXCEPT ![UserOf[h]].reserved = @ - AmountFen(h)]

CancelHold(h) ==
    /\ hold[h] = "reserved"
    /\ hold' = [hold EXCEPT ![h] = "cancelled"]
    /\ wallet' = Released(wallet, h)
    /\ UNCHANGED result

TopUpWallet(u) ==
    /\ \E a \in TopUpFen :
          /\ wallet[u].balance + a <= MaxFen
          /\ wallet' = [wallet EXCEPT ![u].balance = @ + a]
    /\ UNCHANGED <<hold, result>>

Next ==
    \/ \E c \in Call :
          \/ ReserveExisting(c)
          \/ ReserveInsufficient(c)
          \/ ReserveHold(c)
          \/ ConfirmHold(c)
          \/ CancelHold(c)
    \/ \E u \in User : TopUpWallet(u)

Spec == Init /\ [][Next]_vars

-----------------------------------------------------------------------------
(* What both stores must guarantee *)

HoldsOf(u, status) == {h \in Call : UserOf[h] = u /\ hold[h] = status}

FenOf(holds) == MapThenSumSet(AmountFen, holds)

(* Reserve is idempotent: whatever calls overlap, a user has at most one hold
   per idempotency key, so a retried feeding is not paid for twice. *)
OneHoldPerKey ==
    \A c, d \in Call :
        /\ hold[c] # "none" /\ hold[d] # "none"
        /\ UserOf[c] = UserOf[d] /\ KeyOf[c] = KeyOf[d]
        => c = d

(* Every hold a Reserve call returned exists and belongs to the caller's user and
   key; with OneHoldPerKey, all calls with one key are answered the same hold. *)
AnswersAgree ==
    \A c \in Call : result[c] \in Call => result[c] \in Existing(c)

(* A confirmed or cancelled hold never changes again, and a hold never
   disappears: a Confirm and a Cancel racing on a hold cannot both count. *)
TerminalIsFinal ==
    [][\A h \in Call :
          /\ hold[h] \in {"confirmed", "cancelled"} => hold'[h] = hold[h]
          /\ hold[h] # "none" => hold'[h] # "none"]_hold
=============================================================================

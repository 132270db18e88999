--------------------------- MODULE WalletPgProofs ---------------------------
(***************************************************************************)
(* Proofs about the two parts that keep sums: the PostgreSQL wallet store, *)
(* for any number of calls, users, keys and settlers, and, in the second   *)
(* half, admission, for any number of requests, rooms, users, limits and   *)
(* operators.  Both need that a sum over a finite set grows by what is     *)
(* added to the set, which is proved in between by counting coins.         *)
(***************************************************************************)
EXTENDS WalletPg, Admission, SequenceTheorems, FiniteSetTheorems, TLAPS

(* What a Reserve transaction knows: until it ends it has written nothing, and
   while it holds the wallet row nobody can spend the money it saw *)
ReserveInv(c) ==
    /\ reserve[c] = "done" <=> result[c] # "pending"
    /\ reserve[c] # "done" => hold[c] = "none"
    /\ reserve[c] = "locked" => Affordable(c)

(* A wallet row has one lock holder *)
WalletLockInv ==
    \A c, d \in Call :
        reserve[c] = "locked" /\ reserve[d] = "locked" /\ UserOf[c] = UserOf[d] => c = d

(* A hold row has one lock holder, and what it read stays true *)
HoldLockInv ==
    /\ \A s \in Settler : settle[s] # Idle => hold[settle[s].hold] = "reserved"
    /\ \A s, t \in Settler :
          settle[s] # Idle /\ settle[t] # Idle /\ settle[s].hold = settle[t].hold => s = t

IInv ==
    /\ PgTypeOK
    /\ \A c \in Call : ReserveInv(c)
    /\ WalletLockInv
    /\ HoldLockInv
    /\ OneHoldPerKey
    /\ AnswersAgree
    /\ OutboxTellsHold
-----------------------------------------------------------------------------
(* The initial state: no transaction is open. *)
LEMMA InitInv == PgInit => IInv
BY WalletAssumption
   DEF PgInit, Init, IInv, PgTypeOK, TypeOK, ReserveInv, WalletLockInv, HoldLockInv,
       OneHoldPerKey, AnswersAgree, OutboxTellsHold, Settlement, Idle, Affordable

(* Amounts are numbers. *)
LEMMA AmountType == \A c \in Call : AmountFen(c) \in Int
BY WalletAssumption DEF AmountFen, ConvertGramsToFen

(* What a commit writes in the wallet rows: the user's row, and no other. *)
LEMMA WalletRows ==
    ASSUME wallet \in [User -> [balance : Int, reserved : Int]], NEW c \in Call
    PROVE  /\ Reserved(wallet, c) \in [User -> [balance : Int, reserved : Int]]
           /\ Confirmed(wallet, c) \in [User -> [balance : Int, reserved : Int]]
           /\ Released(wallet, c) \in [User -> [balance : Int, reserved : Int]]
           /\ \A u \in User \ {UserOf[c]} :
                 /\ Reserved(wallet, c)[u] = wallet[u]
                 /\ Confirmed(wallet, c)[u] = wallet[u]
                 /\ Released(wallet, c)[u] = wallet[u]
<1> DEFINE Row == [balance : Int, reserved : Int]
           w == wallet[UserOf[c]]
<1>1. UserOf[c] \in User /\ AmountFen(c) \in Int
  BY AmountType, WalletAssumption
<1>2. w \in Row /\ w.reserved \in Int /\ w.balance \in Int
  BY <1>1
<1>3. [w EXCEPT !.reserved = @ + AmountFen(c)] \in Row
  BY <1>1, <1>2
<1>4. [w EXCEPT !.reserved = @ - AmountFen(c)] \in Row
  BY <1>1, <1>2
<1>5. [balance |-> w.balance - AmountFen(c), reserved |-> w.reserved - AmountFen(c)] \in Row
  BY <1>1, <1>2
<1> HIDE DEF Row
<1>6. Reserved(wallet, c) \in [User -> Row]
  BY <1>3 DEF Reserved, Row
<1>7. Confirmed(wallet, c) \in [User -> Row]
  BY <1>5 DEF Confirmed, Row
<1>8. Released(wallet, c) \in [User -> Row]
  BY <1>4 DEF Released, Row
<1>9. QED
  BY <1>6, <1>7, <1>8 DEF Reserved, Confirmed, Released, Row

(* A transaction that ends without writing: an answered lookup, a refused or
   failed Reserve call. *)
LEMMA AnswerInv ==
    ASSUME IInv, NEW c \in Call, reserve[c] # "done",
           NEW r \in Call \cup {"insufficient", "error"},
           r \in Call => r \in Existing(c),
           Answer(c, r), UNCHANGED <<wallet, hold, settle, outbox, deposited>>
    PROVE  IInv'
<1>1. PgTypeOK'
  BY DEF IInv, PgTypeOK, TypeOK, Answer
<1>2. \A d \in Call : ReserveInv(d)'
  BY WalletAssumption DEF IInv, PgTypeOK, TypeOK, Answer, ReserveInv, Affordable
<1>3. WalletLockInv'
  BY DEF IInv, PgTypeOK, TypeOK, Answer, WalletLockInv
<1>4. HoldLockInv' /\ OneHoldPerKey' /\ OutboxTellsHold'
  BY DEF IInv, HoldLockInv, OneHoldPerKey, OutboxTellsHold
<1>5. AnswersAgree'
  BY WalletAssumption DEF IInv, PgTypeOK, TypeOK, Answer, AnswersAgree, Existing
<1>6. QED
  BY <1>1, <1>2, <1>3, <1>4, <1>5 DEF IInv

(* A Reserve transaction that advances without ending. *)
LEMMA AdvanceInv ==
    ASSUME IInv, NEW c \in Call,
           \/ LookupMiss(c)
           \/ LockWallet(c)
    PROVE  IInv'
<1>1. PgTypeOK'
  BY DEF IInv, PgTypeOK, TypeOK, LookupMiss, LockWallet
<1>2. \A d \in Call : ReserveInv(d)'
  BY DEF IInv, PgTypeOK, TypeOK, LookupMiss, LockWallet, ReserveInv, Affordable
<1>3. WalletLockInv'
  BY DEF IInv, PgTypeOK, LookupMiss, LockWallet, WalletLockInv, CanLock, WalletLocked
<1>4. UNCHANGED <<hold, result, settle, outbox>>
  BY DEF LookupMiss, LockWallet
<1>5. HoldLockInv' /\ OneHoldPerKey' /\ OutboxTellsHold' /\ AnswersAgree'
  BY <1>4 DEF IInv, HoldLockInv, OneHoldPerKey, OutboxTellsHold, AnswersAgree, Existing
<1>6. QED
  BY <1>1, <1>2, <1>3, <1>5 DEF IInv

(* The commit of a Reserve: the wallet row it locked pays for one new hold. *)
LEMMA InsertInv ==
    ASSUME IInv, NEW c \in Call, InsertCommit(c)
    PROVE  IInv'
<1> USE DEF InsertCommit, Answer
<1>1. PgTypeOK'
  <2>1. wallet' \in [User -> [balance : Int, reserved : Int]]
    BY WalletRows DEF IInv, PgTypeOK, TypeOK
  <2>2. hold' \in [Call -> {"none", "reserved", "confirmed", "cancelled"}]
    BY DEF IInv, PgTypeOK, TypeOK
  <2>3. result' \in [Call -> Call \cup {"pending", "insufficient", "error"}]
    BY DEF IInv, PgTypeOK, TypeOK
  <2>4. /\ reserve' \in [Call -> {"start", "looked", "locked", "done"}]
        /\ settle' \in [Settler -> {Idle} \cup Settlement]
        /\ deposited' \in [User -> Nat]
    BY DEF IInv, PgTypeOK
  <2>5. outbox' \in [Call -> Seq({"wallet.reserved", "wallet.confirmed", "wallet.cancelled"})]
    BY DEF IInv, PgTypeOK
  <2>6. QED
    BY <2>1, <2>2, <2>3, <2>4, <2>5 DEF PgTypeOK, TypeOK
<1>2. hold[c] = "none"
  BY DEF IInv, ReserveInv
<1>3. ASSUME NEW d \in Call
      PROVE  ReserveInv(d)'
  <2>1. reserve'[d] = "done" <=> result'[d] # "pending"
    BY WalletAssumption DEF IInv, PgTypeOK, TypeOK, ReserveInv
  <2>2. reserve'[d] # "done" => hold'[d] = "none"
    BY DEF IInv, PgTypeOK, TypeOK, ReserveInv
  <2>3. reserve'[d] = "locked" => Affordable(d)'
    <3> SUFFICES ASSUME reserve'[d] = "locked"
                 PROVE  Affordable(d)'
      OBVIOUS
    <3>1. UserOf[d] # UserOf[c] /\ Affordable(d)
      BY DEF IInv, PgTypeOK, WalletLockInv, ReserveInv
    <3>2. wallet'[UserOf[d]] = wallet[UserOf[d]]
      BY <3>1, WalletRows, WalletAssumption DEF IInv, PgTypeOK, TypeOK
    <3>3. QED
      BY <3>1, <3>2 DEF Affordable
  <2>4. QED
    BY <2>1, <2>2, <2>3 DEF ReserveInv
<1>4. WalletLockInv'
  BY DEF IInv, PgTypeOK, WalletLockInv
<1>5. HoldLockInv'
  BY <1>2 DEF IInv, PgTypeOK, TypeOK, HoldLockInv, Settlement
<1>6. OneHoldPerKey'
  BY DEF IInv, PgTypeOK, TypeOK, OneHoldPerKey, Unique, Existing
<1>7. AnswersAgree'
  BY WalletAssumption DEF IInv, PgTypeOK, TypeOK, AnswersAgree, Existing
<1>8. OutboxTellsHold'
  <2> SUFFICES ASSUME NEW h \in Call
               PROVE  OutboxTellsHold!(h)'
    BY DEF OutboxTellsHold
  <2>1. CASE h = c
    <3>1. outbox[c] = <<>>
      BY <1>2 DEF IInv, OutboxTellsHold
    <3>2. outbox'[c] = <<"wallet.reserved">> /\ hold'[c] = "reserved"
      BY <3>1 DEF IInv, PgTypeOK, TypeOK
    <3>3. QED
      BY <2>1, <3>2
  <2>2. CASE h # c
    BY <2>2 DEF IInv, PgTypeOK, TypeOK, OutboxTellsHold
  <2>3. QED
    BY <2>1, <2>2
<1>9. QED
  BY <1>1, <1>3, <1>4, <1>5, <1>6, <1>7, <1>8 DEF IInv

(* A settlement that opens or rolls back changes no committed row. *)
LEMMA SettleOpenInv ==
    ASSUME IInv, NEW s \in Settler,
           \/ SettleLoad(s)
           \/ /\ settle' = [settle EXCEPT ![s] = Idle]
              /\ UNCHANGED <<wallet, hold, result, reserve, outbox, deposited>>
    PROVE  IInv'
<1>1. UNCHANGED <<wallet, hold, result, reserve, outbox, deposited>>
  BY DEF SettleLoad
<1>2. PgTypeOK'
  <2>1. \A h \in Call, k \in {"confirmed", "cancelled"} : [kind |-> k, hold |-> h] \in Settlement
    BY DEF Settlement
  <2>2. settle' \in [Settler -> {Idle} \cup Settlement]
    BY <2>1 DEF SettleLoad, IInv, PgTypeOK
  <2>3. QED
    BY <1>1, <2>2 DEF IInv, PgTypeOK, TypeOK
<1>3. /\ \A d \in Call : ReserveInv(d)'
      /\ WalletLockInv' /\ OneHoldPerKey' /\ AnswersAgree' /\ OutboxTellsHold'
  <2>1. (\A d \in Call : ReserveInv(d)') /\ WalletLockInv'
    BY <1>1 DEF IInv, ReserveInv, Affordable, WalletLockInv
  <2>2. OneHoldPerKey' /\ AnswersAgree'
    BY <1>1 DEF IInv, OneHoldPerKey, AnswersAgree, Existing
  <2>3. OutboxTellsHold'
    BY <1>1 DEF IInv, OutboxTellsHold
  <2>4. QED
    BY <2>1, <2>2, <2>3
<1>4. HoldLockInv'
  <2>1. CASE SettleLoad(s)
    <3>1. PICK h \in Call, k \in {"confirmed", "cancelled"} :
             /\ Settleable(h)
             /\ settle' = [settle EXCEPT ![s] = [kind |-> k, hold |-> h]]
      BY <2>1 DEF SettleLoad
    <3>2. /\ hold[h] = "reserved"
          /\ \A t \in Settler : settle[t] # Idle => settle[t].hold # h
      BY <3>1 DEF Settleable, HoldLocked, Settling
    <3>3. settle'[s].hold = h /\ \A t \in Settler \ {s} : settle'[t] = settle[t]
      BY <3>1 DEF IInv, PgTypeOK
    <3>4. QED
      BY <1>1, <3>2, <3>3 DEF IInv, HoldLockInv
  <2>2. CASE settle' = [settle EXCEPT ![s] = Idle]
    <3>1. settle'[s] = Idle /\ \A t \in Settler \ {s} : settle'[t] = settle[t]
      BY <2>2 DEF IInv, PgTypeOK
    <3>2. QED
      BY <1>1, <3>1 DEF IInv, HoldLockInv
  <2>3. QED
    BY <2>1, <2>2
<1>5. QED
  BY <1>2, <1>3, <1>4 DEF IInv

(* The commit of a settlement: the hold it locked is still reserved, and no open
   Reserve transaction has looked at this user's wallet. *)
LEMMA SettleCommitInv ==
    ASSUME IInv, NEW s \in Settler, SettleCommit(s)
    PROVE  IInv'
<1> DEFINE h == settle[s].hold
           k == settle[s].kind
<1>1. settle[s] # Idle /\ h \in Call /\ k \in {"confirmed", "cancelled"}
  BY DEF SettleCommit, IInv, PgTypeOK, Settlement
<1>2. hold[h] = "reserved" /\ ~ WalletLocked(UserOf[h])
  BY <1>1 DEF SettleCommit, IInv, HoldLockInv
<1>3. /\ hold' = [hold EXCEPT ![h] = k]
      /\ wallet' = SettledWallet(k, h)
      /\ outbox' = [outbox EXCEPT ![h] = Append(@, SettledTopic(k))]
      /\ settle' = [settle EXCEPT ![s] = Idle]
      /\ UNCHANGED <<result, reserve, deposited>>
  BY DEF SettleCommit
<1> HIDE DEF h, k
<1>4. PgTypeOK'
  <2>1. wallet' \in [User -> [balance : Int, reserved : Int]]
    BY <1>1, <1>3, WalletRows DEF SettledWallet, IInv, PgTypeOK, TypeOK
  <2>2. hold' \in [Call -> {"none", "reserved", "confirmed", "cancelled"}]
    BY <1>1, <1>3 DEF IInv, PgTypeOK, TypeOK
  <2>3. /\ result' \in [Call -> Call \cup {"pending", "insufficient", "error"}]
        /\ reserve' \in [Call -> {"start", "looked", "locked", "done"}]
        /\ settle' \in [Settler -> {Idle} \cup Settlement]
        /\ deposited' \in [User -> Nat]
    BY <1>3 DEF IInv, PgTypeOK, TypeOK
  <2>4. outbox' \in [Call -> Seq({"wallet.reserved", "wallet.confirmed", "wallet.cancelled"})]
    BY <1>1, <1>3 DEF IInv, PgTypeOK, SettledTopic
  <2>5. QED
    BY <2>1, <2>2, <2>3, <2>4 DEF PgTypeOK, TypeOK
<1>5. ASSUME NEW d \in Call
      PROVE  ReserveInv(d)'
  <2>1. reserve'[d] = "done" <=> result'[d] # "pending"
    BY <1>3 DEF IInv, ReserveInv
  <2>2. reserve'[d] # "done" => hold'[d] = "none"
    BY <1>1, <1>2, <1>3 DEF IInv, PgTypeOK, TypeOK, ReserveInv
  <2>3. ASSUME reserve'[d] = "locked"
        PROVE  Affordable(d)'
    <3>1. UserOf[d] # UserOf[h]
      BY <1>2, <1>3, <2>3 DEF WalletLocked
    <3>2. wallet'[UserOf[d]] = wallet[UserOf[d]]
      BY <1>1, <1>3, <3>1, WalletRows, WalletAssumption
         DEF SettledWallet, IInv, PgTypeOK, TypeOK
    <3>3. QED
      BY <1>3, <2>3, <3>2 DEF Affordable, IInv, ReserveInv
  <2>4. QED
    BY <2>1, <2>2, <2>3 DEF ReserveInv
<1>6. WalletLockInv'
  BY <1>3 DEF IInv, WalletLockInv
<1>7. HoldLockInv'
  <2>1. settle'[s] = Idle /\ \A t \in Settler \ {s} : settle'[t] = settle[t]
    BY <1>3 DEF IInv, PgTypeOK
  <2>2. \A t \in Settler \ {s} : settle[t] # Idle => settle[t].hold # h
    BY <1>1 DEF IInv, HoldLockInv, h
  <2>3. \A d \in Call \ {h} : hold'[d] = hold[d]
    BY <1>3 DEF IInv, PgTypeOK, TypeOK
  <2>4. \A t \in Settler : settle[t] # Idle => settle[t].hold \in Call
    BY DEF IInv, PgTypeOK, Settlement
  <2>5. QED
    BY <2>1, <2>2, <2>3, <2>4 DEF IInv, HoldLockInv
<1>8. \A d \in Call : hold'[d] # "none" <=> hold[d] # "none"
  BY <1>1, <1>2, <1>3 DEF IInv, PgTypeOK, TypeOK
<1>9. OneHoldPerKey' /\ AnswersAgree'
  BY <1>3, <1>8 DEF IInv, OneHoldPerKey, AnswersAgree, Existing
<1>10. OutboxTellsHold'
  <2> SUFFICES ASSUME NEW d \in Call
               PROVE  OutboxTellsHold!(d)'
    BY DEF OutboxTellsHold
  <2>1. CASE d = h
    <3>1. outbox[h] = <<"wallet.reserved">>
      BY <1>1, <1>2 DEF IInv, OutboxTellsHold
    <3>2. outbox'[h] = Append(<<"wallet.reserved">>, SettledTopic(k)) /\ hold'[h] = k
      BY <1>1, <1>3, <3>1 DEF IInv, PgTypeOK, TypeOK
    <3>3. /\ k = "confirmed" => outbox'[h] = <<"wallet.reserved", "wallet.confirmed">>
          /\ k = "cancelled" => outbox'[h] = <<"wallet.reserved", "wallet.cancelled">>
      <4> DEFINE Topic == {"wallet.reserved", "wallet.confirmed", "wallet.cancelled"}
      <4>1. \A t \in Topic : Append(<<"wallet.reserved">>, t) = <<"wallet.reserved", t>>
        <5> SUFFICES ASSUME NEW t \in Topic
                     PROVE  Append(<<"wallet.reserved">>, t) = <<"wallet.reserved", t>>
          OBVIOUS
        <5> DEFINE a == <<"wallet.reserved">>
                   b == <<"wallet.reserved", t>>
        <5>1. a \in Seq(Topic)
          OBVIOUS
        <5>2. b \in Seq(Topic)
          OBVIOUS
        <5>3. Len(a) = 1 /\ Len(b) = 2
          OBVIOUS
        <5>4. Append(a, t) \in Seq(Topic) /\ Len(Append(a, t)) = 2
          BY <5>1, <5>3, AppendProperties
        <5>5. Append(a, t)[1] = b[1] /\ Append(a, t)[2] = b[2]
          BY <5>1, <5>3, AppendProperties
        <5>6. \A i \in 1 .. 2 : Append(a, t)[i] = b[i]
          BY <5>5
        <5> HIDE DEF a, b
        <5>7. Append(a, t) = b
          BY <5>2, <5>3, <5>4, <5>6, SeqEqual
        <5> QED
          BY <5>7 DEF a, b
      <4>2. /\ k = "confirmed" => SettledTopic(k) = "wallet.confirmed"
            /\ k = "cancelled" => SettledTopic(k) = "wallet.cancelled"
        BY DEF SettledTopic
      <4>3. "wallet.confirmed" \in Topic /\ "wallet.cancelled" \in Topic
        OBVIOUS
      <4>4. QED
        BY <3>2, <4>1, <4>2, <4>3
    <3>4. QED
      BY <1>1, <2>1, <3>2, <3>3
  <2>2. CASE d # h
    BY <1>3, <2>2 DEF IInv, PgTypeOK, TypeOK, OutboxTellsHold
  <2>3. QED
    BY <2>1, <2>2
<1>11. QED
  BY <1>4, <1>5, <1>6, <1>7, <1>9, <1>10 DEF IInv

(* A top-up only adds money, and waits while a Reserve holds the wallet row. *)
LEMMA TopUpInv ==
    ASSUME IInv, NEW u \in User, PgTopUpWallet(u)
    PROVE  IInv'
<1>1. PICK a \in TopUpFen :
         /\ wallet' = [wallet EXCEPT ![u].balance = @ + a]
         /\ deposited' = [deposited EXCEPT ![u] = @ + a]
  BY DEF PgTopUpWallet
<1>2. a \in Nat
  BY WalletAssumption
<1>3. UNCHANGED <<hold, result, reserve, settle, outbox>> /\ ~ WalletLocked(u)
  BY DEF PgTopUpWallet
<1>4. wallet' \in [User -> [balance : Int, reserved : Int]]
  <2>1. wallet[u] \in [balance : Int, reserved : Int] /\ wallet[u].balance \in Int
    BY DEF IInv, PgTypeOK, TypeOK
  <2>2. [wallet[u] EXCEPT !.balance = @ + a] \in [balance : Int, reserved : Int]
    BY <1>2, <2>1
  <2>3. QED
    BY <1>1, <2>2 DEF IInv, PgTypeOK, TypeOK
<1>5. PgTypeOK'
  BY <1>1, <1>2, <1>3, <1>4 DEF IInv, PgTypeOK, TypeOK
<1>6. ASSUME NEW d \in Call
      PROVE  ReserveInv(d)'
  <2>1. ASSUME reserve'[d] = "locked"
        PROVE  Affordable(d)'
    <3>1. UserOf[d] # u
      BY <1>3, <2>1 DEF WalletLocked
    <3>2. wallet'[UserOf[d]] = wallet[UserOf[d]]
      BY <1>1, <3>1, WalletAssumption DEF IInv, PgTypeOK, TypeOK
    <3>3. QED
      BY <1>3, <2>1, <3>2 DEF Affordable, IInv, ReserveInv
  <2>2. QED
    BY <1>3, <2>1 DEF IInv, ReserveInv
<1>7. WalletLockInv' /\ HoldLockInv' /\ OneHoldPerKey' /\ AnswersAgree' /\ OutboxTellsHold'
  BY <1>3 DEF IInv, WalletLockInv, HoldLockInv, OneHoldPerKey, AnswersAgree, Existing,
              OutboxTellsHold
<1>8. QED
  BY <1>5, <1>6, <1>7 DEF IInv

(* Every step keeps the invariant. *)
LEMMA StepInv == IInv /\ [PgNext]_pgVars => IInv'
<1> SUFFICES ASSUME IInv, [PgNext]_pgVars
             PROVE  IInv'
  OBVIOUS
<1>1. ASSUME NEW c \in Call, LookupHit(c)
      PROVE  IInv'
  <2>1. PICK h \in Existing(c) : Answer(c, h)
    BY <1>1 DEF LookupHit
  <2>2. h \in Call
    BY DEF Existing
  <2>3. QED
    BY <1>1, <2>1, <2>2, AnswerInv DEF LookupHit
<1>2. ASSUME NEW c \in Call, LookupMiss(c) \/ LockWallet(c)
      PROVE  IInv'
  BY <1>2, AdvanceInv
<1>3. ASSUME NEW c \in Call, LockInsufficient(c) \/ InsertConflict(c) \/ ReserveRollback(c)
      PROVE  IInv'
  <2>1. PICK r \in {"insufficient", "error"} : Answer(c, r)
    BY <1>3 DEF LockInsufficient, InsertConflict, ReserveRollback
  <2>2. /\ reserve[c] # "done"
        /\ UNCHANGED <<wallet, hold, settle, outbox, deposited>>
    BY <1>3 DEF LockInsufficient, InsertConflict, ReserveRollback
  <2>3. r \notin Call
    BY WalletAssumption
  <2>4. QED
    BY <2>1, <2>2, <2>3, AnswerInv
<1>4. ASSUME NEW c \in Call, InsertCommit(c)
      PROVE  IInv'
  BY <1>4, InsertInv
<1>5. ASSUME NEW c \in Call, NEW s \in Settler, DeadlockVictim(c, s)
      PROVE  IInv'
  <2>1. CASE Answer(c, "error") /\ UNCHANGED settle
    <3>1. "error" \notin Call
      BY WalletAssumption
    <3>2. reserve[c] # "done" /\ UNCHANGED <<wallet, hold, settle, outbox, deposited>>
      BY <1>5, <2>1 DEF DeadlockVictim
    <3>3. QED
      BY <2>1, <3>1, <3>2, AnswerInv
  <2>2. CASE settle' = [settle EXCEPT ![s] = Idle] /\ UNCHANGED <<reserve, result>>
    <3>1. UNCHANGED <<wallet, hold, result, reserve, outbox, deposited>>
      BY <1>5, <2>2 DEF DeadlockVictim
    <3>2. QED
      BY <2>2, <3>1, SettleOpenInv
  <2>3. QED
    BY <1>5, <2>1, <2>2 DEF DeadlockVictim
<1>6. ASSUME NEW s \in Settler, SettleLoad(s) \/ SettleRollback(s)
      PROVE  IInv'
  BY <1>6, SettleOpenInv DEF SettleRollback
<1>7. ASSUME NEW s \in Settler, SettleCommit(s)
      PROVE  IInv'
  BY <1>7, SettleCommitInv
<1>8. ASSUME NEW u \in User, PgTopUpWallet(u)
      PROVE  IInv'
  BY <1>8, TopUpInv
<1>9. CASE UNCHANGED pgVars
  <2>1. PgTypeOK'
    BY <1>9 DEF IInv, PgTypeOK, TypeOK, pgVars
  <2>2. (\A d \in Call : ReserveInv(d)') /\ WalletLockInv' /\ HoldLockInv'
    BY <1>9 DEF IInv, pgVars, ReserveInv, Affordable, WalletLockInv, HoldLockInv
  <2>3. OneHoldPerKey' /\ AnswersAgree'
    BY <1>9 DEF IInv, pgVars, OneHoldPerKey, AnswersAgree, Existing
  <2>4. OutboxTellsHold'
    BY <1>9 DEF IInv, pgVars, OutboxTellsHold
  <2>5. QED
    BY <2>1, <2>2, <2>3, <2>4 DEF IInv
<1>10. QED
  BY <1>1, <1>2, <1>3, <1>4, <1>5, <1>6, <1>7, <1>8, <1>9 DEF PgNext, ReserveStep

(* The invariant holds throughout every behaviour of the store. *)
THEOREM PgInvariance == PgSpec => []IInv
BY InitInv, StepInv, PTL DEF PgSpec

(* Type correctness of the store's rows, locks and answers. *)
THEOREM PgTypeCorrect == PgSpec => []PgTypeOK
<1>1. IInv => PgTypeOK
  BY DEF IInv
<1>2. QED
  BY <1>1, PgInvariance, PTL

(* pgStore.ReserveHold is idempotent under any overlap of Reserve calls: the
   lookup may miss, but the unique index admits one hold per user and key. *)
THEOREM ReserveIsIdempotent == PgSpec => []OneHoldPerKey
<1>1. IInv => OneHoldPerKey
  BY DEF IInv
<1>2. QED
  BY <1>1, PgInvariance, PTL

(* Every hold that pgStore.ReserveHold returned exists and carries the caller's
   user and key. *)
THEOREM AnswersAreHolds == PgSpec => []AnswersAgree
<1>1. IInv => AnswersAgree
  BY DEF IInv
<1>2. QED
  BY <1>1, PgInvariance, PTL

(* Exactly one outbox row per committed change of a hold, in the order of the
   changes: the rows are written in the transaction of the change. *)
THEOREM OutboxIsExact == PgSpec => []OutboxTellsHold
<1>1. IInv => OutboxTellsHold
  BY DEF IInv
<1>2. QED
  BY <1>1, PgInvariance, PTL

(* Of a Confirm and a Cancel racing on a hold only one commits, and the outcome
   is never revised: the row lock taken by loadHoldTx protects the status check. *)
THEOREM SettlementIsFinal == PgSpec => TerminalIsFinal
<1>1. ASSUME IInv, [PgNext]_pgVars
      PROVE  [\A h \in Call :
                 /\ hold[h] \in {"confirmed", "cancelled"} => hold'[h] = hold[h]
                 /\ hold[h] # "none" => hold'[h] # "none"]_hold
  <2>1. ASSUME NEW c \in Call, InsertCommit(c)
        PROVE  hold[c] = "none" /\ hold' = [hold EXCEPT ![c] = "reserved"]
    BY <1>1, <2>1 DEF InsertCommit, IInv, ReserveInv
  <2>2. ASSUME NEW s \in Settler, SettleCommit(s)
        PROVE  /\ hold[settle[s].hold] = "reserved"
               /\ settle[s].kind \in {"confirmed", "cancelled"}
               /\ hold' = [hold EXCEPT ![settle[s].hold] = settle[s].kind]
    BY <1>1, <2>2 DEF SettleCommit, IInv, HoldLockInv, PgTypeOK, Settlement
  <2>3. CASE \E c \in Call : InsertCommit(c)
    BY <1>1, <2>1, <2>3 DEF IInv, PgTypeOK, TypeOK
  <2>4. CASE \E s \in Settler : SettleCommit(s)
    BY <1>1, <2>2, <2>4 DEF IInv, PgTypeOK, TypeOK
  <2>5. CASE /\ ~ \E c \in Call : InsertCommit(c)
             /\ ~ \E s \in Settler : SettleCommit(s)
    <3>1. UNCHANGED hold
      BY <1>1, <2>5 DEF PgNext, pgVars, ReserveStep, LookupHit, LookupMiss, LockInsufficient,
         LockWallet, InsertConflict, ReserveRollback, DeadlockVictim, SettleLoad,
         SettleRollback, PgTopUpWallet
    <3>2. QED
      BY <3>1
  <2>6. QED
    BY <2>3, <2>4, <2>5
<1>2. QED
  BY <1>1, PgInvariance, PTL DEF PgSpec, TerminalIsFinal
-----------------------------------------------------------------------------
(* Money *)

(* A sum over a finite set is a count: x stands for w[x] coins, and the sum over S
   is the number of coins of its elements.  A cardinality can be reasoned about
   without induction, and does not depend on the order of a fold. *)
Pile(w, x) == {x} \X (1 .. w[x])
Coins(w, S) == UNION {Pile(w, x) : x \in S}

(* The element that the fold of MapThenSumSet takes out of a set *)
Pick(s) == CHOOSE x \in s : TRUE

(* A fold over the subsets of S that takes the elements out one by one *)
Folds(w, S, g) ==
    g = [s \in SUBSET S |-> IF s = {} THEN 0 ELSE w[Pick(s)] + g[s \ {Pick(s)}]]

(* An element has as many coins as its weight. *)
LEMMA PileCard ==
    ASSUME NEW w, NEW x, w[x] \in Nat
    PROVE  IsFiniteSet(Pile(w, x)) /\ Cardinality(Pile(w, x)) = w[x]
<1>1. IsFiniteSet(1 .. w[x]) /\ Cardinality(1 .. w[x]) = w[x]
  BY FS_Interval
<1>2. IsFiniteSet({x}) /\ Cardinality({x}) = 1
  BY FS_Singleton
<1>3. \A A, B : IsFiniteSet(A) /\ IsFiniteSet(B) =>
         IsFiniteSet(A \X B) /\ Cardinality(A \X B) = Cardinality(A) * Cardinality(B)
  BY FS_Product
<1>4. IsFiniteSet({x} \X (1 .. w[x])) /\ Cardinality({x} \X (1 .. w[x])) = 1 * w[x]
  BY <1>1, <1>2, <1>3, Zenon
<1>5. QED
  BY <1>4 DEF Pile

(* Finitely many elements have finitely many coins. *)
LEMMA CoinsFinite ==
    ASSUME NEW S, IsFiniteSet(S), NEW w, \A x \in S : w[x] \in Nat
    PROVE  IsFiniteSet(Coins(w, S))
<1> DEFINE P == {Pile(w, x) : x \in S}
           f == [x \in S |-> Pile(w, x)]
<1>1. f \in Surjection(S, P)
  BY DEF Surjection
<1>2. IsFiniteSet(P)
  BY <1>1, FS_Surjection
<1>3. \A p \in P : IsFiniteSet(p)
  BY PileCard
<1>4. QED
  BY <1>2, <1>3, FS_UNION DEF Coins

(* One more element adds its weight. *)
LEMMA CoinsAdd ==
    ASSUME NEW S, IsFiniteSet(S), NEW w, NEW x, x \notin S,
           \A y \in S \cup {x} : w[y] \in Nat
    PROVE  Cardinality(Coins(w, S \cup {x})) = Cardinality(Coins(w, S)) + w[x]
<1>1. Coins(w, S \cup {x}) = Coins(w, S) \cup Pile(w, x)
  BY DEF Coins
<1>2. Coins(w, S) \cap Pile(w, x) = {}
  BY DEF Coins, Pile
<1>3. IsFiniteSet(Coins(w, S)) /\ IsFiniteSet(Pile(w, x)) /\ Cardinality(Pile(w, x)) = w[x]
  BY CoinsFinite, PileCard
<1>4. Cardinality({}) = 0 /\ Cardinality(Coins(w, S)) \in Nat
  BY <1>3, FS_EmptySet, FS_CardinalityType
<1>5. \A A, B : IsFiniteSet(A) /\ IsFiniteSet(B) =>
         Cardinality(A \cup B) = Cardinality(A) + Cardinality(B) - Cardinality(A \cap B)
  BY FS_Union
<1>6. Cardinality(Coins(w, S \cup {x})) = Cardinality(Coins(w, S)) + w[x] - 0
  BY <1>1, <1>2, <1>3, <1>4, <1>5, Zenon
<1>7. w[x] \in Nat
  OBVIOUS
<1>8. QED
  BY <1>4, <1>6, <1>7

(* No element, no coin. *)
LEMMA CoinsEmpty ==
    ASSUME NEW w
    PROVE  Cardinality(Coins(w, {})) = 0
<1>1. Coins(w, {}) = {}
  BY DEF Coins
<1>2. QED
  BY <1>1, FS_EmptySet

(* The count satisfies the equation of the fold at one set. *)
LEMMA CoinsTake ==
    ASSUME NEW s, IsFiniteSet(s), s # {}, NEW w, \A y \in s : w[y] \in Nat
    PROVE  /\ Pick(s) \in s
           /\ Cardinality(Coins(w, s)) = w[Pick(s)] + Cardinality(Coins(w, s \ {Pick(s)}))
           /\ Cardinality(Coins(w, s \ {Pick(s)})) \in Nat
<1>1. Pick(s) \in s
  BY DEF Pick
<1>2. IsFiniteSet(s \ {Pick(s)})
  BY FS_RemoveElement
<1>3. s = (s \ {Pick(s)}) \cup {Pick(s)}
  BY <1>1
<1>4. Cardinality(Coins(w, s)) = Cardinality(Coins(w, s \ {Pick(s)})) + w[Pick(s)]
  <2> DEFINE t == s \ {Pick(s)}
  <2>1. Cardinality(Coins(w, t \cup {Pick(s)})) = Cardinality(Coins(w, t)) + w[Pick(s)]
    BY <1>1, <1>2, <1>3, CoinsAdd
  <2>2. QED
    BY <1>3, <2>1
<1>5. IsFiniteSet(Coins(w, s \ {Pick(s)}))
  BY <1>2, CoinsFinite
<1>6. Cardinality(Coins(w, s \ {Pick(s)})) \in Nat
  BY <1>5, FS_CardinalityType
<1>7. w[Pick(s)] \in Nat
  BY <1>1
<1>8. QED
  BY <1>1, <1>4, <1>6, <1>7

(* So the count is a solution of the fold's equation, and one exists. *)
LEMMA CountFolds ==
    ASSUME NEW S, IsFiniteSet(S), NEW w, \A y \in S : w[y] \in Nat
    PROVE  Folds(w, S, [s \in SUBSET S |-> Cardinality(Coins(w, s))])
<1> DEFINE g == [s \in SUBSET S |-> Cardinality(Coins(w, s))]
<1>1. ASSUME NEW s \in SUBSET S
      PROVE  g[s] = IF s = {} THEN 0 ELSE w[Pick(s)] + g[s \ {Pick(s)}]
  <2>1. CASE s = {}
    BY <2>1, CoinsEmpty
  <2>2. CASE s # {}
    <3>1. IsFiniteSet(s) 
      BY FS_Subset
    <3>2. Cardinality(Coins(w, s)) = w[Pick(s)] + Cardinality(Coins(w, s \ {Pick(s)}))
      BY <2>2, <3>1, CoinsTake
    <3>3. s \ {Pick(s)} \in SUBSET S
      OBVIOUS
    <3>4. g[s] = Cardinality(Coins(w, s)) /\ g[s \ {Pick(s)}] = Cardinality(Coins(w, s \ {Pick(s)}))
      BY <3>3
    <3>5. QED
      BY <2>2, <3>2, <3>4
  <2>3. QED
    BY <2>1, <2>2
<1>2. g = [s \in SUBSET S |-> g[s]]
  OBVIOUS
<1> HIDE DEF g
<1>3. g = [s \in SUBSET S |-> IF s = {} THEN 0 ELSE w[Pick(s)] + g[s \ {Pick(s)}]]
  BY <1>1, <1>2
<1>4. QED
  BY <1>3 DEF Folds, g

(* Every solution is the count: a smallest set where they differ would not be
   empty, and without one element they would still differ. *)
LEMMA FoldCounts ==
    ASSUME NEW S, IsFiniteSet(S), NEW w, \A y \in S : w[y] \in Nat, NEW g, Folds(w, S, g)
    PROVE  g[S] = Cardinality(Coins(w, S))
<1> DEFINE Bad == {s \in SUBSET S : g[s] # Cardinality(Coins(w, s))}
<1>0. ASSUME NEW s \in SUBSET S
      PROVE  g[s] = IF s = {} THEN 0 ELSE w[Pick(s)] + g[s \ {Pick(s)}]
  BY DEF Folds
<1>1. SUFFICES ASSUME Bad # {} PROVE FALSE
  <2>1. S \in SUBSET S
    OBVIOUS
  <2>2. QED
    BY <2>1
<1>2. IsWellFoundedOn(StrictSubsetOrdering(S), SUBSET S)
  BY FS_StrictSubsetOrderingWellFounded, FS_FiniteSubsetsOfFinite
<1>3. PICK s \in Bad : \A t \in Bad : ~ (<<t, s>> \in StrictSubsetOrdering(S))
  <2>1. Bad \subseteq SUBSET S
    OBVIOUS
  <2> HIDE DEF Bad
  <2>2. QED
    BY <1>1, <1>2, <2>1, WFMin
<1>4. s \in SUBSET S /\ IsFiniteSet(s)
  BY FS_Subset
<1>5. s # {}
  BY <1>0, <1>3, CoinsEmpty
<1>6. Pick(s) \in s
  BY <1>5 DEF Pick
<1> DEFINE t == s \ {Pick(s)}
<1>7. t \in SUBSET S /\ t \subseteq s /\ t # s
  BY <1>4, <1>6
<1>8. <<t, s>> \in StrictSubsetOrdering(S)
  BY <1>4, <1>7 DEF StrictSubsetOrdering
<1>9. g[t] = Cardinality(Coins(w, t))
  BY <1>3, <1>7, <1>8
<1>10. g[s] = w[Pick(s)] + g[t]
  BY <1>0, <1>4, <1>5
<1>11. Cardinality(Coins(w, s)) = w[Pick(s)] + Cardinality(Coins(w, t))
  BY <1>4, <1>5, CoinsTake
<1>12. QED
  BY <1>3, <1>9, <1>10, <1>11

(* The weights of MoneyConserved: what each hold costs *)
Fen == [c \in Call |-> AmountFen(c)]

(* FenOf is a solution of the fold's equation. *)
LEMMA FenEq ==
    ASSUME NEW S \in SUBSET Call, NEW h, Folds(Fen, S, h)
    PROVE  \E g : Folds(Fen, S, g) /\ FenOf(S) = g[S]
<1>1. \A s \in SUBSET S : s # {} => Fen[Pick(s)] = AmountFen(Pick(s))
  BY DEF Pick, Fen
<1>2. h = [s \in SUBSET S |-> IF s = {} THEN 0 ELSE AmountFen(Pick(s)) + h[s \ {Pick(s)}]]
  BY <1>1 DEF Folds
<1>3. PICK g : /\ g = [s \in SUBSET S |->
                        IF s = {} THEN 0 ELSE AmountFen(Pick(s)) + g[s \ {Pick(s)}]]
               /\ FenOf(S) = g[S]
  BY <1>2 DEF FenOf, MapThenSumSet, MapThenFoldSet, Pick
<1>4. Folds(Fen, S, g)
  BY <1>1, <1>3 DEF Folds
<1>5. QED
  BY <1>3, <1>4

(* What holds cost together is a count of coins. *)
LEMMA FenIsCount ==
    ASSUME NEW S \in SUBSET Call, IsFiniteSet(S)
    PROVE  FenOf(S) = Cardinality(Coins(Fen, S))
<1>1. \A y \in S : Fen[y] \in Nat
  BY WalletAssumption DEF Fen, AmountFen, ConvertGramsToFen
<1>2. \E h : Folds(Fen, S, h)
  BY <1>1, CountFolds
<1>3. PICK g : Folds(Fen, S, g) /\ FenOf(S) = g[S]
  BY <1>2, FenEq
<1>4. QED
  BY <1>1, <1>3, FoldCounts

(* The sum is a number, 0 over no hold. *)
LEMMA FenType ==
    /\ \A S \in SUBSET Call : IsFiniteSet(S) => FenOf(S) \in Nat
    /\ FenOf({}) = 0
<1>1. ASSUME NEW S \in SUBSET Call, IsFiniteSet(S)
      PROVE  FenOf(S) \in Nat
  <2>1. \A y \in S : Fen[y] \in Nat
    BY WalletAssumption DEF Fen, AmountFen, ConvertGramsToFen
  <2>2. IsFiniteSet(Coins(Fen, S))
    BY <1>1, <2>1, CoinsFinite
  <2>3. QED
    BY <1>1, <2>2, FenIsCount, FS_CardinalityType
<1>2. FenOf({}) = Cardinality(Coins(Fen, {}))
  <2>1. {} \in SUBSET Call /\ IsFiniteSet({})
    BY FS_EmptySet
  <2>2. QED
    BY <2>1, FenIsCount
<1>3. QED
  BY <1>1, <1>2, CoinsEmpty

(* One more hold adds its cost, and one less takes it away. *)
LEMMA FenAdd ==
    ASSUME NEW S \in SUBSET Call, IsFiniteSet(S), NEW c \in Call, c \notin S
    PROVE  /\ IsFiniteSet(S \cup {c})
           /\ FenOf(S \cup {c}) = FenOf(S) + AmountFen(c)
<1>1. IsFiniteSet(S \cup {c}) /\ S \cup {c} \in SUBSET Call
  BY FS_AddElement
<1>2. \A y \in S \cup {c} : Fen[y] \in Nat
  BY WalletAssumption DEF Fen, AmountFen, ConvertGramsToFen
<1>3. Cardinality(Coins(Fen, S \cup {c})) = Cardinality(Coins(Fen, S)) + Fen[c]
  BY <1>2, CoinsAdd
<1>4. FenOf(S) = Cardinality(Coins(Fen, S))
  BY FenIsCount
<1>5. FenOf(S \cup {c}) = Cardinality(Coins(Fen, S \cup {c}))
  BY <1>1, FenIsCount
<1>6. Fen[c] = AmountFen(c)
  BY DEF Fen
<1>7. QED
  BY <1>1, <1>3, <1>4, <1>5, <1>6

LEMMA FenTake ==
    ASSUME NEW S \in SUBSET Call, IsFiniteSet(S), NEW c \in S
    PROVE  /\ IsFiniteSet(S \ {c})
           /\ FenOf(S \ {c}) = FenOf(S) - AmountFen(c)
<1> DEFINE t == S \ {c}
<1>1. t \in SUBSET Call /\ IsFiniteSet(t) /\ c \notin t /\ S = t \cup {c} /\ c \in Call
  BY FS_RemoveElement
<1> HIDE DEF t
<1>2. FenOf(S) = FenOf(t) + AmountFen(c)
  BY <1>1, FenAdd
<1>3. FenOf(t) \in Nat /\ AmountFen(c) \in Int
  BY <1>1, FenType, AmountType
<1>4. QED
  BY <1>1, <1>2, <1>3 DEF t

(* What a commit does to the holds of a user: the hold it writes leaves every
   other status, and nobody else's holds change. *)
LEMMA HoldsOfStep ==
    ASSUME hold \in [Call -> {"none", "reserved", "confirmed", "cancelled"}],
           NEW c \in Call, NEW k, hold' = [hold EXCEPT ![c] = k], NEW u, NEW st
    PROVE  HoldsOf(u, st)' = IF UserOf[c] # u THEN HoldsOf(u, st)
                             ELSE IF st = k THEN HoldsOf(u, st) \cup {c}
                             ELSE HoldsOf(u, st) \ {c}
<1>1. CASE UserOf[c] # u
  BY <1>1 DEF HoldsOf
<1>2. CASE UserOf[c] = u /\ st = k
  BY <1>2 DEF HoldsOf
<1>3. CASE UserOf[c] = u /\ st # k
  BY <1>3 DEF HoldsOf
<1>4. QED
  BY <1>1, <1>2, <1>3

(* What it does to the amounts of the user's row. *)
LEMMA WalletAmounts ==
    ASSUME wallet \in [User -> [balance : Int, reserved : Int]], NEW c \in Call
    PROVE  LET w == wallet[UserOf[c]]
               r == Reserved(wallet, c)[UserOf[c]]
               p == Confirmed(wallet, c)[UserOf[c]]
               n == Released(wallet, c)[UserOf[c]]
           IN  /\ r.balance = w.balance /\ r.reserved = w.reserved + AmountFen(c)
               /\ p.balance = w.balance - AmountFen(c) /\ p.reserved = w.reserved - AmountFen(c)
               /\ n.balance = w.balance /\ n.reserved = w.reserved - AmountFen(c)
<1>1. UserOf[c] \in User
  BY WalletAssumption
<1>2. wallet[UserOf[c]] \in [balance : Int, reserved : Int]
  BY <1>1
<1>3. QED
  BY <1>1, <1>2 DEF Reserved, Confirmed, Released

(* MoneyConserved speaks of sums, and holds because the sets summed are finite *)
FiniteHolds == \A u \in User, st \in {"reserved", "confirmed"} : IsFiniteSet(HoldsOf(u, st))

MoneyInv == FiniteHolds /\ MoneyConserved

(* At the start nobody has been given or owes anything. *)
LEMMA MoneyInit == PgInit => MoneyInv
<1> SUFFICES ASSUME PgInit PROVE MoneyInv
  OBVIOUS
<1>1. ASSUME NEW u \in User, NEW st \in {"reserved", "confirmed"}
      PROVE  HoldsOf(u, st) = {}
  BY DEF PgInit, Init, HoldsOf
<1>2. FiniteHolds
  BY <1>1, FS_EmptySet DEF FiniteHolds
<1>3. \A u \in User : /\ wallet[u].balance = 0 /\ wallet[u].reserved = 0
                      /\ deposited[u] = 0
  BY DEF PgInit, Init
<1>4. MoneyConserved
  BY <1>1, <1>3, FenType DEF MoneyConserved
<1>5. QED
  BY <1>2, <1>4 DEF MoneyInv

(* A Reserve moves money from the free part of the balance to the reserved one:
   what it saw free is still free when it commits. *)
LEMMA MoneyInsert ==
    ASSUME IInv, MoneyInv, NEW c \in Call, InsertCommit(c), NEW u \in User
    PROVE  /\ \A st \in {"reserved", "confirmed"} : IsFiniteSet(HoldsOf(u, st)')
           /\ MoneyConserved!(u)'
<1>1. /\ hold[c] = "none" /\ Affordable(c)
      /\ hold' = [hold EXCEPT ![c] = "reserved"]
      /\ wallet' = Reserved(wallet, c)
      /\ UNCHANGED deposited
  BY DEF InsertCommit, IInv, ReserveInv
<1>2. /\ hold \in [Call -> {"none", "reserved", "confirmed", "cancelled"}]
      /\ wallet \in [User -> [balance : Int, reserved : Int]]
  BY DEF IInv, PgTypeOK, TypeOK
<1>3. /\ IsFiniteSet(HoldsOf(u, "reserved")) /\ IsFiniteSet(HoldsOf(u, "confirmed"))
      /\ HoldsOf(u, "reserved") \in SUBSET Call /\ c \notin HoldsOf(u, "reserved")
      /\ c \notin HoldsOf(u, "confirmed")
      /\ MoneyConserved!(u)
  BY <1>1 DEF MoneyInv, FiniteHolds, MoneyConserved, HoldsOf
<1>4. HoldsOf(u, "confirmed")' = HoldsOf(u, "confirmed")
  BY <1>1, <1>2 DEF HoldsOf
<1>5. CASE UserOf[c] # u
  <2>1. HoldsOf(u, "reserved")' = HoldsOf(u, "reserved")
    BY <1>1, <1>2, <1>5, HoldsOfStep
  <2>2. wallet'[u] = wallet[u]
    BY <1>1, <1>2, <1>5, WalletRows
  <2>3. QED
    BY <1>1, <1>3, <1>4, <2>1, <2>2
<1>6. CASE UserOf[c] = u
  <2>1. HoldsOf(u, "reserved")' = HoldsOf(u, "reserved") \cup {c}
    BY <1>1, <1>2, <1>6, HoldsOfStep
  <2>2. /\ IsFiniteSet(HoldsOf(u, "reserved")')
        /\ FenOf(HoldsOf(u, "reserved")') = FenOf(HoldsOf(u, "reserved")) + AmountFen(c)
    BY <1>3, <2>1, FenAdd
  <2>3. /\ wallet'[u].balance = wallet[u].balance
        /\ wallet'[u].reserved = wallet[u].reserved + AmountFen(c)
    BY <1>1, <1>2, <1>6, WalletAmounts
  <2>4. wallet[u].balance - wallet[u].reserved >= AmountFen(c)
    BY <1>1, <1>6 DEF Affordable
  <2>5. AmountFen(c) \in Int /\ wallet[u].balance \in Int /\ wallet[u].reserved \in Int
    BY <1>2, AmountType
  <2>6. wallet'[u].reserved <= wallet'[u].balance
    BY <2>3, <2>4, <2>5
  <2>7. deposited'[u] = wallet'[u].balance + FenOf(HoldsOf(u, "confirmed")')
    BY <1>1, <1>3, <1>4, <2>3
  <2>8. wallet'[u].reserved = FenOf(HoldsOf(u, "reserved")')
    BY <1>3, <2>2, <2>3
  <2>9. \A st \in {"reserved", "confirmed"} : IsFiniteSet(HoldsOf(u, st)')
    BY <1>3, <1>4, <2>2
  <2>10. QED
    BY <2>6, <2>7, <2>8, <2>9
<1>7. QED
  BY <1>5, <1>6

(* A settlement takes the hold out of the reserved money, and out of the balance
   as well when it confirms. *)
LEMMA MoneySettle ==
    ASSUME IInv, MoneyInv, NEW s \in Settler, SettleCommit(s), NEW u \in User
    PROVE  /\ \A st \in {"reserved", "confirmed"} : IsFiniteSet(HoldsOf(u, st)')
           /\ MoneyConserved!(u)'
<1>1. PICK h \in Call : \E k \in {"confirmed", "cancelled"} :
         /\ hold[h] = "reserved"
         /\ hold' = [hold EXCEPT ![h] = k]
         /\ wallet' = SettledWallet(k, h)
  <2>1. settle[s] # Idle /\ settle[s] \in Settlement
    BY DEF SettleCommit, IInv, PgTypeOK
  <2>2. settle[s].hold \in Call /\ settle[s].kind \in {"confirmed", "cancelled"}
    BY <2>1 DEF Settlement
  <2>3. hold[settle[s].hold] = "reserved"
    BY <2>1 DEF IInv, HoldLockInv
  <2>4. QED
    BY <2>2, <2>3 DEF SettleCommit
<1>2. PICK k \in {"confirmed", "cancelled"} :
         /\ hold[h] = "reserved"
         /\ hold' = [hold EXCEPT ![h] = k]
         /\ wallet' = SettledWallet(k, h)
  BY <1>1
<1>3. /\ hold \in [Call -> {"none", "reserved", "confirmed", "cancelled"}]
      /\ wallet \in [User -> [balance : Int, reserved : Int]]
      /\ UNCHANGED deposited
  BY DEF IInv, PgTypeOK, TypeOK, SettleCommit
<1>4. /\ IsFiniteSet(HoldsOf(u, "reserved")) /\ IsFiniteSet(HoldsOf(u, "confirmed"))
      /\ HoldsOf(u, "reserved") \in SUBSET Call /\ HoldsOf(u, "confirmed") \in SUBSET Call
      /\ h \notin HoldsOf(u, "confirmed")
      /\ UserOf[h] = u => h \in HoldsOf(u, "reserved")
      /\ MoneyConserved!(u)
  BY <1>2 DEF MoneyInv, FiniteHolds, MoneyConserved, HoldsOf
<1>5. CASE UserOf[h] # u
  <2>1. /\ HoldsOf(u, "reserved")' = HoldsOf(u, "reserved")
        /\ HoldsOf(u, "confirmed")' = HoldsOf(u, "confirmed")
    BY <1>2, <1>3, <1>5, HoldsOfStep
  <2>2. wallet'[u] = wallet[u]
    BY <1>2, <1>3, <1>5, WalletRows DEF SettledWallet
  <2>3. QED
    BY <1>3, <1>4, <2>1, <2>2
<1>6. CASE UserOf[h] = u
  <2>1. HoldsOf(u, "reserved")' = HoldsOf(u, "reserved") \ {h}
    BY <1>2, <1>3, <1>6, HoldsOfStep
  <2>2. /\ IsFiniteSet(HoldsOf(u, "reserved")')
        /\ FenOf(HoldsOf(u, "reserved")') = FenOf(HoldsOf(u, "reserved")) - AmountFen(h)
    BY <1>4, <1>6, <2>1, FenTake
  <2>3. /\ AmountFen(h) \in Nat /\ wallet[u].balance \in Int /\ wallet[u].reserved \in Int
        /\ FenOf(HoldsOf(u, "confirmed")) \in Nat
    BY <1>3, <1>4, WalletAssumption, FenType DEF AmountFen, ConvertGramsToFen
  <2>4. wallet'[u].reserved = wallet[u].reserved - AmountFen(h)
    BY <1>2, <1>3, <1>6, WalletAmounts DEF SettledWallet
  <2>5. wallet'[u].reserved = FenOf(HoldsOf(u, "reserved")')
    BY <1>4, <2>2, <2>4
  <2>6. CASE k = "confirmed"
    <3>1. HoldsOf(u, "confirmed")' = HoldsOf(u, "confirmed") \cup {h}
      BY <1>2, <1>3, <1>6, <2>6, HoldsOfStep
    <3>2. /\ IsFiniteSet(HoldsOf(u, "confirmed")')
          /\ FenOf(HoldsOf(u, "confirmed")') = FenOf(HoldsOf(u, "confirmed")) + AmountFen(h)
      BY <1>4, <3>1, FenAdd
    <3>3. wallet'[u].balance = wallet[u].balance - AmountFen(h)
      BY <1>2, <1>3, <1>6, <2>6, WalletAmounts DEF SettledWallet
    <3>4. wallet'[u].reserved <= wallet'[u].balance
      BY <1>4, <2>3, <2>4, <3>3
    <3>5. deposited'[u] = wallet'[u].balance + FenOf(HoldsOf(u, "confirmed")')
      BY <1>3, <1>4, <2>3, <3>2, <3>3
    <3>6. \A st \in {"reserved", "confirmed"} : IsFiniteSet(HoldsOf(u, st)')
      BY <2>2, <3>2
    <3>7. QED
      BY <2>5, <3>4, <3>5, <3>6
  <2>7. CASE k = "cancelled"
    <3>1. HoldsOf(u, "confirmed")' = HoldsOf(u, "confirmed")
      <4>1. HoldsOf(u, "confirmed") \ {h} = HoldsOf(u, "confirmed")
        BY <1>4
      <4>2. QED
        BY <1>2, <1>3, <1>6, <2>7, <4>1, HoldsOfStep
    <3>2. wallet'[u].balance = wallet[u].balance
      BY <1>2, <1>3, <1>6, <2>7, WalletAmounts DEF SettledWallet
    <3>3. wallet'[u].reserved <= wallet'[u].balance
      BY <1>4, <2>3, <2>4, <3>2
    <3>4. deposited'[u] = wallet'[u].balance + FenOf(HoldsOf(u, "confirmed")')
      BY <1>3, <1>4, <3>1, <3>2
    <3>5. \A st \in {"reserved", "confirmed"} : IsFiniteSet(HoldsOf(u, st)')
      BY <1>4, <2>2, <3>1
    <3>6. QED
      BY <2>5, <3>3, <3>4, <3>5
  <2>8. QED
    BY <2>6, <2>7
<1>7. QED
  BY <1>5, <1>6

(* A top-up adds to the balance what it adds to the deposits. *)
LEMMA MoneyTopUp ==
    ASSUME IInv, MoneyInv, NEW v \in User, PgTopUpWallet(v), NEW u \in User
    PROVE  MoneyConserved!(u)'
<1>1. PICK a \in TopUpFen :
         /\ wallet' = [wallet EXCEPT ![v].balance = @ + a]
         /\ deposited' = [deposited EXCEPT ![v] = @ + a]
  BY DEF PgTopUpWallet
<1>2. /\ wallet \in [User -> [balance : Int, reserved : Int]] /\ deposited \in [User -> Nat]
      /\ a \in Nat /\ UNCHANGED hold
  BY WalletAssumption DEF IInv, PgTypeOK, TypeOK, PgTopUpWallet
<1>3. /\ MoneyConserved!(u)
      /\ IsFiniteSet(HoldsOf(u, "confirmed")) /\ HoldsOf(u, "confirmed") \in SUBSET Call
  BY DEF MoneyInv, MoneyConserved, FiniteHolds, HoldsOf
<1>4. FenOf(HoldsOf(u, "confirmed")) \in Nat
  BY <1>3, FenType
<1>5. \A st : HoldsOf(u, st)' = HoldsOf(u, st)
  BY <1>2 DEF HoldsOf
<1>6. CASE v # u
  <2>1. wallet'[u] = wallet[u] /\ deposited'[u] = deposited[u]
    BY <1>1, <1>2, <1>6
  <2>2. QED
    BY <1>3, <1>5, <2>1
<1>7. CASE v = u
  <2>1. /\ wallet'[u].balance = wallet[u].balance + a /\ wallet'[u].reserved = wallet[u].reserved
        /\ deposited'[u] = deposited[u] + a
    BY <1>1, <1>2, <1>7
  <2>2. wallet[u].balance \in Int /\ wallet[u].reserved \in Int /\ deposited[u] \in Nat
    BY <1>2
  <2>3. deposited'[u] = wallet'[u].balance + FenOf(HoldsOf(u, "confirmed")')
    BY <1>2, <1>3, <1>4, <1>5, <2>1, <2>2
  <2>4. wallet'[u].reserved = FenOf(HoldsOf(u, "reserved")')
    BY <1>3, <1>5, <2>1
  <2>5. wallet'[u].reserved <= wallet'[u].balance
    BY <1>2, <1>3, <2>1, <2>2
  <2>6. QED
    BY <2>3, <2>4, <2>5
<1>8. QED
  BY <1>6, <1>7

(* Every step conserves the money; only commits and top-ups move any. *)
LEMMA MoneyStep == IInv /\ MoneyInv /\ [PgNext]_pgVars => MoneyInv'
<1> SUFFICES ASSUME IInv, MoneyInv, [PgNext]_pgVars
             PROVE  MoneyInv'
  OBVIOUS
<1>1. CASE \E c \in Call : InsertCommit(c)
  <2>1. PICK c \in Call : InsertCommit(c)
    BY <1>1
  <2>2. QED
    BY <2>1, MoneyInsert DEF MoneyInv, FiniteHolds, MoneyConserved
<1>2. CASE \E s \in Settler : SettleCommit(s)
  <2>1. PICK s \in Settler : SettleCommit(s)
    BY <1>2
  <2>2. QED
    BY <2>1, MoneySettle DEF MoneyInv, FiniteHolds, MoneyConserved
<1>3. CASE \E v \in User : PgTopUpWallet(v)
  <2>1. PICK v \in User : PgTopUpWallet(v)
    BY <1>3
  <2>2. MoneyConserved'
    BY <2>1, MoneyTopUp DEF MoneyConserved
  <2>3. FiniteHolds'
    <3>1. \A u, st : HoldsOf(u, st)' = HoldsOf(u, st)
      BY <2>1 DEF HoldsOf, PgTopUpWallet
    <3>2. QED
      BY <3>1 DEF MoneyInv, FiniteHolds
  <2>4. QED
    BY <2>2, <2>3 DEF MoneyInv
<1>4. CASE /\ ~ \E c \in Call : InsertCommit(c)
           /\ ~ \E s \in Settler : SettleCommit(s)
           /\ ~ \E v \in User : PgTopUpWallet(v)
  <2>1. UNCHANGED <<wallet, hold, deposited>>
    BY <1>4 DEF PgNext, pgVars, ReserveStep, LookupHit, LookupMiss, LockInsufficient,
       LockWallet, InsertConflict, ReserveRollback, DeadlockVictim, SettleLoad,
       SettleRollback
  <2>2. \A u, st : HoldsOf(u, st)' = HoldsOf(u, st)
    BY <2>1 DEF HoldsOf
  <2>3. QED
    BY <2>1, <2>2 DEF MoneyInv, FiniteHolds, MoneyConserved
<1>5. QED
  BY <1>1, <1>2, <1>3, <1>4

(* Money is conserved by pgStore, whatever transactions overlap, fail, deadlock or
   are rolled back, for any number of calls, users and settlers: the wallet row
   lock keeps what ReserveHold saw, and the hold row lock what a settlement saw. *)
THEOREM MoneyIsConserved == PgSpec => []MoneyConserved
<1>1. MoneyInv => MoneyConserved
  BY DEF MoneyInv
<1>2. QED
  BY <1>1, MoneyInit, MoneyStep, PgInvariance, PTL DEF PgSpec
-----------------------------------------------------------------------------
(* Refinement *)

(* What a caller was given changes only when a Reserve call returns a hold. *)
LEMMA GivenAnswer ==
    ASSUME IInv, NEW c \in Call, NEW r \in Call \cup {"insufficient", "error"}, Answer(c, r),
           result[c] = "pending"
    PROVE  Given' = IF r \in Call THEN [Given EXCEPT ![c] = r] ELSE Given
BY WalletAssumption DEF IInv, PgTypeOK, TypeOK, Given, Answer

(* The PostgreSQL store implements the memory store: commits are its atomic
   operations, and the statements before them, rollbacks, conflicts and deadlocks
   leave no trace. *)
THEOREM PgImplementsMemory == PgSpec => MemorySpec
<1>1. PgInit => Memory!Init
  BY WalletAssumption DEF PgInit, Init, Memory!Init, Given
<1>2. IInv /\ [PgNext]_pgVars => [Memory!Next]_(Memory!vars)
  <2> SUFFICES ASSUME IInv, [PgNext]_pgVars
               PROVE  Memory!Next \/ UNCHANGED <<wallet, hold, Given>>
    BY DEF Memory!vars
  <2>1. ASSUME NEW c \in Call, LookupHit(c)
        PROVE  Memory!Next
    <3>1. PICK h \in Existing(c) : Answer(c, h)
      BY <2>1 DEF LookupHit
    <3>2. h \in Call /\ result[c] = "pending"
      BY <2>1 DEF Existing, LookupHit, IInv, ReserveInv
    <3>3. Given' = [Given EXCEPT ![c] = h]
      BY <3>1, <3>2, GivenAnswer
    <3>4. Given[c] = "pending" /\ Memory!Existing(c) = Existing(c)
      BY <3>2, WalletAssumption DEF Given, Memory!Existing, Existing
    <3>5. UNCHANGED <<wallet, hold>>
      BY <2>1 DEF LookupHit
    <3>6. Memory!ReserveExisting(c)
      BY <3>1, <3>3, <3>4, <3>5 DEF Memory!ReserveExisting
    <3>7. QED
      BY <3>6 DEF Memory!Next
  <2>2. ASSUME NEW c \in Call, InsertCommit(c)
        PROVE  Memory!Next
    <3>1. Answer(c, c) /\ result[c] = "pending"
      BY <2>2 DEF InsertCommit, IInv, ReserveInv
    <3>2. Given' = [Given EXCEPT ![c] = c]
      BY <3>1, GivenAnswer
    <3>3. Given[c] = "pending"
      BY <3>1, WalletAssumption DEF Given
    <3>4. Memory!Existing(c) = {} /\ Memory!Affordable(c)
      BY <2>2 DEF InsertCommit, Unique, Existing, Memory!Existing, IInv, ReserveInv,
                  Affordable, Memory!Affordable, AmountFen, Memory!AmountFen,
                  ConvertGramsToFen, Memory!ConvertGramsToFen
    <3>5. wallet' = Memory!Reserved(wallet, c)
      BY <2>2 DEF InsertCommit, Reserved, Memory!Reserved, AmountFen, Memory!AmountFen,
                  ConvertGramsToFen, Memory!ConvertGramsToFen
    <3>6. Memory!ReserveHold(c)
      BY <2>2, <3>2, <3>3, <3>4, <3>5 DEF Memory!ReserveHold, InsertCommit
    <3>7. QED
      BY <3>6 DEF Memory!Next
  <2>3. ASSUME NEW s \in Settler, SettleCommit(s)
        PROVE  Memory!Next
    <3> DEFINE h == settle[s].hold
               k == settle[s].kind
    <3>1. h \in Call /\ k \in {"confirmed", "cancelled"} /\ hold[h] = "reserved"
      BY <2>3 DEF SettleCommit, IInv, PgTypeOK, Settlement, HoldLockInv
    <3>2. hold' = [hold EXCEPT ![h] = k] /\ wallet' = SettledWallet(k, h) /\ UNCHANGED result
      BY <2>3 DEF SettleCommit
    <3> HIDE DEF h, k
    <3>3. UNCHANGED Given
      BY <3>2 DEF Given
    <3>4. CASE k = "confirmed"
      <4>1. wallet' = Memory!Confirmed(wallet, h)
        BY <3>2, <3>4 DEF SettledWallet, Confirmed, Memory!Confirmed, AmountFen,
                          Memory!AmountFen, ConvertGramsToFen, Memory!ConvertGramsToFen
      <4>2. Memory!ConfirmHold(h)
        BY <3>1, <3>2, <3>3, <3>4, <4>1 DEF Memory!ConfirmHold
      <4>3. QED
        BY <3>1, <4>2 DEF Memory!Next
    <3>5. CASE k = "cancelled"
      <4>1. wallet' = Memory!Released(wallet, h)
        BY <3>2, <3>5 DEF SettledWallet, Released, Memory!Released, AmountFen,
                          Memory!AmountFen, ConvertGramsToFen, Memory!ConvertGramsToFen
      <4>2. Memory!CancelHold(h)
        BY <3>1, <3>2, <3>3, <3>5, <4>1 DEF Memory!CancelHold
      <4>3. QED
        BY <3>1, <4>2 DEF Memory!Next
    <3>6. QED
      BY <3>1, <3>4, <3>5
  <2>4. ASSUME NEW u \in User, PgTopUpWallet(u)
        PROVE  Memory!Next
    <3>1. UNCHANGED <<hold, Given>>
      BY <2>4 DEF PgTopUpWallet, Given
    <3>2. Memory!TopUpWallet(u)
      BY <2>4, <3>1 DEF PgTopUpWallet, Memory!TopUpWallet
    <3>3. QED
      BY <3>2 DEF Memory!Next
  <2>5. ASSUME NEW c \in Call, NEW r \in {"insufficient", "error"}, Answer(c, r),
               reserve[c] # "done", UNCHANGED <<wallet, hold>>
        PROVE  UNCHANGED <<wallet, hold, Given>>
    <3>1. r \notin Call /\ result[c] = "pending"
      BY <2>5, WalletAssumption DEF IInv, ReserveInv
    <3>2. QED
      BY <2>5, <3>1, GivenAnswer
  <2>6. ASSUME NEW c \in Call, LockInsufficient(c) \/ InsertConflict(c) \/ ReserveRollback(c)
        PROVE  UNCHANGED <<wallet, hold, Given>>
    <3>1. \E r \in {"insufficient", "error"} : Answer(c, r)
      BY <2>6 DEF LockInsufficient, InsertConflict, ReserveRollback
    <3>2. reserve[c] # "done" /\ UNCHANGED <<wallet, hold>>
      BY <2>6 DEF LockInsufficient, InsertConflict, ReserveRollback
    <3>3. QED
      BY <2>5, <3>1, <3>2
  <2>7. ASSUME NEW c \in Call, NEW s \in Settler, DeadlockVictim(c, s)
        PROVE  UNCHANGED <<wallet, hold, Given>>
    <3>1. CASE Answer(c, "error")
      BY <2>5, <2>7, <3>1 DEF DeadlockVictim
    <3>2. CASE UNCHANGED <<reserve, result>>
      BY <2>7, <3>2 DEF DeadlockVictim, Given
    <3>3. QED
      BY <2>7, <3>1, <3>2 DEF DeadlockVictim
  <2>8. ASSUME NEW c \in Call, LookupMiss(c) \/ LockWallet(c)
        PROVE  UNCHANGED <<wallet, hold, Given>>
    BY <2>8 DEF LookupMiss, LockWallet, Given
  <2>9. ASSUME NEW s \in Settler, SettleLoad(s) \/ SettleRollback(s)
        PROVE  UNCHANGED <<wallet, hold, Given>>
    BY <2>9 DEF SettleLoad, SettleRollback, Given
  <2>10. CASE UNCHANGED pgVars
    BY <2>10 DEF pgVars, Given
  <2>11. QED
    BY <2>1, <2>2, <2>3, <2>4, <2>6, <2>7, <2>8, <2>9, <2>10 DEF PgNext, ReserveStep
<1>3. QED
  BY <1>1, <1>2, PgInvariance, PTL DEF PgSpec, MemorySpec, Memory!Spec

-----------------------------------------------------------------------------
(* Admission *)

(* The grams of a set of requests, as a count of coins *)
Weight(fs) == [i \in DOMAIN fs |-> fs[i].amount]
GramsOf(fs, S) == Cardinality(Coins(Weight(fs), S))

(* TotalOf is a solution of the fold's equation. *)
LEMMA TotalEq ==
    ASSUME NEW S \in SUBSET DOMAIN feeds, NEW h, Folds(Weight(feeds), S, h)
    PROVE  \E g : Folds(Weight(feeds), S, g) /\ TotalOf(S) = g[S]
<1>1. \A s \in SUBSET S : s # {} => Weight(feeds)[Pick(s)] = feeds[Pick(s)].amount
  BY DEF Pick, Weight
<1>2. h = [s \in SUBSET S |-> IF s = {} THEN 0 ELSE feeds[Pick(s)].amount + h[s \ {Pick(s)}]]
  BY <1>1 DEF Folds
<1>3. PICK g : /\ g = [s \in SUBSET S |->
                        IF s = {} THEN 0 ELSE feeds[Pick(s)].amount + g[s \ {Pick(s)}]]
               /\ TotalOf(S) = g[S]
  BY <1>2 DEF TotalOf, MapThenSumSet, MapThenFoldSet, Pick
<1>4. Folds(Weight(feeds), S, g)
  BY <1>1, <1>3 DEF Folds
<1>5. QED
  BY <1>3, <1>4

(* So TotalOf is the count. *)
LEMMA TotalIsCount ==
    ASSUME NEW S \in SUBSET DOMAIN feeds, IsFiniteSet(S), \A i \in S : feeds[i].amount \in Nat
    PROVE  TotalOf(S) = GramsOf(feeds, S)
<1>1. \A y \in S : Weight(feeds)[y] \in Nat
  BY DEF Weight
<1>2. \E h : Folds(Weight(feeds), S, h)
  BY <1>1, CountFolds
<1>3. PICK g : Folds(Weight(feeds), S, g) /\ TotalOf(S) = g[S]
  BY <1>2, TotalEq
<1>4. QED
  BY <1>1, <1>3, FoldCounts DEF GramsOf

(* A count is a number and grows with the set; it looks only at the requests of
   the set; one request more adds its grams. *)
LEMMA GramsType ==
    ASSUME NEW fs, NEW S \in SUBSET DOMAIN fs, IsFiniteSet(S), \A i \in S : fs[i].amount \in Nat
    PROVE  GramsOf(fs, S) \in Nat /\ IsFiniteSet(Coins(Weight(fs), S))
<1>1. \A y \in S : Weight(fs)[y] \in Nat
  BY DEF Weight
<1>2. IsFiniteSet(Coins(Weight(fs), S))
  BY <1>1, CoinsFinite
<1>3. QED
  BY <1>2, FS_CardinalityType DEF GramsOf

(* A part of a set of requests has no more grams than the set. *)
LEMMA GramsMono ==
    ASSUME NEW fs, NEW S \in SUBSET DOMAIN fs, IsFiniteSet(S), \A i \in S : fs[i].amount \in Nat,
           NEW T \in SUBSET S
    PROVE  GramsOf(fs, T) <= GramsOf(fs, S) /\ GramsOf(fs, T) \in Nat /\ GramsOf(fs, S) \in Nat
<1>1. IsFiniteSet(T)
  BY FS_Subset
<1>2. GramsOf(fs, T) \in Nat /\ GramsOf(fs, S) \in Nat /\ IsFiniteSet(Coins(Weight(fs), S))
  BY <1>1, GramsType
<1>3. Coins(Weight(fs), T) \subseteq Coins(Weight(fs), S)
  BY DEF Coins
<1>4. Cardinality(Coins(Weight(fs), T)) <= Cardinality(Coins(Weight(fs), S))
  BY <1>2, <1>3, FS_Subset
<1>5. QED
  BY <1>2, <1>4 DEF GramsOf

(* The count looks only at the amounts of the set's requests. *)
LEMMA GramsSame ==
    ASSUME NEW fs, NEW gs, NEW S, S \subseteq DOMAIN fs, S \subseteq DOMAIN gs,
           \A i \in S : fs[i].amount = gs[i].amount
    PROVE  GramsOf(fs, S) = GramsOf(gs, S)
<1>1. \A i \in S : Pile(Weight(fs), i) = Pile(Weight(gs), i)
  BY DEF Pile, Weight
<1>2. Coins(Weight(fs), S) = Coins(Weight(gs), S)
  BY <1>1 DEF Coins
<1>3. QED
  BY <1>2 DEF GramsOf

(* One request more adds its grams. *)
LEMMA GramsAdd ==
    ASSUME NEW fs, NEW S \in SUBSET DOMAIN fs, IsFiniteSet(S), NEW i \in DOMAIN fs, i \notin S,
           \A j \in S \cup {i} : fs[j].amount \in Nat
    PROVE  GramsOf(fs, S \cup {i}) = GramsOf(fs, S) + fs[i].amount
<1>1. \A y \in S \cup {i} : Weight(fs)[y] \in Nat
  BY DEF Weight
<1>2. Cardinality(Coins(Weight(fs), S \cup {i})) = Cardinality(Coins(Weight(fs), S)) + Weight(fs)[i]
  BY <1>1, CoinsAdd
<1>3. QED
  BY <1>2 DEF GramsOf, Weight

(* No requests, no grams. *)
LEMMA GramsNone ==
    ASSUME NEW fs
    PROVE  GramsOf(fs, {}) = 0
  BY CoinsEmpty DEF GramsOf

(* Where a request of feeding-svc and one of admin-svc can be *)
Before == {"global", "room", "check"}
Passed == {"consume", "readUser", "readDaily", "setRoom", "setUser", "addDaily",
           "reserve", "accepted"}
Unpaid == Before \cup (Passed \ {"reserve", "accepted"})
FeedPcs == Unpaid \cup {"reserve"} \cup Ended
OpPcs == {"lock", "put", "invalidate", "failed", "get", "store", "done", "lost"}

(* A row that may not be there, a cached row, and limits that are all set *)
MaybeRow == Limits \cup {None}
Entry == [limits : MaybeRow, expires : Nat]
SetLimits == [room : Nat \ {0}, user : Nat \ {0}, daily : 1 .. Modulus - 1]

Feed == [user : Users, room : Rooms, amount : Amounts, pc : FeedPcs, at : Nat,
         row : Entry \cup {None}, global : MaybeRow, limits : SetLimits \cup {None},
         before : SUBSET Nat, epoch : Nat]
Op == [scope : Scopes, limits : MaybeRow \cup Entry, pc : OpPcs]

FeedType ==
    /\ now \in Nat /\ restarts \in Nat
    /\ feeds \in Seq(Feed)
    /\ \A i \in DOMAIN feeds :
          feeds[i].pc \in Passed \cup {"check"} => feeds[i].limits \in SetLimits
    /\ \A k \in DOMAIN kv : kv[k].val \in Nat /\ kv[k].expire \in Nat

AdminType ==
    /\ rows \in [Scopes -> MaybeRow]
    /\ policies \in [Rooms -> MaybeRow]
    /\ cache \in [Services -> [Scopes -> Entry]]
    /\ ops \in Seq(Op)
    /\ wrote \in [Rooms -> Nat]

AdmType == FeedType /\ AdminType

(* What a step of admin-svc has in its hands *)
OpInv ==
    \A o \in DOMAIN ops :
        /\ ops[o].pc \in {"lock", "put", "invalidate", "failed"} => ops[o].limits \in MaybeRow
        /\ ops[o].pc = "store" => ops[o].limits \in Entry
        /\ ops[o].pc \in {"get", "store"} => ops[o].scope = Global
        /\ ops[o].pc = "lock" => ops[o].scope \in Rooms

(* The policy of room r is from operation w of os and is its row, unless the
   operation failed or is between its two writes, with the mutex l *)
Agrees(r, w, os, l, ps, rs) ==
    w # 0 => /\ w \in DOMAIN os /\ os[w].scope = r
             /\ \/ ps[r] = rs[r]
                \/ os[w].pc = "failed"
                \/ l = w /\ os[w].pc = "put"

(* The mutex of AdminService is held by the one request that writes a room's
   policy, and memory and table differ only between its two writes *)
PolicyInv ==
    /\ lock # 0 => /\ lock \in DOMAIN ops
                   /\ ops[lock].scope \in Rooms
                   /\ ops[lock].pc \in {"put", "invalidate"}
                   /\ ops[lock].pc = "put" => policies[ops[lock].scope] = ops[lock].limits
    /\ \A o \in DOMAIN ops :
          ops[o].scope \in Rooms /\ ops[o].pc \in {"put", "invalidate"} => lock = o
    /\ \A r \in Rooms : Agrees(r, wrote[r], ops, lock, policies, rows)

(* An entry that was read from its row when its time began, in a history h that
   goes up to n *)
WasRow(e, s, n, h) ==
    \/ e.expires = 0
    \/ \E t \in 0 .. n : t + PolicyTTL >= e.expires /\ <<t, s, e.limits>> \in h

CacheInv == \A p \in Services, s \in Scopes : WasRow(cache[p][s], s, now, was)
FetchInv ==
    \A i \in DOMAIN feeds : feeds[i].pc \in {"global", "room"} /\ feeds[i].row # None =>
        WasRow(feeds[i].row, ScopeAt(i), now, was)
GetInv ==
    \A o \in DOMAIN ops : ops[o].pc = "store" => WasRow(ops[o].limits, ops[o].scope, now, was)
RecentInv ==
    /\ \A s \in Scopes : <<now, s, rows[s]>> \in was
    /\ CacheInv /\ FetchInv /\ GetInv


(* Limits that are resolved are all set, whatever rows there are. *)
LEMMA MergeSets ==
    ASSUME NEW b \in SetLimits, NEW l \in Limits
    PROVE  Merge(b, l) \in SetLimits
<1>1. DOMAIN b = {"room", "user", "daily"}
  BY DEF SetLimits
<1>2. Modulus \in Nat
  BY PolicyAssumption
<1>3. QED
  BY <1>1, <1>2 DEF Merge, SetLimits, Limits

(* Resolve of any two rows yields limits that are all set. *)
LEMMA ResolveSets ==
    ASSUME NEW g \in MaybeRow, NEW r \in MaybeRow
    PROVE  Resolve(g, r) \in SetLimits
<1>1. Modulus \in Nat \ {0} /\ None \notin Limits
  BY PolicyAssumption
<1>2. DefaultGlobal \in SetLimits
  <2>1. DefaultGlobal \in Limits /\ \A f \in DOMAIN DefaultGlobal : DefaultGlobal[f] > 0
    BY PolicyAssumption
  <2>2. DOMAIN DefaultGlobal = {"room", "user", "daily"}
    BY <2>1 DEF Limits
  <2>3. DefaultGlobal.room > 0 /\ DefaultGlobal.user > 0 /\ DefaultGlobal.daily > 0
    BY <2>1, <2>2
  <2>4. QED
    BY <1>1, <2>1, <2>3 DEF Limits, SetLimits
<1>3. Env \in Limits
  <2>1. RawEnv \in [room : Int, user : Int, daily : Int]
    BY PolicyAssumption
  <2>2. DOMAIN RawEnv = {"room", "user", "daily"}
    BY <2>1
  <2>3. \A n \in Int : n % Modulus \in 0 .. Modulus - 1
    BY <1>1
  <2>4. QED
    BY <1>1, <2>1, <2>2, <2>3 DEF Env, Limits
<1>4. Merge(DefaultGlobal, Env) \in SetLimits
  BY <1>2, <1>3, MergeSets
<1>5. MergeRow(Merge(DefaultGlobal, Env), g) \in SetLimits
  BY <1>4, MergeSets DEF MergeRow, MaybeRow
<1>6. QED
  BY <1>5, MergeSets DEF Resolve, MergeRow, MaybeRow

(* The requests in their order *)
OrderInv ==
    \A i \in DOMAIN feeds :
        /\ feeds[i].at <= now /\ feeds[i].epoch <= restarts
        /\ feeds[i].pc \notin Ended => feeds[i].epoch = restarts
        /\ \A j \in feeds[i].before : j \in DOMAIN feeds /\ j < i /\ feeds[j].pc \in Ended
        /\ feeds[i].pc \in Passed \cup {"check"} =>
              \A j \in feeds[i].before : feeds[j].at <= feeds[i].at

(* The store of the request is the one in use *)
Live(f) == backend = "redis" \/ f.epoch = restarts

RoomEnd(f) == f.at + f.limits.room
UserEnd(f) == f.at + f.limits.user

(* Who looks at the key of store m before e is refused; n is the time *)
Guarded(k, e, n, m) == n >= e \/ (k \in DOMAIN m /\ m[k].val >= e /\ m[k].expire >= e)

(* What a feed that ran alone wrote is in force, and who came later saw it *)
GuardInv ==
    \A j \in DOMAIN feeds : Alone(j) /\ Live(feeds[j]) =>
        /\ feeds[j].pc \in {"setUser", "addDaily", "reserve", "accepted"} =>
              Guarded(RoomKey(feeds[j]), RoomEnd(feeds[j]), now, kv)
        /\ feeds[j].pc \in {"addDaily", "reserve", "accepted"} =>
              Guarded(UserKey(feeds[j]), UserEnd(feeds[j]), now, kv)
LaterInv ==
    \A i \in DOMAIN feeds : \A j \in feeds[i].before :
        (/\ feeds[i].pc \in Passed /\ feeds[j].pc = "accepted" /\ Alone(j)
         /\ SameLife(feeds[i], feeds[j]) /\ feeds[i].room = feeds[j].room)
        => /\ feeds[i].at >= RoomEnd(feeds[j])
           /\ feeds[i].user = feeds[j].user => feeds[i].at >= UserEnd(feeds[j])

(* The counter of a cat and a day: it outlives the day, holds at least the grams
   of today's feeds, and no more than those of the requests that are past it *)
DayKey(r, d) == <<"cat", Cat[r], d>>
ValIn(m, k) == IF k \in DOMAIN m THEN m[k].val ELSE 0
TakenIn(fs, b, n, k) ==
    {j \in DOMAIN fs : /\ Consumed(fs[j]) /\ (b = "redis" \/ fs[j].epoch = n)
                       /\ CatKey(fs[j]) = k}
SpentIn(fs) == {j \in DOMAIN fs : fs[j].pc \notin Unpaid}

OutlivesInv ==
    \A k \in DOMAIN kv : k[1] = "cat" =>
        kv[k].expire = 0 \/ kv[k].expire >= (k[3] + 1) * DayLength
LeastInv ==
    \A r \in Rooms :
        GramsOf(feeds, TakenIn(feeds, backend, restarts, DayKey(r, Day(now))))
            <= ValIn(kv, DayKey(r, Day(now)))
MostInv == \A k \in DOMAIN kv : k[1] = "cat" => kv[k].val <= GramsOf(feeds, SpentIn(feeds))

(* The feeds that were over when i arrived and that its daily limit counts *)
FedIn(fs, b, i) ==
    {j \in fs[i].before : /\ Consumed(fs[j]) /\ (b = "redis" \/ fs[i].epoch = fs[j].epoch)
                          /\ CatKey(fs[j]) = CatKey(fs[i])}
DailyInv ==
    GramsOf(feeds, DOMAIN feeds) < Modulus => \A i \in DOMAIN feeds :
        /\ feeds[i].pc \in Passed =>
              \/ FedIn(feeds, backend, i) = {}
              \/ GramsOf(feeds, FedIn(feeds, backend, i)) + feeds[i].amount
                    <= feeds[i].limits.daily
        /\ feeds[i].pc \in {"setRoom", "setUser", "addDaily", "reserve", "accepted"} =>
              feeds[i].amount <= feeds[i].limits.daily

(* One request moves on; who asked, for what, and who was there before stay *)
OneMoves(i) ==
    /\ i \in DOMAIN feeds /\ feeds[i].pc \notin Ended
    /\ feeds' \in Seq(Feed) /\ DOMAIN feeds' = DOMAIN feeds
    /\ \A j \in DOMAIN feeds : j # i => feeds'[j] = feeds[j]
    /\ feeds'[i].user = feeds[i].user /\ feeds'[i].room = feeds[i].room
    /\ feeds'[i].amount = feeds[i].amount /\ feeds'[i].before = feeds[i].before
    /\ feeds'[i].epoch = feeds[i].epoch
    /\ UNCHANGED <<now, backend, restarts>>

Stays(i) == feeds'[i].at = feeds[i].at /\ feeds'[i].limits = feeds[i].limits

(* What the store and the request's own fields do in each of its steps *)
Walks(i) ==
    /\ Stays(i) /\ UNCHANGED kv
    /\ \/ feeds[i].pc \in {"global", "room"} /\ feeds'[i].pc \in {"global", "room"}
       \/ feeds[i].pc = "consume" /\ feeds'[i].pc = "readUser"
       \/ feeds[i].pc = "readUser" /\ feeds'[i].pc = "readDaily"
       \/ feeds[i].pc = "reserve" /\ feeds'[i].pc = "accepted"
Ends(i) ==
    /\ feeds'[i].at \in {feeds[i].at, now} /\ UNCHANGED kv
    /\ feeds'[i].pc \in {"rejected", "error"}
Resolves(i) ==
    /\ feeds[i].pc = "room" /\ feeds'[i].pc = "check" /\ feeds'[i].at = now
    /\ feeds'[i].limits \in SetLimits /\ UNCHANGED kv
Checks(i) ==
    /\ feeds[i].pc = "check" /\ feeds'[i].pc = "consume" /\ feeds'[i].at = now
    /\ feeds'[i].limits = feeds[i].limits /\ UNCHANGED kv
    /\ ~CheckBlocks(feeds[i])
ReadsDaily(i) ==
    /\ feeds[i].pc = "readDaily" /\ feeds'[i].pc = "setRoom" /\ Stays(i) /\ UNCHANGED kv
    /\ ~OverDaily(feeds[i].limits, Val(CatKey(feeds[i])), feeds[i].amount)
WritesRoom(i) ==
    /\ feeds[i].pc = "setRoom" /\ feeds'[i].pc = "setUser" /\ Stays(i)
    /\ Set(RoomKey(feeds[i]), feeds[i].at + feeds[i].limits.room, feeds[i].limits.room + 1)
WritesUser(i) ==
    /\ feeds[i].pc = "setUser" /\ feeds'[i].pc = "addDaily" /\ Stays(i)
    /\ Set(UserKey(feeds[i]), feeds[i].at + feeds[i].limits.user, feeds[i].limits.user + 1)
WritesDaily(i) ==
    /\ feeds[i].pc = "addDaily" /\ feeds'[i].pc = "reserve" /\ Stays(i)
    /\ LET end == Midnight(feeds[i].at)
       IN IncrBy(CatKey(feeds[i]), feeds[i].amount, IF end > now THEN end - now ELSE 0)

FeedMoves(i) ==
    /\ OneMoves(i)
    /\ \/ Walks(i) \/ Ends(i) \/ Resolves(i) \/ Checks(i) \/ ReadsDaily(i)
       \/ WritesRoom(i) \/ WritesUser(i) \/ WritesDaily(i)

(* The steps of a request that is in Create *)
FeedStep(i) ==
    \/ ResolveHit(i) \/ ResolveQuery(i) \/ ResolveStore(i) \/ Check(i)
    \/ ReadRoom(i) \/ ReadUser(i) \/ ReadDaily(i)
    \/ SetRoom(i) \/ SetUser(i) \/ AddDaily(i)
    \/ Reserve(i) \/ DependencyFails(i)

(* A sequence of requests whose pc field, or some more fields, are written. *)
LEMMA PcWritten ==
    ASSUME feeds \in Seq(Feed), NEW i \in DOMAIN feeds, NEW p \in FeedPcs,
           feeds' = [feeds EXCEPT ![i].pc = p], feeds[i].pc \notin Ended,
           UNCHANGED <<now, backend, restarts>>
    PROVE  OneMoves(i) /\ feeds'[i].pc = p /\ Stays(i)
<1>1. feeds[i] \in Feed /\ DOMAIN feeds = 1 .. Len(feeds) /\ Len(feeds) \in Nat
  OBVIOUS
<1>2. feeds' = [feeds EXCEPT ![i] = [feeds[i] EXCEPT !.pc = p]]
  OBVIOUS
<1>3. [feeds[i] EXCEPT !.pc = p] \in Feed
  BY <1>1 DEF Feed
<1>4. feeds' \in Seq(Feed)
  BY <1>1, <1>2, <1>3
<1>5. DOMAIN feeds' = DOMAIN feeds /\ feeds'[i] = [feeds[i] EXCEPT !.pc = p]
  BY <1>2
<1>6. \A j \in DOMAIN feeds : j # i => feeds'[j] = feeds[j]
  BY <1>2
<1>7. QED
  BY <1>1, <1>4, <1>5, <1>6 DEF OneMoves, Stays, Feed

(* A Get's answer is kept: Walks for the global row, Resolves for the room's. *)
LEMMA GotMoves ==
    ASSUME AdmType, NEW i \in DOMAIN feeds, NEW row \in MaybeRow,
           feeds[i].pc \in {"global", "room"}, Got(i, feeds[i].pc, row),
           UNCHANGED <<now, backend, restarts, kv>>
    PROVE  FeedMoves(i)
<1>1. /\ feeds \in Seq(Feed) /\ feeds[i] \in Feed /\ DOMAIN feeds = 1 .. Len(feeds)
      /\ Len(feeds) \in Nat /\ now \in Nat
  BY DEF AdmType, FeedType, AdminType
<1>2. feeds[i].pc \notin Ended
  BY DEF Ended
<1>3. CASE feeds[i].pc = "global"
  <2> DEFINE f == [feeds[i] EXCEPT !.pc = "room", !.row = None, !.global = row]
  <2>1. feeds' = [feeds EXCEPT ![i] = f]
    BY <1>3 DEF Got
  <2>2. f \in Feed
    BY <1>1 DEF Feed, FeedPcs, Unpaid, Before
  <2>3. f.pc = "room" /\ f.at = feeds[i].at /\ f.limits = feeds[i].limits
    BY <1>1 DEF Feed
  <2>4. /\ f.user = feeds[i].user /\ f.room = feeds[i].room /\ f.amount = feeds[i].amount
        /\ f.before = feeds[i].before /\ f.epoch = feeds[i].epoch
    BY <1>1 DEF Feed
  <2> HIDE DEF f
  <2>5. feeds' \in Seq(Feed)
    BY <1>1, <2>1, <2>2
  <2>6. DOMAIN feeds' = DOMAIN feeds /\ feeds'[i] = f
    BY <2>1
  <2>7. \A j \in DOMAIN feeds : j # i => feeds'[j] = feeds[j]
    BY <2>1
  <2>8. OneMoves(i)
    BY <1>2, <2>4, <2>5, <2>6, <2>7 DEF OneMoves
  <2>9. Walks(i)
    BY <1>3, <2>3, <2>6 DEF Walks, Stays
  <2>10. QED
    BY <2>8, <2>9 DEF FeedMoves
<1>4. CASE feeds[i].pc = "room"
  <2>0. PICK l \in SetLimits : l = Resolve(feeds[i].global, row)
    <3>1. feeds[i].global \in MaybeRow
      BY <1>1 DEF Feed
    <3>2. QED
      BY <3>1, ResolveSets
  <2> DEFINE f == [feeds[i] EXCEPT !.pc = "check", !.row = None, !.global = None,
                                   !.at = now, !.limits = l]
  <2>1. feeds' = [feeds EXCEPT ![i] = f]
    BY <1>4, <2>0 DEF Got
  <2>2. f \in Feed
    BY <1>1 DEF Feed, FeedPcs, Unpaid, Before, MaybeRow
  <2>3. f.pc = "check" /\ f.at = now /\ f.limits = l
    BY <1>1 DEF Feed
  <2>4. /\ f.user = feeds[i].user /\ f.room = feeds[i].room /\ f.amount = feeds[i].amount
        /\ f.before = feeds[i].before /\ f.epoch = feeds[i].epoch
    BY <1>1 DEF Feed
  <2> HIDE DEF f
  <2>5. feeds' \in Seq(Feed)
    BY <1>1, <2>1, <2>2
  <2>6. DOMAIN feeds' = DOMAIN feeds /\ feeds'[i] = f
    BY <2>1
  <2>7. \A j \in DOMAIN feeds : j # i => feeds'[j] = feeds[j]
    BY <2>1
  <2>8. OneMoves(i)
    BY <1>2, <2>4, <2>5, <2>6, <2>7 DEF OneMoves
  <2>9. Resolves(i)
    BY <1>4, <2>3, <2>6 DEF Resolves
  <2>10. QED
    BY <2>8, <2>9 DEF FeedMoves
<1>5. QED
  BY <1>3, <1>4

(* A step of a request is one of the kinds above. *)
LEMMA FeedStepMoves ==
    ASSUME AdmType, NEW i \in DOMAIN feeds, FeedStep(i)
    PROVE  FeedMoves(i)
<1>1. /\ feeds \in Seq(Feed) /\ feeds[i] \in Feed /\ DOMAIN feeds = 1 .. Len(feeds)
      /\ Len(feeds) \in Nat /\ now \in Nat
  BY DEF AdmType, FeedType, AdminType
<1>2. ScopeAt(i) \in Scopes
  BY <1>1, PolicyAssumption DEF ScopeAt, Feed, Rooms
<1>3. CASE ResolveHit(i)
  <2>1. cache["feeding"][ScopeAt(i)].limits \in MaybeRow
    BY <1>2 DEF AdmType, FeedType, AdminType, Services, Entry
  <2>2. QED
    BY <1>3, <2>1, GotMoves DEF ResolveHit, At, onlyFeeds, budget
<1>4. CASE ResolveQuery(i)
  <2>1. PICK e : e = Cached(rows[ScopeAt(i)])
    OBVIOUS
  <2>2. e \in Entry
    BY <1>1, <1>2, <2>1, AdmissionAssumption DEF Cached, Entry, AdmType, AdminType
  <2> DEFINE f == [feeds[i] EXCEPT !.row = e]
  <2>3. feeds' = [feeds EXCEPT ![i] = f]
    BY <1>4, <2>1 DEF ResolveQuery
  <2>4. f \in Feed
    BY <1>1, <2>2 DEF Feed
  <2>5. /\ f.pc = feeds[i].pc /\ f.at = feeds[i].at /\ f.limits = feeds[i].limits
        /\ f.user = feeds[i].user /\ f.room = feeds[i].room /\ f.amount = feeds[i].amount
        /\ f.before = feeds[i].before /\ f.epoch = feeds[i].epoch
    BY <1>1 DEF Feed
  <2> HIDE DEF f
  <2>6. feeds' \in Seq(Feed)
    BY <1>1, <2>3, <2>4
  <2>7. DOMAIN feeds' = DOMAIN feeds /\ feeds'[i] = f
    BY <2>3
  <2>8. \A j \in DOMAIN feeds : j # i => feeds'[j] = feeds[j]
    BY <2>3
  <2>9. feeds[i].pc \in {"global", "room"} /\ UNCHANGED <<now, backend, restarts, kv>>
    BY <1>4 DEF ResolveQuery, At, onlyFeeds, budget
  <2>10. OneMoves(i)
    BY <2>5, <2>6, <2>7, <2>8, <2>9 DEF OneMoves, Ended
  <2>11. Walks(i)
    BY <2>5, <2>7, <2>9 DEF Walks, Stays
  <2>12. QED
    BY <2>10, <2>11 DEF FeedMoves
<1>5. CASE ResolveStore(i)
  <2>1. feeds[i].row \in Entry
    BY <1>1, <1>5 DEF ResolveStore, Feed
  <2>2. feeds[i].row.limits \in MaybeRow
    BY <2>1 DEF Entry
  <2>3. QED
    BY <1>5, <2>2, GotMoves DEF ResolveStore, At, store, budget
<1>6. CASE Check(i)
  <2>1. PICK p \in {"rejected", "consume"} :
           p = IF CheckBlocks(feeds[i]) THEN "rejected" ELSE "consume"
    OBVIOUS
  <2> DEFINE f == [feeds[i] EXCEPT !.pc = p, !.at = now]
  <2>3. feeds' = [feeds EXCEPT ![i] = f]
    BY <1>6, <2>1 DEF Check
  <2>4. f \in Feed
    BY <1>1, <2>1 DEF Feed, FeedPcs, Unpaid, Passed, Ended
  <2>5. /\ f.pc = p /\ f.at = now /\ f.limits = feeds[i].limits
        /\ f.user = feeds[i].user /\ f.room = feeds[i].room /\ f.amount = feeds[i].amount
        /\ f.before = feeds[i].before /\ f.epoch = feeds[i].epoch
    BY <1>1 DEF Feed
  <2> HIDE DEF f
  <2>6. feeds' \in Seq(Feed)
    BY <1>1, <2>3, <2>4
  <2>7. DOMAIN feeds' = DOMAIN feeds /\ feeds'[i] = f
    BY <2>3
  <2>8. \A j \in DOMAIN feeds : j # i => feeds'[j] = feeds[j]
    BY <2>3
  <2>9. feeds[i].pc = "check" /\ UNCHANGED <<now, backend, restarts, kv>>
    BY <1>6 DEF Check, At, onlyFeeds, budget
  <2>10. OneMoves(i)
    BY <2>5, <2>6, <2>7, <2>8, <2>9 DEF OneMoves, Ended
  <2>11. Checks(i) \/ Ends(i)
    BY <2>1, <2>5, <2>7, <2>9 DEF Checks, Ends
  <2>12. QED
    BY <2>10, <2>11 DEF FeedMoves
<1>7. CASE ReadRoom(i)
  <2>1. PICK p \in {"rejected", "readUser"} : feeds' = [feeds EXCEPT ![i].pc = p]
    BY <1>7 DEF ReadRoom, Read, To
  <2>2. feeds[i].pc = "consume" /\ UNCHANGED <<now, backend, restarts, kv>>
    BY <1>7 DEF ReadRoom, Read, At, onlyFeeds, budget
  <2>3. OneMoves(i) /\ feeds'[i].pc = p /\ Stays(i)
    BY <1>1, <2>1, <2>2, PcWritten DEF FeedPcs, Unpaid, Passed, Ended
  <2>4. QED
    BY <2>1, <2>2, <2>3 DEF FeedMoves, Walks, Ends, Stays
<1>8. CASE ReadUser(i)
  <2>1. PICK p \in {"rejected", "readDaily"} : feeds' = [feeds EXCEPT ![i].pc = p]
    BY <1>8 DEF ReadUser, Read, To
  <2>2. feeds[i].pc = "readUser" /\ UNCHANGED <<now, backend, restarts, kv>>
    BY <1>8 DEF ReadUser, Read, At, onlyFeeds, budget
  <2>3. OneMoves(i) /\ feeds'[i].pc = p /\ Stays(i)
    BY <1>1, <2>1, <2>2, PcWritten DEF FeedPcs, Unpaid, Passed, Ended
  <2>4. QED
    BY <2>1, <2>2, <2>3 DEF FeedMoves, Walks, Ends, Stays
<1>9. CASE ReadDaily(i)
  <2>1. PICK p \in {"rejected", "setRoom"} :
           /\ feeds' = [feeds EXCEPT ![i].pc = p]
           /\ p = "setRoom" =>
                 ~OverDaily(feeds[i].limits, Val(CatKey(feeds[i])), feeds[i].amount)
    BY <1>9 DEF ReadDaily, Read, To
  <2>2. feeds[i].pc = "readDaily" /\ UNCHANGED <<now, backend, restarts, kv>>
    BY <1>9 DEF ReadDaily, Read, At, onlyFeeds, budget
  <2>3. OneMoves(i) /\ feeds'[i].pc = p /\ Stays(i)
    BY <1>1, <2>1, <2>2, PcWritten DEF FeedPcs, Unpaid, Passed, Ended
  <2>4. QED
    BY <2>1, <2>2, <2>3 DEF FeedMoves, ReadsDaily, Ends, Stays
<1>10. CASE SetRoom(i)
  <2>1. feeds' = [feeds EXCEPT ![i].pc = "setUser"]
    BY <1>10 DEF SetRoom, To
  <2>2. feeds[i].pc = "setRoom" /\ UNCHANGED <<now, backend, restarts>>
    BY <1>10 DEF SetRoom, At, onlyFeeds, budget
  <2>3. OneMoves(i) /\ feeds'[i].pc = "setUser" /\ Stays(i)
    BY <1>1, <2>1, <2>2, PcWritten DEF FeedPcs, Unpaid, Passed, Ended
  <2>4. QED
    BY <1>10, <2>2, <2>3 DEF FeedMoves, WritesRoom, SetRoom
<1>11. CASE SetUser(i)
  <2>1. feeds' = [feeds EXCEPT ![i].pc = "addDaily"]
    BY <1>11 DEF SetUser, To
  <2>2. feeds[i].pc = "setUser" /\ UNCHANGED <<now, backend, restarts>>
    BY <1>11 DEF SetUser, At, onlyFeeds, budget
  <2>3. OneMoves(i) /\ feeds'[i].pc = "addDaily" /\ Stays(i)
    BY <1>1, <2>1, <2>2, PcWritten DEF FeedPcs, Unpaid, Passed, Ended
  <2>4. QED
    BY <1>11, <2>2, <2>3 DEF FeedMoves, WritesUser, SetUser
<1>12. CASE AddDaily(i)
  <2>1. feeds' = [feeds EXCEPT ![i].pc = "reserve"]
    BY <1>12 DEF AddDaily, To
  <2>2. feeds[i].pc = "addDaily" /\ UNCHANGED <<now, backend, restarts>>
    BY <1>12 DEF AddDaily, At, onlyFeeds, budget
  <2>3. OneMoves(i) /\ feeds'[i].pc = "reserve" /\ Stays(i)
    BY <1>1, <2>1, <2>2, PcWritten DEF FeedPcs, Unpaid, Passed, Ended
  <2>4. QED
    BY <1>12, <2>2, <2>3 DEF FeedMoves, WritesDaily, AddDaily
<1>13. CASE Reserve(i)
  <2>1. PICK p \in {"accepted", "rejected"} : feeds' = [feeds EXCEPT ![i].pc = p]
    BY <1>13 DEF Reserve, To
  <2>2. feeds[i].pc = "reserve" /\ UNCHANGED <<now, backend, restarts, kv>>
    BY <1>13 DEF Reserve, At, onlyFeeds, budget
  <2>3. OneMoves(i) /\ feeds'[i].pc = p /\ Stays(i)
    BY <1>1, <2>1, <2>2, PcWritten DEF FeedPcs, Unpaid, Passed, Ended
  <2>4. QED
    BY <2>1, <2>2, <2>3 DEF FeedMoves, Walks, Ends, Stays
<1>14. CASE DependencyFails(i)
  <2>1. feeds' = [feeds EXCEPT ![i].pc = "error"]
    BY <1>14 DEF DependencyFails, To
  <2>2. feeds[i].pc \notin Ended /\ UNCHANGED <<now, backend, restarts, kv>>
    BY <1>14 DEF DependencyFails, store
  <2>3. OneMoves(i) /\ feeds'[i].pc = "error" /\ Stays(i)
    BY <1>1, <2>1, <2>2, PcWritten DEF FeedPcs, Ended
  <2>4. QED
    BY <2>2, <2>3 DEF FeedMoves, Ends, Stays
<1>15. QED
  BY <1>3, <1>4, <1>5, <1>6, <1>7, <1>8, <1>9, <1>10, <1>11, <1>12, <1>13, <1>14 DEF FeedStep

(* The other steps, seen from feeding-svc *)
Arrives(f) ==
    /\ f \in Feed /\ f.pc \in {"global", "rejected"} /\ f.at = 0 /\ f.row = None
    /\ f.before = Over /\ f.epoch = restarts
    /\ feeds' = Append(feeds, f)
    /\ kv' = kv \/ \E k : Set(IdemKey(k), 1, IdemTTL)
    /\ UNCHANGED <<now, backend, restarts>>
Restarts ==
    /\ restarts' = restarts + 1
    /\ feeds' = [i \in DOMAIN feeds |-> IF feeds[i].pc \in Ended THEN feeds[i]
                                        ELSE [feeds[i] EXCEPT !.pc = "lost"]]
    /\ kv' = IF backend = "memory" THEN << >> ELSE kv
    /\ UNCHANGED <<now, backend>>
Ticks ==
    /\ now' = now + 1
    /\ kv' = [k \in {x \in DOMAIN kv : kv[x].expire = 0 \/ now' <= kv[x].expire} |-> kv[k]]
    /\ UNCHANGED <<backend, feeds, restarts>>
Rests == UNCHANGED <<now, backend, kv, feeds, restarts>>

FeedSide ==
    Rests \/ Ticks \/ Restarts \/ (\E f : Arrives(f)) \/ (\E i \in DOMAIN feeds : FeedMoves(i))

(* Arrive adds one request, and writes the store at most at its idempotency key. *)
LEMMA ArriveArrives ==
    ASSUME AdmType, NEW u \in Users, NEW r \in Rooms, NEW g \in Amounts, NEW k,
           Arrive(u, r, g, k)
    PROVE  \E f : Arrives(f)
<1>1. PICK p \in {"global", "rejected"} :
         feeds' = Append(feeds, Request(u, r, g, p))
  BY DEF Arrive
<1>2. kv' = kv \/ Set(IdemKey(k), 1, IdemTTL)
  BY DEF Arrive
<1>3. UNCHANGED <<now, backend, restarts>>
  BY DEF Arrive, budget
<1>4. Over \in SUBSET Nat /\ restarts \in Nat
  BY DEF Over, AdmType, FeedType
<1>5. PICK f : f = Request(u, r, g, p)
  OBVIOUS
<1>6. f \in Feed
  BY <1>4, <1>5 DEF Feed, Request, FeedPcs, Unpaid, Before, Ended, MaybeRow
<1>7. f.pc = p /\ f.at = 0 /\ f.row = None /\ f.before = Over /\ f.epoch = restarts
  BY <1>5 DEF Request
<1>8. Arrives(f)
  BY <1>1, <1>2, <1>3, <1>5, <1>6, <1>7 DEF Arrives
<1>9. QED
  BY <1>8

(* Every step is one of these. *)
LEMMA NextIsFeedSide ==
    ASSUME AdmType, [AdmissionNext]_admissionVars
    PROVE  FeedSide
<1>1. CASE UNCHANGED admissionVars
  BY <1>1 DEF admissionVars, FeedSide, Rests
<1>2. CASE FeedNext
  <2>1. CASE \E u \in Users, r \in Rooms, g \in Amounts, k \in 1 .. Len(feeds) + 1 :
                Arrive(u, r, g, k)
    BY <2>1, ArriveArrives DEF FeedSide
  <2>2. CASE \E i \in DOMAIN feeds : FeedStep(i)
    BY <2>2, FeedStepMoves DEF FeedSide
  <2>3. QED
    BY <1>2, <2>1, <2>2 DEF FeedNext, FeedStep
<1>3. CASE AdminNext
  <2>1. Rests
    BY <1>3 DEF AdminNext, Ask, SetFlag, UpdatePolicy, Upsert,
       UpsertFails, Invalidate,
       GetQuery, GetStore, notAdmin, store, budget, Rests
  <2>2. QED
    BY <2>1 DEF FeedSide
<1>4. CASE Refresh
  BY <1>4 DEF Refresh, store, budget, FeedSide, Rests
<1>5. CASE Tick
  BY <1>5 DEF Tick, budget, FeedSide, Ticks
<1>6. CASE Restart
  BY <1>6 DEF Restart, FeedSide, Restarts
<1>7. CASE AdminRestart
  BY <1>7 DEF AdminRestart, notAdmin, store, FeedSide, Rests
<1>8. QED
  BY <1>1, <1>2, <1>3, <1>4, <1>5, <1>6, <1>7 DEF AdmissionNext

(* What Append and a restart do to the sequence. *)
LEMMA ArrivesSeq ==
    ASSUME FeedType, NEW f, Arrives(f)
    PROVE  /\ feeds' \in Seq(Feed)
           /\ DOMAIN feeds' = DOMAIN feeds \cup {Len(feeds) + 1}
           /\ Len(feeds) + 1 \notin DOMAIN feeds
           /\ feeds'[Len(feeds) + 1] = f
           /\ \A j \in DOMAIN feeds : feeds'[j] = feeds[j] /\ j < Len(feeds) + 1 /\ j \in Nat
<1>1. feeds \in Seq(Feed) /\ Len(feeds) \in Nat /\ DOMAIN feeds = 1 .. Len(feeds) /\ f \in Feed
  BY DEF FeedType, Arrives
<1>2. feeds' = Append(feeds, f)
  BY DEF Arrives
<1>3. feeds' \in Seq(Feed) /\ Len(feeds') = Len(feeds) + 1
  BY <1>1, <1>2
<1>4. DOMAIN feeds' = 1 .. Len(feeds) + 1
  BY <1>3
<1>5. DOMAIN feeds' = DOMAIN feeds \cup {Len(feeds) + 1} /\ Len(feeds) + 1 \notin DOMAIN feeds
  BY <1>1, <1>4
<1>6. QED
  BY <1>1, <1>2, <1>3, <1>5

(* Restart keeps the requests and ends those that were under way. *)
LEMMA RestartsSeq ==
    ASSUME FeedType, Restarts
    PROVE  /\ feeds' \in Seq(Feed) /\ DOMAIN feeds' = DOMAIN feeds
           /\ \A j \in DOMAIN feeds :
                 /\ feeds[j].pc \in Ended => feeds'[j] = feeds[j]
                 /\ feeds[j].pc \notin Ended => feeds'[j].pc = "lost"
                 /\ feeds'[j].user = feeds[j].user /\ feeds'[j].room = feeds[j].room
                 /\ feeds'[j].amount = feeds[j].amount /\ feeds'[j].before = feeds[j].before
                 /\ feeds'[j].epoch = feeds[j].epoch /\ feeds'[j].at = feeds[j].at
                 /\ feeds'[j].pc \in Ended
<1>1. feeds \in Seq(Feed) /\ Len(feeds) \in Nat /\ DOMAIN feeds = 1 .. Len(feeds)
  BY DEF FeedType
<1>2. DOMAIN feeds' = DOMAIN feeds
  BY DEF Restarts
<1>3. ASSUME NEW j \in DOMAIN feeds
      PROVE  /\ feeds'[j] \in Feed
             /\ feeds[j].pc \in Ended => feeds'[j] = feeds[j]
             /\ feeds[j].pc \notin Ended => feeds'[j].pc = "lost"
             /\ feeds'[j].user = feeds[j].user /\ feeds'[j].room = feeds[j].room
             /\ feeds'[j].amount = feeds[j].amount /\ feeds'[j].before = feeds[j].before
             /\ feeds'[j].epoch = feeds[j].epoch /\ feeds'[j].at = feeds[j].at
             /\ feeds'[j].pc \in Ended
  <2>1. feeds[j] \in Feed
    BY <1>1
  <2>2. CASE feeds[j].pc \in Ended
    BY <2>1, <2>2 DEF Restarts
  <2>3. CASE feeds[j].pc \notin Ended
    <3>1. feeds'[j] = [feeds[j] EXCEPT !.pc = "lost"]
      BY <2>3 DEF Restarts
    <3>2. QED
      BY <2>1, <2>3, <3>1 DEF Feed, FeedPcs, Ended
  <2>4. QED
    BY <2>2, <2>3
<1>4. feeds' \in Seq(Feed)
  <2>1. feeds' \in [1 .. Len(feeds) -> Feed]
    <3>1. feeds' = [i \in 1 .. Len(feeds) |-> IF feeds[i].pc \in Ended THEN feeds[i]
                                        ELSE [feeds[i] EXCEPT !.pc = "lost"]]
      BY <1>1 DEF Restarts
    <3>2. QED
      BY <1>1, <1>3, <3>1
  <2>2. QED
    BY <1>1, <2>1
<1>5. QED
  BY <1>2, <1>3, <1>4

(* A write to the store changes one key. *)
Writes(k, v, e) ==
    /\ DOMAIN kv' = DOMAIN kv \cup {k}
    /\ kv'[k].val = v /\ kv'[k].expire = e
    /\ \A x \in DOMAIN kv : x # k => kv'[x] = kv[x]

(* Set writes one key. *)
LEMMA SetWrites ==
    ASSUME NEW k, NEW v, NEW ttl, Set(k, v, ttl)
    PROVE  Writes(k, v, now + ttl)
  BY DEF Set, Put, Writes

(* IncrBy writes one key. *)
LEMMA IncrByWrites ==
    ASSUME NEW k, NEW d, NEW ttl, IncrBy(k, d, ttl)
    PROVE  Writes(k, Val(k) + d, Expiry(k, ttl))
<1>1. PICK e : e = [val |-> Val(k) + d, expire |-> Expiry(k, ttl)]
  OBVIOUS
<1>2. kv' = [x \in DOMAIN kv \cup {k} |-> IF x = k THEN e ELSE kv[x]]
  BY <1>1 DEF IncrBy, Put
<1>3. QED
  BY <1>1, <1>2 DEF Writes

(* AddDaily adds the grams to its key, which then lives at least as long as the day. *)
LEMMA DailyWrites ==
    ASSUME FeedType, NEW i \in DOMAIN feeds, WritesDaily(i)
    PROVE  \E e \in Nat :
              /\ Writes(CatKey(feeds[i]), Val(CatKey(feeds[i])) + feeds[i].amount, e)
              /\ \/ e = 0
                 \/ e = Midnight(feeds[i].at)
                 \/ Has(CatKey(feeds[i])) /\ e = kv[CatKey(feeds[i])].expire
<1>1. PICK end : end = Midnight(feeds[i].at)
  OBVIOUS
<1>2. PICK ttl : ttl = IF end > now THEN end - now ELSE 0
  OBVIOUS
<1>3. PICK k : k = CatKey(feeds[i])
  OBVIOUS
<1>4. IncrBy(k, feeds[i].amount, ttl)
  BY <1>1, <1>2, <1>3 DEF WritesDaily
<1>5. Writes(k, Val(k) + feeds[i].amount, Expiry(k, ttl))
  BY <1>4, IncrByWrites
<1>6. feeds[i].at \in Nat /\ now \in Nat /\ DayLength \in Nat \ {0}
  <2>1. feeds[i] \in Feed /\ now \in Nat
    BY DEF FeedType
  <2>2. QED
    BY <2>1, AdmissionAssumption DEF Feed
<1>7. end \in Nat
  <2>1. Day(feeds[i].at) \in Nat
    BY <1>6 DEF Day
  <2>2. QED
    BY <1>1, <1>6, <2>1 DEF Midnight
<1>8. ttl > 0 => now + ttl = end
  BY <1>2, <1>6, <1>7
<1>9. k \in DOMAIN kv => kv[k].expire \in Nat
  BY DEF FeedType
<1>10. /\ Expiry(k, ttl) \in Nat
       /\ \/ Expiry(k, ttl) = 0 \/ Expiry(k, ttl) = end
          \/ Has(k) /\ Expiry(k, ttl) = kv[k].expire
  BY <1>7, <1>8, <1>9 DEF Expiry, Has
<1>11. QED
  BY <1>1, <1>3, <1>5, <1>10

(* There are finitely many requests, each for some grams. *)
LEMMA AmountIsNat ==
    ASSUME FeedType
    PROVE  /\ \A i \in DOMAIN feeds : feeds[i].amount \in Nat /\ feeds[i].amount > 0
           /\ IsFiniteSet(DOMAIN feeds)
<1>1. Amounts \subseteq 1 .. Modulus - 1 /\ Modulus \in Nat
  BY PolicyAssumption, AdmissionAssumption
<1>2. \A i \in DOMAIN feeds : feeds[i].amount \in Amounts
  <2>1. \A i \in DOMAIN feeds : feeds[i] \in Feed
    BY DEF FeedType
  <2>2. QED
    BY <2>1 DEF Feed
<1>3. DOMAIN feeds = 1 .. Len(feeds) /\ Len(feeds) \in Nat
  BY DEF FeedType
<1>4. IsFiniteSet(1 .. Len(feeds))
  BY <1>3, FS_Interval
<1>5. \A g \in Amounts : g \in Nat /\ g > 0
  BY <1>1
<1>6. QED
  BY <1>2, <1>3, <1>4, <1>5

KvType == \A k \in DOMAIN kv : kv[k].val \in Nat /\ kv[k].expire \in Nat

(* A write of numbers leaves the store well typed. *)
LEMMA WritesType ==
    ASSUME KvType, NEW k, NEW v \in Nat, NEW e \in Nat, Writes(k, v, e)
    PROVE  KvType'
  BY DEF KvType, Writes

(* Every step keeps the types of the requests and of the store. *)
LEMMA FeedTypeStep ==
    ASSUME FeedType, FeedSide
    PROVE  FeedType'
<1>0. /\ now \in Nat /\ restarts \in Nat /\ feeds \in Seq(Feed)
      /\ \A i \in DOMAIN feeds :
            feeds[i].pc \in Passed \cup {"check"} => feeds[i].limits \in SetLimits
      /\ KvType
  BY DEF FeedType, KvType
<1>00. SUFFICES /\ now' \in Nat /\ restarts' \in Nat /\ feeds' \in Seq(Feed)
                /\ \A i \in DOMAIN feeds' :
                     feeds'[i].pc \in Passed \cup {"check"} => feeds'[i].limits \in SetLimits
                /\ KvType'
  BY DEF FeedType, KvType
<1>1. CASE Rests
  BY <1>0, <1>1 DEF Rests, KvType
<1>2. CASE Ticks
  BY <1>0, <1>2 DEF Ticks, KvType
<1>3. CASE Restarts
  <2>1. KvType'
    BY <1>0, <1>3 DEF Restarts, KvType
  <2>2. \A i \in DOMAIN feeds' : 
           feeds'[i].pc \in Passed \cup {"check"} => feeds'[i].limits \in SetLimits
    BY <1>0, <1>3, RestartsSeq DEF Passed, Ended
  <2>3. QED
    BY <1>0, <1>3, <2>1, <2>2, RestartsSeq DEF Restarts
<1>4. ASSUME NEW f, Arrives(f)
      PROVE  /\ now' \in Nat /\ restarts' \in Nat /\ feeds' \in Seq(Feed)
             /\ \A i \in DOMAIN feeds' :
                  feeds'[i].pc \in Passed \cup {"check"} => feeds'[i].limits \in SetLimits
             /\ KvType'
  <2>1. KvType'
    <3>1. CASE kv' = kv
      BY <1>0, <3>1 DEF KvType
    <3>2. CASE \E k : Set(IdemKey(k), 1, IdemTTL)
      <4>1. IdemTTL \in Nat
        BY AdmissionAssumption
      <4>2. now + IdemTTL \in Nat /\ 1 \in Nat
        BY <1>0, <4>1
      <4>3. PICK k : Writes(IdemKey(k), 1, now + IdemTTL)
        BY <3>2, SetWrites
      <4>4. QED
        BY <1>0, <4>2, <4>3, WritesType
    <3>3. QED
      BY <1>4, <3>1, <3>2 DEF Arrives
  <2>2. f.pc \notin Passed \cup {"check"}
    BY <1>4 DEF Arrives, Passed
  <2>3. QED
    BY <1>0, <1>4, <2>1, <2>2, ArrivesSeq DEF Arrives
<1>5. ASSUME NEW i \in DOMAIN feeds, FeedMoves(i)
      PROVE  /\ now' \in Nat /\ restarts' \in Nat /\ feeds' \in Seq(Feed)
             /\ \A j \in DOMAIN feeds' :
                  feeds'[j].pc \in Passed \cup {"check"} => feeds'[j].limits \in SetLimits
             /\ KvType'
  <2>1. OneMoves(i)
    BY <1>5 DEF FeedMoves
  <2>2. now' \in Nat /\ restarts' \in Nat /\ feeds' \in Seq(Feed)
    BY <1>0, <2>1 DEF OneMoves
  <2>3. feeds'[i].pc \in Passed \cup {"check"} => feeds'[i].limits \in SetLimits
    BY <1>0, <1>5 DEF FeedMoves, Walks, Ends, Resolves, Checks, ReadsDaily, WritesRoom,
       WritesUser, WritesDaily, Stays, Passed
  <2>4. \A j \in DOMAIN feeds' :
           feeds'[j].pc \in Passed \cup {"check"} => feeds'[j].limits \in SetLimits
    BY <1>0, <2>1, <2>3 DEF OneMoves
  <2>5. KvType'
    <3>1. CASE UNCHANGED kv
      BY <1>0, <3>1 DEF KvType
    <3>2. feeds[i] \in Feed
      BY <1>0
    <3>3. feeds[i].at \in Nat /\ feeds[i].amount \in Nat
      BY <3>2, AmountIsNat DEF Feed
    <3>4. feeds[i].limits \in SetLimits =>
             feeds[i].limits.room \in Nat /\ feeds[i].limits.user \in Nat
      BY DEF SetLimits
    <3>5. CASE WritesRoom(i)
      <4>1. feeds[i].limits \in SetLimits
        BY <1>0, <3>5 DEF WritesRoom, Passed
      <4>2. PICK v, t : v = feeds[i].at + feeds[i].limits.room /\ t = feeds[i].limits.room + 1
        OBVIOUS
      <4>3. v \in Nat /\ now + t \in Nat
        <5>1. PICK a \in Nat, l \in Nat : a = feeds[i].at /\ l = feeds[i].limits.room
          BY <3>3, <3>4, <4>1
        <5>2. v = a + l /\ t = l + 1
          BY <4>2, <5>1
        <5>3. QED
          BY <1>0, <5>2
      <4>4. Writes(RoomKey(feeds[i]), v, now + t)
        BY <3>5, <4>2, SetWrites DEF WritesRoom
      <4>5. QED
        BY <1>0, <4>3, <4>4, WritesType
    <3>6. CASE WritesUser(i)
      <4>1. feeds[i].limits \in SetLimits
        BY <1>0, <3>6 DEF WritesUser, Passed
      <4>2. PICK v, t : v = feeds[i].at + feeds[i].limits.user /\ t = feeds[i].limits.user + 1
        OBVIOUS
      <4>3. v \in Nat /\ now + t \in Nat
        <5>1. PICK a \in Nat, l \in Nat : a = feeds[i].at /\ l = feeds[i].limits.user
          BY <3>3, <3>4, <4>1
        <5>2. v = a + l /\ t = l + 1
          BY <4>2, <5>1
        <5>3. QED
          BY <1>0, <5>2
      <4>4. Writes(UserKey(feeds[i]), v, now + t)
        BY <3>6, <4>2, SetWrites DEF WritesUser
      <4>5. QED
        BY <1>0, <4>3, <4>4, WritesType
    <3>7. CASE WritesDaily(i)
      <4>1. PICK e \in Nat :
               Writes(CatKey(feeds[i]), Val(CatKey(feeds[i])) + feeds[i].amount, e)
        BY <3>7, DailyWrites
      <4>2. PICK k, v : k = CatKey(feeds[i]) /\ v = Val(k) + feeds[i].amount
        OBVIOUS
      <4>3. Val(k) \in Nat
        BY <1>0 DEF Val, Has, KvType
      <4>4. v \in Nat
        BY <3>3, <4>2, <4>3
      <4>5. Writes(k, v, e)
        BY <4>1, <4>2
      <4>6. QED
        BY <1>0, <4>4, <4>5, WritesType
    <3>8. QED
      BY <1>5, <3>1, <3>5, <3>6, <3>7 DEF FeedMoves, Walks, Ends, Resolves, Checks, ReadsDaily
  <2>6. QED
    BY <2>2, <2>4, <2>5
<1>6. QED
  BY <1>1, <1>2, <1>3, <1>4, <1>5 DEF FeedSide
-----------------------------------------------------------------------------

(* admin-svc: memory, mutex and table *)

AdminInv == AdminType /\ OpInv /\ PolicyInv

(* One request of admin-svc moves on, or a new one comes *)
OneOp(o, p) ==
    /\ o \in DOMAIN ops /\ ops' \in Seq(Op) /\ DOMAIN ops' = DOMAIN ops
    /\ \A x \in DOMAIN ops : x # o => ops'[x] = ops[x]
    /\ ops'[o].scope = ops[o].scope /\ ops'[o].limits = ops[o].limits /\ ops'[o].pc = p
NewOp(q) ==
    /\ ops' \in Seq(Op)
    /\ DOMAIN ops' = DOMAIN ops \cup {Len(ops) + 1} /\ Len(ops) + 1 \notin DOMAIN ops
    /\ ops'[Len(ops) + 1] = q
    /\ \A x \in DOMAIN ops : ops'[x] = ops[x]

(* What a step of one request of admin-svc leaves of the others. *)
LEMMA OpWritten ==
    ASSUME ops \in Seq(Op), NEW o \in DOMAIN ops, NEW p \in OpPcs, OpTo(o, p)
    PROVE  OneOp(o, p)
<1>1. ops[o] \in Op /\ DOMAIN ops = 1 .. Len(ops) /\ Len(ops) \in Nat
  OBVIOUS
<1>2. ops' = [ops EXCEPT ![o] = [ops[o] EXCEPT !.pc = p]]
  BY DEF OpTo
<1>3. [ops[o] EXCEPT !.pc = p] \in Op
  BY <1>1 DEF Op
<1>4. ops' \in Seq(Op)
  BY <1>1, <1>2, <1>3
<1>5. DOMAIN ops' = DOMAIN ops /\ ops'[o] = [ops[o] EXCEPT !.pc = p]
  BY <1>2
<1>6. \A x \in DOMAIN ops : x # o => ops'[x] = ops[x]
  BY <1>2
<1>7. QED
  BY <1>1, <1>4, <1>5, <1>6 DEF OneOp, Op

(* What a new request of admin-svc leaves of the others. *)
LEMMA OpAdded ==
    ASSUME ops \in Seq(Op), NEW q \in Op, ops' = Append(ops, q)
    PROVE  NewOp(q)
<1>1. DOMAIN ops = 1 .. Len(ops) /\ Len(ops) \in Nat
  OBVIOUS
<1>2. ops' \in Seq(Op) /\ Len(ops') = Len(ops) + 1
  OBVIOUS
<1>3. DOMAIN ops' = 1 .. Len(ops) + 1
  BY <1>2
<1>4. DOMAIN ops' = DOMAIN ops \cup {Len(ops) + 1} /\ Len(ops) + 1 \notin DOMAIN ops
  BY <1>1, <1>3
<1>5. QED
  BY <1>1, <1>2, <1>4 DEF NewOp

(* Requests of admin-svc are numbered from 1, so that 0 means nobody. *)
LEMMA OpIndex ==
    ASSUME ops \in Seq(Op)
    PROVE  \A o \in DOMAIN ops : o # 0 /\ ops[o] \in Op
  OBVIOUS

(* A new request: nothing else changes. *)
LEMMA NewOpInv ==
    ASSUME AdminInv, NEW q \in Op, NewOp(q),
           UNCHANGED <<rows, cache, policies, lock, wrote>>,
           q.pc \in {"lock", "put", "get", "done"},
           q.pc \in {"lock", "put"} => q.limits \in MaybeRow,
           q.pc = "get" => q.scope = Global,
           q.pc = "lock" => q.scope \in Rooms,
           q.pc = "put" => q.scope \notin Rooms
    PROVE  AdminInv'
<1>1. AdminType' 
  BY DEF AdminInv, AdminType, NewOp
<1>2. OpInv'
  BY DEF AdminInv, OpInv, NewOp
<1>3. PolicyInv'
  <2>1. lock' # 0 => /\ lock' \in DOMAIN ops'
                     /\ ops'[lock'].scope \in Rooms
                     /\ ops'[lock'].pc \in {"put", "invalidate"}
                     /\ ops'[lock'].pc = "put" =>
                           policies'[ops'[lock'].scope] = ops'[lock'].limits
    BY DEF AdminInv, PolicyInv, NewOp
  <2>2. \A o \in DOMAIN ops' :
           ops'[o].scope \in Rooms /\ ops'[o].pc \in {"put", "invalidate"} => lock' = o
    BY DEF AdminInv, PolicyInv, NewOp
  <2>3. ASSUME NEW r \in Rooms
        PROVE  Agrees(r, wrote'[r], ops', lock', policies', rows')
    BY DEF AdminInv, PolicyInv, NewOp, Agrees
  <2>4. QED
    BY <2>1, <2>2, <2>3 DEF PolicyInv, Rooms
<1>4. QED
  BY <1>1, <1>2, <1>3 DEF AdminInv

(* A request that arrives at admin-svc. *)
LEMMA AskInv ==
    ASSUME AdminInv, NEW kind \in {"write", "read"}, NEW s \in Scopes, NEW l \in MaybeRow,
           kind = "write" => l \in Limits, kind = "read" => s = Global,
           Ask(kind, s, l)
    PROVE  AdminInv'
<1>1. PICK p : p = CASE kind = "write" /\ s # Global -> "lock"
                     [] kind = "write" /\ s = Global -> "put"
                     [] kind = "read" -> "get"
  OBVIOUS
<1>2. PICK q : q = [scope |-> s, limits |-> l, pc |-> p]
  OBVIOUS
<1>3. p \in OpPcs
  BY <1>1 DEF OpPcs
<1>4. q \in Op
  BY <1>2, <1>3 DEF Op
<1>5. ops' = Append(ops, q)
  BY <1>1, <1>2 DEF Ask
<1>6. NewOp(q)
  BY <1>4, <1>5, OpAdded DEF AdminInv, AdminType
<1>7. UNCHANGED <<rows, cache, policies, lock, wrote>>
  BY DEF Ask
<1>8. /\ q.pc = p /\ q.scope = s /\ q.limits = l
      /\ p \in {"lock", "put", "get"}
      /\ p = "get" => s = Global
      /\ p = "lock" => s # Global
      /\ p = "put" => s = Global
  BY <1>1, <1>2
<1>9. QED
  BY <1>4, <1>6, <1>7, <1>8, NewOpInv DEF Rooms

(* SetFlag, which is over at once. *)
LEMMA SetFlagInv ==
    ASSUME AdminInv, NEW w, SetFlag(w)
    PROVE  AdminInv'
<1>1. PICK q : q = [scope |-> Global, limits |-> None, pc |-> "done"]
  OBVIOUS
<1>2. q \in Op
  BY <1>1, PolicyAssumption DEF Op, OpPcs, MaybeRow
<1>3. NewOp(q)
  BY <1>1, <1>2, OpAdded DEF AdminInv, AdminType, SetFlag
<1>4. UNCHANGED <<rows, cache, policies, lock, wrote>>
  BY DEF SetFlag
<1>5. q.pc = "done"
  BY <1>1
<1>6. QED
  BY <1>2, <1>3, <1>4, <1>5, NewOpInv

(* UpdatePolicy takes the mutex and writes the memory. *)
LEMMA UpdatePolicyInv ==
    ASSUME AdminInv, NEW o \in DOMAIN ops, UpdatePolicy(o)
    PROVE  AdminInv'
<1>1. /\ ops[o].pc = "lock" /\ lock = 0 /\ lock' = o /\ o # 0
      /\ ops[o].scope \in Rooms /\ ops[o].limits \in MaybeRow
  BY OpIndex DEF UpdatePolicy, OpAt, AdminInv, AdminType, OpInv
<1>2. OneOp(o, "put")
  BY OpWritten DEF UpdatePolicy, AdminInv, AdminType, OpPcs
<1>3. PICK s, l : s = ops[o].scope /\ l = ops[o].limits
  OBVIOUS
<1>4. /\ policies' = [policies EXCEPT ![s] = l] /\ wrote' = [wrote EXCEPT ![s] = o]
      /\ UNCHANGED <<rows, cache>>
  BY <1>3 DEF UpdatePolicy
<1>5. /\ policies \in [Rooms -> MaybeRow] /\ policies'[s] = l
      /\ wrote \in [Rooms -> Nat] /\ wrote'[s] = o /\ o \in Nat
  BY <1>1, <1>3, <1>4 DEF AdminInv, AdminType
<1>6. AdminType'
  BY <1>1, <1>2, <1>3, <1>4, <1>5 DEF AdminInv, AdminType, OneOp
<1>7. OpInv'
  BY <1>1, <1>2 DEF AdminInv, OpInv, OneOp
<1>8. PolicyInv'
  <2>1. /\ lock' \in DOMAIN ops' /\ ops'[lock'].scope \in Rooms
        /\ ops'[lock'].pc = "put" /\ policies'[ops'[lock'].scope] = ops'[lock'].limits
    BY <1>1, <1>2, <1>3, <1>5 DEF OneOp
  <2>2. \A x \in DOMAIN ops' :
           ops'[x].scope \in Rooms /\ ops'[x].pc \in {"put", "invalidate"} => lock' = x
    BY <1>1, <1>2, OpIndex DEF AdminInv, AdminType, PolicyInv, OneOp
  <2>3. ASSUME NEW r \in Rooms
        PROVE  Agrees(r, wrote'[r], ops', lock', policies', rows')
    <3>1. CASE r = s
      BY <1>1, <1>2, <1>3, <1>5, <3>1 DEF OneOp, Agrees
    <3>2. CASE r # s
      <4>1. policies'[r] = policies[r] /\ wrote'[r] = wrote[r]
        BY <1>4, <1>5, <3>2
      <4>2. Agrees(r, wrote[r], ops, lock, policies, rows)
        BY DEF AdminInv, PolicyInv
      <4>3. QED
        BY <1>1, <1>2, <1>4, <4>1, <4>2 DEF OneOp, Agrees
    <3>3. QED
      BY <3>1, <3>2
  <2>4. QED
    BY <2>1, <2>2, <2>3 DEF PolicyInv, Rooms
<1>9. QED
  BY <1>6, <1>7, <1>8 DEF AdminInv

(* The upsert brings the row to what the memory holds. *)
LEMMA UpsertInv ==
    ASSUME AdminInv, NEW o \in DOMAIN ops, Upsert(o)
    PROVE  AdminInv'
<1>1. /\ ops[o].pc = "put" /\ ops[o].limits \in MaybeRow /\ o # 0
      /\ ops[o].scope \in Scopes
  BY OpIndex DEF Upsert, OpAt, AdminInv, AdminType, OpInv, Op
<1>2. OneOp(o, "invalidate")
  BY OpWritten DEF Upsert, AdminInv, AdminType, OpPcs
<1>3. PICK s, l : s = ops[o].scope /\ l = ops[o].limits
  OBVIOUS
<1>4. rows' = [rows EXCEPT ![s] = l] /\ UNCHANGED <<policies, cache, lock, wrote>>
  BY <1>3 DEF Upsert
<1>5. rows \in [Scopes -> MaybeRow] /\ rows'[s] = l
  BY <1>1, <1>3, <1>4 DEF AdminInv, AdminType
<1>6. AdminType'
  BY <1>1, <1>2, <1>3, <1>4 DEF AdminInv, AdminType, OneOp
<1>7. OpInv'
  BY <1>1, <1>2 DEF AdminInv, OpInv, OneOp
<1>8. PolicyInv'
  <2>1. lock' # 0 => /\ lock' \in DOMAIN ops' /\ ops'[lock'].scope \in Rooms
                     /\ ops'[lock'].pc \in {"put", "invalidate"}
                     /\ ops'[lock'].pc = "put" =>
                           policies'[ops'[lock'].scope] = ops'[lock'].limits
    BY <1>2, <1>4 DEF AdminInv, PolicyInv, OneOp
  <2>2. \A x \in DOMAIN ops' :
           ops'[x].scope \in Rooms /\ ops'[x].pc \in {"put", "invalidate"} => lock' = x
    BY <1>1, <1>2, <1>4 DEF AdminInv, PolicyInv, OneOp
  <2>3. ASSUME NEW r \in Rooms
        PROVE  Agrees(r, wrote'[r], ops', lock', policies', rows')
    <3>0. Agrees(r, wrote[r], ops, lock, policies, rows)
      BY DEF AdminInv, PolicyInv
    <3>1. CASE r = s
      <4>1. lock = o /\ policies[r] = l
        BY <1>1, <1>3, <3>1 DEF AdminInv, PolicyInv
      <4>2. policies'[r] = rows'[r]
        BY <1>4, <1>5, <3>1, <4>1
      <4>3. QED
        BY <1>2, <1>4, <3>0, <4>2 DEF OneOp, Agrees
    <3>2. CASE r # s
      <4>1. rows'[r] = rows[r]
        BY <1>4, <1>5, <3>2 DEF Rooms
      <4>2. wrote[r] # 0 => wrote[r] # o
        BY <1>3, <3>0, <3>2 DEF Agrees
      <4>3. QED
        BY <1>2, <1>4, <3>0, <4>1, <4>2 DEF OneOp, Agrees
    <3>3. QED
      BY <3>1, <3>2
  <2>4. QED
    BY <2>1, <2>2, <2>3 DEF PolicyInv, Rooms
<1>9. QED
  BY <1>6, <1>7, <1>8 DEF AdminInv

(* A request ends and gives the mutex back if it has it. *)
LEMMA OpEndsInv ==
    ASSUME AdminInv, NEW o \in DOMAIN ops, NEW p \in {"failed", "done"}, OneOp(o, p),
           \/ ops[o].pc = "put" /\ p = "failed"
           \/ ops[o].pc \in {"invalidate", "store"} /\ p = "done",
           Unlock(o) \/ (lock' = lock /\ ops[o].scope = Global),
           cache' \in [Services -> [Scopes -> Entry]], UNCHANGED <<rows, policies, wrote>>
    PROVE  AdminInv'
<1>1. AdminType'
  BY DEF AdminInv, AdminType, OneOp
<1>2. OpInv'
  BY DEF AdminInv, OpInv, OneOp
<1>3. lock = o => lock' = 0
  BY DEF Unlock, AdminInv, PolicyInv, Rooms
<1>4. lock # o => lock' = lock
  BY DEF Unlock
<1>5. PolicyInv'
  <2>1. lock' # 0 => /\ lock' \in DOMAIN ops' /\ ops'[lock'].scope \in Rooms
                     /\ ops'[lock'].pc \in {"put", "invalidate"}
                     /\ ops'[lock'].pc = "put" =>
                           policies'[ops'[lock'].scope] = ops'[lock'].limits
    BY <1>3, <1>4 DEF AdminInv, PolicyInv, OneOp
  <2>2. \A x \in DOMAIN ops' :
           ops'[x].scope \in Rooms /\ ops'[x].pc \in {"put", "invalidate"} => lock' = x
    BY <1>3, <1>4 DEF AdminInv, PolicyInv, OneOp
  <2>3. ASSUME NEW r \in Rooms
        PROVE  Agrees(r, wrote'[r], ops', lock', policies', rows')
    <3>1. Agrees(r, wrote[r], ops, lock, policies, rows)
      BY DEF AdminInv, PolicyInv
    <3>2. CASE wrote[r] = o
      <4>1. ops[o].pc = "put" => p = "failed" /\ ops'[o].pc = "failed"
        BY DEF OneOp
      <4>2. ops[o].pc # "failed"
        OBVIOUS
      <4>3. QED
        BY <3>1, <3>2, <4>1, <4>2 DEF OneOp, Agrees
    <3>3. CASE wrote[r] # o
      BY <1>4, <3>1, <3>3 DEF OneOp, Agrees
    <3>4. QED
      BY <3>2, <3>3
  <2>4. QED
    BY <2>1, <2>2, <2>3 DEF PolicyInv, Rooms
<1>6. QED
  BY <1>1, <1>2, <1>5 DEF AdminInv

(* A Get has read the row. *)
LEMMA GetQueryInv ==
    ASSUME AdmType, AdminInv, NEW o \in DOMAIN ops, GetQuery(o)
    PROVE  AdminInv'
<1>1. ops[o].pc = "get" /\ ops[o].scope = Global /\ Global \in Scopes
  BY PolicyAssumption DEF GetQuery, OpAt, AdminInv, OpInv
<1>2. PICK e : e = Cached(rows[ops[o].scope])
  OBVIOUS
<1>3. e \in Entry
  BY <1>1, <1>2, AdmissionAssumption DEF Cached, Entry, AdmType, FeedType, AdminType
<1>4. /\ ops \in Seq(Op) /\ ops[o] \in Op /\ DOMAIN ops = 1 .. Len(ops) /\ Len(ops) \in Nat
  BY DEF AdmType, AdminType
<1> DEFINE f == [ops[o] EXCEPT !.pc = "store", !.limits = e]
<1>5. ops' = [ops EXCEPT ![o] = f]
  BY <1>2 DEF GetQuery
<1>6. f \in Op
  BY <1>3, <1>4 DEF Op, OpPcs
<1>7. f.pc = "store" /\ f.limits = e /\ f.scope = Global
  BY <1>1, <1>4 DEF Op
<1> HIDE DEF f
<1>8. /\ ops' \in Seq(Op) /\ DOMAIN ops' = DOMAIN ops /\ ops'[o] = f
      /\ \A x \in DOMAIN ops : x # o => ops'[x] = ops[x]
  BY <1>4, <1>5, <1>6
<1>9. UNCHANGED <<rows, cache, policies, lock, wrote>>
  BY DEF GetQuery
<1>10. AdminType'
  BY <1>8, <1>9 DEF AdminInv, AdminType
<1>11. OpInv'
  BY <1>3, <1>7, <1>8 DEF AdminInv, OpInv
<1>12. PolicyInv'
  <2>1. lock' # 0 => /\ lock' \in DOMAIN ops' /\ ops'[lock'].scope \in Rooms
                     /\ ops'[lock'].pc \in {"put", "invalidate"}
                     /\ ops'[lock'].pc = "put" =>
                           policies'[ops'[lock'].scope] = ops'[lock'].limits
    BY <1>1, <1>8, <1>9 DEF AdminInv, PolicyInv
  <2>2. \A x \in DOMAIN ops' :
           ops'[x].scope \in Rooms /\ ops'[x].pc \in {"put", "invalidate"} => lock' = x
    BY <1>7, <1>8, <1>9 DEF AdminInv, PolicyInv
  <2>3. ASSUME NEW r \in Rooms
        PROVE  Agrees(r, wrote'[r], ops', lock', policies', rows')
    <3>1. Agrees(r, wrote[r], ops, lock, policies, rows)
      BY DEF AdminInv, PolicyInv
    <3>2. wrote[r] # 0 => wrote[r] # o
      BY <1>1, <3>1 DEF Agrees, Rooms
    <3>3. QED
      BY <1>8, <1>9, <3>1, <3>2 DEF Agrees
  <2>4. QED
    BY <2>1, <2>2, <2>3 DEF PolicyInv, Rooms
<1>13. QED
  BY <1>10, <1>11, <1>12 DEF AdminInv

(* Storing entries keeps the caches well formed. *)
LEMMA CacheWritten ==
    ASSUME cache \in [Services -> [Scopes -> Entry]], NEW p \in Services, NEW s \in Scopes,
           NEW e \in Entry, cache' = [cache EXCEPT ![p][s] = e]
    PROVE  /\ cache' \in [Services -> [Scopes -> Entry]]
           /\ cache'[p][s] = e
           /\ \A q \in Services, t \in Scopes : q # p \/ t # s => cache'[q][t] = cache[q][t]
  OBVIOUS

(* An empty cache entry is an entry. *)
LEMMA FreshIsEntry == Fresh \in Entry
  BY DEF Fresh, Entry, MaybeRow

(* What is seeded at the start of admin-svc. *)
LEMMA SeedType == Seeded \in [Rooms -> MaybeRow]
  BY AdmissionAssumption DEF Seeded, MaybeRow

(* Where the requests of admin-svc are after it starts again. *)
LEMMA AdminRestartOps ==
    ASSUME AdminInv, AdminRestart
    PROVE  /\ ops' \in Seq(Op) /\ DOMAIN ops' = DOMAIN ops
           /\ \A o \in DOMAIN ops : /\ ops'[o].pc \in OpEnded
                                    /\ ops'[o].pc = "failed" => ops'[o] = ops[o]
<1>1. ops \in Seq(Op) /\ DOMAIN ops = 1 .. Len(ops) /\ Len(ops) \in Nat
  BY DEF AdminInv, AdminType
<1>2. ops' = [o \in DOMAIN ops |-> IF ops[o].pc \in OpEnded THEN ops[o]
                                   ELSE [ops[o] EXCEPT !.pc = "lost"]]
  BY DEF AdminRestart
<1>3. ASSUME NEW o \in DOMAIN ops
      PROVE  /\ ops'[o] \in Op /\ ops'[o].pc \in OpEnded
             /\ ops'[o].pc = "failed" => ops'[o] = ops[o]
  <2>1. ops[o] \in Op
    BY <1>1
  <2>2. [ops[o] EXCEPT !.pc = "lost"] \in Op /\ [ops[o] EXCEPT !.pc = "lost"].pc = "lost"
    BY <2>1 DEF Op, OpPcs
  <2>3. QED
    BY <1>2, <2>1, <2>2 DEF OpEnded
<1>4. DOMAIN ops' = DOMAIN ops
  BY <1>2
<1>5. ops' \in [1 .. Len(ops) -> Op]
  BY <1>1, <1>2, <1>3
<1>6. ops' \in Seq(Op)
  BY <1>1, <1>5
<1>7. QED
  BY <1>3, <1>4, <1>6

(* admin-svc starts again: no request has the mutex, no policy is an operator's. *)
LEMMA AdminRestartInv ==
    ASSUME AdminInv, AdminRestart
    PROVE  AdminInv'
<1>1. /\ lock' = 0 /\ wrote' = [r \in Rooms |-> 0] /\ policies' = Seeded
      /\ cache' = [cache EXCEPT !["admin"] = [s \in Scopes |-> Fresh]] /\ rows' = rows
  BY DEF AdminRestart
<1>0. /\ ops' \in Seq(Op) /\ DOMAIN ops' = DOMAIN ops
      /\ \A o \in DOMAIN ops : /\ ops'[o].pc \in OpEnded
                               /\ ops'[o].pc = "failed" => ops'[o] = ops[o]
  BY AdminRestartOps
<1>2. AdminType'
  BY <1>0, <1>1, SeedType, FreshIsEntry DEF AdminInv, AdminType
<1>3. OpInv'
  <2>1. ASSUME NEW o \in DOMAIN ops
        PROVE  /\ ops'[o].pc \in {"done", "lost"} \/ ops'[o].pc = "failed"
               /\ ops'[o].pc = "failed" => ops'[o].limits \in MaybeRow
    BY <1>0 DEF AdminInv, OpInv, OpEnded
  <2>2. QED
    BY <1>0, <2>1 DEF OpInv
<1>4. PolicyInv'
  <2>1. \A o \in DOMAIN ops : ops'[o].pc \notin {"put", "invalidate"}
    BY <1>0 DEF OpEnded
  <2>2. \A r \in Rooms : Agrees(r, wrote'[r], ops', lock', policies', rows')
    BY <1>1 DEF Agrees
  <2>3. QED
    BY <1>0, <1>1, <2>1, <2>2 DEF PolicyInv, Rooms
<1>5. QED
  BY <1>2, <1>3, <1>4 DEF AdminInv

(* Every step keeps what is known of admin-svc and of the rows. *)
LEMMA AdminStepInv ==
    ASSUME AdmType, AdminInv, [AdmissionNext]_admissionVars
    PROVE  AdminInv'
<1>0. cache \in [Services -> [Scopes -> Entry]] /\ ops \in Seq(Op)
  BY DEF AdmType, AdminType
<1>1. ASSUME UNCHANGED <<rows, policies, ops, lock, wrote>>,
             cache' \in [Services -> [Scopes -> Entry]]
      PROVE  AdminInv'
  <2>1. AdminType'
    BY <1>1 DEF AdminInv, AdminType
  <2>2. OpInv'
    BY <1>1 DEF AdminInv, OpInv
  <2>3. PolicyInv'
    BY <1>1 DEF AdminInv, PolicyInv, Rooms
  <2>4. QED
    BY <2>1, <2>2, <2>3 DEF AdminInv
<1>2. CASE UNCHANGED admissionVars
  BY <1>0, <1>1, <1>2 DEF admissionVars
<1>3. CASE \E u \in Users, r \in Rooms, g \in Amounts, k \in 1 .. Len(feeds) + 1 :
              Arrive(u, r, g, k)
  BY <1>0, <1>1, <1>3 DEF Arrive, tables, admin
<1>4. ASSUME NEW i \in DOMAIN feeds, FeedStep(i)
      PROVE  AdminInv'
  <2>1. CASE ResolveStore(i)
    <3>1. feeds[i] \in Feed
      BY DEF AdmType, FeedType
    <3>2. feeds[i].row \in Entry /\ ScopeAt(i) \in Scopes /\ "feeding" \in Services
      BY <2>1, <3>1, PolicyAssumption DEF ResolveStore, Feed, ScopeAt, Rooms, Services
    <3>3. cache' \in [Services -> [Scopes -> Entry]]
      BY <1>0, <2>1, <3>2, CacheWritten DEF ResolveStore
    <3>4. QED
      BY <1>1, <2>1, <3>3 DEF ResolveStore, tables, admin
  <2>2. CASE ~ResolveStore(i)
    <3>1. UNCHANGED <<rows, policies, ops, lock, wrote, cache>>
      BY <1>4, <2>2 DEF FeedStep, ResolveHit, ResolveQuery, Check, ReadRoom,
         ReadUser, ReadDaily,
         Read, SetRoom, SetUser, AddDaily, Reserve, DependencyFails,
         onlyFeeds, tables, admin
    <3>2. QED
      BY <1>0, <1>1, <3>1
  <2>3. QED
    BY <2>1, <2>2
<1>5. CASE \E s \in Scopes, l \in Puts : Ask("write", s, l)
  <2>1. Puts \subseteq Limits
    BY AdmissionAssumption
  <2>2. PICK s \in Scopes, l \in Limits : Ask("write", s, l)
    BY <1>5, <2>1
  <2>3. l \in MaybeRow
    BY DEF MaybeRow
  <2>4. QED
    BY <2>2, <2>3, AskInv
<1>6. CASE Ask("read", Global, None)
  <2>1. Global \in Scopes /\ None \in MaybeRow
    BY PolicyAssumption DEF MaybeRow
  <2>2. QED
    BY <1>6, <2>1, AskInv
<1>7. CASE \E w \in FlagWrites : SetFlag(w)
  BY <1>7, SetFlagInv
<1>8. ASSUME NEW o \in DOMAIN ops,
             \/ UpdatePolicy(o) \/ Upsert(o) \/ UpsertFails(o) \/ Invalidate(o)
             \/ GetQuery(o) \/ GetStore(o)
      PROVE  AdminInv'
  <2>0. ops[o] \in Op
    BY <1>0
  <2>1. CASE UpdatePolicy(o)
    BY <2>1, UpdatePolicyInv
  <2>2. CASE Upsert(o)
    BY <2>2, UpsertInv
  <2>3. CASE UpsertFails(o)
    <3>1. OneOp(o, "failed")
      BY <1>0, <2>3, OpWritten DEF UpsertFails, OpPcs
    <3>2. ops[o].pc = "put" /\ Unlock(o) /\ UNCHANGED <<rows, policies, wrote, cache>>
      BY <2>3 DEF UpsertFails, OpAt
    <3>3. QED
      BY <1>0, <3>1, <3>2, OpEndsInv
  <2>4. CASE Invalidate(o)
    <3>1. OneOp(o, "done")
      BY <1>0, <2>4, OpWritten DEF Invalidate, OpPcs
    <3>2. ops[o].pc = "invalidate" /\ Unlock(o) /\ UNCHANGED <<rows, policies, wrote>>
      BY <2>4 DEF Invalidate, OpAt
    <3>3. ops[o].scope \in Scopes /\ "admin" \in Services /\ Fresh \in Entry
      BY <2>0, FreshIsEntry DEF Op, Services
    <3>4. cache' \in [Services -> [Scopes -> Entry]]
      BY <1>0, <2>4, <3>3, CacheWritten DEF Invalidate
    <3>5. QED
      BY <3>1, <3>2, <3>4, OpEndsInv
  <2>5. CASE GetQuery(o)
    BY <2>5, GetQueryInv
  <2>6. CASE GetStore(o)
    <3>1. OneOp(o, "done")
      BY <1>0, <2>6, OpWritten DEF GetStore, OpPcs
    <3>2. ops[o].pc = "store" /\ UNCHANGED <<rows, policies, lock, wrote>>
      BY <2>6 DEF GetStore, OpAt
    <3>3. /\ ops[o].scope = Global /\ ops[o].scope \in Scopes /\ "admin" \in Services
          /\ ops[o].limits \in Entry
      BY <2>0, <3>2 DEF Op, Services, AdminInv, OpInv
    <3>4. cache' \in [Services -> [Scopes -> Entry]]
      BY <1>0, <2>6, <3>3, CacheWritten DEF GetStore
    <3>5. QED
      BY <3>1, <3>2, <3>3, <3>4, OpEndsInv
  <2>7. QED
    BY <1>8, <2>1, <2>2, <2>3, <2>4, <2>5, <2>6
<1>9. CASE Refresh
  BY <1>0, <1>1, <1>9 DEF Refresh, tables, admin
<1>10. CASE Tick
  BY <1>0, <1>1, <1>10 DEF Tick, admin
<1>11. CASE Restart
  <2>1. cache' \in [Services -> [Scopes -> Entry]]
    BY <1>0, <1>11, FreshIsEntry DEF Restart
  <2>2. QED
    BY <1>1, <1>11, <2>1 DEF Restart, tables, admin
<1>12. CASE AdminRestart
  BY <1>12, AdminRestartInv
<1>13. QED
  BY <1>2, <1>3, <1>4, <1>5, <1>6, <1>7, <1>8, <1>9, <1>10, <1>11, <1>12
     DEF AdmissionNext, FeedNext, AdminNext, FeedStep
-----------------------------------------------------------------------------

(* The caches of the limits *)

(* A row that was read stays in a history that grows. *)
LEMMA WasRowStays ==
    ASSUME NEW e, NEW s, NEW n \in Nat, NEW m \in Nat, n <= m, NEW h, NEW g, h \subseteq g,
           WasRow(e, s, n, h)
    PROVE  WasRow(e, s, m, g)
<1>1. 0 .. n \subseteq 0 .. m
  OBVIOUS
<1>2. QED
  BY <1>1 DEF WasRow

(* A row that is read now is recent. *)
LEMMA ReadIsRecent ==
    ASSUME AdmType, RecentInv, NEW s \in Scopes
    PROVE  WasRow(Cached(rows[s]), s, now, was)
<1>1. now \in 0 .. now /\ PolicyTTL \in Nat
  BY AdmissionAssumption DEF AdmType, FeedType
<1>2. <<now, s, rows[s]>> \in was
  BY DEF RecentInv
<1>3. PICK e : e = Cached(rows[s])
  OBVIOUS
<1>4. e.limits = rows[s] /\ e.expires = now + PolicyTTL
  BY <1>3 DEF Cached
<1>5. now + PolicyTTL >= e.expires
  BY <1>1, <1>4
<1>6. WasRow(e, s, now, was)
  BY <1>1, <1>2, <1>4, <1>5 DEF WasRow
<1>7. QED
  BY <1>3, <1>6

(* Where only the history grows. *)
LEMMA HistoryGrows ==
    ASSUME AdmType, RecentInv, was \subseteq was', now' \in Nat, now <= now'
    PROVE  /\ cache' = cache => CacheInv'
           /\ feeds' = feeds => FetchInv'
           /\ ops' = ops => GetInv'
<1>0. now \in Nat
  BY DEF AdmType, FeedType
<1>1. CacheInv /\ FetchInv /\ GetInv
  BY DEF RecentInv
<1>2. ASSUME cache' = cache PROVE CacheInv'
  BY <1>0, <1>1, <1>2, WasRowStays DEF CacheInv
<1>3. ASSUME feeds' = feeds PROVE FetchInv'
  BY <1>0, <1>1, <1>3, WasRowStays DEF FetchInv, ScopeAt
<1>4. ASSUME ops' = ops PROVE GetInv'
  BY <1>0, <1>1, <1>4, WasRowStays DEF GetInv
<1>5. QED
  BY <1>2, <1>3, <1>4

(* The rows that a request of feeding-svc fetches. *)
LEMMA FeedRecent ==
    ASSUME AdmType, RecentInv, NEW i \in DOMAIN feeds, FeedStep(i)
    PROVE  RecentInv'
<1>0. /\ feeds \in Seq(Feed) /\ feeds[i] \in Feed /\ DOMAIN feeds = 1 .. Len(feeds)
      /\ now \in Nat /\ cache \in [Services -> [Scopes -> Entry]] /\ "feeding" \in Services
  BY DEF AdmType, FeedType, AdminType, Services
<1>1. UNCHANGED <<now, was, rows, ops>>
  BY DEF FeedStep, ResolveHit, ResolveQuery, ResolveStore, Check, ReadRoom,
     ReadUser, ReadDaily,
     Read, SetRoom, SetUser, AddDaily, Reserve, DependencyFails,
     onlyFeeds, tables, admin
<1>2. ScopeAt(i) \in Scopes
  BY <1>0, PolicyAssumption DEF ScopeAt, Feed, Rooms
<1>3. CacheInv /\ FetchInv /\ GetInv /\ \A s \in Scopes : <<now, s, rows[s]>> \in was
  BY DEF RecentInv
<1>4. GetInv' /\ \A s \in Scopes : <<now', s, rows'[s]>> \in was'
  BY <1>1, <1>3 DEF GetInv
<1>5. CacheInv'
  <2>1. CASE ResolveStore(i)
    <3>1. /\ feeds[i].row \in Entry
          /\ cache' = [cache EXCEPT !["feeding"][ScopeAt(i)] = feeds[i].row]
          /\ feeds[i].pc \in {"global", "room"} /\ feeds[i].row # None
      BY <1>0, <2>1 DEF ResolveStore, Feed, At
    <3>2. WasRow(feeds[i].row, ScopeAt(i), now, was)
      BY <1>3, <3>1 DEF FetchInv
    <3>3. PICK e, s : e = feeds[i].row /\ s = ScopeAt(i)
      OBVIOUS
    <3>4. /\ cache'["feeding"][s] = e
          /\ \A q \in Services, t \in Scopes : q # "feeding" \/ t # s => cache'[q][t] = cache[q][t]
      BY <1>0, <1>2, <3>1, <3>3, CacheWritten
    <3>5. QED
      BY <1>1, <1>3, <3>2, <3>3, <3>4 DEF CacheInv
  <2>2. CASE ~ResolveStore(i)
    <3>1. UNCHANGED cache
      BY <2>2 DEF FeedStep, ResolveHit, ResolveQuery, Check, ReadRoom,
         ReadUser, ReadDaily,
         Read, SetRoom, SetUser, AddDaily, Reserve, DependencyFails,
         onlyFeeds
    <3>2. QED
      BY <1>1, <1>3, <3>1 DEF CacheInv
  <2>3. QED
    BY <2>1, <2>2
<1>6. FetchInv'
  <2>1. FeedMoves(i)
    BY FeedStepMoves
  <2>2. /\ DOMAIN feeds' = DOMAIN feeds
        /\ \A j \in DOMAIN feeds : j # i => feeds'[j] = feeds[j]
        /\ feeds'[i].room = feeds[i].room
    BY <2>1 DEF FeedMoves, OneMoves
  <2>3. ASSUME feeds'[i].pc \in {"global", "room"}, feeds'[i].row # None
        PROVE  WasRow(feeds'[i].row, ScopeAt(i)', now', was')
    <3>1. CASE ResolveQuery(i)
      <4>1. feeds' = [feeds EXCEPT ![i].row = Cached(rows[ScopeAt(i)])]
        BY <3>1 DEF ResolveQuery
      <4>2. PICK e, s : e = Cached(rows[ScopeAt(i)]) /\ s = ScopeAt(i)
        OBVIOUS
      <4>3. feeds' = [feeds EXCEPT ![i] = [feeds[i] EXCEPT !.row = e]]
        BY <4>1, <4>2
      <4>4. feeds'[i].row = e /\ feeds'[i].pc = feeds[i].pc
        BY <1>0, <4>3 DEF Feed
      <4>5. ScopeAt(i)' = s
        BY <2>2, <4>2, <4>4 DEF ScopeAt
      <4>6. WasRow(e, s, now, was)
        BY <1>2, <4>2, ReadIsRecent
      <4>7. QED
        BY <1>1, <4>4, <4>5, <4>6
    <3>2. CASE ResolveHit(i) \/ ResolveStore(i)
      <4>1. PICK row : Got(i, feeds[i].pc, row) /\ feeds[i].pc \in {"global", "room"}
        BY <3>2 DEF ResolveHit, ResolveStore, At
      <4>2. feeds[i].pc = "global"
        <5>1. CASE feeds[i].pc = "room"
          <6>1. PICK l : l = Resolve(feeds[i].global, row)
            OBVIOUS
          <6>2. feeds' = [feeds EXCEPT ![i] = [feeds[i] EXCEPT !.pc = "check", !.row = None,
                             !.global = None, !.at = now, !.limits = l]]
            BY <4>1, <5>1, <6>1 DEF Got
          <6>3. feeds'[i].pc = "check"
            BY <1>0, <6>2 DEF Feed
          <6>4. QED
            BY <2>3, <6>3
        <5>2. QED
          BY <4>1, <5>1
      <4>3. feeds' = [feeds EXCEPT ![i] = [feeds[i] EXCEPT !.pc = "room", !.row = None,
                         !.global = row]]
        BY <4>1, <4>2 DEF Got
      <4>4. feeds'[i].row = None
        BY <1>0, <4>3 DEF Feed
      <4>5. QED
        BY <2>3, <4>4
    <3>3. CASE ~ResolveHit(i) /\ ~ResolveStore(i) /\ ~ResolveQuery(i)
      <4>1. PICK p \in FeedPcs \ {"global", "room"} :
               \/ feeds' = [feeds EXCEPT ![i].pc = p]
               \/ feeds' = [feeds EXCEPT ![i].pc = p, ![i].at = now]
        <5>1. CASE Check(i)
          <6>1. PICK p \in {"rejected", "consume"} :
                   p = IF CheckBlocks(feeds[i]) THEN "rejected" ELSE "consume"
            OBVIOUS
          <6>2. feeds' = [feeds EXCEPT ![i].pc = p, ![i].at = now]
            BY <5>1, <6>1 DEF Check
          <6>3. p \in FeedPcs \ {"global", "room"}
            BY <6>1 DEF FeedPcs, Ended, Unpaid, Passed
          <6>4. QED
            BY <6>2, <6>3
        <5>2. CASE ~Check(i)
          BY <3>3, <5>2 DEF FeedStep, ReadRoom, ReadUser, ReadDaily, Read,
             SetRoom, SetUser,
             AddDaily, Reserve, DependencyFails, To, FeedPcs, Ended,
             Unpaid, Passed
        <5>3. QED
          BY <5>1, <5>2
      <4>2. feeds'[i].pc = p
        BY <1>0, <4>1 DEF Feed
      <4>3. QED
        BY <2>3, <4>2
    <3>4. QED
      BY <3>1, <3>2, <3>3
  <2>4. ASSUME NEW j \in DOMAIN feeds', feeds'[j].pc \in {"global", "room"}, feeds'[j].row # None
        PROVE  WasRow(feeds'[j].row, ScopeAt(j)', now', was')
    <3>1. CASE j = i
      BY <2>3, <2>4, <3>1
    <3>2. CASE j # i
      <4>1. feeds'[j] = feeds[j] /\ j \in DOMAIN feeds
        BY <2>2, <3>2
      <4>2. ScopeAt(j)' = ScopeAt(j)
        BY <4>1 DEF ScopeAt
      <4>3. WasRow(feeds[j].row, ScopeAt(j), now, was)
        BY <1>3, <2>4, <4>1 DEF FetchInv
      <4>4. QED
        BY <1>1, <4>1, <4>2, <4>3
    <3>3. QED
      BY <3>1, <3>2
  <2>5. QED
    BY <2>4 DEF FetchInv
<1>7. QED
  BY <1>4, <1>5, <1>6 DEF RecentInv

(* Every step keeps the caches, and what is on its way into them, recent. *)
LEMMA RecentStep ==
    ASSUME AdmType, AdminInv, AdmType', RecentInv, [AdmissionNext]_admissionVars
    PROVE  RecentInv'
<1>0. /\ now \in Nat /\ now' \in Nat /\ cache \in [Services -> [Scopes -> Entry]]
      /\ ops \in Seq(Op) /\ rows \in [Scopes -> MaybeRow]
  BY DEF AdmType, FeedType, AdminType
<1>00. CacheInv /\ FetchInv /\ GetInv /\ \A s \in Scopes : <<now, s, rows[s]>> \in was
  BY DEF RecentInv
<1>1. ASSUME UNCHANGED <<now, was, rows>>
      PROVE  /\ \A s \in Scopes : <<now', s, rows'[s]>> \in was'
             /\ cache' = cache => CacheInv'
             /\ feeds' = feeds => FetchInv'
             /\ ops' = ops => GetInv'
  BY <1>0, <1>00, <1>1, HistoryGrows
<1>2. CASE UNCHANGED admissionVars
  BY <1>1, <1>2 DEF admissionVars, RecentInv
<1>3. CASE \E u \in Users, r \in Rooms, g \in Amounts, k \in 1 .. Len(feeds) + 1 :
              Arrive(u, r, g, k)
  <2>1. UNCHANGED <<now, was, rows, cache, ops>>
    BY <1>3 DEF Arrive, tables, admin
  <2>2. PICK f : Arrives(f)
    BY <1>3, ArriveArrives
  <2>3. /\ DOMAIN feeds' = DOMAIN feeds \cup {Len(feeds) + 1}
        /\ feeds'[Len(feeds) + 1] = f
        /\ \A j \in DOMAIN feeds : feeds'[j] = feeds[j]
    BY <2>2, ArrivesSeq DEF AdmType
  <2>4. f.row = None
    BY <2>2 DEF Arrives
  <2>5. \A j \in DOMAIN feeds : ScopeAt(j)' = ScopeAt(j)
    BY <2>3 DEF ScopeAt
  <2>6. FetchInv'
    BY <1>00, <2>1, <2>3, <2>4, <2>5 DEF FetchInv
  <2>7. QED
    BY <1>1, <2>1, <2>6 DEF RecentInv
<1>4. CASE \E i \in DOMAIN feeds : FeedStep(i)
  BY <1>4, FeedRecent
<1>5. CASE \/ \E s \in Scopes, l \in Puts : Ask("write", s, l)
           \/ Ask("read", Global, None)
           \/ \E w \in FlagWrites : SetFlag(w)
  <2>1. UNCHANGED <<now, was, rows, cache, feeds>>
    BY <1>5 DEF Ask, SetFlag, notAdmin
  <2>2. PICK q : ops' = Append(ops, q) /\ q.pc # "store"
    <3>1. ASSUME NEW kind \in {"write", "read"}, NEW s, NEW l, Ask(kind, s, l)
          PROVE  \E q : ops' = Append(ops, q) /\ q.pc # "store"
      <4>1. PICK p : p = CASE kind = "write" /\ s # Global -> "lock"
                           [] kind = "write" /\ s = Global -> "put"
                           [] kind = "read" -> "get"
        OBVIOUS
      <4>2. p # "store"
        BY <4>1
      <4>3. ops' = Append(ops, [scope |-> s, limits |-> l, pc |-> p])
        BY <3>1, <4>1 DEF Ask
      <4>4. QED
        BY <4>2, <4>3
    <3>2. ASSUME NEW w, SetFlag(w)
          PROVE  \E q : ops' = Append(ops, q) /\ q.pc # "store"
      BY <3>2 DEF SetFlag
    <3>3. QED
      BY <1>5, <3>1, <3>2
  <2>3. /\ DOMAIN ops' = DOMAIN ops \cup {Len(ops) + 1}
        /\ ops'[Len(ops) + 1] = q
        /\ \A j \in DOMAIN ops : ops'[j] = ops[j]
    BY <1>0, <2>2
  <2>4. GetInv'
    BY <1>00, <2>1, <2>2, <2>3 DEF GetInv
  <2>5. QED
    BY <1>1, <2>1, <2>4 DEF RecentInv
<1>6. ASSUME NEW o \in DOMAIN ops,
             \/ UpdatePolicy(o) \/ Upsert(o) \/ UpsertFails(o) \/ Invalidate(o)
             \/ GetQuery(o) \/ GetStore(o)
      PROVE  RecentInv'
  <2>0. ops[o] \in Op /\ ops[o].scope \in Scopes /\ UNCHANGED <<now, feeds>>
    <3>1. UNCHANGED <<now, feeds>>
      BY <1>6 DEF UpdatePolicy, Upsert, UpsertFails, Invalidate, GetQuery,
         GetStore, notAdmin
    <3>2. ops[o] \in Op
      BY <1>0
    <3>3. QED
      BY <3>1, <3>2 DEF Op
  <2>1. ASSUME NEW p \in OpPcs, p # "store", OneOp(o, p), was \subseteq was'
        PROVE  GetInv'
    <3>1. ASSUME NEW x \in DOMAIN ops', ops'[x].pc = "store"
          PROVE  WasRow(ops'[x].limits, ops'[x].scope, now', was')
      <4>1. x # o /\ x \in DOMAIN ops /\ ops'[x] = ops[x]
        BY <2>1, <3>1 DEF OneOp
      <4>2. WasRow(ops[x].limits, ops[x].scope, now, was)
        BY <1>00, <3>1, <4>1 DEF GetInv
      <4>3. QED
        BY <1>0, <2>0, <2>1, <4>1, <4>2, WasRowStays
    <3>2. QED
      BY <3>1 DEF GetInv
  <2>2. CASE UpdatePolicy(o) \/ UpsertFails(o)
    <3>1. PICK p \in OpPcs : p # "store" /\ OpTo(o, p)
      BY <2>2 DEF UpdatePolicy, UpsertFails, OpPcs
    <3>2. UNCHANGED <<was, rows, cache>>
      BY <2>2 DEF UpdatePolicy, UpsertFails
    <3>3. GetInv'
      BY <1>0, <2>1, <3>1, <3>2, OpWritten
    <3>4. QED
      BY <1>1, <2>0, <3>2, <3>3 DEF RecentInv
  <2>3. CASE Upsert(o)
    <3>1. OneOp(o, "invalidate")
      BY <1>0, <2>3, OpWritten DEF Upsert, OpPcs
    <3>2. PICK s, l : s = ops[o].scope /\ l = ops[o].limits
      OBVIOUS
    <3>3. /\ rows' = [rows EXCEPT ![s] = l] /\ was' = was \cup {<<now, s, l>>}
          /\ UNCHANGED cache
      BY <2>3, <3>2 DEF Upsert
    <3>4. GetInv'
      BY <2>1, <3>1, <3>3 DEF OpPcs
    <3>5. \A x \in Scopes : <<now', x, rows'[x]>> \in was'
      BY <1>0, <1>00, <2>0, <3>2, <3>3
    <3>6. CacheInv' /\ FetchInv'
      <4>1. now <= now' /\ was \subseteq was'
        BY <1>0, <2>0, <3>3
      <4>2. QED
        BY <1>0, <2>0, <3>3, <4>1, HistoryGrows
    <3>7. QED
      BY <3>4, <3>5, <3>6 DEF RecentInv
  <2>4. CASE Invalidate(o)
    <3>1. OneOp(o, "done")
      BY <1>0, <2>4, OpWritten DEF Invalidate, OpPcs
    <3>2. /\ UNCHANGED <<was, rows>>
          /\ cache' = [cache EXCEPT !["admin"][ops[o].scope] = Fresh]
      BY <2>4 DEF Invalidate
    <3>3. GetInv'
      BY <2>1, <3>1, <3>2 DEF OpPcs
    <3>4. PICK s \in Scopes : s = ops[o].scope
      BY <2>0
    <3>5. /\ cache'["admin"][s] = Fresh
          /\ \A q \in Services, t \in Scopes : q # "admin" \/ t # s => cache'[q][t] = cache[q][t]
      BY <1>0, <3>2, <3>4, CacheWritten, FreshIsEntry DEF Services
    <3>6. WasRow(Fresh, s, now, was)
      BY DEF WasRow, Fresh
    <3>7. CacheInv'
      BY <1>00, <2>0, <3>2, <3>5, <3>6 DEF CacheInv
    <3>8. QED
      BY <1>1, <2>0, <3>2, <3>3, <3>7 DEF RecentInv
  <2>5. CASE GetQuery(o)
    <3>1. UNCHANGED <<was, rows, cache>>
      BY <2>5 DEF GetQuery
    <3>2. PICK e, s : e = Cached(rows[s]) /\ s = ops[o].scope
      OBVIOUS
    <3>3. ops' = [ops EXCEPT ![o] = [ops[o] EXCEPT !.pc = "store", !.limits = e]]
      BY <2>5, <3>2 DEF GetQuery
    <3>4. /\ ops'[o].limits = e /\ ops'[o].scope = s /\ DOMAIN ops' = DOMAIN ops
          /\ \A x \in DOMAIN ops : x # o => ops'[x] = ops[x]
      BY <2>0, <3>2, <3>3 DEF Op
    <3>5. WasRow(e, s, now, was)
      BY <2>0, <3>2, ReadIsRecent
    <3>6. GetInv'
      BY <1>00, <2>0, <3>1, <3>4, <3>5 DEF GetInv
    <3>7. QED
      BY <1>1, <2>0, <3>1, <3>6 DEF RecentInv
  <2>6. CASE GetStore(o)
    <3>1. OneOp(o, "done")
      BY <1>0, <2>6, OpWritten DEF GetStore, OpPcs
    <3>2. PICK e, s : e = ops[o].limits /\ s = ops[o].scope
      OBVIOUS
    <3>3. /\ UNCHANGED <<was, rows>> /\ ops[o].pc = "store"
          /\ cache' = [cache EXCEPT !["admin"][s] = e]
      BY <2>6, <3>2 DEF GetStore, OpAt
    <3>4. GetInv'
      BY <2>1, <3>1, <3>3 DEF OpPcs
    <3>5. e \in Entry /\ s \in Scopes /\ "admin" \in Services /\ WasRow(e, s, now, was)
      BY <1>00, <2>0, <3>2, <3>3 DEF AdminInv, OpInv, Services, GetInv
    <3>6. /\ cache'["admin"][s] = e
          /\ \A q \in Services, t \in Scopes : q # "admin" \/ t # s => cache'[q][t] = cache[q][t]
      BY <1>0, <3>3, <3>5, CacheWritten
    <3>7. CacheInv'
      BY <1>00, <2>0, <3>3, <3>5, <3>6 DEF CacheInv
    <3>8. QED
      BY <1>1, <2>0, <3>3, <3>4, <3>7 DEF RecentInv
  <2>7. QED
    BY <1>6, <2>2, <2>3, <2>4, <2>5, <2>6
<1>7. CASE Refresh
  BY <1>1, <1>7 DEF Refresh, tables, admin, RecentInv
<1>8. CASE Tick
  <2>1. /\ now' = now + 1 /\ UNCHANGED <<rows, cache, feeds, ops>>
        /\ was' = was \cup {<<now', s, rows[s]>> : s \in Scopes}
    BY <1>8 DEF Tick, admin
  <2>2. now <= now' /\ was \subseteq was' /\ \A s \in Scopes : <<now', s, rows'[s]>> \in was'
    BY <1>0, <2>1
  <2>3. QED
    BY <1>0, <2>1, <2>2, HistoryGrows DEF RecentInv
<1>9. CASE Restart
  <2>1. UNCHANGED <<now, was, rows, ops>>
    BY <1>9 DEF Restart, tables, admin
  <2>2. cache' = [cache EXCEPT !["feeding"] = [s \in Scopes |-> Fresh]]
    BY <1>9 DEF Restart
  <2>3. CacheInv'
    <3>1. \A s \in Scopes : WasRow(Fresh, s, now, was)
      BY DEF WasRow, Fresh
    <3>2. \A s \in Scopes : cache'["feeding"][s] = Fresh /\ cache'["admin"][s] = cache["admin"][s]
      BY <1>0, <2>2 DEF Services
    <3>3. QED
      BY <1>00, <2>1, <3>1, <3>2 DEF CacheInv, Services
  <2>4. Restarts
    BY <1>9 DEF Restart, Restarts
  <2>5. FetchInv'
    <3>1. \A j \in DOMAIN feeds' : feeds'[j].pc \in Ended
      BY <2>4, RestartsSeq DEF AdmType
    <3>2. QED
      BY <3>1 DEF FetchInv, Ended
  <2>6. QED
    BY <1>1, <2>1, <2>3, <2>5 DEF RecentInv
<1>10. CASE AdminRestart
  <2>1. UNCHANGED <<now, was, rows, feeds>>
    BY <1>10 DEF AdminRestart, notAdmin
  <2>2. cache' = [cache EXCEPT !["admin"] = [s \in Scopes |-> Fresh]]
    BY <1>10 DEF AdminRestart
  <2>3. CacheInv'
    <3>1. \A s \in Scopes : WasRow(Fresh, s, now, was)
      BY DEF WasRow, Fresh
    <3>2. \A s \in Scopes : cache'["admin"][s] = Fresh /\ cache'["feeding"][s] = cache["feeding"][s]
      BY <1>0, <2>2 DEF Services
    <3>3. QED
      BY <1>00, <2>1, <3>1, <3>2 DEF CacheInv, Services
  <2>4. GetInv'
    <3>0. AdminRestart
      BY <1>10
    <3>1. DOMAIN ops' = DOMAIN ops /\ \A o \in DOMAIN ops : ops'[o].pc \in OpEnded
      BY <3>0, AdminRestartOps
    <3>2. QED
      BY <3>1 DEF GetInv, OpEnded
  <2>5. QED
    BY <1>1, <2>1, <2>3, <2>4 DEF RecentInv
<1>11. QED
  BY <1>2, <1>3, <1>4, <1>5, <1>6, <1>7, <1>8, <1>9, <1>10 DEF AdmissionNext, FeedNext,
     AdminNext, FeedStep
-----------------------------------------------------------------------------

(* The requests in their order *)

(* What no step changes of a request: who asked for what, and its outcome. *)
LEMMA FeedsKeep ==
    ASSUME FeedType, FeedSide
    PROVE  /\ DOMAIN feeds \subseteq DOMAIN feeds'
           /\ \A j \in DOMAIN feeds :
                 /\ feeds'[j].user = feeds[j].user /\ feeds'[j].room = feeds[j].room
                 /\ feeds'[j].amount = feeds[j].amount /\ feeds'[j].before = feeds[j].before
                 /\ feeds'[j].epoch = feeds[j].epoch
                 /\ feeds[j].pc \in Ended => feeds'[j] = feeds[j]
           /\ backend' = backend
           /\ now' \in {now, now + 1}
<1>1. CASE Rests
  BY <1>1 DEF Rests
<1>2. CASE Ticks
  BY <1>2 DEF Ticks
<1>3. CASE Restarts
  BY <1>3, RestartsSeq DEF Restarts
<1>4. CASE \E f : Arrives(f)
  BY <1>4, ArrivesSeq DEF Arrives
<1>5. CASE \E i \in DOMAIN feeds : FeedMoves(i)
  BY <1>5 DEF FeedMoves, OneMoves
<1>6. QED
  BY <1>1, <1>2, <1>3, <1>4, <1>5 DEF FeedSide

(* The parts of OrderInv for one request *)
ClockInv(i) == feeds[i].at <= now /\ feeds[i].epoch <= restarts
EpochInv(i) == feeds[i].pc \notin Ended => feeds[i].epoch = restarts
BeforeInv(i) == \A j \in feeds[i].before : j \in DOMAIN feeds /\ j < i /\ feeds[j].pc \in Ended
AfterInv(i) ==
    feeds[i].pc \in Passed \cup {"check"} =>
        \A j \in feeds[i].before : feeds[j].at <= feeds[i].at

(* The order of the requests, part by part. *)
LEMMA OrderParts ==
    OrderInv <=> \A i \in DOMAIN feeds :
                    ClockInv(i) /\ EpochInv(i) /\ BeforeInv(i) /\ AfterInv(i)
  BY DEF OrderInv, ClockInv, EpochInv, BeforeInv, AfterInv

(* Every step keeps the requests in order. *)
LEMMA OrderStep ==
    ASSUME FeedType, FeedSide, OrderInv
    PROVE  OrderInv'
<1>0. /\ now \in Nat /\ restarts \in Nat /\ DOMAIN feeds = 1 .. Len(feeds) /\ Len(feeds) \in Nat
      /\ \A i \in DOMAIN feeds : feeds[i] \in Feed
  BY DEF FeedType
<1>1. \A i \in DOMAIN feeds : /\ ClockInv(i) /\ EpochInv(i) /\ BeforeInv(i) /\ AfterInv(i)
                              /\ feeds[i].at \in Nat /\ feeds[i].epoch \in Nat
  BY <1>0, OrderParts DEF Feed
<1>2. /\ DOMAIN feeds \subseteq DOMAIN feeds'
      /\ \A j \in DOMAIN feeds :
            /\ feeds'[j].before = feeds[j].before /\ feeds'[j].epoch = feeds[j].epoch
            /\ feeds[j].pc \in Ended => feeds'[j] = feeds[j]
      /\ now' \in Nat /\ now <= now'
  BY <1>0, FeedsKeep
<1>3. \A i \in DOMAIN feeds : BeforeInv(i)'
  BY <1>1, <1>2 DEF BeforeInv
<1>4. ASSUME NEW i \in DOMAIN feeds
      PROVE  ClockInv(i)' /\ EpochInv(i)' /\ AfterInv(i)'
  <2>0. \A j \in feeds[i].before : j \in DOMAIN feeds /\ feeds'[j] = feeds[j] /\ feeds[j].at <= now
    BY <1>1, <1>2 DEF BeforeInv, ClockInv
  <2>1. CASE Rests
    BY <1>1, <1>4, <2>1 DEF Rests, ClockInv, EpochInv, AfterInv
  <2>2. CASE Ticks
    BY <1>0, <1>1, <1>4, <2>2 DEF Ticks, ClockInv, EpochInv, AfterInv
  <2>3. CASE Restarts
    <3>1. /\ feeds'[i].at = feeds[i].at /\ feeds'[i].epoch = feeds[i].epoch
          /\ feeds'[i].pc \in Ended /\ now' = now /\ restarts' = restarts + 1
          /\ feeds'[i].pc \in Passed \cup {"check"} => feeds'[i] = feeds[i]
      BY <1>4, <2>3, RestartsSeq DEF Restarts, Passed, Ended
    <3>2. ClockInv(i)' /\ EpochInv(i)'
      BY <1>0, <1>1, <1>4, <3>1 DEF ClockInv, EpochInv
    <3>3. AfterInv(i)'
      BY <1>1, <1>2, <1>4, <2>0, <3>1 DEF AfterInv
    <3>4. QED
      BY <3>2, <3>3
  <2>4. CASE \E f : Arrives(f)
    <3>1. feeds'[i] = feeds[i] /\ now' = now /\ restarts' = restarts
      BY <1>4, <2>4, ArrivesSeq DEF Arrives
    <3>2. QED
      BY <1>1, <1>4, <2>0, <3>1 DEF ClockInv, EpochInv, AfterInv
  <2>5. ASSUME NEW k \in DOMAIN feeds, FeedMoves(k)
        PROVE  ClockInv(i)' /\ EpochInv(i)' /\ AfterInv(i)'
    <3>1. OneMoves(k)
      BY <2>5 DEF FeedMoves
    <3>2. CASE i # k
      <4>1. feeds'[i] = feeds[i] /\ now' = now /\ restarts' = restarts
        BY <1>4, <3>1, <3>2 DEF OneMoves
      <4>2. QED
        BY <1>1, <1>4, <2>0, <4>1 DEF ClockInv, EpochInv, AfterInv
    <3>3. CASE i = k
      <4>1. /\ feeds'[i].epoch = feeds[i].epoch /\ feeds'[i].before = feeds[i].before
            /\ now' = now /\ restarts' = restarts /\ feeds[i].pc \notin Ended
        BY <3>1, <3>3 DEF OneMoves
      <4>2. feeds'[i].at \in {feeds[i].at, now}
        BY <2>5, <3>3 DEF FeedMoves, Walks, Ends, Resolves, Checks, ReadsDaily, WritesRoom,
           WritesUser, WritesDaily, Stays
      <4>3. ClockInv(i)' /\ EpochInv(i)'
        BY <1>0, <1>1, <4>1, <4>2 DEF ClockInv, EpochInv
      <4>4. feeds'[i].pc \in Passed \cup {"check"} =>
               \/ feeds'[i].at = now
               \/ feeds[i].pc \in Passed \cup {"check"} /\ feeds'[i].at = feeds[i].at
        BY <2>5, <3>3 DEF FeedMoves, Walks, Ends, Resolves, Checks, ReadsDaily, WritesRoom,
           WritesUser, WritesDaily, Stays, Passed
      <4>5. AfterInv(i)'
        BY <1>1, <2>0, <4>1, <4>4 DEF AfterInv
      <4>6. QED
        BY <4>3, <4>5
    <3>4. QED
      BY <3>2, <3>3
  <2>6. QED
    BY <2>1, <2>2, <2>3, <2>4, <2>5 DEF FeedSide
<1>5. ASSUME NEW f, Arrives(f)
      PROVE  OrderInv'
  <2>1. PICK n : n = Len(feeds) + 1
    OBVIOUS
  <2>2. /\ DOMAIN feeds' = DOMAIN feeds \cup {n} /\ feeds'[n] = f
        /\ \A j \in DOMAIN feeds : feeds'[j] = feeds[j] /\ j < n
    BY <1>5, <2>1, ArrivesSeq
  <2>3. /\ f.pc \in {"global", "rejected"} /\ f.at = 0 /\ f.before = Over /\ f.epoch = restarts
        /\ now' = now /\ restarts' = restarts
    BY <1>5 DEF Arrives
  <2>4. ClockInv(n)' /\ EpochInv(n)' /\ AfterInv(n)'
    BY <1>0, <2>2, <2>3 DEF ClockInv, EpochInv, AfterInv, Passed
  <2>5. BeforeInv(n)'
    BY <2>2, <2>3 DEF BeforeInv, Over
  <2>6. \A i \in DOMAIN feeds' : ClockInv(i)' /\ EpochInv(i)' /\ BeforeInv(i)' /\ AfterInv(i)'
    BY <1>3, <1>4, <2>2, <2>4, <2>5
  <2>7. QED
    BY <2>6 DEF OrderInv, ClockInv, EpochInv, BeforeInv, AfterInv
<1>6. CASE ~ \E f : Arrives(f)
  <2>1. DOMAIN feeds' = DOMAIN feeds
    BY <1>6, RestartsSeq DEF FeedSide, Rests, Ticks, FeedMoves, OneMoves
  <2>2. QED
    BY <1>3, <1>4, <2>1 DEF OrderInv, ClockInv, EpochInv, BeforeInv, AfterInv
<1>7. QED
  BY <1>5, <1>6
-----------------------------------------------------------------------------

(* Cooldowns *)

(* A request that is alone was alone before, and so was its store. *)
LEMMA AloneBack ==
    ASSUME FeedType, FeedSide, NEW j \in DOMAIN feeds, Alone(j)'
    PROVE  Alone(j)
<1>1. /\ DOMAIN feeds \subseteq DOMAIN feeds'
      /\ \A i \in DOMAIN feeds : feeds'[i].before = feeds[i].before
  BY FeedsKeep
<1>2. QED
  BY <1>1 DEF Alone

(* A request whose store is in use after a step had it before. *)
LEMMA LiveBack ==
    ASSUME FeedType, FeedSide, OrderInv, NEW j \in DOMAIN feeds, Live(feeds[j])'
    PROVE  Live(feeds[j]) /\ (Restarts => kv' = kv)
<1>1. feeds'[j].epoch = feeds[j].epoch /\ backend' = backend
  BY FeedsKeep
<1>2. feeds[j].epoch \in Nat /\ restarts \in Nat /\ feeds[j].epoch <= restarts
  <2>1. feeds[j] \in Feed /\ restarts \in Nat
    BY DEF FeedType
  <2>2. QED
    BY <2>1 DEF Feed, OrderInv
<1>3. backend' = "redis" \/ feeds'[j].epoch = restarts'
  BY DEF Live
<1>4. CASE Restarts
  <2>1. backend = "redis"
    BY <1>1, <1>2, <1>3, <1>4 DEF Restarts
  <2>2. kv' = kv
    BY <1>4, <2>1 DEF Restarts
  <2>3. QED
    BY <2>1, <2>2 DEF Live
<1>5. CASE ~Restarts
  <2>1. restarts' = restarts
    BY <1>5 DEF FeedSide, Rests, Ticks, Arrives, FeedMoves, OneMoves
  <2>2. QED
    BY <1>1, <1>3, <1>5, <2>1 DEF Live
<1>6. QED
  BY <1>4, <1>5

(* What a write does to a guard. *)
LEMMA GuardOther ==
    ASSUME NEW x, NEW v, NEW t, Writes(x, v, t), NEW k, k # x, NEW e, NEW n, Guarded(k, e, n, kv)
    PROVE  Guarded(k, e, n, kv')
  BY DEF Guarded, Writes

(* A key that is written guards until the end it was given. *)
LEMMA GuardSet ==
    ASSUME NEW x, NEW v, NEW t, Writes(x, v, t), NEW e, v >= e, t >= e, NEW n
    PROVE  Guarded(x, e, n, kv')
  BY DEF Guarded, Writes

(* An entry that guards is not removed before its end. *)
LEMMA GuardTick ==
    ASSUME FeedType, Ticks, NEW k, NEW e \in Nat, Guarded(k, e, now, kv)
    PROVE  Guarded(k, e, now', kv')
<1>1. now \in Nat /\ now' = now + 1
  BY DEF FeedType, Ticks
<1>2. CASE now >= e
  BY <1>1, <1>2 DEF Guarded
<1>3. CASE k \in DOMAIN kv /\ kv[k].val >= e /\ kv[k].expire >= e
  <2>1. kv[k].expire \in Nat
    BY <1>3 DEF FeedType
  <2>2. CASE kv[k].expire = 0 \/ now' <= kv[k].expire
    <3>1. k \in DOMAIN kv' /\ kv'[k] = kv[k]
      BY <1>3, <2>2 DEF Ticks
    <3>2. QED
      BY <1>3, <3>1 DEF Guarded
  <2>3. CASE ~(kv[k].expire = 0 \/ now' <= kv[k].expire)
    BY <1>1, <1>3, <2>1, <2>3 DEF Guarded
  <2>4. QED
    BY <2>2, <2>3
<1>4. QED
  BY <1>2, <1>3 DEF Guarded

(* The keys of the store do not get into each other's way. *)
LEMMA KeysDiffer ==
    \A f, g, k : /\ RoomKey(f) # UserKey(g) /\ RoomKey(f) # CatKey(g)
                 /\ UserKey(f) # CatKey(g)
                 /\ RoomKey(f) # IdemKey(k) /\ UserKey(f) # IdemKey(k)
                 /\ CatKey(f) # IdemKey(k)
  BY DEF RoomKey, UserKey, CatKey, IdemKey

(* Two requests share a room key or a user key only in the same room. *)
LEMMA KeysMeet ==
    \A f, g : /\ RoomKey(f) = RoomKey(g) <=> f.room = g.room
              /\ UserKey(f) = UserKey(g) <=> f.room = g.room /\ f.user = g.user
  BY DEF RoomKey, UserKey

(* A request that wrote has limits, and its two cooldowns end at a time. *)
LEMMA EndsAreTimes ==
    ASSUME FeedType, NEW i \in DOMAIN feeds, feeds[i].pc \in Passed \cup {"check"}
    PROVE  /\ feeds[i].limits.room \in Nat /\ feeds[i].limits.user \in Nat
           /\ feeds[i].limits.daily \in Nat /\ feeds[i].limits.daily > 0
           /\ feeds[i].at \in Nat
           /\ RoomEnd(feeds[i]) \in Nat /\ UserEnd(feeds[i]) \in Nat
           /\ RoomEnd(feeds[i]) = feeds[i].at + feeds[i].limits.room
           /\ UserEnd(feeds[i]) = feeds[i].at + feeds[i].limits.user
<1>1. feeds[i] \in Feed /\ feeds[i].limits \in SetLimits
  BY DEF FeedType
<1>2. feeds[i].at \in Nat
  BY <1>1 DEF Feed
<1>3. /\ feeds[i].limits.room \in Nat /\ feeds[i].limits.user \in Nat
      /\ feeds[i].limits.daily \in Nat /\ feeds[i].limits.daily > 0
  BY <1>1, PolicyAssumption DEF SetLimits
<1>4. QED
  BY <1>2, <1>3 DEF RoomEnd, UserEnd

(* Who writes over a key of a feed that ran alone came after it, and was let
   through after its cooldown. *)
LEMMA WriterCameLater ==
    ASSUME FeedType, OrderInv, LaterInv,
           NEW j \in DOMAIN feeds, Alone(j), Live(feeds[j]),
           feeds[j].pc \in {"setUser", "addDaily", "reserve", "accepted"},
           NEW k \in DOMAIN feeds, k # j, feeds[k].pc \in Passed, feeds[k].pc \notin Ended,
           feeds[k].room = feeds[j].room
    PROVE  /\ feeds[k].at >= RoomEnd(feeds[j])
           /\ feeds[k].user = feeds[j].user => feeds[k].at >= UserEnd(feeds[j])
<1>1. k \notin feeds[j].before
  BY DEF OrderInv
<1>2. j \in feeds[k].before
  BY <1>1 DEF Alone
<1>3. feeds[j].pc = "accepted"
  BY <1>2 DEF OrderInv, Ended
<1>4. SameLife(feeds[k], feeds[j])
  BY DEF SameLife, Live, OrderInv
<1>5. QED
  BY <1>2, <1>3, <1>4 DEF LaterInv

(* Every step keeps the cooldowns of a feed that ran alone in force. *)
LEMMA GuardStep ==
    ASSUME FeedType, FeedSide, OrderInv, GuardInv, LaterInv
    PROVE  GuardInv'
<1> SUFFICES ASSUME NEW j \in DOMAIN feeds', Alone(j)', Live(feeds[j])'
             PROVE  /\ feeds'[j].pc \in {"setUser", "addDaily", "reserve", "accepted"} =>
                          Guarded(RoomKey(feeds'[j]), RoomEnd(feeds'[j]), now', kv')
                    /\ feeds'[j].pc \in {"addDaily", "reserve", "accepted"} =>
                          Guarded(UserKey(feeds'[j]), UserEnd(feeds'[j]), now', kv')
  BY DEF GuardInv
<1>1. CASE j \notin DOMAIN feeds
  <2>1. PICK f : Arrives(f)
    BY <1>1, RestartsSeq DEF FeedSide, Rests, Ticks, FeedMoves, OneMoves
  <2>2. feeds'[j] = f
    BY <1>1, <2>1, ArrivesSeq
  <2>3. feeds'[j].pc \in {"global", "rejected"}
    BY <2>1, <2>2 DEF Arrives
  <2>4. QED
    BY <2>3
<1>2. CASE j \in DOMAIN feeds
  <2>1. Alone(j) /\ Live(feeds[j]) /\ (Restarts => kv' = kv)
    BY <1>2, AloneBack, LiveBack
  <2>2. /\ feeds[j].pc \in {"setUser", "addDaily", "reserve", "accepted"} =>
              Guarded(RoomKey(feeds[j]), RoomEnd(feeds[j]), now, kv)
        /\ feeds[j].pc \in {"addDaily", "reserve", "accepted"} =>
              Guarded(UserKey(feeds[j]), UserEnd(feeds[j]), now, kv)
    BY <1>2, <2>1 DEF GuardInv
  <2>3. CASE Rests
    BY <2>2, <2>3 DEF Rests
  <2>4. CASE Ticks
    <3>1. feeds'[j] = feeds[j]
      BY <2>4 DEF Ticks
    <3>2. feeds[j].pc \in {"setUser", "addDaily", "reserve", "accepted"} =>
             RoomEnd(feeds[j]) \in Nat /\ UserEnd(feeds[j]) \in Nat
      BY <1>2, EndsAreTimes DEF Passed
    <3>3. QED
      BY <2>2, <2>4, <3>1, <3>2, GuardTick
  <2>5. CASE Restarts
    <3>1. feeds[j].pc \notin Ended => feeds'[j].pc = "lost"
      BY <1>2, <2>5, RestartsSeq
    <3>2. feeds[j].pc \in Ended => feeds'[j] = feeds[j]
      BY <1>2, <2>5, RestartsSeq
    <3>3. now' = now /\ kv' = kv
      BY <2>1, <2>5 DEF Restarts
    <3>4. QED
      BY <2>2, <3>1, <3>2, <3>3
  <2>6. ASSUME NEW f, Arrives(f)
        PROVE  /\ feeds'[j].pc \in {"setUser", "addDaily", "reserve", "accepted"} =>
                     Guarded(RoomKey(feeds'[j]), RoomEnd(feeds'[j]), now', kv')
               /\ feeds'[j].pc \in {"addDaily", "reserve", "accepted"} =>
                     Guarded(UserKey(feeds'[j]), UserEnd(feeds'[j]), now', kv')
    <3>1. feeds'[j] = feeds[j] /\ now' = now
      BY <1>2, <2>6, ArrivesSeq DEF Arrives
    <3>2. CASE kv' = kv
      BY <2>2, <3>1, <3>2
    <3>3. CASE \E k : Set(IdemKey(k), 1, IdemTTL)
      <4>1. PICK k : Writes(IdemKey(k), 1, now + IdemTTL)
        BY <3>3, SetWrites
      <4>2. RoomKey(feeds[j]) # IdemKey(k) /\ UserKey(feeds[j]) # IdemKey(k)
        BY KeysDiffer
      <4>3. QED
        BY <2>2, <3>1, <4>1, <4>2, GuardOther
    <3>4. QED
      BY <2>6, <3>2, <3>3 DEF Arrives
  <2>7. ASSUME NEW k \in DOMAIN feeds, FeedMoves(k), k # j
        PROVE  /\ feeds'[j].pc \in {"setUser", "addDaily", "reserve", "accepted"} =>
                     Guarded(RoomKey(feeds'[j]), RoomEnd(feeds'[j]), now', kv')
               /\ feeds'[j].pc \in {"addDaily", "reserve", "accepted"} =>
                     Guarded(UserKey(feeds'[j]), UserEnd(feeds'[j]), now', kv')
    <3>1. feeds'[j] = feeds[j] /\ now' = now /\ feeds[k].pc \notin Ended
      BY <1>2, <2>7 DEF FeedMoves, OneMoves
    <3>2. CASE UNCHANGED kv
      BY <2>2, <3>1, <3>2
    <3>3. ASSUME feeds[k].pc \in Passed
          PROVE  /\ feeds[k].limits.room \in Nat /\ feeds[k].limits.user \in Nat
                 /\ feeds[k].at \in Nat /\ feeds[k].at <= now /\ now \in Nat
      BY <3>3, EndsAreTimes DEF OrderInv, FeedType
    <3>4. feeds[j].pc \in {"setUser", "addDaily", "reserve", "accepted"} =>
             RoomEnd(feeds[j]) \in Nat /\ UserEnd(feeds[j]) \in Nat
      BY <1>2, EndsAreTimes DEF Passed
    <3>5. CASE WritesRoom(k)
      <4>1. feeds[k].pc = "setRoom" /\ feeds[k].pc \in Passed
        BY <3>5 DEF WritesRoom, Passed
      <4>2. PICK v, t : /\ v = feeds[k].at + feeds[k].limits.room
                        /\ t = now + (feeds[k].limits.room + 1)
        OBVIOUS
      <4>3. Writes(RoomKey(feeds[k]), v, t)
        BY <3>5, <4>2, SetWrites DEF WritesRoom
      <4>4. Guarded(UserKey(feeds[j]), UserEnd(feeds[j]), now, kv) =>
               Guarded(UserKey(feeds[j]), UserEnd(feeds[j]), now, kv')
        BY <4>3, GuardOther, KeysDiffer
      <4>5. CASE feeds[k].room # feeds[j].room
        <5>1. RoomKey(feeds[k]) # RoomKey(feeds[j])
          BY <4>5, KeysMeet
        <5>2. QED
          BY <2>2, <3>1, <4>3, <4>4, <5>1, GuardOther
      <4>6. CASE feeds[k].room = feeds[j].room
        <5>1. ASSUME feeds[j].pc \in {"setUser", "addDaily", "reserve", "accepted"}
              PROVE  Guarded(RoomKey(feeds[j]), RoomEnd(feeds[j]), now, kv')
          <6>1. feeds[k].at >= RoomEnd(feeds[j])
            BY <1>2, <2>1, <2>7, <3>1, <4>1, <4>6, <5>1, WriterCameLater
          <6>2. v >= RoomEnd(feeds[j]) /\ t >= RoomEnd(feeds[j])
            BY <3>3, <3>4, <4>1, <4>2, <5>1, <6>1
          <6>3. RoomKey(feeds[k]) = RoomKey(feeds[j])
            BY <4>6, KeysMeet
          <6>4. QED
            BY <4>3, <6>2, <6>3, GuardSet
        <5>2. QED
          BY <2>2, <3>1, <4>4, <5>1
      <4>7. QED
        BY <4>5, <4>6
    <3>6. CASE WritesUser(k)
      <4>1. feeds[k].pc = "setUser" /\ feeds[k].pc \in Passed
        BY <3>6 DEF WritesUser, Passed
      <4>2. PICK v, t : /\ v = feeds[k].at + feeds[k].limits.user
                        /\ t = now + (feeds[k].limits.user + 1)
        OBVIOUS
      <4>3. Writes(UserKey(feeds[k]), v, t)
        BY <3>6, <4>2, SetWrites DEF WritesUser
      <4>4. Guarded(RoomKey(feeds[j]), RoomEnd(feeds[j]), now, kv) =>
               Guarded(RoomKey(feeds[j]), RoomEnd(feeds[j]), now, kv')
        BY <4>3, GuardOther, KeysDiffer
      <4>5. CASE ~(feeds[k].room = feeds[j].room /\ feeds[k].user = feeds[j].user)
        <5>1. UserKey(feeds[k]) # UserKey(feeds[j])
          BY <4>5, KeysMeet
        <5>2. QED
          BY <2>2, <3>1, <4>3, <4>4, <5>1, GuardOther
      <4>6. CASE feeds[k].room = feeds[j].room /\ feeds[k].user = feeds[j].user
        <5>1. ASSUME feeds[j].pc \in {"addDaily", "reserve", "accepted"}
              PROVE  Guarded(UserKey(feeds[j]), UserEnd(feeds[j]), now, kv')
          <6>1. feeds[k].at >= UserEnd(feeds[j])
            BY <1>2, <2>1, <2>7, <3>1, <4>1, <4>6, <5>1, WriterCameLater
          <6>2. v >= UserEnd(feeds[j]) /\ t >= UserEnd(feeds[j])
            BY <3>3, <3>4, <4>1, <4>2, <5>1, <6>1
          <6>3. UserKey(feeds[k]) = UserKey(feeds[j])
            BY <4>6, KeysMeet
          <6>4. QED
            BY <4>3, <6>2, <6>3, GuardSet
        <5>2. QED
          BY <2>2, <3>1, <4>4, <5>1
      <4>7. QED
        BY <4>5, <4>6
    <3>7. CASE WritesDaily(k)
      <4>1. PICK v, t : Writes(CatKey(feeds[k]), v, t)
        BY <3>7, DailyWrites
      <4>2. RoomKey(feeds[j]) # CatKey(feeds[k]) /\ UserKey(feeds[j]) # CatKey(feeds[k])
        BY KeysDiffer
      <4>3. QED
        BY <2>2, <3>1, <4>1, <4>2, GuardOther
    <3>8. QED
      BY <2>7, <3>2, <3>5, <3>6, <3>7 DEF FeedMoves, Walks, Ends, Resolves, Checks, ReadsDaily
  <2>8. ASSUME FeedMoves(j)
        PROVE  /\ feeds'[j].pc \in {"setUser", "addDaily", "reserve", "accepted"} =>
                     Guarded(RoomKey(feeds'[j]), RoomEnd(feeds'[j]), now', kv')
               /\ feeds'[j].pc \in {"addDaily", "reserve", "accepted"} =>
                     Guarded(UserKey(feeds'[j]), UserEnd(feeds'[j]), now', kv')
    <3>1. /\ feeds'[j].user = feeds[j].user /\ feeds'[j].room = feeds[j].room
          /\ now' = now /\ now \in Nat /\ feeds[j].at <= now
      BY <1>2, <2>8 DEF FeedMoves, OneMoves, FeedType, OrderInv
    <3>2. RoomKey(feeds'[j]) = RoomKey(feeds[j]) /\ UserKey(feeds'[j]) = UserKey(feeds[j])
      BY <3>1 DEF RoomKey, UserKey
    <3>3. Stays(j) => /\ RoomEnd(feeds'[j]) = RoomEnd(feeds[j])
                      /\ UserEnd(feeds'[j]) = UserEnd(feeds[j])
      BY DEF Stays, RoomEnd, UserEnd
    <3>4. CASE Walks(j)
      BY <2>2, <3>1, <3>2, <3>3, <3>4 DEF Walks
    <3>5. CASE Ends(j) \/ Resolves(j) \/ Checks(j) \/ ReadsDaily(j)
      BY <3>5 DEF Ends, Resolves, Checks, ReadsDaily
    <3>6. CASE WritesRoom(j)
      <4>1. feeds[j].pc \in Passed /\ Stays(j) /\ feeds'[j].pc = "setUser"
        BY <3>6 DEF WritesRoom, Passed
      <4>2. PICK v, t : /\ v = feeds[j].at + feeds[j].limits.room
                        /\ t = now + (feeds[j].limits.room + 1)
        OBVIOUS
      <4>3. Writes(RoomKey(feeds[j]), v, t)
        BY <3>6, <4>2, SetWrites DEF WritesRoom
      <4>4. v >= RoomEnd(feeds[j]) /\ t >= RoomEnd(feeds[j])
        BY <1>2, <3>1, <4>1, <4>2, EndsAreTimes
      <4>5. QED
        BY <3>1, <3>2, <3>3, <4>1, <4>3, <4>4, GuardSet
    <3>7. CASE WritesUser(j)
      <4>1. feeds[j].pc \in Passed /\ Stays(j) /\ feeds[j].pc = "setUser"
        BY <3>7 DEF WritesUser, Passed
      <4>2. PICK v, t : /\ v = feeds[j].at + feeds[j].limits.user
                        /\ t = now + (feeds[j].limits.user + 1)
        OBVIOUS
      <4>3. Writes(UserKey(feeds[j]), v, t)
        BY <3>7, <4>2, SetWrites DEF WritesUser
      <4>4. v >= UserEnd(feeds[j]) /\ t >= UserEnd(feeds[j])
        BY <1>2, <3>1, <4>1, <4>2, EndsAreTimes
      <4>5. Guarded(UserKey(feeds[j]), UserEnd(feeds[j]), now, kv')
        BY <4>3, <4>4, GuardSet
      <4>6. Guarded(RoomKey(feeds[j]), RoomEnd(feeds[j]), now, kv')
        BY <2>2, <4>1, <4>3, GuardOther, KeysDiffer
      <4>7. QED
        BY <3>1, <3>2, <3>3, <4>1, <4>5, <4>6
    <3>8. CASE WritesDaily(j)
      <4>1. Stays(j) /\ feeds[j].pc = "addDaily"
        BY <3>8 DEF WritesDaily
      <4>2. PICK v, t : Writes(CatKey(feeds[j]), v, t)
        BY <1>2, <3>8, DailyWrites
      <4>3. RoomKey(feeds[j]) # CatKey(feeds[j]) /\ UserKey(feeds[j]) # CatKey(feeds[j])
        BY KeysDiffer
      <4>4. /\ Guarded(RoomKey(feeds[j]), RoomEnd(feeds[j]), now, kv')
            /\ Guarded(UserKey(feeds[j]), UserEnd(feeds[j]), now, kv')
        BY <2>2, <4>1, <4>2, <4>3, GuardOther
      <4>5. QED
        BY <3>1, <3>2, <3>3, <4>1, <4>4
    <3>9. QED
      BY <2>8, <3>4, <3>5, <3>6, <3>7, <3>8 DEF FeedMoves
  <2>9. QED
    BY <2>3, <2>4, <2>5, <2>6, <2>7, <2>8 DEF FeedSide
<1>3. QED
  BY <1>1, <1>2

(* Whoever came later and was let through came after the cooldown. *)
LEMMA LaterStep ==
    ASSUME FeedType, FeedSide, OrderInv, GuardInv, LaterInv
    PROVE  LaterInv'
<1> SUFFICES ASSUME NEW i \in DOMAIN feeds', NEW j \in feeds'[i].before,
                    feeds'[i].pc \in Passed, feeds'[j].pc = "accepted", Alone(j)',
                    SameLife(feeds[i], feeds[j])', feeds'[i].room = feeds'[j].room
             PROVE  /\ feeds'[i].at >= RoomEnd(feeds'[j])
                    /\ feeds'[i].user = feeds'[j].user => feeds'[i].at >= UserEnd(feeds'[j])
  BY DEF LaterInv
<1>1. i \in DOMAIN feeds
  <2>1. CASE \E f : Arrives(f)
    <3>1. PICK f : Arrives(f)
      BY <2>1
    <3>2. i \notin DOMAIN feeds => feeds'[i] = f
      BY <3>1, ArrivesSeq
    <3>3. f.pc \notin Passed
      BY <3>1 DEF Arrives, Passed
    <3>4. QED
      BY <3>2, <3>3
  <2>2. CASE ~ \E f : Arrives(f)
    BY <2>2, RestartsSeq DEF FeedSide, Rests, Ticks, FeedMoves, OneMoves
  <2>3. QED
    BY <2>1, <2>2
<1>2. /\ feeds'[i].user = feeds[i].user /\ feeds'[i].room = feeds[i].room
      /\ feeds'[i].before = feeds[i].before /\ feeds'[i].epoch = feeds[i].epoch
      /\ backend' = backend
  BY <1>1, FeedsKeep
<1>3. j \in feeds[i].before /\ j \in DOMAIN feeds /\ feeds[j].pc \in Ended
  BY <1>1, <1>2 DEF OrderInv
<1>4. feeds'[j] = feeds[j]
  BY <1>3, FeedsKeep
<1>5. Alone(j) /\ SameLife(feeds[i], feeds[j]) /\ feeds[i].room = feeds[j].room
  BY <1>2, <1>3, <1>4, AloneBack DEF SameLife
<1>6. CASE feeds[i].pc \in Passed /\ feeds'[i].at = feeds[i].at
  BY <1>1, <1>2, <1>3, <1>4, <1>5, <1>6 DEF LaterInv
<1>7. CASE Checks(i)
  <2>1. feeds[i].pc = "check" /\ feeds'[i].at = now /\ ~CheckBlocks(feeds[i])
    BY <1>7 DEF Checks
  <2>2. Live(feeds[j])
    <3>1. feeds[i].epoch = restarts
      BY <1>1, <2>1 DEF OrderInv, Ended
    <3>2. QED
      BY <1>5, <3>1 DEF SameLife, Live
  <2>3. feeds[j].pc = "accepted"
    BY <1>4
  <2>4. /\ Guarded(RoomKey(feeds[j]), RoomEnd(feeds[j]), now, kv)
        /\ Guarded(UserKey(feeds[j]), UserEnd(feeds[j]), now, kv)
    BY <1>3, <1>5, <2>2, <2>3 DEF GuardInv
  <2>5. /\ RoomEnd(feeds[j]) \in Nat /\ UserEnd(feeds[j]) \in Nat
        /\ feeds[i].at \in Nat /\ feeds[i].at <= now /\ now \in Nat
    BY <1>1, <1>3, <2>1, <2>3, EndsAreTimes DEF Passed, OrderInv, FeedType
  <2>6. ~Busy(RoomKey(feeds[i]), feeds[i].at) /\ ~Busy(UserKey(feeds[i]), feeds[i].at)
    BY <2>1 DEF CheckBlocks
  <2>7. ASSUME NEW k, NEW e \in Nat, Guarded(k, e, now, kv), ~Busy(k, feeds[i].at)
        PROVE  now >= e
    <3>1. CASE k \in DOMAIN kv /\ kv[k].val >= e
      <4>1. kv[k].val \in Nat
        BY <3>1 DEF FeedType
      <4>2. ~(feeds[i].at < kv[k].val)
        BY <2>7, <3>1 DEF Busy, Has
      <4>3. QED
        BY <2>5, <3>1, <4>1, <4>2
    <3>2. QED
      BY <2>7, <3>1 DEF Guarded
  <2>8. RoomKey(feeds[i]) = RoomKey(feeds[j])
    BY <1>5, KeysMeet
  <2>9. now >= RoomEnd(feeds[j])
    BY <2>4, <2>5, <2>6, <2>7, <2>8
  <2>10. ASSUME feeds[i].user = feeds[j].user
         PROVE  now >= UserEnd(feeds[j])
    <3>1. UserKey(feeds[i]) = UserKey(feeds[j])
      BY <1>5, <2>10, KeysMeet
    <3>2. QED
      BY <2>4, <2>5, <2>6, <2>7, <3>1
  <2>11. feeds'[j].user = feeds[j].user
    BY <1>4
  <2>12. QED
    BY <1>2, <1>4, <2>1, <2>9, <2>10, <2>11
<1>8. \/ feeds[i].pc \in Passed /\ feeds'[i].at = feeds[i].at
      \/ Checks(i)
  <2>1. CASE Rests
    BY <2>1 DEF Rests
  <2>2. CASE Ticks
    BY <2>2 DEF Ticks
  <2>3. CASE Restarts
    BY <1>1, <2>3, RestartsSeq DEF Passed, Ended
  <2>4. CASE \E f : Arrives(f)
    BY <1>1, <2>4, ArrivesSeq
  <2>5. ASSUME NEW k \in DOMAIN feeds, FeedMoves(k)
        PROVE  \/ feeds[i].pc \in Passed /\ feeds'[i].at = feeds[i].at
               \/ Checks(i)
    <3>1. CASE k # i
      BY <1>1, <2>5, <3>1 DEF FeedMoves, OneMoves
    <3>2. CASE k = i
      BY <2>5, <3>2 DEF FeedMoves, Walks, Ends, Resolves, ReadsDaily, WritesRoom,
         WritesUser, WritesDaily, Stays, Passed
    <3>3. QED
      BY <3>1, <3>2
  <2>6. QED
    BY <2>1, <2>2, <2>3, <2>4, <2>5 DEF FeedSide
<1>9. QED
  BY <1>6, <1>7, <1>8
-----------------------------------------------------------------------------

(* The daily limit *)

(* A day ends at midnight, and later times are on later days. *)
LEMMA DayFacts ==
           /\ \A t \in Nat : Day(t) \in Nat /\ t < (Day(t) + 1) * DayLength
           /\ \A s, t \in Nat : s <= t => Day(s) <= Day(t)
           /\ \A d \in Nat : (d + 1) * DayLength \in Nat
<1>1. DayLength \in Nat /\ DayLength > 0
  BY AdmissionAssumption
<1>2. ASSUME NEW t \in Nat
      PROVE  /\ Day(t) \in Nat /\ Day(t) * DayLength <= t
             /\ t < (Day(t) + 1) * DayLength
  BY <1>1 DEF Day
<1>3. ASSUME NEW s \in Nat, NEW t \in Nat, s <= t
      PROVE  Day(s) <= Day(t)
  <2>1. SUFFICES ASSUME Day(t) + 1 <= Day(s) PROVE FALSE
    BY <1>2
  <2>2. PICK a \in Nat, b \in Nat : a = Day(s) /\ b = Day(t)
    BY <1>2
  <2>3. (b + 1) * DayLength <= a * DayLength
    BY <1>1, <2>1, <2>2
  <2>4. a * DayLength <= s /\ t < (b + 1) * DayLength
    BY <1>2, <2>2
  <2>5. a * DayLength \in Nat /\ (b + 1) * DayLength \in Nat
    BY <1>1, <2>2
  <2>6. QED
    BY <1>3, <2>3, <2>4, <2>5
<1>4. \A d \in Nat : (d + 1) * DayLength \in Nat
  BY <1>1
<1>5. QED
  BY <1>2, <1>3, <1>4

(* What the keys of the store say. *)
LEMMA KeyParts ==
    /\ \A f : CatKey(f)[1] = "cat" /\ CatKey(f)[3] = Day(f.at)
    /\ \A f : CatKey(f) = DayKey(f.room, Day(f.at))
    /\ \A f, r, d : CatKey(f) = DayKey(r, d) => Day(f.at) = d
    /\ \A f : RoomKey(f)[1] # "cat" /\ UserKey(f)[1] # "cat"
    /\ \A k : IdemKey(k)[1] # "cat"
    /\ \A r, d : DayKey(r, d)[1] = "cat" /\ DayKey(r, d)[3] = d
  BY DEF CatKey, RoomKey, UserKey, IdemKey, DayKey

(* A write changes the value of its own key only. *)
LEMMA ValWritten ==
    ASSUME NEW x, NEW v, NEW t, Writes(x, v, t)
    PROVE  /\ ValIn(kv', x) = v
           /\ \A k : k # x => ValIn(kv', k) = ValIn(kv, k)
  BY DEF Writes, ValIn

(* Values are numbers. *)
LEMMA ValType ==
    ASSUME FeedType, NEW k
    PROVE  ValIn(kv, k) \in Nat /\ Val(k) = ValIn(kv, k)
  BY DEF FeedType, ValIn, Val, Has

(* Every write to the store but a request's count is to another kind of key. *)
LEMMA StoreSteps ==
    ASSUME FeedType, FeedSide
    PROVE  \/ kv' = kv
           \/ Ticks
           \/ Restarts /\ kv' = << >>
           \/ \E x, v, t : x[1] # "cat" /\ Writes(x, v, t) /\ ~ \E i \in DOMAIN feeds : WritesDaily(i)
           \/ \E i \in DOMAIN feeds : OneMoves(i) /\ WritesDaily(i)
<1>1. CASE Restarts
  BY <1>1 DEF Restarts
<1>2. ASSUME NEW f, Arrives(f)
      PROVE  kv' = kv \/ \E x, v, t : x[1] # "cat" /\ Writes(x, v, t)
  BY <1>2, SetWrites, KeyParts DEF Arrives
<1>3. ASSUME NEW i \in DOMAIN feeds, WritesRoom(i) \/ WritesUser(i)
      PROVE  \E x, v, t : x[1] # "cat" /\ Writes(x, v, t)
  BY <1>3, SetWrites, KeyParts DEF WritesRoom, WritesUser
<1>4. ASSUME NEW f, Arrives(f), NEW i \in DOMAIN feeds, WritesDaily(i)
      PROVE  FALSE
  <2>1. feeds'[i] = feeds[i]
    BY <1>4, ArrivesSeq
  <2>2. QED
    BY <1>4, <2>1 DEF WritesDaily
<1>5. ASSUME NEW i \in DOMAIN feeds, OneMoves(i), WritesRoom(i) \/ WritesUser(i),
             NEW k \in DOMAIN feeds, WritesDaily(k)
      PROVE  FALSE
  <2>1. CASE k = i
    BY <1>5, <2>1 DEF WritesDaily, WritesRoom, WritesUser
  <2>2. CASE k # i
    BY <1>5, <2>2 DEF WritesDaily, OneMoves
  <2>3. QED
    BY <2>1, <2>2
<1>6. CASE \E i \in DOMAIN feeds : FeedMoves(i)
  BY <1>3, <1>5, <1>6 DEF FeedMoves, Walks, Ends, Resolves, Checks, ReadsDaily
<1>7. QED
  BY <1>1, <1>2, <1>4, <1>6 DEF FeedSide, Rests

(* No counter of a cat is removed before its day is over. *)
LEMMA OutlivesStep ==
    ASSUME FeedType, FeedSide, OutlivesInv
    PROVE  OutlivesInv'
<1>1. CASE kv' = kv
  BY <1>1 DEF OutlivesInv
<1>2. CASE Ticks
  BY <1>2 DEF Ticks, OutlivesInv
<1>3. CASE kv' = << >>
  BY <1>3 DEF OutlivesInv
<1>4. CASE \E x, v, t : x[1] # "cat" /\ Writes(x, v, t)
  BY <1>4 DEF OutlivesInv, Writes
<1>5. ASSUME NEW i \in DOMAIN feeds, WritesDaily(i)
      PROVE  OutlivesInv'
  <2>1. PICK e \in Nat :
           /\ Writes(CatKey(feeds[i]), Val(CatKey(feeds[i])) + feeds[i].amount, e)
           /\ \/ e = 0 \/ e = Midnight(feeds[i].at)
              \/ Has(CatKey(feeds[i])) /\ e = kv[CatKey(feeds[i])].expire
    BY <1>5, DailyWrites
  <2>2. PICK x : x = CatKey(feeds[i])
    OBVIOUS
  <2>3. x[1] = "cat" /\ x[3] = Day(feeds[i].at)
    BY <2>2, KeyParts
  <2>4. feeds[i].at \in Nat
    <3>1. feeds[i] \in Feed
      BY DEF FeedType
    <3>2. QED
      BY <3>1 DEF Feed
  <2>5. Midnight(feeds[i].at) = (x[3] + 1) * DayLength /\ (x[3] + 1) * DayLength \in Nat
    BY <2>3, <2>4, DayFacts DEF Midnight
  <2>6. e = 0 \/ e >= (x[3] + 1) * DayLength
    BY <2>1, <2>2, <2>3, <2>5 DEF OutlivesInv, Has
  <2>7. QED
    BY <2>1, <2>2, <2>6 DEF OutlivesInv, Writes
<1>6. QED
  BY <1>1, <1>2, <1>3, <1>4, <1>5, StoreSteps

(* A set of requests has the same grams after a step as before. *)
LEMMA GramsKept ==
    ASSUME FeedType, FeedSide, NEW S \in SUBSET DOMAIN feeds
    PROVE  /\ GramsOf(feeds', S) = GramsOf(feeds, S)
           /\ GramsOf(feeds, S) \in Nat /\ IsFiniteSet(S) /\ S \in SUBSET DOMAIN feeds'
<1>1. /\ DOMAIN feeds \subseteq DOMAIN feeds'
      /\ \A j \in DOMAIN feeds : feeds'[j].amount = feeds[j].amount
  BY FeedsKeep
<1>2. IsFiniteSet(S) /\ \A i \in S : feeds[i].amount \in Nat
  BY AmountIsNat, FS_Subset
<1>3. GramsOf(feeds, S) = GramsOf(feeds', S)
  <2>1. PICK fs, gs : fs = feeds /\ gs = feeds'
    OBVIOUS
  <2>2. GramsOf(fs, S) = GramsOf(gs, S)
    BY <1>1, <2>1, GramsSame
  <2>3. QED
    BY <2>1, <2>2
<1>4. GramsOf(feeds, S) \in Nat
  BY <1>2, GramsType
<1>5. QED
  BY <1>1, <1>2, <1>3, <1>4

(* A larger set of requests has more grams, before a step or across it. *)
LEMMA GramsGrow ==
    ASSUME FeedType, FeedType', FeedSide,
           NEW S \in SUBSET DOMAIN feeds, NEW T \in SUBSET DOMAIN feeds', S \subseteq T
    PROVE  /\ GramsOf(feeds, S) <= GramsOf(feeds', T)
           /\ GramsOf(feeds, S) \in Nat /\ GramsOf(feeds', T) \in Nat
<1>1. GramsOf(feeds', S) = GramsOf(feeds, S) /\ GramsOf(feeds, S) \in Nat
  BY GramsKept
<1>2. IsFiniteSet(DOMAIN feeds') /\ \A i \in DOMAIN feeds' : feeds'[i].amount \in Nat
  <2>1. DOMAIN feeds' = 1 .. Len(feeds') /\ Len(feeds') \in Nat
    BY DEF FeedType
  <2>2. \A i \in DOMAIN feeds' : feeds'[i].amount \in Amounts
    <3>1. \A i \in DOMAIN feeds' : feeds'[i] \in Feed
      BY DEF FeedType
    <3>2. QED
      BY <3>1 DEF Feed
  <2>3. IsFiniteSet(1 .. Len(feeds'))
    BY <2>1, FS_Interval
  <2>4. \A g \in Amounts : g \in Nat
    BY PolicyAssumption, AdmissionAssumption
  <2>5. QED
    BY <2>1, <2>2, <2>3, <2>4
<1>3. IsFiniteSet(T) /\ \A i \in T : feeds'[i].amount \in Nat
  BY <1>2, FS_Subset
<1>4. PICK gs : gs = feeds'
  OBVIOUS
<1>5. GramsOf(gs, S) <= GramsOf(gs, T) /\ GramsOf(gs, T) \in Nat
  BY <1>3, <1>4, GramsMono
<1>6. QED
  BY <1>1, <1>4, <1>5

(* A part of a set of requests has no more grams, in any state. *)
LEMMA GramsWithin ==
    ASSUME FeedType, NEW T \in SUBSET DOMAIN feeds, NEW S \in SUBSET T
    PROVE  /\ GramsOf(feeds, S) <= GramsOf(feeds, T)
           /\ GramsOf(feeds, S) \in Nat /\ GramsOf(feeds, T) \in Nat
<1>1. IsFiniteSet(T) /\ \A i \in T : feeds[i].amount \in Nat
  BY AmountIsNat, FS_Subset
<1>2. QED
  BY <1>1, GramsMono

(* One request more adds its grams, in any state. *)
LEMMA GramsPlus ==
    ASSUME FeedType, NEW S \in SUBSET DOMAIN feeds, NEW i \in DOMAIN feeds, i \notin S
    PROVE  GramsOf(feeds, S \cup {i}) = GramsOf(feeds, S) + feeds[i].amount
<1>1. IsFiniteSet(S) /\ \A j \in DOMAIN feeds : feeds[j].amount \in Nat
  BY AmountIsNat, FS_Subset
<1>2. QED
  BY <1>1, GramsAdd

(* The counters hold no more than was given to them. *)
LEMMA MostStep ==
    ASSUME FeedType, FeedType', FeedSide, MostInv
    PROVE  MostInv'
<1>1. SpentIn(feeds) \subseteq SpentIn(feeds')
  <2>1. ASSUME NEW j \in DOMAIN feeds, feeds[j].pc \notin Unpaid
        PROVE  j \in DOMAIN feeds' /\ feeds'[j].pc \notin Unpaid
    <3>1. CASE feeds[j].pc \in Ended
      BY <2>1, <3>1, FeedsKeep
    <3>2. CASE feeds[j].pc \notin Ended
      <4>1. feeds[j].pc = "reserve"
        <5>1. feeds[j] \in Feed
          BY DEF FeedType
        <5>2. feeds[j].pc \in FeedPcs
          BY <5>1 DEF Feed
        <5>3. QED
          BY <2>1, <3>2, <5>2 DEF FeedPcs
      <4>2. CASE Rests \/ Ticks
        BY <2>1, <4>2 DEF Rests, Ticks
      <4>3. CASE Restarts
        BY <3>2, <4>3, RestartsSeq DEF Unpaid, Before, Passed
      <4>4. CASE \E f : Arrives(f)
        BY <2>1, <4>4, ArrivesSeq
      <4>5. ASSUME NEW i \in DOMAIN feeds, FeedMoves(i)
            PROVE  j \in DOMAIN feeds' /\ feeds'[j].pc \notin Unpaid
        <5>1. CASE i # j
          BY <2>1, <4>5, <5>1 DEF FeedMoves, OneMoves
        <5>2. CASE i = j
          BY <4>1, <4>5, <5>2 DEF FeedMoves, OneMoves, Walks, Ends, Resolves, Checks, ReadsDaily,
             WritesRoom, WritesUser, WritesDaily, Unpaid, Before, Passed
        <5>3. QED
          BY <5>1, <5>2
      <4>6. QED
        BY <4>2, <4>3, <4>4, <4>5 DEF FeedSide
    <3>3. QED
      BY <3>1, <3>2
  <2>2. QED
    BY <2>1 DEF SpentIn
<1>2. PICK a, b : a = GramsOf(feeds, SpentIn(feeds)) /\ b = GramsOf(feeds', SpentIn(feeds'))
  OBVIOUS
<1>3. a <= b /\ a \in Nat /\ b \in Nat
  <2>1. SpentIn(feeds) \in SUBSET DOMAIN feeds /\ SpentIn(feeds') \in SUBSET DOMAIN feeds'
    BY DEF SpentIn
  <2>2. QED
    BY <1>1, <1>2, <2>1, GramsGrow
<1>4. SUFFICES \A k \in DOMAIN kv' : k[1] = "cat" => kv'[k].val <= b
  BY <1>2 DEF MostInv
<1>5. \A k \in DOMAIN kv : k[1] = "cat" => kv[k].val <= a /\ kv[k].val \in Nat
  BY <1>2 DEF MostInv, FeedType
<1>6. CASE kv' = kv
  BY <1>3, <1>5, <1>6
<1>7. CASE Ticks
  BY <1>3, <1>5, <1>7 DEF Ticks
<1>8. CASE kv' = << >>
  BY <1>8
<1>9. CASE \E x, v, t : x[1] # "cat" /\ Writes(x, v, t)
  BY <1>3, <1>5, <1>9 DEF Writes
<1>10. ASSUME NEW i \in DOMAIN feeds, OneMoves(i), WritesDaily(i)
       PROVE  \A k \in DOMAIN kv' : k[1] = "cat" => kv'[k].val <= b
  <2>1. PICK x : x = CatKey(feeds[i])
    OBVIOUS
  <2>2. PICK v, e : v = Val(x) + feeds[i].amount /\ Writes(x, v, e)
    BY <1>10, <2>1, DailyWrites
  <2>3. Val(x) \in Nat /\ Val(x) <= a
    <3>1. x[1] = "cat"
      BY <2>1, KeyParts
    <3>2. QED
      BY <1>3, <1>5, <3>1 DEF Val, Has
  <2>4. feeds[i].amount \in Nat
    BY AmountIsNat
  <2>5. a + feeds[i].amount <= b
    <3>1. i \notin SpentIn(feeds) /\ SpentIn(feeds) \in SUBSET DOMAIN feeds
      BY <1>10 DEF SpentIn, WritesDaily, Unpaid, Passed
    <3>2. GramsOf(feeds, SpentIn(feeds) \cup {i}) = a + feeds[i].amount
      BY <1>2, <3>1, GramsPlus
    <3>3. i \in SpentIn(feeds') /\ SpentIn(feeds') \in SUBSET DOMAIN feeds'
      BY <1>10 DEF SpentIn, OneMoves, WritesDaily, Unpaid, Before, Passed
    <3>4. PICK S : S = SpentIn(feeds) \cup {i}
      OBVIOUS
    <3>5. S \in SUBSET DOMAIN feeds /\ S \subseteq SpentIn(feeds')
      BY <1>1, <3>1, <3>3, <3>4
    <3>6. GramsOf(feeds, S) <= GramsOf(feeds', SpentIn(feeds'))
      BY <3>3, <3>5, GramsGrow
    <3>7. QED
      BY <1>2, <3>2, <3>4, <3>6
  <2>6. v <= b
    BY <1>3, <2>2, <2>3, <2>4, <2>5
  <2>7. QED
    BY <1>3, <1>5, <2>2, <2>6 DEF Writes
<1>11. QED
  BY <1>6, <1>7, <1>8, <1>9, <1>10, StoreSteps

(* Nobody is added to those who took from a counter but by counting. *)
LEMMA TakenBack ==
    ASSUME FeedType, FeedSide, OrderInv, NEW k,
           NEW j \in TakenIn(feeds', backend', restarts', k),
           ~(j \in DOMAIN feeds /\ OneMoves(j) /\ WritesDaily(j))
    PROVE  /\ j \in TakenIn(feeds, backend, restarts, k)
           /\ Restarts => kv' = kv
<1>1. /\ j \in DOMAIN feeds' /\ feeds'[j].pc \in {"reserve", "accepted"}
      /\ CatKey(feeds'[j]) = k /\ (backend' = "redis" \/ feeds'[j].epoch = restarts')
  BY DEF TakenIn, Consumed
<1>2. j \in DOMAIN feeds
  <2>1. CASE \E f : Arrives(f)
    <3>1. PICK f : Arrives(f)
      BY <2>1
    <3>2. j \notin DOMAIN feeds => feeds'[j] = f
      BY <1>1, <3>1, ArrivesSeq
    <3>3. f.pc \notin {"reserve", "accepted"}
      BY <3>1 DEF Arrives
    <3>4. QED
      BY <1>1, <3>2, <3>3
  <2>2. CASE ~ \E f : Arrives(f)
    BY <1>1, <2>2, RestartsSeq DEF FeedSide, Rests, Ticks, FeedMoves, OneMoves
  <2>3. QED
    BY <2>1, <2>2
<1>3. Live(feeds[j])'
  BY <1>1 DEF Live
<1>4. Live(feeds[j]) /\ (Restarts => kv' = kv)
  BY <1>2, <1>3, LiveBack
<1>5. /\ feeds[j].pc \in {"reserve", "accepted"} /\ feeds'[j].at = feeds[j].at
      /\ feeds'[j].room = feeds[j].room
  <2>0. feeds'[j].room = feeds[j].room
    BY <1>2, FeedsKeep
  <2>1. CASE Rests \/ Ticks
    BY <1>1, <2>1 DEF Rests, Ticks
  <2>2. CASE Restarts
    BY <1>1, <1>2, <2>2, RestartsSeq
  <2>3. CASE \E f : Arrives(f)
    BY <1>1, <1>2, <2>3, ArrivesSeq
  <2>4. ASSUME NEW i \in DOMAIN feeds, FeedMoves(i)
        PROVE  feeds[j].pc \in {"reserve", "accepted"} /\ feeds'[j].at = feeds[j].at
    <3>1. CASE i # j
      BY <1>1, <1>2, <2>4, <3>1 DEF FeedMoves, OneMoves
    <3>2. CASE i = j
      BY <1>1, <1>2, <2>4, <3>2 DEF FeedMoves, Walks, Ends, Resolves, Checks, ReadsDaily,
         WritesRoom, WritesUser, Stays
    <3>3. QED
      BY <3>1, <3>2
  <2>5. QED
    BY <2>0, <2>1, <2>2, <2>3, <2>4 DEF FeedSide
<1>6. CatKey(feeds[j]) = k
  BY <1>1, <1>5 DEF CatKey
<1>7. QED
  BY <1>2, <1>4, <1>5, <1>6 DEF TakenIn, Consumed, Live

(* Today's counters hold what was taken. *)
LEMMA LeastStep ==
    ASSUME FeedType, FeedType', FeedSide, OrderInv, OutlivesInv, LeastInv
    PROVE  LeastInv'
<1> SUFFICES ASSUME NEW r \in Rooms
             PROVE  GramsOf(feeds', TakenIn(feeds', backend', restarts', DayKey(r, Day(now'))))
                       <= ValIn(kv', DayKey(r, Day(now')))
  BY DEF LeastInv, Rooms
<1>1. now \in Nat /\ now' \in Nat /\ now <= now'
  BY FeedsKeep DEF FeedType
<1>2. PICK k : k = DayKey(r, Day(now'))
  OBVIOUS
<1>3. PICK T : T = TakenIn(feeds', backend', restarts', k)
  OBVIOUS
<1>4. PICK S : S = TakenIn(feeds, backend, restarts, k)
  OBVIOUS
<1>5. T \in SUBSET DOMAIN feeds' /\ S \in SUBSET DOMAIN feeds
  BY <1>3, <1>4 DEF TakenIn
<1>6. ValIn(kv', k) \in Nat /\ ValIn(kv, k) \in Nat
  BY DEF ValIn, FeedType
<1>7. SUFFICES GramsOf(feeds', T) <= ValIn(kv', k)
  BY <1>2, <1>3
<1>8. CASE T = {}
  BY <1>6, <1>8, GramsNone
<1>9. ASSUME NEW i \in DOMAIN feeds, OneMoves(i), WritesDaily(i)
      PROVE  GramsOf(feeds', T) <= ValIn(kv', k)
  <2>1. now' = now /\ backend' = backend /\ restarts' = restarts
    BY <1>9 DEF OneMoves
  <2>2. GramsOf(feeds, S) <= ValIn(kv, k)
    BY <1>2, <1>4, <2>1 DEF LeastInv
  <2>3. PICK x : x = CatKey(feeds[i])
    OBVIOUS
  <2>4. PICK v, e : v = ValIn(kv, x) + feeds[i].amount /\ Writes(x, v, e)
    BY <1>9, <2>3, DailyWrites, ValType
  <2>5. T \subseteq S \cup {i}
    <3>1. ASSUME NEW j \in T, j # i PROVE j \in S
      <4>1. ~(j \in DOMAIN feeds /\ OneMoves(j) /\ WritesDaily(j))
        BY <1>9, <3>1 DEF OneMoves, WritesDaily
      <4>2. QED
        BY <1>3, <1>4, <3>1, <4>1, TakenBack
    <3>2. QED
      BY <3>1
  <2>6. i \notin S
    BY <1>4, <1>9 DEF TakenIn, Consumed, WritesDaily
  <2>7. CatKey(feeds'[i]) = x
    BY <1>9, <2>3 DEF OneMoves, WritesDaily, Stays, CatKey
  <2>8. DOMAIN feeds' = DOMAIN feeds
    BY <1>9 DEF OneMoves
  <2>9. CASE x = k
    <3>1. PICK U : U = S \cup {i}
      OBVIOUS
    <3>2. U \in SUBSET DOMAIN feeds /\ T \subseteq U
      BY <1>5, <2>5, <3>1
    <3>3. GramsOf(feeds', T) = GramsOf(feeds, T) /\ T \in SUBSET U
      BY <1>5, <2>8, <3>2, GramsKept
    <3>4. GramsOf(feeds, T) <= GramsOf(feeds, U) /\ GramsOf(feeds, T) \in Nat
      BY <3>2, <3>3, GramsWithin
    <3>5. GramsOf(feeds, U) = GramsOf(feeds, S) + feeds[i].amount
      BY <1>5, <2>6, <3>1, GramsPlus
    <3>6. GramsOf(feeds, S) \in Nat /\ feeds[i].amount \in Nat
      BY <1>5, GramsKept, AmountIsNat
    <3>7. ValIn(kv', k) = ValIn(kv, k) + feeds[i].amount
      BY <2>4, <2>9, ValWritten
    <3>8. QED
      BY <1>6, <2>2, <3>3, <3>4, <3>5, <3>6, <3>7
  <2>10. CASE x # k
    <3>1. i \notin T
      BY <1>3, <2>7, <2>10 DEF TakenIn
    <3>2. T \in SUBSET S
      BY <2>5, <3>1
    <3>3. GramsOf(feeds', T) = GramsOf(feeds, T)
      BY <1>5, <2>8, GramsKept
    <3>4. GramsOf(feeds, T) <= GramsOf(feeds, S) /\ GramsOf(feeds, T) \in Nat /\ GramsOf(feeds, S) \in Nat
      BY <1>5, <3>2, GramsWithin
    <3>5. ValIn(kv', k) = ValIn(kv, k)
      BY <2>4, <2>10, ValWritten
    <3>6. QED
      BY <1>6, <2>2, <3>3, <3>4, <3>5
  <2>11. QED
    BY <2>9, <2>10
<1>10. CASE T # {} /\ ~ \E i \in DOMAIN feeds : OneMoves(i) /\ WritesDaily(i)
  <2>1. T \in SUBSET S /\ (Restarts => kv' = kv)
    BY <1>3, <1>4, <1>10, TakenBack
  <2>2. PICK j \in T : j \in S
    BY <1>10, <2>1
  <2>3. Day(now) = Day(now')
    <3>1. /\ j \in DOMAIN feeds /\ feeds[j] \in Feed /\ CatKey(feeds[j]) = k
          /\ feeds[j].at <= now
      BY <1>4, <2>2 DEF TakenIn, FeedType, OrderInv
    <3>2. feeds[j].at \in Nat /\ Day(feeds[j].at) = Day(now')
      BY <1>2, <3>1, KeyParts DEF Feed
    <3>3. Day(feeds[j].at) <= Day(now) /\ Day(now) <= Day(now')
      BY <1>1, <3>1, <3>2, DayFacts
    <3>4. Day(now) \in Nat /\ Day(now') \in Nat
      BY <1>1, DayFacts
    <3>5. QED
      BY <3>2, <3>3, <3>4
  <2>4. GramsOf(feeds, S) <= ValIn(kv, k)
    BY <1>2, <1>4, <2>3 DEF LeastInv
  <2>5. GramsOf(feeds', T) <= GramsOf(feeds, S) /\ GramsOf(feeds', T) \in Nat /\ GramsOf(feeds, S) \in Nat
    <3>1. T \in SUBSET DOMAIN feeds
      BY <1>5, <2>1
    <3>2. GramsOf(feeds', T) = GramsOf(feeds, T)
      BY <3>1, GramsKept
    <3>3. QED
      BY <1>5, <2>1, <3>2, GramsWithin
  <2>6. k[1] = "cat" /\ k[3] = Day(now')
    BY <1>2, KeyParts
  <2>7. ValIn(kv', k) = ValIn(kv, k)
    <3>1. CASE kv' = kv
      BY <3>1
    <3>2. CASE Ticks
      <4>1. ValIn(kv, k) > 0
        <5>1. {j} \in SUBSET S /\ {} \in SUBSET DOMAIN feeds /\ j \in DOMAIN feeds /\ j \notin {}
          BY <1>5, <2>2
        <5>2. GramsOf(feeds, {} \cup {j}) = GramsOf(feeds, {}) + feeds[j].amount
          BY <5>1, GramsPlus
        <5>3. GramsOf(feeds, {}) = 0 /\ {} \cup {j} = {j}
          BY GramsNone
        <5>4. GramsOf(feeds, {j}) <= GramsOf(feeds, S)
          BY <1>5, <5>1, GramsWithin
        <5>5. feeds[j].amount \in Nat /\ feeds[j].amount > 0
          BY <5>1, AmountIsNat
        <5>6. GramsOf(feeds, {j}) = feeds[j].amount
          BY <5>2, <5>3, <5>5
        <5>7. QED
          BY <1>6, <2>4, <2>5, <5>4, <5>5, <5>6
      <4>2. k \in DOMAIN kv
        BY <4>1 DEF ValIn
      <4>3. kv[k].expire = 0 \/ kv[k].expire >= (Day(now') + 1) * DayLength
        BY <2>6, <4>2 DEF OutlivesInv
      <4>4. /\ now' < (Day(now') + 1) * DayLength /\ kv[k].expire \in Nat
            /\ (Day(now') + 1) * DayLength \in Nat
        BY <1>1, <4>2, DayFacts DEF FeedType
      <4>5. kv[k].expire = 0 \/ now' <= kv[k].expire
        BY <1>1, <4>3, <4>4
      <4>6. k \in DOMAIN kv' /\ kv'[k] = kv[k]
        BY <3>2, <4>2, <4>5 DEF Ticks
      <4>7. QED
        BY <4>2, <4>6 DEF ValIn
    <3>3. CASE \E x, v, t : x[1] # "cat" /\ Writes(x, v, t)
      BY <2>6, <3>3, ValWritten
    <3>4. QED
      BY <1>10, <2>1, <3>1, <3>2, <3>3, StoreSteps
  <2>8. QED
    BY <1>6, <2>4, <2>5, <2>7
<1>11. QED
  BY <1>8, <1>9, <1>10

(* What fits under the counter's width is added without wrapping. *)
LEMMA NoWrap ==
    ASSUME NEW v \in Nat, NEW g \in Nat, v + g < Modulus
    PROVE  GramsAfter(v, g) = v + g
<1>1. Modulus \in Nat \ {0}
  BY PolicyAssumption
<1>2. v % Modulus = v
  BY <1>1
<1>3. QED
  BY <1>1, <1>2 DEF GramsAfter

(* A request that passes the daily test stays within its limit, and so does its
   own amount. *)
LEMMA TestHolds ==
    ASSUME FeedType, MostInv, GramsOf(feeds, DOMAIN feeds) < Modulus,
           NEW i \in DOMAIN feeds, feeds[i].pc \in {"check", "readDaily"}, NEW k, k[1] = "cat",
           ~OverDaily(feeds[i].limits, Val(k), feeds[i].amount)
    PROVE  ValIn(kv, k) + feeds[i].amount <= feeds[i].limits.daily
<1>1. /\ Val(k) = ValIn(kv, k) /\ ValIn(kv, k) \in Nat /\ feeds[i].amount \in Nat
      /\ Modulus \in Nat
  BY ValType, AmountIsNat, PolicyAssumption
<1>2. feeds[i].limits.daily \in Nat /\ feeds[i].limits.daily > 0
  BY EndsAreTimes DEF Passed
<1>3. PICK S : S = SpentIn(feeds)
  OBVIOUS
<1>4. S \in SUBSET DOMAIN feeds /\ i \notin S
  BY <1>3 DEF SpentIn, Unpaid, Before, Passed
<1>5. ValIn(kv, k) <= GramsOf(feeds, S) /\ GramsOf(feeds, S) \in Nat
  <2>1. GramsOf(feeds, S) \in Nat
    BY <1>4, GramsWithin
  <2>2. QED
    BY <1>3, <2>1 DEF MostInv, ValIn
<1>6. GramsOf(feeds, S) + feeds[i].amount <= GramsOf(feeds, DOMAIN feeds)
  <2>1. GramsOf(feeds, S \cup {i}) = GramsOf(feeds, S) + feeds[i].amount
    BY <1>4, GramsPlus
  <2>2. S \cup {i} \in SUBSET DOMAIN feeds /\ DOMAIN feeds \in SUBSET DOMAIN feeds
    BY <1>4
  <2>3. GramsOf(feeds, S \cup {i}) <= GramsOf(feeds, DOMAIN feeds)
    BY <2>2, GramsWithin
  <2>4. QED
    BY <2>1, <2>3
<1>7. GramsOf(feeds, DOMAIN feeds) \in Nat
  BY GramsWithin
<1>8. ValIn(kv, k) + feeds[i].amount < Modulus
  BY <1>1, <1>5, <1>6, <1>7
<1>9. GramsAfter(ValIn(kv, k), feeds[i].amount) = ValIn(kv, k) + feeds[i].amount
  BY <1>1, <1>8, NoWrap
<1>10. ~(GramsAfter(ValIn(kv, k), feeds[i].amount) > feeds[i].limits.daily)
  BY <1>1, <1>2 DEF OverDaily
<1>11. QED
  BY <1>1, <1>2, <1>9, <1>10

Late == {"setRoom", "setUser", "addDaily", "reserve", "accepted"}

(* How a request gets past Check, and past the reads of Consume. *)
LEMMA PassedBack ==
    ASSUME FeedType, FeedSide, NEW i \in DOMAIN feeds', feeds'[i].pc \in Passed
    PROVE  /\ i \in DOMAIN feeds
           /\ \/ /\ feeds[i].pc \in Passed /\ Stays(i)
                 /\ feeds'[i].pc \in Late => feeds[i].pc \in Late \/ ReadsDaily(i)
              \/ Checks(i)
<1>1. i \in DOMAIN feeds
  <2>1. CASE \E f : Arrives(f)
    <3>1. PICK f : Arrives(f)
      BY <2>1
    <3>2. i \notin DOMAIN feeds => feeds'[i] = f
      BY <3>1, ArrivesSeq
    <3>3. f.pc \notin Passed
      BY <3>1 DEF Arrives, Passed
    <3>4. QED
      BY <3>2, <3>3
  <2>2. CASE ~ \E f : Arrives(f)
    BY <2>2, RestartsSeq DEF FeedSide, Rests, Ticks, FeedMoves, OneMoves
  <2>3. QED
    BY <2>1, <2>2
<1>2. CASE feeds'[i] = feeds[i]
  BY <1>1, <1>2 DEF Stays
<1>3. CASE Rests \/ Ticks
  BY <1>2, <1>3 DEF Rests, Ticks
<1>4. CASE Restarts
  BY <1>1, <1>2, <1>4, RestartsSeq DEF Passed, Ended
<1>5. CASE \E f : Arrives(f)
  BY <1>1, <1>2, <1>5, ArrivesSeq
<1>6. ASSUME NEW k \in DOMAIN feeds, FeedMoves(k)
      PROVE  \/ /\ feeds[i].pc \in Passed /\ Stays(i)
                /\ feeds'[i].pc \in Late => feeds[i].pc \in Late \/ ReadsDaily(i)
             \/ Checks(i)
  <2>1. CASE k # i
    BY <1>1, <1>2, <1>6, <2>1 DEF FeedMoves, OneMoves
  <2>2. CASE k = i
    BY <1>6, <2>2 DEF FeedMoves, Walks, Ends, Resolves, ReadsDaily, WritesRoom,
       WritesUser, WritesDaily, Passed, Late
  <2>3. QED
    BY <2>1, <2>2
<1>7. QED
  BY <1>1, <1>3, <1>4, <1>5, <1>6 DEF FeedSide

(* Every step keeps the daily limit towards the feeds that were over. *)
LEMMA DailyStep ==
    ASSUME FeedType, FeedType', FeedSide, OrderInv, LeastInv, MostInv, DailyInv
    PROVE  DailyInv'
<1> SUFFICES ASSUME GramsOf(feeds', DOMAIN feeds') < Modulus,
                    NEW i \in DOMAIN feeds', feeds'[i].pc \in Passed
             PROVE  /\ \/ FedIn(feeds', backend', i) = {}
                       \/ GramsOf(feeds', FedIn(feeds', backend', i)) + feeds'[i].amount
                             <= feeds'[i].limits.daily
                    /\ feeds'[i].pc \in Late => feeds'[i].amount <= feeds'[i].limits.daily
  BY DEF DailyInv, Late, Passed
<1>1. /\ i \in DOMAIN feeds
      /\ \/ /\ feeds[i].pc \in Passed /\ Stays(i)
            /\ feeds'[i].pc \in Late => feeds[i].pc \in Late \/ ReadsDaily(i)
         \/ Checks(i)
  BY PassedBack
<1>2. /\ feeds'[i].before = feeds[i].before /\ feeds'[i].epoch = feeds[i].epoch
      /\ feeds'[i].amount = feeds[i].amount /\ feeds'[i].room = feeds[i].room
      /\ backend' = backend
  BY <1>1, FeedsKeep
<1>3. feeds'[i].limits = feeds[i].limits
  BY <1>1 DEF Stays, Checks
<1>4. \A j \in feeds[i].before :
         j \in DOMAIN feeds /\ j # i /\ feeds[j].pc \in Ended /\ feeds'[j] = feeds[j]
  <2>1. \A j \in feeds[i].before : j \in DOMAIN feeds /\ j < i /\ feeds[j].pc \in Ended
    BY <1>1 DEF OrderInv
  <2>2. i \in Nat /\ \A j \in DOMAIN feeds : j \in Nat
    BY <1>1 DEF FeedType
  <2>3. QED
    BY <2>1, <2>2, FeedsKeep
<1>5. GramsOf(feeds, DOMAIN feeds) < Modulus
  <2>1. DOMAIN feeds \in SUBSET DOMAIN feeds /\ DOMAIN feeds' \in SUBSET DOMAIN feeds'
    OBVIOUS
  <2>2. DOMAIN feeds \subseteq DOMAIN feeds'
    BY FeedsKeep
  <2>3. /\ GramsOf(feeds, DOMAIN feeds) <= GramsOf(feeds', DOMAIN feeds')
        /\ GramsOf(feeds, DOMAIN feeds) \in Nat /\ GramsOf(feeds', DOMAIN feeds') \in Nat
    BY <2>1, <2>2, GramsGrow
  <2>4. Modulus \in Nat
    BY PolicyAssumption
  <2>5. QED
    BY <2>3, <2>4
<1>6. PICK T : T = FedIn(feeds', backend', i)
  OBVIOUS
<1>7. T \in SUBSET DOMAIN feeds /\ GramsOf(feeds', T) = GramsOf(feeds, T)
  <2>1. T \in SUBSET DOMAIN feeds
    BY <1>2, <1>4, <1>6 DEF FedIn
  <2>2. QED
    BY <2>1, GramsKept
<1>8. CASE feeds[i].pc \in Passed /\ Stays(i)
  <2>1. CatKey(feeds'[i]) = CatKey(feeds[i])
    BY <1>2, <1>8 DEF Stays, CatKey
  <2>2. T = FedIn(feeds, backend, i)
    BY <1>2, <1>4, <1>6, <2>1 DEF FedIn
  <2>3. T = {} \/ GramsOf(feeds, T) + feeds[i].amount <= feeds[i].limits.daily
    BY <1>1, <1>5, <1>8, <2>2 DEF DailyInv
  <2>4. ASSUME feeds'[i].pc \in Late
        PROVE  feeds[i].amount <= feeds[i].limits.daily
    <3>1. CASE feeds[i].pc \in Late
      BY <1>1, <1>5, <3>1 DEF DailyInv, Late
    <3>2. CASE ReadsDaily(i)
      <4>1. PICK k : k = CatKey(feeds[i])
        OBVIOUS
      <4>2. k[1] = "cat"
        BY <4>1, KeyParts
      <4>3. feeds[i].pc = "readDaily" /\ ~OverDaily(feeds[i].limits, Val(k), feeds[i].amount)
        BY <3>2, <4>1 DEF ReadsDaily
      <4>4. ValIn(kv, k) + feeds[i].amount <= feeds[i].limits.daily
        BY <1>1, <1>5, <4>2, <4>3, TestHolds
      <4>5. ValIn(kv, k) \in Nat /\ feeds[i].amount \in Nat /\ feeds[i].limits.daily \in Nat
        BY <1>1, <1>8, ValType, AmountIsNat, EndsAreTimes
      <4>6. QED
        BY <4>4, <4>5
    <3>3. CASE Checks(i)
      BY <1>8, <3>3 DEF Checks, Passed
    <3>4. QED
      BY <1>1, <2>4, <3>1, <3>2, <3>3
  <2>5. QED
    BY <1>2, <1>3, <1>6, <1>7, <2>3, <2>4
<1>9. CASE Checks(i)
  <2>1. /\ feeds[i].pc = "check" /\ feeds'[i].pc = "consume" /\ feeds'[i].at = now
        /\ ~CheckBlocks(feeds[i])
    BY <1>9 DEF Checks
  <2>2. CASE T = {}
    BY <1>6, <2>1, <2>2 DEF Late
  <2>3. CASE T # {}
    <3>1. PICK j \in T : TRUE
      BY <2>3
    <3>2. /\ j \in feeds[i].before /\ j \in DOMAIN feeds /\ feeds'[j] = feeds[j]
          /\ CatKey(feeds[j]) = CatKey(feeds'[i])
      BY <1>2, <1>4, <1>6, <3>1 DEF FedIn
    <3>3. /\ feeds[j] \in Feed /\ feeds[i] \in Feed /\ now \in Nat /\ feeds[i].room \in Rooms
          /\ feeds[j].at <= feeds[i].at /\ feeds[i].at <= now
      <4>1. feeds[j] \in Feed /\ feeds[i] \in Feed /\ now \in Nat
        BY <1>1, <3>2 DEF FeedType
      <4>2. feeds[j].at <= feeds[i].at /\ feeds[i].at <= now
        BY <1>1, <2>1, <3>2 DEF OrderInv
      <4>3. QED
        BY <4>1, <4>2 DEF Feed
    <3>4. feeds[j].at \in Nat /\ feeds[i].at \in Nat
      BY <3>3 DEF Feed
    <3>5. Day(feeds[j].at) = Day(now)
      BY <2>1, <3>2, KeyParts
    <3>6. Day(feeds[i].at) = Day(now)
      <4>1. Day(feeds[j].at) <= Day(feeds[i].at) /\ Day(feeds[i].at) <= Day(now)
        BY <3>3, <3>4, DayFacts
      <4>2. Day(feeds[i].at) \in Nat /\ Day(now) \in Nat
        BY <3>3, <3>4, DayFacts
      <4>3. QED
        BY <3>5, <4>1, <4>2
    <3>7. PICK k : k = CatKey(feeds[i])
      OBVIOUS
    <3>8. k = DayKey(feeds[i].room, Day(now)) /\ k = CatKey(feeds'[i]) /\ k[1] = "cat"
      BY <1>2, <2>1, <3>6, <3>7, KeyParts
    <3>9. PICK S : S = TakenIn(feeds, backend, restarts, k)
      OBVIOUS
    <3>10. T \in SUBSET S /\ S \in SUBSET DOMAIN feeds
      <4>1. feeds[i].epoch = restarts
        BY <1>1, <2>1 DEF OrderInv, Ended
      <4>2. QED
        BY <1>2, <1>4, <1>6, <3>8, <3>9, <4>1 DEF FedIn, TakenIn
    <3>11. GramsOf(feeds, S) <= ValIn(kv, k)
      BY <3>3, <3>8, <3>9 DEF LeastInv
    <3>12. /\ GramsOf(feeds, T) <= GramsOf(feeds, S)
           /\ GramsOf(feeds, T) \in Nat /\ GramsOf(feeds, S) \in Nat
      BY <3>10, GramsWithin
    <3>13. /\ ValIn(kv, k) \in Nat /\ feeds[i].amount \in Nat /\ feeds[i].limits.daily \in Nat
      BY <1>1, <2>1, ValType, AmountIsNat, EndsAreTimes
    <3>14. GramsOf(feeds, T) > 0
      <4>1. {j} \in SUBSET T /\ {} \in SUBSET DOMAIN feeds /\ j \notin {}
        OBVIOUS
      <4>2. GramsOf(feeds, {} \cup {j}) = GramsOf(feeds, {}) + feeds[j].amount
        BY <3>2, <4>1, GramsPlus
      <4>3. GramsOf(feeds, {}) = 0 /\ {} \cup {j} = {j}
        BY GramsNone
      <4>4. GramsOf(feeds, {j}) <= GramsOf(feeds, T)
        BY <1>7, <4>1, GramsWithin
      <4>5. feeds[j].amount \in Nat /\ feeds[j].amount > 0
        BY <3>2, AmountIsNat
      <4>6. GramsOf(feeds, {j}) = feeds[j].amount
        BY <4>2, <4>3, <4>5
      <4>7. QED
        BY <3>12, <4>4, <4>5, <4>6
    <3>15. k \in DOMAIN kv
      BY <3>11, <3>12, <3>13, <3>14 DEF ValIn
    <3>16. ~OverDaily(feeds[i].limits, Val(k), feeds[i].amount)
      BY <2>1, <3>7, <3>15 DEF CheckBlocks, Has
    <3>17. ValIn(kv, k) + feeds[i].amount <= feeds[i].limits.daily
      BY <1>1, <1>5, <2>1, <3>8, <3>16, TestHolds
    <3>18. GramsOf(feeds, T) + feeds[i].amount <= feeds[i].limits.daily
      BY <3>11, <3>12, <3>13, <3>17
    <3>19. QED
      BY <1>2, <1>3, <1>6, <1>7, <2>1, <3>18 DEF Late
  <2>4. QED
    BY <2>2, <2>3
<1>10. QED
  BY <1>1, <1>8, <1>9

(* The inductive invariant of admission *)
AdmInv ==
    /\ AdmType /\ AdminInv /\ RecentInv
    /\ OrderInv /\ GuardInv /\ LaterInv
    /\ OutlivesInv /\ LeastInv /\ MostInv /\ DailyInv

(* Nothing was asked and nothing is stored when the services start. *)
LEMMA AdmInitInv ==
    ASSUME AdmissionInit
    PROVE  AdmInv
<1>1. /\ now = 0 /\ restarts = 0 /\ lock = 0
      /\ feeds = << >> /\ ops = << >> /\ kv = << >>
      /\ rows = [s \in Scopes |-> None] /\ policies = Seeded
      /\ wrote = [r \in Rooms |-> 0]
      /\ cache = [p \in Services |-> [s \in Scopes |-> Fresh]]
      /\ was = {<<0, s, None>> : s \in Scopes}
  BY DEF AdmissionInit, InitAdmin, InitFeeding
<1>2. DOMAIN feeds = {} /\ DOMAIN ops = {} /\ DOMAIN kv = {}
  BY <1>1
<1>3. feeds \in Seq(Feed) /\ ops \in Seq(Op)
  BY <1>1
<1>4. FeedType
  BY <1>1, <1>2, <1>3 DEF FeedType
<1>5. AdminType
  BY <1>1, <1>3, FreshIsEntry, SeedType DEF AdminType, MaybeRow
<1>6. OpInv /\ OrderInv /\ GuardInv /\ LaterInv /\ OutlivesInv /\ MostInv /\ DailyInv
  BY <1>2 DEF OpInv, OrderInv, GuardInv, LaterInv, OutlivesInv, MostInv, DailyInv
<1>7. PolicyInv
  BY <1>1, <1>2 DEF PolicyInv, Agrees
<1>8. RecentInv
  <2>1. \A s \in Scopes : <<now, s, rows[s]>> \in was
    BY <1>1
  <2>2. CacheInv
    BY <1>1 DEF CacheInv, WasRow, Fresh
  <2>3. FetchInv /\ GetInv
    BY <1>2 DEF FetchInv, GetInv
  <2>4. QED
    BY <2>1, <2>2, <2>3 DEF RecentInv
<1>9. LeastInv
  <2>1. SUFFICES ASSUME NEW r \in Rooms
                 PROVE  GramsOf(feeds, TakenIn(feeds, backend, restarts, DayKey(r, Day(now))))
                            <= ValIn(kv, DayKey(r, Day(now)))
    BY DEF LeastInv
  <2>2. TakenIn(feeds, backend, restarts, DayKey(r, Day(now))) = {}
    BY <1>2 DEF TakenIn
  <2>3. ValIn(kv, DayKey(r, Day(now))) = 0
    BY <1>2 DEF ValIn
  <2>4. QED
    BY <2>2, <2>3, GramsNone
<1>10. QED
  BY <1>4, <1>5, <1>6, <1>7, <1>8, <1>9 DEF AdmInv, AdmType, AdminInv

(* Every step keeps the invariant: the parts about admin-svc and the caches for
   each of its actions, the parts about the store by what the step does there. *)
LEMMA AdmStepInv ==
    ASSUME AdmInv, [AdmissionNext]_admissionVars
    PROVE  AdmInv'
<1>1. /\ AdmType /\ AdminInv /\ RecentInv /\ OrderInv /\ GuardInv /\ LaterInv
      /\ OutlivesInv /\ LeastInv /\ MostInv /\ DailyInv /\ FeedType
  BY DEF AdmInv, AdmType
<1>2. FeedSide
  BY <1>1, NextIsFeedSide
<1>3. FeedType'
  BY <1>1, <1>2, FeedTypeStep
<1>4. AdminInv'
  BY <1>1, AdminStepInv
<1>5. AdmType'
  BY <1>3, <1>4 DEF AdmType, AdminInv
<1>6. RecentInv'
  BY <1>1, <1>5, RecentStep
<1>7. OrderInv' /\ GuardInv' /\ LaterInv'
  BY <1>1, <1>2, OrderStep, GuardStep, LaterStep
<1>8. OutlivesInv' /\ LeastInv' /\ MostInv' /\ DailyInv'
  BY <1>1, <1>2, <1>3, OutlivesStep, LeastStep, MostStep, DailyStep
<1>9. QED
  BY <1>4, <1>5, <1>6, <1>7, <1>8 DEF AdmInv

(* Whatever the requests, the operators, the clock, the failures and the
   restarts do, in Create of feeding-svc and in the store of its cooldowns and
   daily totals: the parts of AdmInv hold. *)
THEOREM AdmissionInvariance == AdmissionSpec => []AdmInv
<1>1. AdmissionInit => AdmInv
  BY AdmInitInv
<1>2. AdmInv /\ [AdmissionNext]_admissionVars => AdmInv'
  BY AdmStepInv
<1>3. QED
  BY <1>1, <1>2, PTL DEF AdmissionSpec

(* CooldownStore.Check and Consume, for any number of requests beside each
   other: nobody who arrives after a feed that ran alone is let in before the
   ends of the cooldowns that feed was given, for the room and for its user. *)
THEOREM CooldownsHold == AdmissionSpec => []CooldownHolds
<1>1. AdmInv => CooldownHolds
  <2>1. SUFFICES ASSUME AdmInv, NEW i \in DOMAIN feeds, NEW j \in feeds[i].before,
                        Consumed(feeds[i]), Consumed(feeds[j]), Alone(j),
                        SameLife(feeds[i], feeds[j]), feeds[i].room = feeds[j].room
                 PROVE  /\ feeds[i].at >= feeds[j].at + feeds[j].limits.room
                        /\ feeds[i].user = feeds[j].user
                           => feeds[i].at >= feeds[j].at + feeds[j].limits.user
    BY DEF CooldownHolds
  <2>2. feeds[j].pc \in Ended
    BY <2>1 DEF AdmInv, OrderInv
  <2>3. feeds[j].pc = "accepted" /\ feeds[i].pc \in Passed
    BY <2>1, <2>2 DEF Consumed, Ended, Passed
  <2>4. /\ feeds[i].at >= RoomEnd(feeds[j])
        /\ feeds[i].user = feeds[j].user => feeds[i].at >= UserEnd(feeds[j])
    BY <2>1, <2>3 DEF AdmInv, LaterInv
  <2>5. QED
    BY <2>4 DEF RoomEnd, UserEnd
<1>2. QED
  BY <1>1, AdmissionInvariance, PTL

(* The daily limit of a cat, which Check and Consume test against a counter that
   other requests add to meanwhile: the feeds of the day that were over when a
   request arrived and the request itself are within the limit resolved for it,
   while the grams of the run fit in the counter's width. *)
THEOREM DailyLimitsHold == AdmissionSpec => []DailyLimitHolds
<1>1. AdmInv => DailyLimitHolds
  <2>1. SUFFICES ASSUME AdmInv, TotalOf(DOMAIN feeds) < Modulus,
                        NEW i \in DOMAIN feeds, Consumed(feeds[i])
                 PROVE  TotalOf({j \in feeds[i].before \cup {i} :
                                    /\ Consumed(feeds[j]) /\ SameLife(feeds[i], feeds[j])
                                    /\ CatKey(feeds[j]) = CatKey(feeds[i])})
                            <= feeds[i].limits.daily
    BY DEF DailyLimitHolds
  <2>2. FeedType /\ OrderInv /\ DailyInv
    BY <2>1 DEF AdmInv, AdmType
  <2>3. IsFiniteSet(DOMAIN feeds) /\ \A j \in DOMAIN feeds : feeds[j].amount \in Nat
    BY <2>2, AmountIsNat
  <2>4. GramsOf(feeds, DOMAIN feeds) < Modulus
    BY <2>1, <2>3, TotalIsCount
  <2>5. feeds[i].pc \in Passed /\ feeds[i].pc \in Late
    BY <2>1 DEF Consumed, Passed, Late
  <2>6. /\ \/ FedIn(feeds, backend, i) = {}
           \/ GramsOf(feeds, FedIn(feeds, backend, i)) + feeds[i].amount
                 <= feeds[i].limits.daily
        /\ feeds[i].amount <= feeds[i].limits.daily
    BY <2>2, <2>4, <2>5 DEF DailyInv, Late
  <2>7. \A j \in feeds[i].before : j \in DOMAIN feeds /\ j < i
    BY <2>2 DEF OrderInv
  <2>8. i \notin FedIn(feeds, backend, i) /\ FedIn(feeds, backend, i) \in SUBSET DOMAIN feeds
    <3>1. DOMAIN feeds \subseteq Int
      BY <2>2 DEF FeedType
    <3>2. QED
      BY <2>7, <3>1 DEF FedIn
  <2>9. {j \in feeds[i].before \cup {i} :
            /\ Consumed(feeds[j]) /\ SameLife(feeds[i], feeds[j])
            /\ CatKey(feeds[j]) = CatKey(feeds[i])} = FedIn(feeds, backend, i) \cup {i}
    BY <2>1 DEF FedIn, SameLife
  <2>10. GramsOf(feeds, FedIn(feeds, backend, i) \cup {i})
            = GramsOf(feeds, FedIn(feeds, backend, i)) + feeds[i].amount
    BY <2>2, <2>8, GramsPlus
  <2>11. TotalOf(FedIn(feeds, backend, i) \cup {i})
            = GramsOf(feeds, FedIn(feeds, backend, i) \cup {i})
    <3>1. FedIn(feeds, backend, i) \cup {i} \in SUBSET DOMAIN feeds
      BY <2>8
    <3>2. IsFiniteSet(FedIn(feeds, backend, i) \cup {i})
      BY <2>3, <3>1, FS_Subset
    <3>3. QED
      BY <2>3, <3>1, <3>2, TotalIsCount
  <2>12. FedIn(feeds, backend, i) = {} => GramsOf(feeds, FedIn(feeds, backend, i)) = 0
    BY GramsNone
  <2>13. feeds[i].amount \in Nat /\ feeds[i].limits.daily \in Nat
    BY <2>2, <2>3, <2>5, EndsAreTimes
  <2>14. TotalOf(FedIn(feeds, backend, i) \cup {i}) <= feeds[i].limits.daily
    BY <2>6, <2>10, <2>11, <2>12, <2>13
  <2>15. QED
    BY <2>9, <2>14
<1>2. QED
  BY <1>1, AdmissionInvariance, PTL

(* IncrBy of the daily total, on the memory store and on Redis: requests that run
   beside each other lose no gram, and the counter does not end before its day. *)
THEOREM AcceptedGramsAreCounted == AdmissionSpec => []AcceptedIsCounted
<1>1. AdmInv => AcceptedIsCounted
  <2>1. SUFFICES ASSUME AdmInv, NEW i \in DOMAIN feeds,
                        Consumed(feeds[i]), Day(feeds[i].at) = Day(now),
                        backend = "redis" \/ feeds[i].epoch = restarts
                 PROVE  Val(CatKey(feeds[i])) >=
                           TotalOf({j \in DOMAIN feeds :
                              /\ Consumed(feeds[j]) /\ SameLife(feeds[i], feeds[j])
                              /\ CatKey(feeds[j]) = CatKey(feeds[i])})
    BY DEF AcceptedIsCounted
  <2>2. FeedType /\ LeastInv
    BY <2>1 DEF AdmInv, AdmType
  <2>3. CatKey(feeds[i]) = DayKey(feeds[i].room, Day(now))
    BY <2>1, KeyParts
  <2>4. feeds[i].room \in Rooms
    <3>1. feeds[i] \in Feed
      BY <2>2 DEF FeedType
    <3>2. QED
      BY <3>1 DEF Feed
  <2>5. PICK S : S = TakenIn(feeds, backend, restarts, CatKey(feeds[i]))
    OBVIOUS
  <2>6. {j \in DOMAIN feeds : /\ Consumed(feeds[j]) /\ SameLife(feeds[i], feeds[j])
                              /\ CatKey(feeds[j]) = CatKey(feeds[i])} = S
    BY <2>1, <2>5 DEF TakenIn, SameLife
  <2>7. S \in SUBSET DOMAIN feeds
    BY <2>5 DEF TakenIn
  <2>8. IsFiniteSet(S) /\ \A j \in S : feeds[j].amount \in Nat
    BY <2>2, <2>7, AmountIsNat, FS_Subset
  <2>9. TotalOf(S) = GramsOf(feeds, S) /\ GramsOf(feeds, S) \in Nat
    BY <2>7, <2>8, TotalIsCount, GramsType
  <2>10. GramsOf(feeds, S) <= ValIn(kv, CatKey(feeds[i]))
    BY <2>2, <2>3, <2>4, <2>5 DEF LeastInv
  <2>11. /\ Val(CatKey(feeds[i])) = ValIn(kv, CatKey(feeds[i]))
         /\ ValIn(kv, CatKey(feeds[i])) \in Nat
    BY <2>2, ValType
  <2>12. Val(CatKey(feeds[i])) >= TotalOf(S)
    BY <2>9, <2>10, <2>11
  <2>13. QED
    BY <2>6, <2>12
<1>2. QED
  BY <1>1, AdmissionInvariance, PTL

(* PgStore.Get of both services, while admin-svc changes the rows: no answer from
   the cache is older than the cache's time to live, even when a Get stores what
   it read after the Invalidate of a Put. *)
THEOREM CachesAreRecent == AdmissionSpec => []CacheIsRecent
<1>1. AdmInv => CacheIsRecent
  <2>1. SUFFICES ASSUME AdmInv, NEW p \in Services, NEW s \in Scopes, Hit(p, s)
                 PROVE  \E t \in 0 .. now : /\ t + PolicyTTL >= now
                                            /\ <<t, s, cache[p][s].limits>> \in was
    BY DEF CacheIsRecent
  <2>2. now \in Nat /\ cache[p][s].expires \in Nat /\ PolicyTTL \in Nat
    <3>1. now \in Nat /\ cache[p][s] \in Entry
      BY <2>1 DEF AdmInv, AdmType, FeedType, AdminType
    <3>2. QED
      BY <3>1, AdmissionAssumption DEF Entry
  <2>3. now < cache[p][s].expires
    BY <2>1 DEF Hit
  <2>4. PICK t \in 0 .. now : /\ t + PolicyTTL >= cache[p][s].expires
                              /\ <<t, s, cache[p][s].limits>> \in was
    BY <2>1, <2>2, <2>3 DEF AdmInv, RecentInv, CacheInv, WasRow
  <2>5. QED
    BY <2>2, <2>3, <2>4
<1>2. QED
  BY <1>1, AdmissionInvariance, PTL

(* UpdatePolicy of admin-svc, which holds its mutex over the write to memory and
   the upsert: whenever nobody holds it, what an operator wrote into memory since
   admin-svc last started is the room's row, unless the upsert of that write
   failed.  Nothing is said of the policy seeded at the start. *)
THEOREM PoliciesMatchRows == AdmissionSpec => []PolicyMatchesRow
<1>1. AdmInv => PolicyMatchesRow
  <2>1. SUFFICES ASSUME AdmInv PROVE PolicyMatchesRow
    OBVIOUS
  <2>2. \A r \in Rooms : Agrees(r, wrote[r], ops, lock, policies, rows)
    BY <2>1 DEF AdmInv, AdminInv, PolicyInv
  <2>3. QED
    BY <2>2 DEF PolicyMatchesRow, Agrees
<1>2. QED
  BY <1>1, AdmissionInvariance, PTL
=============================================================================

------------------------------ MODULE WalletPg ------------------------------
(***************************************************************************)
(* The PostgreSQL store of billing-svc's wallets.                           *)
(*                                                                          *)
(* ReserveHold, ConfirmHold and CancelHold are READ COMMITTED transactions  *)
(* of several statements; other transactions run between them.  wallet and  *)
(* hold are the committed rows.  A transaction's own writes appear when it  *)
(* commits, and until then it holds the row locks it took:                  *)
(*   - ReserveHold locks the user's wallet row (SELECT ... FOR UPDATE);     *)
(*   - ConfirmHold and CancelHold lock the hold row (FOR UPDATE), update    *)
(*     it, and then update the wallet row, for which they need its lock.    *)
(***************************************************************************)
EXTENDS Wallet, Sequences

CONSTANT Settler    \* concurrent callers of Confirm and Cancel

VARIABLES
    reserve,    \* where each ReserveHold transaction is
    settle,     \* the ConfirmHold or CancelHold transaction of each settler
    outbox,     \* topics of the outbox rows committed for each hold
    deposited   \* history: what each user has been given

pgVars == <<wallet, hold, result, reserve, settle, outbox, deposited>>

Idle == [kind |-> "idle"]

Settlement == [kind : {"confirmed", "cancelled"}, hold : Call]

PgTypeOK ==
    /\ TypeOK
    /\ reserve \in [Call -> {"start", "looked", "locked", "done"}]
    /\ settle \in [Settler -> {Idle} \cup Settlement]
    /\ outbox \in [Call -> Seq({"wallet.reserved", "wallet.confirmed", "wallet.cancelled"})]
    /\ deposited \in [User -> Nat]

PgInit ==
    /\ Init
    /\ reserve = [c \in Call |-> "start"]
    /\ settle = [s \in Settler |-> Idle]
    /\ outbox = [c \in Call |-> <<>>]
    /\ deposited = [u \in User |-> 0]

-----------------------------------------------------------------------------
(* Row locks.  They are held by open transactions, so they need no variable. *)

(* A user's wallet row is locked by the ReserveHold that selected it for update *)
WalletLocked(u) == \E c \in Call : reserve[c] = "locked" /\ UserOf[c] = u

(* A hold row is locked by the settlement that loaded it *)
Settling(s, h) == settle[s] # Idle /\ settle[s].hold = h

HoldLocked(h) == \E s \in Settler : Settling(s, h)

(* Mutant: a failed call leaves its transaction open *)
Answer_LeavesOpen(c, r) ==
    /\ reserve' = [reserve EXCEPT ![c] = IF r \in Call THEN "done" ELSE @]
    /\ result' = [result EXCEPT ![c] = IF r \in Call THEN r ELSE @]

(* The transaction of a Reserve call ends, with its locks, and the caller is answered *)
Answer(c, r) ==
    /\ reserve' = [reserve EXCEPT ![c] = "done"]
    /\ result' = [result EXCEPT ![c] = r]

-----------------------------------------------------------------------------
(* ReserveHold *)

(* loadHoldByIdemTx, a plain SELECT that waits for nobody *)
LookupHit(c) ==
    /\ reserve[c] = "start"
    /\ \E h \in Existing(c) : Answer(c, h)
    /\ UNCHANGED <<wallet, hold, settle, outbox, deposited>>

LookupMiss(c) ==
    /\ reserve[c] = "start"
    /\ Existing(c) = {}
    /\ reserve' = [reserve EXCEPT ![c] = "looked"]
    /\ UNCHANGED <<wallet, hold, result, settle, outbox, deposited>>

(* Mutant: the SELECT takes no lock *)
CanLock_Plain(c) == TRUE

CanLock(c) == ~ WalletLocked(UserOf[c])

(* Upsert of the wallet row, SELECT ... FOR UPDATE, and the balance check *)
LockInsufficient(c) ==
    /\ reserve[c] = "looked"
    /\ CanLock(c)
    /\ ~ Affordable(c)
    /\ Answer(c, "insufficient")
    /\ UNCHANGED <<wallet, hold, settle, outbox, deposited>>

LockWallet(c) ==
    /\ reserve[c] = "looked"
    /\ CanLock(c)
    /\ Affordable(c)
    /\ reserve' = [reserve EXCEPT ![c] = "locked"]
    /\ UNCHANGED <<wallet, hold, result, settle, outbox, deposited>>

(* The unique index on (user_id, idempotency_key) *)
Unique(c) == Existing(c) = {}

(* INSERT of the hold, UPDATE of reserved_fen, the outbox row and the commit *)
InsertCommit(c) ==
    /\ reserve[c] = "locked"
    /\ Unique(c)
    /\ wallet' = Reserved(wallet, c)
    /\ hold' = [hold EXCEPT ![c] = "reserved"]
    /\ outbox' = [outbox EXCEPT ![c] = Append(@, "wallet.reserved")]
    /\ Answer(c, c)
    /\ UNCHANGED <<settle, deposited>>

(* The INSERT meets a committed hold of the same key, whose row is at rest *)
InsertConflict(c) ==
    /\ reserve[c] = "locked"
    /\ ~ Unique(c)
    /\ \A h \in Existing(c) : ~ HoldLocked(h)
    /\ Answer(c, "error")
    /\ UNCHANGED <<wallet, hold, settle, outbox, deposited>>

(* The INSERT meets a hold whose row is being updated, and waits for that
   settlement, which waits for the wallet row: PostgreSQL aborts one of the two *)
DeadlockVictim(c, s) ==
    /\ reserve[c] = "locked"
    /\ \E h \in Existing(c) : Settling(s, h)
    /\ \/ /\ Answer(c, "error")
          /\ UNCHANGED settle
       \/ /\ settle' = [settle EXCEPT ![s] = Idle]
          /\ UNCHANGED <<reserve, result>>
    /\ UNCHANGED <<wallet, hold, outbox, deposited>>

(* The connection or the request's context is lost: defer tx.Rollback *)
ReserveRollback(c) ==
    /\ reserve[c] \in {"looked", "locked"}
    /\ Answer(c, "error")
    /\ UNCHANGED <<wallet, hold, settle, outbox, deposited>>

-----------------------------------------------------------------------------
(* ConfirmHold and CancelHold *)

Settleable(h) == hold[h] = "reserved" /\ ~ HoldLocked(h)

(* loadHoldTx ... FOR UPDATE, the status check, and the UPDATE of the hold row;
   a hold that is not reserved ends the transaction with nothing written *)
SettleLoad(s) ==
    /\ settle[s] = Idle
    /\ \E h \in Call, k \in {"confirmed", "cancelled"} :
          /\ Settleable(h)
          /\ settle' = [settle EXCEPT ![s] = [kind |-> k, hold |-> h]]
    /\ UNCHANGED <<wallet, hold, result, reserve, outbox, deposited>>

(* Mutant: cancelling is charged like confirming *)
SettledWallet_CancelPays(k, h) == Confirmed(wallet, h)

SettledWallet(k, h) ==
    IF k = "confirmed" THEN Confirmed(wallet, h) ELSE Released(wallet, h)

SettledTopic(k) == IF k = "confirmed" THEN "wallet.confirmed" ELSE "wallet.cancelled"

(* The UPDATE of the wallet row, which waits for its lock, the outbox row and
   the commit *)
SettleCommit(s) ==
    /\ settle[s] # Idle
    /\ LET h == settle[s].hold
           k == settle[s].kind
       IN  /\ ~ WalletLocked(UserOf[h])
           /\ hold' = [hold EXCEPT ![h] = k]
           /\ wallet' = SettledWallet(k, h)
           /\ outbox' = [outbox EXCEPT ![h] = Append(@, SettledTopic(k))]
    /\ settle' = [settle EXCEPT ![s] = Idle]
    /\ UNCHANGED <<result, reserve, deposited>>

SettleRollback(s) ==
    /\ settle[s] # Idle
    /\ settle' = [settle EXCEPT ![s] = Idle]
    /\ UNCHANGED <<wallet, hold, result, reserve, outbox, deposited>>

(* One statement, which waits for the wallet row's lock *)
PgTopUpWallet(u) ==
    /\ ~ WalletLocked(u)
    /\ \E a \in TopUpFen :
          /\ wallet[u].balance + a <= MaxFen
          /\ wallet' = [wallet EXCEPT ![u].balance = @ + a]
          /\ deposited' = [deposited EXCEPT ![u] = @ + a]
    /\ UNCHANGED <<hold, result, reserve, settle, outbox>>

-----------------------------------------------------------------------------
ReserveStep(c) ==
    \/ LookupHit(c)
    \/ LookupMiss(c)
    \/ LockInsufficient(c)
    \/ LockWallet(c)
    \/ InsertCommit(c)
    \/ InsertConflict(c)

PgNext ==
    \/ \E c \in Call : ReserveStep(c) \/ ReserveRollback(c)
    \/ \E c \in Call, s \in Settler : DeadlockVictim(c, s)
    \/ \E s \in Settler : SettleLoad(s) \/ SettleCommit(s) \/ SettleRollback(s)
    \/ \E u \in User : PgTopUpWallet(u)

(* The database runs every open transaction to its end, breaks deadlocks and
   grants a freed row lock to its waiters in turn; nobody is obliged to settle a
   hold or to top up *)
PgFairness ==
    /\ \A c \in Call : SF_pgVars(ReserveStep(c))
    /\ \A c \in Call : WF_pgVars(\E s \in Settler : DeadlockVictim(c, s))
    /\ \A s \in Settler : SF_pgVars(SettleCommit(s))

PgSpec == PgInit /\ [][PgNext]_pgVars /\ PgFairness

-----------------------------------------------------------------------------
(* Money is conserved, whatever transactions overlapped, failed or deadlocked: a
   balance is what the user was given minus the feedings that were confirmed,
   and what is reserved is the sum of the holds still open and never more than
   the balance. *)
MoneyConserved ==
    \A u \in User :
        /\ deposited[u] = wallet[u].balance + FenOf(HoldsOf(u, "confirmed"))
        /\ wallet[u].reserved = FenOf(HoldsOf(u, "reserved"))
        /\ wallet[u].reserved <= wallet[u].balance

(* The outbox tells a hold's history once and in order: a row for every change
   that committed and none for a call that returned an existing hold, lost a
   race or was rolled back. *)
OutboxTellsHold ==
    \A h \in Call :
        outbox[h] = CASE hold[h] = "none"      -> <<>>
                      [] hold[h] = "reserved"  -> <<"wallet.reserved">>
                      [] hold[h] = "confirmed" -> <<"wallet.reserved", "wallet.confirmed">>
                      [] hold[h] = "cancelled" -> <<"wallet.reserved", "wallet.cancelled">>

(* The holds that PostgreSQL's callers were given; a failed call told them nothing *)
Given == [c \in Call |-> IF result[c] \in Call THEN result[c] ELSE "pending"]

Memory == INSTANCE Wallet WITH result <- Given

(* The PostgreSQL store implements the memory store: every commit is one of its
   atomic operations, and every hold returned is the one it would have returned. *)
MemorySpec == Memory!Spec

(* Reserve calls and settlements lock rows in opposite orders, and still every
   Reserve call is answered: PostgreSQL aborts the victim of a deadlock, and the
   transaction of a failed call ends with it. *)
EventuallyAnswered == \A c \in Call : <>(result[c] # "pending")
=============================================================================

---------------------------- MODULE OutboxRelay ----------------------------
(***************************************************************************)
(* pkg/yunmao/db: the transactional outbox and its relay workers.           *)
(*                                                                          *)
(* Business transactions commit rows into the table outbox.  Each worker    *)
(* runs processBatch over and over: in one transaction it claims rows with  *)
(* FOR UPDATE SKIP LOCKED, publishes them to Kafka one after the other with *)
(* retries, and marks them published or moves them to outbox_dlq.  Kafka is *)
(* outside that transaction: what was published stays published when the    *)
(* transaction rolls back.  feeding-svc and billing-svc each run a relay,   *)
(* over the same table when they share a database.                          *)
(***************************************************************************)
EXTENDS Naturals, Sequences, FiniteSets

CONSTANTS
    N,            \* bound: rows ever inserted; 1 .. N are their ids
    Key,          \* partition keys
    KeyOf,        \* the partition key of each row
    Worker,       \* relay workers, of one relay or of several
    BatchSize,
    MaxAttempts,
    MaxFaults,    \* bound: rollbacks, and publishes that fail after they took effect
    MaxStops      \* bound: calls of Relay.Stop

Row == 1 .. N

ASSUME RelayAssumption ==
    /\ N \in Nat
    /\ KeyOf \in [Row -> Key]
    /\ BatchSize \in Nat \ {0}
    /\ MaxAttempts \in Nat \ {0}
    /\ MaxFaults \in Nat
    /\ MaxStops \in Nat

VARIABLES
    table,     \* committed place of each row
    worker,    \* the open transaction of each worker
    kafka,     \* rows in the order Kafka accepted them
    faults,    \* number of faults so far
    stopped,   \* workers whose stopCh is closed
    stops      \* number of calls of Relay.Stop so far

vars == <<table, worker, kafka, faults, stopped, stops>>

(* rows: still to be published, the first one being tried; ok and dead: rows the
   transaction will mark published, and has moved to the DLQ; snapshot: the
   unpublished rows that were committed when the query ran (history) *)
Batch == [rows : Seq(Row), attempt : 0 .. MaxAttempts - 1, ok : SUBSET Row, dead : SUBSET Row,
          snapshot : SUBSET Row]

NoBatch == [rows |-> <<>>, attempt |-> 0, ok |-> {}, dead |-> {}, snapshot |-> {}]

TypeOK ==
    /\ table \in [Row -> {"absent", "pending", "published", "dlq"}]
    /\ worker \in [Worker -> Batch]
    /\ kafka \in Seq(Row)
    /\ faults \in 0 .. MaxFaults
    /\ stopped \in SUBSET Worker
    /\ stops \in 0 .. MaxStops

Init ==
    /\ table = [r \in Row |-> "absent"]
    /\ worker = [w \in Worker |-> NoBatch]
    /\ kafka = <<>>
    /\ faults = 0
    /\ stopped = {}
    /\ stops = 0

-----------------------------------------------------------------------------
(* Ids are drawn before the commit, and a key is a room or a device that many
   transactions write at once: rows become visible in any order *)
InsertOutbox(r) ==
    /\ table[r] = "absent"
    /\ table' = [table EXCEPT ![r] = "pending"]
    /\ UNCHANGED <<worker, kafka, faults, stopped, stops>>

RowsOf(b) == {b.rows[i] : i \in DOMAIN b.rows} \cup b.ok \cup b.dead

(* WHERE published_at IS NULL *)
Unpublished == {r \in Row : table[r] = "pending"}

(* FOR UPDATE SKIP LOCKED *)
Unclaimed == {r \in Unpublished : \A w \in Worker : r \notin RowsOf(worker[w])}

(* Mutant: no ORDER BY, the newest rows come first *)
InOrder_Newest(s) == \A i, j \in DOMAIN s : i < j => s[i] > s[j]

(* ORDER BY id *)
InOrder(s) == \A i, j \in DOMAIN s : i < j => s[i] < s[j]

(* The sequences that list n elements of the set S, in the order of the query *)
Listings(S, n) ==
    {s \in [1 .. n -> S] :
        /\ InOrder(s)
        /\ \A x \in S \ {s[i] : i \in 1 .. n} : InOrder(s \o <<x>>)}

FetchUnpublished(w) ==
    /\ worker[w] = NoBatch
    /\ w \notin stopped
    /\ Unclaimed # {}
    /\ LET n == IF Cardinality(Unclaimed) < BatchSize THEN Cardinality(Unclaimed) ELSE BatchSize
       IN  \E s \in Listings(Unclaimed, n) :
              worker' = [worker EXCEPT ![w] =
                            [NoBatch EXCEPT !.rows = s, !.snapshot = Unpublished]]
    /\ UNCHANGED <<table, kafka, faults, stopped, stops>>

(* processBatch notes the row for MarkPublished *)
MarkLater(b) ==
    [b EXCEPT !.rows = Tail(@), !.attempt = 0, !.ok = @ \cup {Head(b.rows)}]

(* publishWithRetry: an attempt that succeeds *)
PublishOk(w) ==
    /\ worker[w].rows # <<>>
    /\ kafka' = Append(kafka, Head(worker[w].rows))
    /\ worker' = [worker EXCEPT ![w] = MarkLater(worker[w])]
    /\ UNCHANGED <<table, faults, stopped, stops>>

LastAttempt(attempt) == attempt + 1 = MaxAttempts

(* Mutant: a row that cannot be published is marked published *)
GiveUp_Forgets(b) ==
    [b EXCEPT !.rows = Tail(@), !.attempt = 0, !.ok = @ \cup {Head(b.rows)}]

(* Mutant: leaves the row where it is *)
GiveUp_Leaves(b) == [b EXCEPT !.rows = Tail(@), !.attempt = 0]

(* MarkDLQ, inside the transaction *)
GiveUp(b) ==
    [b EXCEPT !.rows = Tail(@), !.attempt = 0, !.dead = @ \cup {Head(b.rows)}]

(* An attempt that fails; Kafka may have accepted the row all the same.  The
   back-off before the next attempt ends at once when stopCh is closed, and the
   row is given up however few attempts were made *)
PublishFails(w) ==
    LET b == worker[w]
        r == Head(b.rows)
    IN  /\ b.rows # <<>>
        /\ worker' = [worker EXCEPT ![w] = IF LastAttempt(b.attempt) \/ w \in stopped
                                           THEN GiveUp(b)
                                           ELSE [b EXCEPT !.attempt = @ + 1]]
        /\ \/ UNCHANGED <<kafka, faults>>
           \/ /\ faults < MaxFaults
              /\ faults' = faults + 1
              /\ kafka' = Append(kafka, r)
        /\ UNCHANGED <<table, stopped, stops>>

(* stopCh is closed while the worker sleeps after a failed attempt *)
BackoffStopped(w) ==
    /\ w \in stopped
    /\ worker[w].rows # <<>>
    /\ worker[w].attempt > 0
    /\ worker' = [worker EXCEPT ![w] = GiveUp(worker[w])]
    /\ UNCHANGED <<table, kafka, faults, stopped, stops>>

(* MarkPublished and tx.Commit *)
Commit(w) ==
    /\ worker[w] # NoBatch
    /\ worker[w].rows = <<>>
    /\ table' = [r \in Row |-> IF r \in worker[w].ok THEN "published"
                               ELSE IF r \in worker[w].dead THEN "dlq"
                               ELSE table[r]]
    /\ worker' = [worker EXCEPT ![w] = NoBatch]
    /\ UNCHANGED <<kafka, faults, stopped, stops>>

(* An error of MarkDLQ, MarkPublished or Commit, a cancelled context, or a crash:
   the claims are released and nothing is marked *)
Rollback(w) ==
    /\ worker[w] # NoBatch
    /\ faults < MaxFaults
    /\ faults' = faults + 1
    /\ worker' = [worker EXCEPT ![w] = NoBatch]
    /\ UNCHANGED <<table, kafka, stopped, stops>>

(* Relay.Stop with the context still alive (a cancelled one makes the batch roll
   back, as above): the worker leaves its loop after the batch in hand *)
Stop(w) ==
    /\ stops < MaxStops
    /\ w \notin stopped
    /\ stops' = stops + 1
    /\ stopped' = stopped \cup {w}
    /\ UNCHANGED <<table, worker, kafka, faults>>

(* The service is started again, with a new relay *)
Start(w) ==
    /\ w \in stopped
    /\ worker[w] = NoBatch
    /\ stopped' = stopped \ {w}
    /\ UNCHANGED <<table, worker, kafka, faults, stops>>

WorkerStep(w) ==
    \/ FetchUnpublished(w)
    \/ PublishOk(w)
    \/ PublishFails(w)
    \/ BackoffStopped(w)
    \/ Commit(w)
    \/ Start(w)

Next ==
    \/ \E r \in Row : InsertOutbox(r)
    \/ \E w \in Worker : WorkerStep(w) \/ Rollback(w) \/ Stop(w)

(* workerLoop polls until it is stopped, every call it makes has a timeout, and a
   service that was stopped is started again *)
Fairness == \A w \in Worker : WF_vars(WorkerStep(w))

Spec == Init /\ [][Next]_vars /\ Fairness

-----------------------------------------------------------------------------
Delivered == {kafka[i] : i \in DOMAIN kafka}

Deliveries(r) == {i \in DOMAIN kafka : kafka[i] = r}

(* A row marked published has reached Kafka, whatever rolled back between the
   publish and the mark; and only faults repeat it: without one, no row reaches
   Kafka twice, however many workers poll the table. *)
NothingLostOrRepeated ==
    \A r \in Row :
        /\ table[r] = "published" => r \in Delivered
        /\ faults = 0 => Cardinality(Deliveries(r)) <= 1

(* ADR-0010:14-15 "由独立的 outbox relay worker 顺序读取并投递到 Kafka".  Workers keep that
   order only for the rows their query could see: without faults a row is published
   ahead of an earlier row of its key that was committed when the batch was fetched
   only while another worker holds the earlier one.  A row whose transaction commits
   after the fetch is overtaken freely. *)
OvertakesOnlyUnseenOrHeld ==
    [][\A w \in Worker :
          worker[w].rows # <<>> /\ kafka' = Append(kafka, Head(worker[w].rows))
              /\ worker'[w] # worker[w] /\ faults' = 0 =>
                 \A q \in worker[w].snapshot :
                    /\ q < Head(worker[w].rows) /\ KeyOf[q] = KeyOf[Head(worker[w].rows)]
                    /\ table[q] = "pending" /\ q \notin Delivered \cup worker[w].dead
                    => \E v \in Worker \ {w} : q \in RowsOf(worker[v])]_vars

(* A row is never stuck: it is published or moved to the DLQ, though it may be
   rolled back and claimed again by another worker. *)
EventuallyRelayed ==
    \A r \in Row : table[r] = "pending" ~> table[r] \in {"published", "dlq"}
=============================================================================

------------------------- MODULE OutboxRelayProofs -------------------------
(***************************************************************************)
(* Proofs about the outbox relay, for any number of rows, keys and workers, *)
(* any batch size and any bound on attempts and faults.                     *)
(***************************************************************************)
EXTENDS OutboxRelay, SequenceTheorems, FiniteSetTheorems, TLAPS

(* The rows of a batch that are still to be published *)
Waiting(b) == Range(b.rows)

(* The rows a worker has locked are pending, and no other worker has them; they
   are listed once, in the order of their ids *)
ClaimInv ==
    /\ \A w \in Worker : \A r \in RowsOf(worker[w]) : table[r] = "pending"
    /\ \A v, w \in Worker : RowsOf(worker[v]) \cap RowsOf(worker[w]) # {} => v = w
    /\ \A w \in Worker : InOrder(worker[w].rows)
    /\ \A w \in Worker : Waiting(worker[w]) \cap (worker[w].ok \cup worker[w].dead) = {}

(* What is or will be marked published is in Kafka *)
DeliveredInv ==
    /\ \A r \in Row : table[r] = "published" => r \in Delivered
    /\ \A w \in Worker : worker[w].ok \subseteq Delivered

(* Without faults what is in Kafka is there once, and is or will be marked *)
OnceInv ==
    faults = 0 =>
        /\ \A i, j \in DOMAIN kafka : kafka[i] = kafka[j] => i = j
        /\ \A r \in Delivered : table[r] = "published" \/ \E w \in Worker : r \in worker[w].ok

(* q precedes r in the order the relay is to keep *)
Before(q, r) == q < r /\ KeyOf[q] = KeyOf[r]

(* Without faults, when a row waits in a batch, the earlier rows of its key that
   were committed when the batch was fetched are dealt with or in some batch *)
OrderInv ==
    faults = 0 =>
        \A w \in Worker : \A r \in Waiting(worker[w]) : \A q \in worker[w].snapshot :
            Before(q, r) => \/ table[q] \in {"published", "dlq"}
                            \/ \E v \in Worker : q \in RowsOf(worker[v])

(* FOR UPDATE SKIP LOCKED gives a row to one worker at a time, and nothing that
   is marked is claimed again. *)
ClaimsAreExclusive ==
    \A v, w \in Worker : \A r \in Row :
        r \in RowsOf(worker[v]) =>
            /\ table[r] = "pending"
            /\ r \in RowsOf(worker[w]) => v = w

IInv ==
    /\ TypeOK
    /\ ClaimInv
    /\ DeliveredInv
    /\ OnceInv
    /\ OrderInv

-----------------------------------------------------------------------------
(* The head of an ordered batch leaves an ordered batch without it. *)
LEMMA HeadTailRows ==
    ASSUME NEW s \in Seq(Row), s # <<>>, InOrder(s)
    PROVE  /\ Head(s) \in Row /\ Tail(s) \in Seq(Row)
           /\ InOrder(Tail(s))
           /\ Range(s) = {Head(s)} \cup Range(Tail(s))
           /\ Head(s) \notin Range(Tail(s))
           /\ \A i \in DOMAIN s : Head(s) <= s[i]
<1>1. /\ Head(s) = s[1] /\ Head(s) \in Row /\ Tail(s) \in Seq(Row)
      /\ Len(s) \in Nat /\ Len(s) >= 1 /\ DOMAIN s = 1 .. Len(s)
      /\ DOMAIN Tail(s) = 1 .. Len(s) - 1
      /\ \A i \in 1 .. Len(s) - 1 : Tail(s)[i] = s[i + 1]
  OBVIOUS
<1>2. \A i \in DOMAIN s : s[i] \in Nat
  BY <1>1, RelayAssumption DEF Row
<1>3. InOrder(Tail(s))
  BY <1>1 DEF InOrder
<1>4. \A i \in 1 .. Len(s) - 1 : Head(s) < Tail(s)[i]
  BY <1>1 DEF InOrder
<1>5. Range(s) = {Head(s)} \cup Range(Tail(s))
  <2>1. \A i \in DOMAIN s : i = 1 \/ (i - 1 \in DOMAIN Tail(s) /\ s[i] = Tail(s)[i - 1])
    BY <1>1
  <2>2. \A i \in DOMAIN Tail(s) : i + 1 \in DOMAIN s /\ s[i + 1] = Tail(s)[i]
    BY <1>1
  <2>3. 1 \in DOMAIN s
    BY <1>1
  <2>4. Head(s) = s[1]
    BY <1>1
  <2>5. ASSUME NEW x
        PROVE  (\E i \in DOMAIN s : x = s[i])
               <=> (x = Head(s) \/ \E i \in DOMAIN Tail(s) : x = Tail(s)[i])
    BY <2>1, <2>2, <2>3, <2>4
  <2>6. QED
    BY <2>5 DEF Range
<1>6. Head(s) \notin Range(Tail(s))
  BY <1>1, <1>2, <1>4 DEF Row, Range
<1>7. \A i \in DOMAIN s : Head(s) <= s[i]
  BY <1>1, <1>2 DEF InOrder
<1>8. QED
  BY <1>1, <1>3, <1>5, <1>6, <1>7

(* Kafka only grows, at its end. *)
LEMMA AppendDelivered ==
    ASSUME kafka \in Seq(Row), NEW r \in Row, kafka' = Append(kafka, r)
    PROVE  /\ kafka' \in Seq(Row)
           /\ Delivered' = Delivered \cup {r}
           /\ (\A i, j \in DOMAIN kafka : kafka[i] = kafka[j] => i = j) /\ r \notin Delivered
              => \A i, j \in DOMAIN kafka' : kafka'[i] = kafka'[j] => i = j
<1>1. /\ kafka' \in Seq(Row) /\ Len(kafka) \in Nat
      /\ DOMAIN kafka = 1 .. Len(kafka) /\ DOMAIN kafka' = 1 .. Len(kafka) + 1
      /\ \A i \in 1 .. Len(kafka) : kafka'[i] = kafka[i]
      /\ kafka'[Len(kafka) + 1] = r
  OBVIOUS
<1>2. \A i \in DOMAIN kafka' : i \in DOMAIN kafka \/ i = Len(kafka) + 1
  BY <1>1
<1>3. Delivered' = Delivered \cup {r}
  <2>1. \A i \in DOMAIN kafka : i \in DOMAIN kafka'
    BY <1>1
  <2>2. Len(kafka) + 1 \in DOMAIN kafka'
    BY <1>1
  <2>3. QED
    BY <1>1, <1>2, <2>1, <2>2 DEF Delivered
<1>4. QED
  BY <1>1, <1>2, <1>3 DEF Delivered

(* The initial state: the table and Kafka are empty. *)
LEMMA InitInv == Init => IInv
BY RelayAssumption
   DEF Init, IInv, TypeOK, ClaimInv, DeliveredInv, OnceInv, OrderInv, Batch, NoBatch,
       RowsOf, Waiting, InOrder, Delivered, Row, Range

(* A business transaction commits a row. *)
LEMMA InsertInv == ASSUME IInv, NEW r \in Row, InsertOutbox(r) PROVE IInv'
<1>1. TypeOK'
  BY DEF IInv, TypeOK, InsertOutbox
<1>2. table' = [table EXCEPT ![r] = "pending"] /\ UNCHANGED <<worker, kafka, faults>>
  BY DEF InsertOutbox
<1>3. /\ table[r] = "absent" /\ table'[r] = "pending"
      /\ \A q \in Row : q # r => table'[q] = table[q]
  BY <1>2 DEF IInv, TypeOK, InsertOutbox
<1>4. \A w \in Worker : RowsOf(worker[w]) \subseteq Row
  BY DEF IInv, TypeOK, Batch, RowsOf
<1>5. ClaimInv'
  BY <1>2, <1>3, <1>4 DEF IInv, ClaimInv, InOrder
<1>6. DeliveredInv'
  BY <1>2, <1>3 DEF IInv, DeliveredInv, Delivered
<1>7. OnceInv'
  BY <1>2, <1>3 DEF IInv, OnceInv, Delivered, TypeOK
<1>8. \A w \in Worker : worker[w].snapshot \subseteq Row
  BY DEF IInv, TypeOK, Batch
<1>9. OrderInv'
  BY <1>2, <1>3, <1>8 DEF IInv, OrderInv, Before
<1>10. QED
  BY <1>1, <1>5, <1>6, <1>7, <1>9 DEF IInv

(* What the query returns: unclaimed rows in the order of their ids, and none
   that it leaves out comes before one that it lists. *)
LEMMA ListingRows ==
    ASSUME NEW S \in SUBSET Row, NEW n \in Nat, NEW s \in Listings(S, n)
    PROVE  /\ s \in Seq(Row)
           /\ InOrder(s)
           /\ Range(s) \subseteq S
           /\ \A x \in S, i \in DOMAIN s : x < s[i] => x \in Range(s)
<1>1. s \in [1 .. n -> S] /\ InOrder(s)
  BY DEF Listings
<1>2. s \in Seq(Row) /\ DOMAIN s = 1 .. n /\ Len(s) = n
  BY <1>1
<1>3. ASSUME NEW x \in S, NEW i \in DOMAIN s, x < s[i], x \notin Range(s)
      PROVE  FALSE
  <2>1. InOrder(s \o <<x>>)
    BY <1>2, <1>3 DEF Listings, Range
  <2>2. DOMAIN (s \o <<x>>) = 1 .. n + 1
    BY <1>2
  <2>3. (s \o <<x>>)[i] = s[i] /\ (s \o <<x>>)[n + 1] = x
    BY <1>2
  <2>4. s[i] < x
    BY <1>2, <2>1, <2>2, <2>3 DEF InOrder
  <2>5. s[i] \in Nat /\ x \in Nat
    BY <1>2, RelayAssumption DEF Row
  <2>6. QED
    BY <1>3, <2>4, <2>5
<1>4. Range(s) \subseteq S
  BY <1>1 DEF Range
<1>5. QED
  BY <1>1, <1>2, <1>3, <1>4

(* A worker claims a batch. *)
LEMMA FetchInv == ASSUME IInv, NEW w \in Worker, FetchUnpublished(w) PROVE IInv'
<1>1. Unclaimed \in SUBSET Row
  BY DEF Unclaimed, Unpublished
<1>2. IsFiniteSet(Unclaimed) /\ Cardinality(Unclaimed) \in Nat
  <2>1. IsFiniteSet(Row)
    BY FS_Interval, RelayAssumption DEF Row
  <2>2. IsFiniteSet(Unclaimed)
    BY <1>1, <2>1, FS_Subset
  <2>3. QED
    BY <2>2, FS_CardinalityType
<1> DEFINE n == IF Cardinality(Unclaimed) < BatchSize THEN Cardinality(Unclaimed) ELSE BatchSize
<1>3. n \in Nat
  BY <1>2, RelayAssumption
<1>4. PICK s \in Listings(Unclaimed, n) :
          worker' = [worker EXCEPT ![w] =
                        [NoBatch EXCEPT !.rows = s, !.snapshot = Unpublished]]
  BY DEF FetchUnpublished
<1> HIDE DEF n
<1>5. /\ s \in Seq(Row) /\ InOrder(s)
      /\ Range(s) \subseteq Unclaimed
      /\ \A x \in Unclaimed, i \in DOMAIN s : x < s[i] => x \in Range(s)
  BY <1>1, <1>3, ListingRows
<1> DEFINE b == [rows |-> s, attempt |-> 0, ok |-> {}, dead |-> {}, snapshot |-> Unpublished]
<1>6. b \in Batch
  <2>1. 0 \in 0 .. MaxAttempts - 1
    BY RelayAssumption
  <2>2. QED
    BY <1>5, <2>1 DEF Batch, Unpublished
<1>7. /\ UNCHANGED <<table, kafka, faults, stopped, stops>>
      /\ worker[w] = NoBatch
      /\ worker'[w] = b
      /\ \A v \in Worker : v # w => worker'[v] = worker[v]
      /\ worker' \in [Worker -> Batch]
  BY <1>4, <1>6 DEF FetchUnpublished, IInv, TypeOK, NoBatch
<1>8. /\ Waiting(b) = Range(s) /\ RowsOf(b) = Waiting(b)
      /\ b.rows = s /\ b.ok = {} /\ b.dead = {} /\ b.snapshot = Unpublished
      /\ RowsOf(NoBatch) = {} /\ worker[w].ok = {} /\ RowsOf(worker[w]) = {}
  BY <1>7 DEF Waiting, RowsOf, NoBatch, Range
<1> HIDE DEF b
<1>9. TypeOK'
  BY <1>7 DEF IInv, TypeOK
<1>10. ClaimInv'
  <2>1. \A r \in Waiting(b) : table[r] = "pending" /\ \A v \in Worker : r \notin RowsOf(worker[v])
    BY <1>5, <1>8 DEF Unclaimed, Unpublished
  <2>2. \A v \in Worker : \A r \in RowsOf(worker'[v]) : table'[r] = "pending"
    BY <1>7, <1>8, <2>1 DEF IInv, ClaimInv
  <2>3. \A u, v \in Worker : RowsOf(worker'[u]) \cap RowsOf(worker'[v]) # {} => u = v
    BY <1>7, <1>8, <2>1 DEF IInv, ClaimInv
  <2>4. \A v \in Worker : InOrder(worker'[v].rows)
    BY <1>5, <1>7, <1>8 DEF IInv, ClaimInv
  <2>5. \A v \in Worker : Waiting(worker'[v]) \cap (worker'[v].ok \cup worker'[v].dead) = {}
    BY <1>7, <1>8 DEF IInv, ClaimInv
  <2>6. QED
    BY <2>2, <2>3, <2>4, <2>5 DEF ClaimInv
<1>11. DeliveredInv'
  BY <1>7, <1>8 DEF IInv, DeliveredInv, Delivered
<1>12. OnceInv'
  BY <1>7, <1>8 DEF IInv, OnceInv, Delivered
<1>13. \A v \in Worker : RowsOf(worker[v]) \subseteq RowsOf(worker'[v])
  BY <1>7, <1>8
<1>14. ASSUME NEW r \in Waiting(b), NEW q \in b.snapshot, Before(q, r)
       PROVE  table[q] \in {"published", "dlq"} \/ \E v \in Worker : q \in RowsOf(worker'[v])
  <2>1. q \in Row /\ table[q] = "pending"
    BY <1>8 DEF Unpublished
  <2>3. CASE q \in Unclaimed
    <3>1. PICK i \in DOMAIN s : r = s[i]
      BY <1>8 DEF Range
    <3>2. q \in Range(s)
      BY <1>5, <1>14, <2>3, <3>1 DEF Before
    <3>3. QED
      BY <1>7, <1>8, <3>2
  <2>4. CASE q \notin Unclaimed
    BY <1>13, <2>1, <2>4 DEF Unclaimed, Unpublished
  <2>5. QED
    BY <2>3, <2>4
<1>15. OrderInv'
  BY <1>7, <1>13, <1>14 DEF IInv, OrderInv, Before
<1>16. QED
  BY <1>9, <1>10, <1>11, <1>12, <1>15 DEF IInv

(* A worker goes on with the batch it has claimed: the batch keeps its rows and
   no row begins to wait again. *)
LEMMA WorkInv ==
    ASSUME IInv, NEW w \in Worker, NEW b \in Batch,
           worker' = [worker EXCEPT ![w] = b],
           UNCHANGED table,
           faults' = 0 => faults = 0,
           RowsOf(b) = RowsOf(worker[w]),
           Waiting(b) \subseteq Waiting(worker[w]),
           b.snapshot = worker[w].snapshot,
           InOrder(b.rows),
           Waiting(b) \cap (b.ok \cup b.dead) = {}
    PROVE  worker' \in [Worker -> Batch] /\ ClaimInv' /\ OrderInv'
<1>1. /\ worker'[w] = b
      /\ \A v \in Worker : v # w => worker'[v] = worker[v]
      /\ worker' \in [Worker -> Batch]
  BY DEF IInv, TypeOK
<1>2. /\ \A v \in Worker : RowsOf(worker'[v]) = RowsOf(worker[v])
      /\ \A v \in Worker : Waiting(worker'[v]) \subseteq Waiting(worker[v])
      /\ \A v \in Worker : worker'[v].snapshot = worker[v].snapshot
  BY <1>1
<1>3. ClaimInv'
  BY <1>1, <1>2 DEF IInv, ClaimInv
<1>4. OrderInv'
  BY <1>2 DEF IInv, OrderInv, Before
<1>5. QED
  BY <1>1, <1>3, <1>4

(* The row a worker publishes next: it is locked by this worker alone. *)
LEMMA HeadRow ==
    ASSUME IInv, NEW w \in Worker, worker[w].rows # <<>>
    PROVE  /\ worker[w] \in Batch
           /\ Head(worker[w].rows) \in Row /\ Tail(worker[w].rows) \in Seq(Row)
           /\ InOrder(Tail(worker[w].rows))
           /\ Waiting(worker[w]) = {Head(worker[w].rows)} \cup Range(Tail(worker[w].rows))
           /\ Head(worker[w].rows) \notin Range(Tail(worker[w].rows))
           /\ Head(worker[w].rows) \in RowsOf(worker[w])
           /\ table[Head(worker[w].rows)] = "pending"
           /\ \A v \in Worker : Head(worker[w].rows) \notin worker[v].ok
           /\ faults = 0 => Head(worker[w].rows) \notin Delivered
<1> DEFINE s == worker[w].rows
<1>1. worker[w] \in Batch /\ s \in Seq(Row) /\ InOrder(s)
  BY DEF IInv, TypeOK, ClaimInv, Batch
<1> HIDE DEF s
<1>2. /\ Head(s) \in Row /\ Tail(s) \in Seq(Row) /\ InOrder(Tail(s))
      /\ Range(s) = {Head(s)} \cup Range(Tail(s)) /\ Head(s) \notin Range(Tail(s))
  BY <1>1, HeadTailRows DEF s
<1>3. Waiting(worker[w]) = Range(s)
  BY DEF Waiting, s
<1>4. \A v \in Worker : RowsOf(worker[v]) = Waiting(worker[v]) \cup worker[v].ok \cup worker[v].dead
  BY DEF RowsOf, Waiting, Range
<1>5. Head(s) \in RowsOf(worker[w]) /\ table[Head(s)] = "pending"
  BY <1>2, <1>3, <1>4 DEF IInv, ClaimInv
<1>6. \A v \in Worker : Head(s) \notin worker[v].ok
  BY <1>2, <1>3, <1>4, <1>5 DEF IInv, ClaimInv
<1>7. faults = 0 => Head(s) \notin Delivered
  BY <1>5, <1>6 DEF IInv, OnceInv
<1>8. QED
  BY <1>1, <1>2, <1>3, <1>5, <1>6, <1>7 DEF s

(* The batch after its first row was published, given up, or failed once. *)
LEMMA BatchSteps ==
    ASSUME IInv, NEW w \in Worker, worker[w].rows # <<>>, NEW b \in Batch,
           b.rows = Tail(worker[w].rows),
           \/ /\ b.ok = worker[w].ok \cup {Head(worker[w].rows)}
              /\ b.dead = worker[w].dead
           \/ /\ b.ok = worker[w].ok
              /\ b.dead = worker[w].dead \cup {Head(worker[w].rows)}
    PROVE  /\ RowsOf(b) = RowsOf(worker[w])
           /\ Waiting(b) \subseteq Waiting(worker[w])
           /\ InOrder(b.rows)
           /\ Waiting(b) \cap (b.ok \cup b.dead) = {}
<1>1. /\ RowsOf(b) = Waiting(b) \cup b.ok \cup b.dead
      /\ RowsOf(worker[w]) = Waiting(worker[w]) \cup worker[w].ok \cup worker[w].dead
  BY DEF RowsOf, Waiting, Range
<1>2. Waiting(b) = Range(Tail(worker[w].rows)) /\ InOrder(b.rows)
  BY HeadRow DEF Waiting
<1>3. /\ Waiting(worker[w]) = {Head(worker[w].rows)} \cup Waiting(b)
      /\ Head(worker[w].rows) \notin Waiting(b)
  BY <1>2, HeadRow
<1>4. Waiting(worker[w]) \cap (worker[w].ok \cup worker[w].dead) = {}
  BY DEF IInv, ClaimInv
<1>5. QED
  BY <1>1, <1>2, <1>3, <1>4

(* An attempt that succeeds. *)
LEMMA PublishOkInv == ASSUME IInv, NEW w \in Worker, PublishOk(w) PROVE IInv'
<1> DEFINE r == Head(worker[w].rows)
           b == MarkLater(worker[w])
<1>1. worker[w].rows # <<>> /\ kafka' = Append(kafka, r) /\ UNCHANGED <<table, faults, stopped, stops>>
  BY DEF PublishOk
<1>2. worker' = [worker EXCEPT ![w] = b]
  BY DEF PublishOk
<1>3. worker[w] \in Batch /\ r \in Row /\ Tail(worker[w].rows) \in Seq(Row)
  BY <1>1, HeadRow
<1>4. /\ b \in Batch /\ b.rows = Tail(worker[w].rows)
      /\ b.ok = worker[w].ok \cup {r} /\ b.dead = worker[w].dead
      /\ b.snapshot = worker[w].snapshot
  <2>1. 0 \in 0 .. MaxAttempts - 1
    BY RelayAssumption
  <2>2. QED
    BY <1>3, <2>1 DEF Batch, MarkLater
<1> HIDE DEF b
<1>5. /\ RowsOf(b) = RowsOf(worker[w]) /\ Waiting(b) \subseteq Waiting(worker[w])
      /\ InOrder(b.rows) /\ Waiting(b) \cap (b.ok \cup b.dead) = {}
  BY <1>1, <1>4, BatchSteps
<1>6. worker' \in [Worker -> Batch] /\ ClaimInv' /\ OrderInv'
  BY <1>1, <1>2, <1>4, <1>5, WorkInv
<1>7. kafka \in Seq(Row)
  BY DEF IInv, TypeOK
<1>8. /\ kafka' \in Seq(Row)
      /\ Delivered' = Delivered \cup {r}
      /\ (\A i, j \in DOMAIN kafka : kafka[i] = kafka[j] => i = j) /\ r \notin Delivered
         => \A i, j \in DOMAIN kafka' : kafka'[i] = kafka'[j] => i = j
  BY <1>1, <1>3, <1>7, AppendDelivered
<1>9. /\ worker'[w].ok = worker[w].ok \cup {r}
      /\ \A v \in Worker : v # w => worker'[v] = worker[v]
  BY <1>2, <1>4 DEF IInv, TypeOK
<1>10. TypeOK'
  BY <1>1, <1>6, <1>8 DEF IInv, TypeOK
<1>11. DeliveredInv'
  BY <1>1, <1>8, <1>9 DEF IInv, DeliveredInv
<1>12. OnceInv'
  BY <1>1, <1>8, <1>9, HeadRow DEF IInv, OnceInv
<1>13. QED
  BY <1>6, <1>10, <1>11, <1>12 DEF IInv

(* An attempt that fails, whether or not Kafka took the row. *)
LEMMA PublishFailsInv == ASSUME IInv, NEW w \in Worker, PublishFails(w) PROVE IInv'
<1> DEFINE r == Head(worker[w].rows)
           b == IF LastAttempt(worker[w].attempt) \/ w \in stopped THEN GiveUp(worker[w])
                ELSE [worker[w] EXCEPT !.attempt = @ + 1]
<1>1. worker[w].rows # <<>> /\ worker' = [worker EXCEPT ![w] = b]
      /\ UNCHANGED <<table, stopped, stops>>
  BY DEF PublishFails
<1>2. \/ UNCHANGED <<kafka, faults>>
      \/ faults < MaxFaults /\ faults' = faults + 1 /\ kafka' = Append(kafka, r)
  BY DEF PublishFails
<1>3. worker[w] \in Batch /\ r \in Row /\ Tail(worker[w].rows) \in Seq(Row)
  BY <1>1, HeadRow
<1>4. /\ b \in Batch /\ b.ok = worker[w].ok /\ b.snapshot = worker[w].snapshot
      /\ RowsOf(b) = RowsOf(worker[w]) /\ Waiting(b) \subseteq Waiting(worker[w])
      /\ InOrder(b.rows) /\ Waiting(b) \cap (b.ok \cup b.dead) = {}
  <2>1. CASE LastAttempt(worker[w].attempt) \/ w \in stopped
    <3>1. 0 \in 0 .. MaxAttempts - 1
      BY RelayAssumption
    <3>2. /\ b \in Batch /\ b.rows = Tail(worker[w].rows)
          /\ b.ok = worker[w].ok /\ b.dead = worker[w].dead \cup {r}
          /\ b.snapshot = worker[w].snapshot
      BY <1>3, <2>1, <3>1 DEF Batch, GiveUp
    <3> HIDE DEF b
    <3>3. QED
      BY <1>1, <3>2, BatchSteps
  <2>2. CASE ~(LastAttempt(worker[w].attempt) \/ w \in stopped)
    <3>1. worker[w].attempt + 1 \in 0 .. MaxAttempts - 1
      BY <1>3, <2>2, RelayAssumption DEF Batch, LastAttempt
    <3>2. /\ b \in Batch /\ b.rows = worker[w].rows
          /\ b.ok = worker[w].ok /\ b.dead = worker[w].dead
          /\ b.snapshot = worker[w].snapshot
      BY <1>3, <2>2, <3>1 DEF Batch
    <3> HIDE DEF b
    <3>3. RowsOf(b) = RowsOf(worker[w]) /\ Waiting(b) = Waiting(worker[w])
      BY <3>2 DEF RowsOf, Waiting
    <3>4. QED
      BY <3>2, <3>3 DEF IInv, ClaimInv
  <2>3. QED
    BY <2>1, <2>2
<1> HIDE DEF b
<1>5. faults \in Nat /\ faults' \in 0 .. MaxFaults /\ (faults' = 0 => faults = 0 /\ kafka' = kafka)
  BY <1>2, RelayAssumption DEF IInv, TypeOK
<1>6. worker' \in [Worker -> Batch] /\ ClaimInv' /\ OrderInv'
  BY <1>1, <1>4, <1>5, WorkInv
<1>7. kafka' \in Seq(Row) /\ Delivered \subseteq Delivered' /\ (faults' = 0 => Delivered' = Delivered)
  <2>1. CASE UNCHANGED <<kafka, faults>>
    BY <2>1 DEF IInv, TypeOK, Delivered
  <2>2. CASE faults' = faults + 1 /\ kafka' = Append(kafka, r)
    BY <1>3, <1>5, <2>2, AppendDelivered DEF IInv, TypeOK
  <2>3. QED
    BY <1>2, <2>1, <2>2
<1>8. \A v \in Worker : worker'[v].ok = worker[v].ok
  BY <1>1, <1>4 DEF IInv, TypeOK
<1>9. TypeOK'
  BY <1>1, <1>5, <1>6, <1>7 DEF IInv, TypeOK
<1>10. DeliveredInv'
  BY <1>1, <1>7, <1>8 DEF IInv, DeliveredInv
<1>11. OnceInv'
  BY <1>1, <1>5, <1>7, <1>8 DEF IInv, OnceInv
<1>12. QED
  BY <1>6, <1>9, <1>10, <1>11 DEF IInv

(* The back-off of a failed attempt is cut short by Stop: the row is given up. *)
LEMMA BackoffStoppedInv == ASSUME IInv, NEW w \in Worker, BackoffStopped(w) PROVE IInv'
<1> DEFINE r == Head(worker[w].rows)
           b == GiveUp(worker[w])
<1>1. /\ worker[w].rows # <<>> /\ worker' = [worker EXCEPT ![w] = b]
      /\ UNCHANGED <<table, kafka, faults, stopped, stops>>
  BY DEF BackoffStopped
<1>2. worker[w] \in Batch /\ r \in Row /\ Tail(worker[w].rows) \in Seq(Row)
  BY <1>1, HeadRow
<1>3. 0 \in 0 .. MaxAttempts - 1
  BY RelayAssumption
<1>4. /\ b \in Batch /\ b.rows = Tail(worker[w].rows)
      /\ b.ok = worker[w].ok /\ b.dead = worker[w].dead \cup {r}
      /\ b.snapshot = worker[w].snapshot
  BY <1>2, <1>3 DEF Batch, GiveUp
<1> HIDE DEF b
<1>5. worker' \in [Worker -> Batch] /\ ClaimInv' /\ OrderInv'
  BY <1>1, <1>4, BatchSteps, WorkInv
<1>6. \A v \in Worker : worker'[v].ok = worker[v].ok
  BY <1>1, <1>4 DEF IInv, TypeOK
<1>7. TypeOK'
  BY <1>1, <1>5 DEF IInv, TypeOK
<1>8. DeliveredInv' /\ OnceInv'
  BY <1>1, <1>6 DEF IInv, DeliveredInv, OnceInv, Delivered
<1>9. QED
  BY <1>5, <1>7, <1>8 DEF IInv

(* A worker that ends its transaction has claimed nothing any more. *)
LEMMA ReleaseRows ==
    ASSUME IInv, NEW w \in Worker, worker' = [worker EXCEPT ![w] = NoBatch]
    PROVE  /\ worker' \in [Worker -> Batch]
           /\ RowsOf(worker'[w]) = {} /\ Waiting(worker'[w]) = {}
           /\ worker'[w].ok = {} /\ worker'[w].dead = {} /\ InOrder(worker'[w].rows)
           /\ \A v \in Worker : v # w => worker'[v] = worker[v]
<1>1. 0 \in 0 .. MaxAttempts - 1
  BY RelayAssumption
<1>2. NoBatch \in Batch
  BY <1>1 DEF Batch, NoBatch
<1>3. worker'[w] = NoBatch /\ worker' \in [Worker -> Batch]
  BY <1>2 DEF IInv, TypeOK
<1>4. RowsOf(NoBatch) = {} /\ Waiting(NoBatch) = {} /\ InOrder(NoBatch.rows)
  BY DEF RowsOf, Waiting, Range, InOrder, NoBatch
<1>5. \A v \in Worker : v # w => worker'[v] = worker[v]
  BY DEF IInv, TypeOK
<1>6. QED
  BY <1>3, <1>4, <1>5 DEF NoBatch

(* The rows of a batch are marked, and its claims released. *)
LEMMA CommitInv == ASSUME IInv, NEW w \in Worker, Commit(w) PROVE IInv'
<1>1. /\ worker[w].rows = <<>> /\ UNCHANGED <<kafka, faults, stopped, stops>>
      /\ worker' = [worker EXCEPT ![w] = NoBatch]
      /\ table' = [r \in Row |-> IF r \in worker[w].ok THEN "published"
                                 ELSE IF r \in worker[w].dead THEN "dlq"
                                 ELSE table[r]]
  BY DEF Commit
<1>2. TypeOK'
  BY <1>1, ReleaseRows DEF IInv, TypeOK
<1>3. \A v \in Worker : RowsOf(worker[v]) \subseteq Row /\ worker[v].ok \subseteq RowsOf(worker[v])
  BY DEF IInv, TypeOK, Batch, RowsOf
<1>4. RowsOf(worker[w]) = worker[w].ok \cup worker[w].dead
  BY <1>1 DEF RowsOf
<1>5. \A r \in Row : r \notin RowsOf(worker[w]) => table'[r] = table[r]
  BY <1>1, <1>4
<1>6. \A r \in Row : r \in RowsOf(worker[w]) =>
          table[r] = "pending" /\ table'[r] \in {"published", "dlq"}
  BY <1>1, <1>4 DEF IInv, ClaimInv
<1>7. \A r \in Row : table'[r] = "published" <=> table[r] = "published" \/ r \in worker[w].ok
  BY <1>1, <1>3, <1>5, <1>6
<1>8. ClaimInv'
  <2>1. ASSUME NEW v \in Worker, NEW r \in RowsOf(worker'[v])
        PROVE  table'[r] = "pending"
    BY <1>1, <1>3, <1>5, <2>1, ReleaseRows DEF IInv, ClaimInv
  <2>2. ASSUME NEW u \in Worker, NEW v \in Worker, RowsOf(worker'[u]) \cap RowsOf(worker'[v]) # {}
        PROVE  u = v
    BY <1>1, <2>2, ReleaseRows DEF IInv, ClaimInv
  <2>3. \A v \in Worker : InOrder(worker'[v].rows)
    BY <1>1, ReleaseRows DEF IInv, ClaimInv
  <2>4. \A v \in Worker : Waiting(worker'[v]) \cap (worker'[v].ok \cup worker'[v].dead) = {}
    BY <1>1, ReleaseRows DEF IInv, ClaimInv
  <2>5. QED
    BY <2>1, <2>2, <2>3, <2>4 DEF ClaimInv
<1>9. Delivered' = Delivered
  BY <1>1 DEF Delivered
<1>10. DeliveredInv'
  BY <1>1, <1>7, <1>9, ReleaseRows DEF IInv, DeliveredInv
<1>11. OnceInv'
  <2>1. SUFFICES ASSUME faults = 0, NEW r \in Delivered
                 PROVE  table'[r] = "published" \/ \E v \in Worker : r \in worker'[v].ok
    BY <1>1, <1>9 DEF IInv, OnceInv
  <2>2. r \in Row
    BY DEF IInv, TypeOK, Delivered
  <2>3. table[r] = "published" \/ \E v \in Worker : r \in worker[v].ok
    BY <2>1 DEF IInv, OnceInv
  <2>4. QED
    BY <1>1, <1>7, <2>2, <2>3, ReleaseRows
<1>12. OrderInv'
  <2>1. SUFFICES ASSUME faults = 0, NEW v \in Worker, NEW r \in Waiting(worker'[v]),
                        NEW q \in worker'[v].snapshot, Before(q, r)
                 PROVE  table'[q] \in {"published", "dlq"} \/ \E u \in Worker : q \in RowsOf(worker'[u])
    BY <1>1 DEF OrderInv, Before
  <2>2. v # w /\ worker'[v] = worker[v]
    BY <1>1, <2>1, ReleaseRows
  <2>3. q \in Row
    BY <2>2 DEF IInv, TypeOK, Batch
  <2>4. table[q] \in {"published", "dlq"} \/ \E u \in Worker : q \in RowsOf(worker[u])
    BY <2>1, <2>2 DEF IInv, OrderInv
  <2>5. QED
    BY <1>1, <1>5, <1>6, <2>3, <2>4, ReleaseRows
<1>13. QED
  BY <1>2, <1>8, <1>10, <1>11, <1>12 DEF IInv

(* The claims of a batch are released and nothing is marked. *)
LEMMA RollbackInv == ASSUME IInv, NEW w \in Worker, Rollback(w) PROVE IInv'
<1>1. /\ faults < MaxFaults /\ faults' = faults + 1
      /\ UNCHANGED <<table, kafka, stopped, stops>>
      /\ worker' = [worker EXCEPT ![w] = NoBatch]
  BY DEF Rollback
<1>2. faults' # 0 /\ faults' \in 0 .. MaxFaults
  BY <1>1, RelayAssumption DEF IInv, TypeOK
<1>3. TypeOK'
  BY <1>1, <1>2, ReleaseRows DEF IInv, TypeOK
<1>4. ClaimInv'
  BY <1>1, ReleaseRows DEF IInv, ClaimInv
<1>5. DeliveredInv'
  <2>1. Delivered' = Delivered
    BY <1>1 DEF Delivered
  <2>2. QED
    BY <1>1, <2>1, ReleaseRows DEF IInv, DeliveredInv
<1>6. OnceInv'
  BY <1>2 DEF OnceInv
<1>7. OrderInv'
  BY <1>2 DEF OrderInv
<1>8. QED
  BY <1>3, <1>4, <1>5, <1>6, <1>7 DEF IInv

(* Stopping a relay and starting it again leave rows and batches alone. *)
LEMMA StopStartInv == ASSUME IInv, NEW w \in Worker, Stop(w) \/ Start(w) PROVE IInv'
<1>1. UNCHANGED <<table, worker, kafka, faults>>
  BY DEF Stop, Start
<1>2. stopped' \in SUBSET Worker /\ stops' \in 0 .. MaxStops
  BY RelayAssumption DEF IInv, TypeOK, Stop, Start
<1>3. TypeOK' /\ DeliveredInv'
  BY <1>1, <1>2 DEF IInv, TypeOK, DeliveredInv, Delivered
<1>4. ClaimInv' /\ OnceInv' /\ OrderInv'
  BY <1>1 DEF IInv, ClaimInv, OnceInv, OrderInv, Before, Delivered
<1>5. QED
  BY <1>3, <1>4 DEF IInv

(* Every step of a business transaction or of a worker keeps the invariant. *)
LEMMA NextInv == IInv /\ [Next]_vars => IInv'
<1> SUFFICES ASSUME IInv, [Next]_vars PROVE IInv'
  OBVIOUS
<1>1. CASE \E r \in Row : InsertOutbox(r)
  BY <1>1, InsertInv
<1>2. ASSUME NEW w \in Worker, WorkerStep(w) PROVE IInv'
  BY <1>2, FetchInv, PublishOkInv, PublishFailsInv, BackoffStoppedInv, CommitInv, StopStartInv
     DEF WorkerStep
<1>3. ASSUME NEW w \in Worker, Rollback(w) PROVE IInv'
  BY <1>3, RollbackInv
<1>4. ASSUME NEW w \in Worker, Stop(w) PROVE IInv'
  BY <1>4, StopStartInv
<1>5. CASE UNCHANGED vars
  <2>1. UNCHANGED <<table, worker, kafka, faults, stopped, stops>>
    BY <1>5 DEF vars
  <2>2. TypeOK' /\ DeliveredInv'
    BY <2>1 DEF IInv, TypeOK, DeliveredInv, Delivered
  <2>3. ClaimInv' /\ OnceInv' /\ OrderInv'
    BY <2>1 DEF IInv, ClaimInv, OnceInv, OrderInv, Before, Delivered
  <2>4. QED
    BY <2>2, <2>3 DEF IInv
<1>6. QED
  BY <1>1, <1>2, <1>3, <1>4, <1>5 DEF Next

(* The invariant holds in every reachable state. *)
THEOREM RelayInvariance == Spec => []IInv
<1>1. Init => IInv
  BY InitInv
<1>2. IInv /\ [Next]_vars => IInv'
  BY NextInv
<1>3. QED
  BY <1>1, <1>2, PTL DEF Spec

(* The relay's state keeps its type: an attempt counter stays below MaxAttempts
   and a batch lists rows of the table only. *)
THEOREM RelayTypeCorrect == Spec => []TypeOK
<1>1. IInv => TypeOK
  BY DEF IInv
<1>2. QED
  BY <1>1, RelayInvariance, PTL

(* A set in which any two elements are equal has at most one. *)
LEMMA AtMostOne ==
    ASSUME NEW S, \A x, y \in S : x = y
    PROVE  Cardinality(S) <= 1
<1>1. CASE S = {}
  BY <1>1, FS_EmptySet
<1>2. CASE S # {}
  <2>1. PICK x \in S : TRUE
    BY <1>2
  <2>2. S = {x}
    BY <2>1
  <2>3. Cardinality({x}) = 1
    BY FS_Singleton
  <2>4. QED
    BY <2>2, <2>3
<1>3. QED
  BY <1>1, <1>2

(* A row that processBatch marks published has reached Kafka, and no row reaches
   Kafka twice unless a transaction rolled back or a publish failed after it took
   effect, for any number of workers. *)
THEOREM RelayDelivers == Spec => []NothingLostOrRepeated
<1>1. IInv => NothingLostOrRepeated
  <2> SUFFICES ASSUME IInv, NEW r \in Row
               PROVE  /\ table[r] = "published" => r \in Delivered
                      /\ faults = 0 => Cardinality(Deliveries(r)) <= 1
    BY DEF NothingLostOrRepeated
  <2>1. table[r] = "published" => r \in Delivered
    BY DEF IInv, DeliveredInv
  <2>2. ASSUME faults = 0 PROVE Cardinality(Deliveries(r)) <= 1
    <3>1. \A i, j \in Deliveries(r) : i = j
      BY <2>2 DEF IInv, OnceInv, Deliveries
    <3>2. QED
      BY <3>1, AtMostOne
  <2>3. QED
    BY <2>1, <2>2
<1>2. QED
  BY <1>1, RelayInvariance, PTL

(* No row is in the open transactions of two workers, and nothing that is marked
   published or moved to the DLQ is claimed again (FOR UPDATE SKIP LOCKED). *)
THEOREM RelayClaims == Spec => []ClaimsAreExclusive
<1>1. IInv => ClaimsAreExclusive
  BY DEF IInv, ClaimInv, ClaimsAreExclusive
<1>2. QED
  BY <1>1, RelayInvariance, PTL

(* No step takes a fault back. *)
LEMMA FaultsGrow == ASSUME IInv, [Next]_vars PROVE faults' = 0 => faults = 0
<1>1. faults \in Nat
  BY RelayAssumption DEF IInv, TypeOK
<1>2. ASSUME NEW w \in Worker, PublishFails(w) \/ Rollback(w)
      PROVE  faults' = faults \/ faults' = faults + 1
  BY <1>2 DEF PublishFails, Rollback
<1>3. ASSUME NEW w \in Worker,
             FetchUnpublished(w) \/ PublishOk(w) \/ BackoffStopped(w) \/ Commit(w) \/ Start(w) \/ Stop(w)
      PROVE  faults' = faults
  BY <1>3 DEF FetchUnpublished, PublishOk, BackoffStopped, Commit, Start, Stop
<1>4. ASSUME NEW r \in Row, InsertOutbox(r) PROVE faults' = faults
  BY <1>4 DEF InsertOutbox
<1>5. CASE UNCHANGED vars
  BY <1>5 DEF vars
<1>6. QED
  BY <1>1, <1>2, <1>3, <1>4, <1>5 DEF Next, WorkerStep

(* The order of ADR-0010, as far as the relay keeps it: without faults a worker
   publishes a row ahead of an earlier row of its key that its query could see only
   while another worker holds the earlier one, in whatever order the rows of a key
   are committed. *)
THEOREM RelayOrder == Spec => OvertakesOnlyUnseenOrHeld
<1> DEFINE Overtakes(w) ==
       worker[w].rows # <<>> /\ kafka' = Append(kafka, Head(worker[w].rows))
           /\ worker'[w] # worker[w] /\ faults' = 0 =>
              \A q \in worker[w].snapshot :
                 /\ q < Head(worker[w].rows) /\ KeyOf[q] = KeyOf[Head(worker[w].rows)]
                 /\ table[q] = "pending" /\ q \notin Delivered \cup worker[w].dead
                 => \E v \in Worker \ {w} : q \in RowsOf(worker[v])
<1>1. ASSUME IInv, [Next]_vars, NEW w \in Worker PROVE Overtakes(w)
  <2> SUFFICES ASSUME worker[w].rows # <<>>, faults' = 0, NEW q \in worker[w].snapshot,
                      kafka' = Append(kafka, Head(worker[w].rows)),
                      q < Head(worker[w].rows), KeyOf[q] = KeyOf[Head(worker[w].rows)],
                      table[q] = "pending", q \notin Delivered \cup worker[w].dead
               PROVE  \E v \in Worker \ {w} : q \in RowsOf(worker[v])
    OBVIOUS
  <2>1. faults = 0
    BY <1>1, FaultsGrow
  <2>2. Head(worker[w].rows) \in Waiting(worker[w]) /\ Before(q, Head(worker[w].rows))
    BY <1>1, HeadRow DEF Before
  <2>3. PICK v \in Worker : q \in RowsOf(worker[v])
    BY <1>1, <2>1, <2>2 DEF IInv, OrderInv
  <2>4. q \notin worker[w].ok
    BY <1>1 DEF IInv, DeliveredInv
  <2>5. q \notin Waiting(worker[w])
    <3>1. worker[w].rows \in Seq(Row) /\ InOrder(worker[w].rows)
      BY <1>1 DEF IInv, TypeOK, Batch, ClaimInv
    <3>2. \A i \in DOMAIN worker[w].rows : Head(worker[w].rows) <= worker[w].rows[i]
      BY <3>1, HeadTailRows
    <3>3. q \in Nat /\ Head(worker[w].rows) \in Nat
      BY <1>1, HeadRow, RelayAssumption DEF Row, IInv, TypeOK, Batch
    <3>4. QED
      BY <3>2, <3>3 DEF Waiting, Range
  <2>6. v # w
    BY <2>3, <2>4, <2>5 DEF RowsOf, Waiting, Range
  <2>7. QED
    BY <2>3, <2>6
<1>2. IInv /\ [Next]_vars => [\A w \in Worker : Overtakes(w)]_vars
  BY <1>1
<1>3. QED
  BY <1>2, RelayInvariance, PTL DEF Spec, OvertakesOnlyUnseenOrHeld
=============================================================================

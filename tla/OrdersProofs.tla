---------------------------- MODULE OrdersProofs ----------------------------
(***************************************************************************)
(* Proofs about the orders of billing-svc, for any number of orders,       *)
(* webhooks, handler goroutines and restarts, and any configuration of the *)
(* payment channels.                                                       *)
(***************************************************************************)
EXTENDS Orders, FiniteSetTheorems, TLAPS

(* The providers' words for a payment and for its refund *)
Words == {"paid", "refunded", "SUCCESS", "REFUND", "TRADE_SUCCESS", "TRADE_CLOSED", "CONSUMABLE"}

Prepay == [ch : Channels, order : OrderIds, amount : Int, signed : BOOLEAN]
Notice == [ch : Channels, order : OrderIds, trade : {Trade}, amount : Int,
           state : Words, nonce : Nonces]
OrderRow == [id : OrderIds, key : Keys, price : Prices, ch : RowChannels, status : Statuses]
OutboxRow == [topic : {"order.created", "order.paid", "order.refunded"}, order : OrderIds]

(* A goroutine that verifies a webhook, one in a transaction, one that is over *)
Verifying == [pc : {"body"}, notice : Notice]
InTx == [pc : {"update", "hit", "miss"}, op : {"paid", "refunded"}, order : Ids,
         for : SUBSET Notice]
Job == Verifying \cup InTx \cup {Done}

(* The state without the reconcile worker's, which the other parts never read *)
PayTypeOK ==
    /\ cfg \in Configs
    /\ rows \subseteq OrderRow
    /\ answered \in 0..MaxOrders
    /\ outbox \in Seq(OutboxRow)
    /\ prepays \subseteq Prepay
    /\ notices \subseteq Notice
    /\ sent \in 0..MaxNotices
    /\ nonces \in [Channels -> SUBSET Nonces]
    /\ jobs \in Seq(Job)
    /\ restarts \in Nat
    /\ acted \in [Nonces -> Nat]
    /\ refunds \in [Ids -> Nat]

(* The goroutine j is in a transaction op of order o *)
At(j, pcs, op, o) == jobs[j].pc \in pcs /\ jobs[j].op = op /\ jobs[j].order = o

Tx == {"update", "hit", "miss"}

(* One row per id, and every id was answered; a goroutine knows answered ids *)
IdInv ==
    /\ \A r, q \in rows : r.id = q.id => r = q
    /\ \A r \in rows : r.id <= answered
    /\ \A pp \in prepays : pp.order <= answered
    /\ \A n \in notices : n.order <= answered
    /\ \A j \in DOMAIN jobs :
          /\ jobs[j].pc = "body" => jobs[j].notice.order <= answered
          /\ jobs[j].pc \in Tx => jobs[j].order <= answered

(* The row a transaction has locked is its own, and still to be changed *)
LockInv ==
    /\ \A j \in DOMAIN jobs : jobs[j].pc = "hit" =>
          \E r \in rows : r.id = jobs[j].order /\ r.status # jobs[j].op
    /\ \A i, j \in DOMAIN jobs :
          jobs[i].pc = "hit" /\ jobs[j].pc = "hit" /\ jobs[i].order = jobs[j].order => i = j

(* An order that was announced as paid is paid, or its refund was announced since *)
PaidInv ==
    \A i \in DOMAIN outbox : outbox[i].topic = "order.paid" =>
        \E r \in rows :
            /\ r.id = outbox[i].order
            /\ \/ r.status = "paid"
               \/ \E k \in i..Len(outbox) : outbox[k] = Event("order.refunded", outbox[i].order)

(* While an order was refunded at most once, the goroutine that refunds it is
   the only one, and the row is not refunded before it commits *)
RefundInv ==
    \A o \in Ids :
        /\ \A j \in DOMAIN jobs : At(j, Tx, "refunded", o) =>
              /\ refunds[o] >= 1
              /\ refunds[o] <= 1 => \A r \in rows : r.id = o => r.status # "refunded"
              /\ jobs[j].pc = "miss" /\ Exists(o) => refunds[o] >= 2
        /\ \A i, j \in DOMAIN jobs :
              At(i, Tx, "refunded", o) /\ At(j, Tx, "refunded", o) /\ refunds[o] <= 1 => i = j
        /\ \A r \in rows : r.id = o /\ r.status = "refunded" => refunds[o] >= 1

(* A goroutine works for the notice n *)
WorksFor(j, n) ==
    \/ jobs[j].pc = "body" /\ jobs[j].notice = n
    \/ jobs[j].pc \in Tx /\ n \in jobs[j].for

(* The notices that the provider may repeat or a goroutine works for *)
Known(n) == n \in notices \/ \E j \in DOMAIN jobs : WorksFor(j, n)

(* A nonce names one notice; a goroutine works for one notice at most *)
NoticeInv ==
    /\ \A n \in Notice : Known(n) => n.nonce <= sent
    /\ \A m, n \in Notice : Known(m) /\ Known(n) /\ m.nonce = n.nonce => m = n
    /\ \A j \in DOMAIN jobs : jobs[j].pc \in Tx =>
          jobs[j].for = {} \/ \E n \in Notice : jobs[j].for = {n}
    /\ \A k \in Nonces : k > sent => acted[k] = 0 /\ \A ch \in Channels : k \notin nonces[ch]

(* In the life of a process a tracked nonce starts one goroutine, which acts once *)
NonceInv ==
    \A n \in Notice : Known(n) /\ TracksNonce(cfg[n.ch], n) =>
        /\ acted[n.nonce] <= 1 + restarts
        /\ n.nonce \notin nonces[n.ch] =>
              acted[n.nonce] <= restarts /\ \A j \in DOMAIN jobs : ~WorksFor(j, n)
        /\ \A j \in DOMAIN jobs : WorksFor(j, n) => acted[n.nonce] <= restarts
        /\ \A i, j \in DOMAIN jobs : WorksFor(i, n) /\ WorksFor(j, n) => i = j

IInv ==
    /\ PayTypeOK
    /\ IdInv
    /\ LockInv
    /\ PaidInv
    /\ PaidAnnouncedOnce
    /\ RefundInv
    /\ LastEventTellsStatus
    /\ NoticeInv
    /\ NonceInv

----------------------------------------------------------------------------
(***************************************************************************)
(* What the operators of the model do to the state.                        *)
(***************************************************************************)

(* A goroutine is one of three things, told apart by where it is *)
LEMMA JobShape ==
    ASSUME PayTypeOK, NEW j \in DOMAIN jobs
    PROVE  /\ jobs[j] \in Job
           /\ jobs[j].pc = "body" => jobs[j] \in Verifying
           /\ jobs[j].pc \in Tx => jobs[j] \in InTx
           /\ jobs[j].pc \notin Tx /\ jobs[j].pc # "body" => jobs[j] = Done
<1>1. jobs[j] \in Job
  BY DEF PayTypeOK
<1>. QED BY <1>1 DEF Job, Verifying, InTx, Done, Tx

(* One goroutine goes on, the others stay where they are *)
LEMMA JobMoves ==
    ASSUME PayTypeOK, NEW j \in DOMAIN jobs, NEW x \in Job, jobs' = [jobs EXCEPT ![j] = x]
    PROVE  /\ jobs' \in Seq(Job)
           /\ DOMAIN jobs' = DOMAIN jobs
           /\ jobs'[j] = x
           /\ \A i \in DOMAIN jobs : i # j => jobs'[i] = jobs[i]
<1>1. jobs \in Seq(Job)
  BY DEF PayTypeOK
<1>. QED BY <1>1

(* A goroutine is started *)
LEMMA JobStarts ==
    ASSUME PayTypeOK, NEW x \in Job, jobs' = Append(jobs, x)
    PROVE  /\ jobs' \in Seq(Job)
           /\ DOMAIN jobs' = DOMAIN jobs \cup {Len(jobs) + 1}
           /\ Len(jobs) + 1 \notin DOMAIN jobs
           /\ jobs'[Len(jobs) + 1] = x
           /\ \A i \in DOMAIN jobs : jobs'[i] = jobs[i]
<1>1. jobs \in Seq(Job)
  BY DEF PayTypeOK
<1>. QED BY <1>1

(* An event is written behind the others *)
LEMMA EventWritten ==
    ASSUME PayTypeOK, NEW e \in OutboxRow, outbox' = Append(outbox, e)
    PROVE  /\ outbox' \in Seq(OutboxRow)
           /\ Len(outbox) \in Nat
           /\ Len(outbox') = Len(outbox) + 1
           /\ DOMAIN outbox = 1..Len(outbox)
           /\ DOMAIN outbox' = 1..Len(outbox) + 1
           /\ outbox'[Len(outbox) + 1] = e
           /\ \A i \in DOMAIN outbox : outbox'[i] = outbox[i]
<1>1. outbox \in Seq(OutboxRow)
  BY DEF PayTypeOK
<1>. QED BY <1>1

(* An event other than order.paid, or one after a refund, keeps the announcements apart *)
LEMMA AnnouncedApart ==
    ASSUME PayTypeOK, PaidAnnouncedOnce, NEW e \in OutboxRow, outbox' = Append(outbox, e),
           e.topic = "order.paid" =>
               \A i \in DOMAIN outbox :
                   outbox[i].topic = "order.paid" /\ outbox[i].order = e.order =>
                       \E k \in i..Len(outbox) : outbox[k] = Event("order.refunded", e.order)
    PROVE  PaidAnnouncedOnce'
<1>. SUFFICES ASSUME NEW i \in DOMAIN outbox', NEW j \in DOMAIN outbox', i < j,
                     outbox'[i].order = outbox'[j].order,
                     outbox'[i].topic = "order.paid", outbox'[j].topic = "order.paid"
              PROVE  \E k \in i..j : outbox'[k] = Event("order.refunded", outbox'[i].order)
  BY DEF PaidAnnouncedOnce, Event
<1>1. /\ outbox' \in Seq(OutboxRow)
      /\ Len(outbox) \in Nat
      /\ Len(outbox') = Len(outbox) + 1
      /\ DOMAIN outbox = 1..Len(outbox)
      /\ DOMAIN outbox' = 1..Len(outbox) + 1
      /\ outbox'[Len(outbox) + 1] = e
      /\ \A l \in DOMAIN outbox : outbox'[l] = outbox[l]
  BY EventWritten
<1>2. i \in DOMAIN outbox /\ outbox'[i] = outbox[i]
  BY <1>1
<1>3. CASE j \in DOMAIN outbox
  <2>1. PICK k \in i..j : outbox[k] = Event("order.refunded", outbox[i].order)
    BY <1>1, <1>2, <1>3 DEF PaidAnnouncedOnce
  <2>2. k \in DOMAIN outbox
    BY <1>1, <1>2, <1>3
  <2>. QED BY <1>1, <1>2, <2>1, <2>2
<1>4. CASE j = Len(outbox) + 1
  <2>1. PICK k \in i..Len(outbox) : outbox[k] = Event("order.refunded", e.order)
    BY <1>1, <1>2, <1>4
  <2>2. k \in DOMAIN outbox /\ k \in i..j
    BY <1>1, <1>2, <1>4
  <2>. QED BY <1>1, <1>2, <1>4, <2>1, <2>2
<1>. QED BY <1>1, <1>3, <1>4

LEMMA RowExists ==
    ASSUME NEW o, Exists(o)
    PROVE  Row(o) \in rows /\ Row(o).id = o
BY DEF Exists, Row

(* The conditional UPDATE changes the status of one row *)
LEMMA RowIsSet ==
    ASSUME PayTypeOK, IdInv, NEW r \in rows, NEW s \in Statuses, rows' = Set(r.id, s)
    PROVE  /\ rows' \subseteq OrderRow
           /\ \A q \in rows' : q.id = r.id => q.status = s
           /\ \A q \in rows' : q.id # r.id => q \in rows
           /\ \A q \in rows : q.id # r.id => q \in rows'
           /\ \E q \in rows' : q.id = r.id
           /\ \A p, q \in rows' : p.id = q.id => p = q
           /\ \A q \in rows' : \E p \in rows : p.id = q.id
<1>1. rows \subseteq OrderRow /\ \A p, q \in rows : p.id = q.id => p = q
  BY DEF PayTypeOK, IdInv
<1>. DEFINE new == [r EXCEPT !.status = s]
<1>2. new \in OrderRow /\ new.id = r.id /\ new.status = s
  BY <1>1 DEF OrderRow
<1>3. \A q \in rows : q.id = r.id => q = r
  BY <1>1
<1>4. \A q \in rows' : q = new \/ (q \in rows /\ q.id # r.id)
  BY <1>3 DEF Set
<1>5. new \in rows' /\ \A q \in rows : q.id # r.id => q \in rows'
  BY <1>3 DEF Set
<1>. HIDE DEF new
<1>. QED BY <1>1, <1>2, <1>4, <1>5

(* What a step leaves alone it does not disturb *)
LEMMA Frames ==
    /\ PaidInv /\ UNCHANGED <<rows, outbox>> => PaidInv'
    /\ PaidAnnouncedOnce /\ UNCHANGED outbox => PaidAnnouncedOnce'
    /\ LastEventTellsStatus /\ UNCHANGED <<rows, outbox, refunds>> => LastEventTellsStatus'
    /\ LockInv /\ UNCHANGED <<rows, jobs>> => LockInv'
    /\ RefundInv /\ UNCHANGED <<rows, jobs, refunds>> => RefundInv'
<1>1. PaidInv /\ UNCHANGED <<rows, outbox>> => PaidInv'
  BY DEF PaidInv
<1>2. PaidAnnouncedOnce /\ UNCHANGED outbox => PaidAnnouncedOnce'
  BY DEF PaidAnnouncedOnce
<1>3. LastEventTellsStatus /\ UNCHANGED <<rows, outbox, refunds>> => LastEventTellsStatus'
  BY DEF LastEventTellsStatus
<1>4. LockInv /\ UNCHANGED <<rows, jobs>> => LockInv'
  BY DEF LockInv
<1>5. RefundInv /\ UNCHANGED <<rows, jobs, refunds>> => RefundInv'
  BY DEF RefundInv, At, Exists
<1>. QED BY <1>1, <1>2, <1>3, <1>4, <1>5

(* Every goroutine works for the notices it worked for, or for fewer *)
NoNewWork ==
    \A n \in Notice : \A j \in DOMAIN jobs' : WorksFor(j, n)' => j \in DOMAIN jobs /\ WorksFor(j, n)

LEMMA WorkFrame ==
    ASSUME NoticeInv, NonceInv, NoNewWork, notices' \subseteq notices,
           \A j \in DOMAIN jobs' : jobs'[j].pc \in Tx =>
               jobs'[j].for = {} \/ \E n \in Notice : jobs'[j].for = {n},
           UNCHANGED <<cfg, sent, nonces, acted, restarts>>
    PROVE  NoticeInv' /\ NonceInv'
<1>1. \A n \in Notice : Known(n)' => Known(n)
  BY DEF Known, NoNewWork
<1>2. NoticeInv'
  <2>1. \A n \in Notice : Known(n)' => n.nonce <= sent'
    BY <1>1 DEF NoticeInv
  <2>2. \A m, n \in Notice : Known(m)' /\ Known(n)' /\ m.nonce = n.nonce => m = n
    BY <1>1 DEF NoticeInv
  <2>3. \A k \in Nonces : k > sent' => acted'[k] = 0 /\ \A ch \in Channels : k \notin nonces'[ch]
    BY DEF NoticeInv
  <2>. QED BY <2>1, <2>2, <2>3 DEF NoticeInv
<1>3. ASSUME NEW n \in Notice, Known(n)', TracksNonce(cfg'[n.ch], n)
      PROVE  /\ acted'[n.nonce] <= 1 + restarts'
             /\ n.nonce \notin nonces'[n.ch] =>
                   acted'[n.nonce] <= restarts' /\ \A j \in DOMAIN jobs' : ~WorksFor(j, n)'
             /\ \A j \in DOMAIN jobs' : WorksFor(j, n)' => acted'[n.nonce] <= restarts'
             /\ \A i, j \in DOMAIN jobs' : WorksFor(i, n)' /\ WorksFor(j, n)' => i = j
  <2>1. Known(n) /\ TracksNonce(cfg[n.ch], n)
    BY <1>1, <1>3
  <2>2. /\ acted[n.nonce] <= 1 + restarts
        /\ n.nonce \notin nonces[n.ch] =>
              acted[n.nonce] <= restarts /\ \A j \in DOMAIN jobs : ~WorksFor(j, n)
        /\ \A j \in DOMAIN jobs : WorksFor(j, n) => acted[n.nonce] <= restarts
        /\ \A i, j \in DOMAIN jobs : WorksFor(i, n) /\ WorksFor(j, n) => i = j
    BY <2>1 DEF NonceInv
  <2>3. \A j \in DOMAIN jobs' : WorksFor(j, n)' => j \in DOMAIN jobs /\ WorksFor(j, n)
    BY DEF NoNewWork
  <2>. QED BY <2>2, <2>3
<1>. QED BY <1>2, <1>3 DEF NonceInv

(* A goroutine ends; what it did is not undone *)
LEMMA GoroutineEnds ==
    ASSUME IInv, NEW j \in DOMAIN jobs, jobs' = [jobs EXCEPT ![j] = Done],
           notices' \subseteq notices,
           UNCHANGED <<cfg, rows, answered, prepays, sent, nonces, restarts, acted, refunds>>
    PROVE  IdInv' /\ LockInv' /\ RefundInv' /\ NoticeInv' /\ NonceInv'
<1>1. /\ jobs' \in Seq(Job)
      /\ DOMAIN jobs' = DOMAIN jobs
      /\ jobs'[j] = Done
      /\ \A i \in DOMAIN jobs : i # j => jobs'[i] = jobs[i]
  BY JobMoves DEF IInv, Job
<1>2. Done.pc = "done"
  BY DEF Done
<1>3. \A i \in DOMAIN jobs' : jobs'[i].pc # "done" => jobs'[i] = jobs[i]
  BY <1>1, <1>2
<1>4. IdInv'
  BY <1>1, <1>3 DEF IInv, IdInv, Tx
<1>5. LockInv'
  BY <1>1, <1>3 DEF IInv, LockInv
<1>6. RefundInv'
  BY <1>1, <1>3 DEF IInv, RefundInv, At, Tx, Exists
<1>7. NoNewWork
  BY <1>1, <1>3 DEF NoNewWork, WorksFor, Tx
<1>8. \A i \in DOMAIN jobs' : jobs'[i].pc \in Tx =>
          jobs'[i].for = {} \/ \E n \in Notice : jobs'[i].for = {n}
  BY <1>1, <1>3 DEF IInv, NoticeInv, Tx
<1>. QED BY <1>4, <1>5, <1>6, <1>7, <1>8, WorkFrame DEF IInv

(* The goroutines are left alone, and no notice is added *)
LEMMA JobsFrame ==
    ASSUME IInv, notices' \subseteq notices,
           UNCHANGED <<cfg, jobs, sent, nonces, acted, restarts>>
    PROVE  NoticeInv' /\ NonceInv'
<1>1. NoNewWork
  BY DEF NoNewWork, WorksFor
<1>2. \A j \in DOMAIN jobs' : jobs'[j].pc \in Tx =>
          jobs'[j].for = {} \/ \E n \in Notice : jobs'[j].for = {n}
  BY DEF IInv, NoticeInv
<1>. QED BY <1>1, <1>2, WorkFrame DEF IInv

----------------------------------------------------------------------------
(***************************************************************************)
(* The initial states, and one lemma for each action.                      *)
(***************************************************************************)
LEMMA InitInv == Init => IInv
<1>. SUFFICES ASSUME Init PROVE IInv
  OBVIOUS
<1>1. rows = {} /\ outbox = <<>> /\ jobs = <<>> /\ prepays = {} /\ notices = {}
  BY DEF Init
<1>2. DOMAIN outbox = {} /\ DOMAIN jobs = {}
  BY <1>1
<1>3. PayTypeOK
  BY OrdersAssumption, <1>1 DEF Init, PayTypeOK
<1>4. IdInv /\ LockInv
  BY <1>1, <1>2 DEF IdInv, LockInv
<1>5. PaidInv /\ PaidAnnouncedOnce /\ LastEventTellsStatus
  BY <1>1, <1>2 DEF PaidInv, PaidAnnouncedOnce, LastEventTellsStatus
<1>6. RefundInv
  BY <1>1, <1>2 DEF RefundInv
<1>7. \A n \in Notice : ~Known(n)
  BY <1>1, <1>2 DEF Known
<1>8. NoticeInv
  BY <1>2, <1>7 DEF NoticeInv, Init
<1>9. NonceInv
  BY <1>7 DEF NonceInv
<1>. QED BY <1>3, <1>4, <1>5, <1>6, <1>8, <1>9 DEF IInv

(* The new order has an id that no row, event or goroutine has seen *)
LEMMA CreateInv ==
    ASSUME IInv, NEW o \in OrderIds, NEW k \in Keys, NEW x \in Prices, NEW ch \in RowChannels,
           Create(o, k, x, ch)
    PROVE  IInv'
<1>. DEFINE new == [id |-> o, key |-> k, price |-> x, ch |-> ch, status |-> "created"]
<1>1. o = answered + 1 /\ answered' = o /\ answered \in Nat /\ o \in Nat
  BY OrdersAssumption DEF Create, IInv, PayTypeOK, OrderIds
<1>2. rows \subseteq OrderRow /\ new \in OrderRow /\ new.id = o /\ new.status = "created"
  BY DEF IInv, PayTypeOK, OrderRow, Statuses
<1>3. rows \subseteq rows' /\ \A r \in rows' : r \in rows \/ r = new
  BY DEF Create, InsertOrder
<1>. HIDE DEF new
<1>4. Event("order.created", o) \in OutboxRow
  BY DEF Event, OutboxRow
<1>5. /\ outbox' \in Seq(OutboxRow)
      /\ Len(outbox) \in Nat
      /\ Len(outbox') = Len(outbox) + 1
      /\ DOMAIN outbox = 1..Len(outbox)
      /\ DOMAIN outbox' = 1..Len(outbox) + 1
      /\ outbox'[Len(outbox) + 1] = Event("order.created", o)
      /\ \A i \in DOMAIN outbox : outbox'[i] = outbox[i]
  BY <1>4, EventWritten DEF Create, IInv
<1>6. Event("order.created", o).order = o /\ Event("order.created", o).topic = "order.created"
  BY DEF Event
<1>7. PayTypeOK'
  BY <1>1, <1>2, <1>3, <1>5 DEF Create, IInv, PayTypeOK, OrderIds
<1>8. IdInv'
  <2>1. \A r \in rows : r.id \in Nat /\ r.id <= answered
    BY <1>2 DEF IInv, IdInv, OrderRow, OrderIds
  <2>2. \A r, q \in rows' : r.id = q.id => r = q
    BY <1>1, <1>2, <1>3, <2>1 DEF IInv, IdInv
  <2>3. \A r \in rows' : r.id <= answered'
    BY <1>1, <1>2, <1>3, <2>1
  <2>4. \A pp \in prepays' : pp.order <= answered'
    BY <1>1 DEF IInv, IdInv, Create, PayTypeOK, Prepay, OrderIds
  <2>5. \A n \in notices' : n.order <= answered'
    BY <1>1 DEF IInv, IdInv, Create, PayTypeOK, Notice, OrderIds
  <2>6. ASSUME NEW j \in DOMAIN jobs'
        PROVE  /\ jobs'[j].pc = "body" => jobs'[j].notice.order <= answered'
               /\ jobs'[j].pc \in Tx => jobs'[j].order <= answered'
    BY <1>1, JobShape DEF IInv, IdInv, Create, Verifying, InTx, Notice, OrderIds, Ids, Trade
  <2>. QED BY <2>2, <2>3, <2>4, <2>5, <2>6 DEF IdInv
<1>9. LockInv'
  BY <1>3 DEF IInv, LockInv, Create
<1>10. PaidInv'
  <2>. SUFFICES ASSUME NEW i \in DOMAIN outbox', outbox'[i].topic = "order.paid"
                PROVE  \E r \in rows' :
                          /\ r.id = outbox'[i].order
                          /\ \/ r.status = "paid"
                             \/ \E m \in i..Len(outbox') :
                                   outbox'[m] = Event("order.refunded", outbox'[i].order)
    BY DEF PaidInv, Event
  <2>1. i \in DOMAIN outbox /\ outbox'[i] = outbox[i]
    BY <1>5, <1>6
  <2>2. PICK r \in rows :
            /\ r.id = outbox[i].order
            /\ \/ r.status = "paid"
               \/ \E m \in i..Len(outbox) : outbox[m] = Event("order.refunded", outbox[i].order)
    BY <2>1 DEF IInv, PaidInv
  <2>. QED BY <2>1, <2>2, <1>3, <1>5
<1>11. PaidAnnouncedOnce'
  BY <1>4, <1>6, AnnouncedApart DEF Create, IInv
<1>12. LastEventTellsStatus'
  <2>. SUFFICES ASSUME NEW r \in rows', refunds'[r.id] <= 1
                PROVE  \E i \in DOMAIN outbox' :
                          /\ outbox'[i] = Event(Topic[r.status], r.id)
                          /\ \A m \in i + 1 .. Len(outbox') : outbox'[m].order # r.id
    BY DEF LastEventTellsStatus, Event, Topic
  <2>1. CASE r \in rows
    <3>1. PICK i \in DOMAIN outbox :
              /\ outbox[i] = Event(Topic[r.status], r.id)
              /\ \A m \in i + 1 .. Len(outbox) : outbox[m].order # r.id
      BY <2>1 DEF IInv, LastEventTellsStatus, Create
    <3>2. r.id # o
      BY <2>1, <1>1, <1>2 DEF IInv, IdInv, OrderRow, OrderIds
    <3>3. \A m \in i + 1 .. Len(outbox') : outbox'[m].order # r.id
      BY <3>1, <3>2, <1>5, <1>6
    <3>. QED BY <3>1, <3>3, <1>5
  <2>2. CASE r = new
    <3>1. Event(Topic[r.status], r.id) = Event("order.created", o)
      BY <2>2, <1>2 DEF Topic
    <3>. QED BY <3>1, <1>5
  <2>. QED BY <2>1, <2>2, <1>3
<1>13. RefundInv'
  <2>. SUFFICES ASSUME NEW p \in Ids
                PROVE  /\ \A j \in DOMAIN jobs : At(j, Tx, "refunded", p) =>
                             /\ refunds[p] >= 1
                             /\ refunds[p] <= 1 => \A r \in rows' : r.id = p => r.status # "refunded"
                             /\ jobs[j].pc = "miss" /\ Exists(p)' => refunds[p] >= 2
                       /\ \A i, j \in DOMAIN jobs :
                             At(i, Tx, "refunded", p) /\ At(j, Tx, "refunded", p)
                                /\ refunds[p] <= 1 => i = j
                       /\ \A r \in rows' : r.id = p /\ r.status = "refunded" => refunds[p] >= 1
    BY DEF RefundInv, Create, At
  <2>1. /\ \A j \in DOMAIN jobs : At(j, Tx, "refunded", p) =>
              /\ refunds[p] >= 1
              /\ refunds[p] <= 1 => \A r \in rows : r.id = p => r.status # "refunded"
              /\ jobs[j].pc = "miss" /\ Exists(p) => refunds[p] >= 2
        /\ \A i, j \in DOMAIN jobs :
              At(i, Tx, "refunded", p) /\ At(j, Tx, "refunded", p) /\ refunds[p] <= 1 => i = j
        /\ \A r \in rows : r.id = p /\ r.status = "refunded" => refunds[p] >= 1
    BY DEF IInv, RefundInv
  <2>2. \A r \in rows' : r.status = "refunded" => r \in rows
    BY <1>2, <1>3
  <2>3. \A j \in DOMAIN jobs : At(j, Tx, "refunded", p) => p <= answered
    BY DEF IInv, IdInv, At
  <2>4. p <= answered /\ Exists(p)' => Exists(p)
    BY <1>1, <1>2, <1>3 DEF Exists
  <2>. QED BY <2>1, <2>2, <2>3, <2>4
<1>14. NoticeInv' /\ NonceInv'
  BY JobsFrame DEF Create
<1>. QED BY <1>7, <1>8, <1>9, <1>10, <1>11, <1>12, <1>13, <1>14 DEF IInv

LEMMA PrepayType ==
    ASSUME NEW c, NEW ch \in Channels, NEW o \in OrderIds, NEW a \in Int,
           NEW pp \in CreatePrepay(c, ch, o, a)
    PROVE  pp \in Prepay /\ pp.order = o
<1>1. PICK t \in Channels, s \in BOOLEAN : pp \in Prepays(t, o, a, s)
  BY DEF CreatePrepay, Channels, MockCreatePrepay, WeChatCreatePrepay, AlipayCreatePrepay,
         AppleCreatePrepay
<1>. QED BY <1>1 DEF Prepays, Prepay

LEMMA HandlePrepayInv ==
    ASSUME IInv, NEW o \in 1..answered, NEW ch \in Channels, NEW a \in Amounts,
           HandlePrepay(o, ch, a)
    PROVE  IInv'
<1>1. o \in OrderIds /\ o <= answered /\ answered \in Nat
  BY OrdersAssumption DEF IInv, PayTypeOK, OrderIds
<1>2. PrepayAmount(o, a) \in Int
  <2>1. Row(o) \in OrderRow
    BY RowExists DEF HandlePrepay, IInv, PayTypeOK
  <2>2. Row(o).price \in Nat /\ a \in Int
    BY <2>1, OrdersAssumption DEF OrderRow
  <2>3. \A p \in Nat : p * 100 \in Int
    OBVIOUS
  <2>. QED BY <2>2, <2>3 DEF PrepayAmount
<1>3. \A pp \in prepays' : pp \in prepays \/ (pp \in Prepay /\ pp.order = o)
  BY <1>1, <1>2, PrepayType DEF HandlePrepay
<1>4. PayTypeOK'
  BY <1>3 DEF HandlePrepay, IInv, PayTypeOK
<1>5. IdInv'
  BY <1>1, <1>3 DEF HandlePrepay, IInv, IdInv
<1>6. NoticeInv' /\ NonceInv'
  BY JobsFrame DEF HandlePrepay
<1>. QED BY <1>4, <1>5, <1>6, Frames DEF HandlePrepay, IInv

LEMMA WordType ==
    ASSUME NEW ch \in Channels
    PROVE  PaidWord(ch) \in Words /\ RefundWord(ch) \in Words
BY DEF PaidWord, RefundWord, Channels, Words

(* The notice has a nonce that no notice had before *)
LEMMA NotifyInv ==
    ASSUME IInv, NEW pp \in prepays \cup Purchases, NEW w \in {PaidWord(pp.ch), RefundWord(pp.ch)}, Notify(pp, w)
    PROVE  IInv'
<1>. DEFINE new == [ch |-> pp.ch, order |-> pp.order, trade |-> Trade,
                    amount |-> pp.amount, state |-> w, nonce |-> sent + 1]
<1>1. pp \in Prepay /\ pp.order <= answered
  <2>1. CASE pp \in prepays
    BY <2>1 DEF IInv, PayTypeOK, IdInv
  <2>2. CASE pp \in Purchases
    <3>1. PICK o \in 1..answered, a \in Amounts :
             pp = [ch |-> "appleiap", order |-> o, amount |-> a, signed |-> FALSE]
      BY <2>2 DEF Purchases
    <3>2. o \in OrderIds /\ o <= answered /\ a \in Int
      BY OrdersAssumption DEF IInv, PayTypeOK, OrderIds
    <3>3. FALSE \in BOOLEAN
      BY Zenon
    <3>. QED BY <3>1, <3>2, <3>3 DEF Prepay, Channels
  <2>. QED BY <2>1, <2>2
<1>2. sent \in Nat /\ sent' = sent + 1 /\ sent' \in 0..MaxNotices /\ sent' \in Nonces
  BY OrdersAssumption DEF Notify, IInv, PayTypeOK, Nonces
<1>3. w \in Words
  <2>1. pp.ch \in Channels
    BY <1>1 DEF Prepay
  <2>. QED BY <2>1, WordType
<1>4. new \in Notice /\ new.nonce = sent + 1 /\ new.order = pp.order
  BY <1>1, <1>2, <1>3 DEF Notice, Prepay
<1>5. notices' = notices \cup {new}
  BY DEF Notify
<1>. HIDE DEF new
<1>6. PayTypeOK'
  BY <1>2, <1>4, <1>5 DEF Notify, IInv, PayTypeOK
<1>7. IdInv'
  BY <1>1, <1>4, <1>5 DEF Notify, IInv, IdInv
<1>8. \A n \in Notice : \A j \in DOMAIN jobs : WorksFor(j, n)' <=> WorksFor(j, n)
  BY DEF Notify, WorksFor
<1>9. \A n \in Notice : Known(n)' => Known(n) \/ n = new
  BY <1>5, <1>8 DEF Known, Notify
<1>10. \A n \in Notice : n.nonce \in Nat
  BY DEF Notice, Nonces
<1>11. \A n \in Notice : Known(n) => n.nonce <= sent
  BY DEF IInv, NoticeInv
<1>12. NoticeInv'
  <2>1. \A n \in Notice : Known(n)' => n.nonce <= sent'
    BY <1>2, <1>4, <1>9, <1>10, <1>11
  <2>2. \A m, n \in Notice : Known(m)' /\ Known(n)' /\ m.nonce = n.nonce => m = n
    BY <1>2, <1>4, <1>9, <1>10, <1>11 DEF IInv, NoticeInv
  <2>3. \A k \in Nonces : k > sent' => acted'[k] = 0 /\ \A ch \in Channels : k \notin nonces'[ch]
    BY <1>2 DEF Notify, IInv, NoticeInv, Nonces
  <2>4. \A j \in DOMAIN jobs' : jobs'[j].pc \in Tx =>
            jobs'[j].for = {} \/ \E n \in Notice : jobs'[j].for = {n}
    BY DEF Notify, IInv, NoticeInv
  <2>. QED BY <2>1, <2>2, <2>3, <2>4 DEF NoticeInv
<1>13. ~Known(new)
  BY <1>2, <1>4, <1>11
<1>14. \A j \in DOMAIN jobs : ~WorksFor(j, new)
  BY <1>13 DEF Known
<1>15. acted[new.nonce] = 0 /\ restarts \in Nat
  BY <1>2, <1>4 DEF IInv, NoticeInv, PayTypeOK
<1>16. NonceInv'
  <2>. SUFFICES ASSUME NEW n \in Notice, Known(n)', TracksNonce(cfg'[n.ch], n)
                PROVE  /\ acted'[n.nonce] <= 1 + restarts'
                       /\ n.nonce \notin nonces'[n.ch] =>
                             acted'[n.nonce] <= restarts' /\ \A j \in DOMAIN jobs' : ~WorksFor(j, n)'
                       /\ \A j \in DOMAIN jobs' : WorksFor(j, n)' => acted'[n.nonce] <= restarts'
                       /\ \A i, j \in DOMAIN jobs' : WorksFor(i, n)' /\ WorksFor(j, n)' => i = j
    BY DEF NonceInv
  <2>1. CASE n = new
    BY <2>1, <1>8, <1>14, <1>15 DEF Notify
  <2>2. CASE Known(n)
    BY <2>2, <1>8 DEF Notify, IInv, NonceInv
  <2>. QED BY <2>1, <2>2, <1>9
<1>. QED BY <1>6, <1>7, <1>12, <1>16, Frames DEF Notify, IInv

(* A tracked notice gets past its channel's nonce map once *)
LEMMA VerifyNonceInv ==
    ASSUME IInv, NEW n \in notices, NEW fresh \in BOOLEAN, VerifyNonce(n, fresh)
    PROVE  IInv'
<1>. DEFINE job == [pc |-> "body", notice |-> n]
            new == Len(jobs) + 1
<1>1. n \in Notice /\ n.ch \in Channels /\ n.nonce \in Nonces /\ n.order <= answered
  BY DEF IInv, PayTypeOK, IdInv, Notice
<1>2. job \in Verifying /\ job \in Job /\ job.pc = "body" /\ job.notice = n
  BY <1>1 DEF Job, Verifying
<1>3. jobs' = Append(jobs, job)
  BY DEF VerifyNonce, Start
<1>. HIDE DEF job
<1>4. /\ jobs' \in Seq(Job)
      /\ DOMAIN jobs' = DOMAIN jobs \cup {new}
      /\ new \notin DOMAIN jobs
      /\ jobs'[new] = job
      /\ \A i \in DOMAIN jobs : jobs'[i] = jobs[i]
  BY <1>2, <1>3, JobStarts DEF IInv
<1>. HIDE DEF new
<1>5. nonces \in [Channels -> SUBSET Nonces]
  BY DEF IInv, PayTypeOK
<1>6. /\ nonces' \in [Channels -> SUBSET Nonces]
      /\ TracksNonce(cfg[n.ch], n) => n.nonce \notin nonces[n.ch] /\ n.nonce \in nonces'[n.ch]
      /\ \A ch \in Channels : \A k \in Nonces : k # n.nonce => (k \in nonces'[ch] <=> k \in nonces[ch])
      /\ \A ch \in Channels : nonces[ch] \subseteq nonces'[ch]
  BY <1>1, <1>5 DEF VerifyNonce, Replayed
<1>7. PayTypeOK'
  BY <1>4, <1>6 DEF VerifyNonce, IInv, PayTypeOK
<1>8. IdInv'
  <2>1. \A j \in DOMAIN jobs' : /\ jobs'[j].pc = "body" => jobs'[j].notice.order <= answered'
                                /\ jobs'[j].pc \in Tx => jobs'[j].order <= answered'
    BY <1>1, <1>2, <1>4 DEF VerifyNonce, IInv, IdInv, Tx
  <2>. QED BY <2>1 DEF VerifyNonce, IInv, IdInv
<1>9. LockInv'
  BY <1>2, <1>4 DEF VerifyNonce, IInv, LockInv
<1>10. RefundInv'
  BY <1>2, <1>4 DEF VerifyNonce, IInv, RefundInv, At, Tx, Exists
<1>11. \A m \in Notice : \A j \in DOMAIN jobs' :
          WorksFor(j, m)' => (j \in DOMAIN jobs /\ WorksFor(j, m)) \/ (j = new /\ m = n)
  BY <1>2, <1>4 DEF WorksFor, Tx
<1>12. Known(n) /\ \A m \in Notice : Known(m)' => Known(m)
  BY <1>11 DEF Known, VerifyNonce
<1>13. NoticeInv'
  <2>1. \A m \in Notice : Known(m)' => m.nonce <= sent'
    BY <1>12 DEF VerifyNonce, IInv, NoticeInv
  <2>2. \A l, m \in Notice : Known(l)' /\ Known(m)' /\ l.nonce = m.nonce => l = m
    BY <1>12 DEF IInv, NoticeInv
  <2>3. \A j \in DOMAIN jobs' : jobs'[j].pc \in Tx =>
            jobs'[j].for = {} \/ \E m \in Notice : jobs'[j].for = {m}
    BY <1>2, <1>4 DEF IInv, NoticeInv, Tx
  <2>4. n.nonce <= sent
    BY <1>1, <1>12 DEF IInv, NoticeInv
  <2>5. ASSUME NEW k \in Nonces, k > sent
        PROVE  acted[k] = 0 /\ \A ch \in Channels : k \notin nonces'[ch]
    <3>1. k # n.nonce
      BY <2>4, <2>5, <1>1 DEF IInv, PayTypeOK, Nonces
    <3>. QED BY <2>5, <3>1, <1>6 DEF IInv, NoticeInv
  <2>. QED BY <2>1, <2>2, <2>3, <2>5 DEF NoticeInv, VerifyNonce
<1>14. NonceInv'
  <2>. SUFFICES ASSUME NEW m \in Notice, Known(m)', TracksNonce(cfg[m.ch], m)
                PROVE  /\ acted[m.nonce] <= 1 + restarts
                       /\ m.nonce \notin nonces'[m.ch] =>
                             acted[m.nonce] <= restarts /\ \A j \in DOMAIN jobs' : ~WorksFor(j, m)'
                       /\ \A j \in DOMAIN jobs' : WorksFor(j, m)' => acted[m.nonce] <= restarts
                       /\ \A i, j \in DOMAIN jobs' : WorksFor(i, m)' /\ WorksFor(j, m)' => i = j
    BY DEF NonceInv, VerifyNonce
  <2>1. Known(m)
    BY <1>12
  <2>2. /\ acted[m.nonce] <= 1 + restarts
        /\ m.nonce \notin nonces[m.ch] =>
              acted[m.nonce] <= restarts /\ \A j \in DOMAIN jobs : ~WorksFor(j, m)
        /\ \A j \in DOMAIN jobs : WorksFor(j, m) => acted[m.nonce] <= restarts
        /\ \A i, j \in DOMAIN jobs : WorksFor(i, m) /\ WorksFor(j, m) => i = j
    BY <2>1 DEF IInv, NonceInv
  <2>3. \A j \in DOMAIN jobs' :
            WorksFor(j, m)' => (j \in DOMAIN jobs /\ WorksFor(j, m)) \/ (j = new /\ m = n)
    BY <1>11
  <2>4. CASE m = n
    BY <2>2, <2>3, <2>4, <1>6
  <2>5. CASE m # n
    <3>1. m.nonce # n.nonce /\ m.nonce \in Nonces /\ m.ch \in Channels
      BY <2>1, <2>5, <1>1, <1>12 DEF IInv, NoticeInv, Notice
    <3>2. m.nonce \in nonces'[m.ch] <=> m.nonce \in nonces[m.ch]
      BY <3>1, <1>6
    <3>. QED BY <2>2, <2>3, <2>5, <3>2
  <2>. QED BY <2>4, <2>5
<1>. QED BY <1>7, <1>8, <1>9, <1>10, <1>13, <1>14, Frames DEF VerifyNonce, IInv

(* The order a notice is about was answered, or is a transaction id of Apple's *)
LEMMA OrderOfType ==
    ASSUME NEW c, NEW n \in Notice, NEW k \in Nat, n.order <= k
    PROVE  OrderOf(c, n) \in Ids /\ OrderOf(c, n) <= k
BY DEF OrderOf, Notice, Ids, Trade, OrderIds

LEMMA VerifyBodyInv ==
    ASSUME IInv, NEW j \in DOMAIN jobs, VerifyBody(j)
    PROVE  IInv'
<1>1. PICK n : n = jobs[j].notice
  OBVIOUS
<1>2. jobs[j].pc = "body" /\ jobs[j] \in Verifying /\ n \in Notice /\ n.order <= answered
  BY <1>1, JobShape DEF IInv, IdInv, VerifyBody, Verifying
<1>3. PICK o : o = OrderOf(cfg[n.ch], n)
  OBVIOUS
<1>4. o \in Ids /\ o <= answered
  BY <1>2, <1>3, OrderOfType DEF IInv, PayTypeOK
<1>5. notices' \subseteq notices
  BY DEF VerifyBody, Answer
<1>6. UNCHANGED <<cfg, rows, answered, outbox, prepays, sent, nonces, restarts, acted, refunds>>
  BY DEF VerifyBody
<1>7. CASE jobs' = [jobs EXCEPT ![j] = Done]
  <2>1. PayTypeOK'
    BY <1>5, <1>6, <1>7, JobMoves DEF IInv, PayTypeOK, Job
  <2>2. IdInv' /\ LockInv' /\ RefundInv' /\ NoticeInv' /\ NonceInv'
    BY <1>5, <1>6, <1>7, GoroutineEnds
  <2>. QED BY <2>1, <2>2, <1>6, Frames DEF IInv
<1>8. CASE jobs' = [jobs EXCEPT ![j] = [pc |-> "update", op |-> "paid", order |-> o, for |-> {n}]]
  <2>. DEFINE x == [pc |-> "update", op |-> "paid", order |-> o, for |-> {n}]
  <2>1. x \in Job /\ x.pc = "update" /\ x.op = "paid" /\ x.order = o /\ x.for = {n}
    BY <1>2, <1>4 DEF Job, InTx
  <2>. HIDE DEF x
  <2>2. /\ jobs' \in Seq(Job)
        /\ DOMAIN jobs' = DOMAIN jobs
        /\ jobs'[j] = x
        /\ \A i \in DOMAIN jobs : i # j => jobs'[i] = jobs[i]
    BY <1>8, <2>1, JobMoves DEF IInv, x
  <2>3. PayTypeOK'
    BY <1>5, <1>6, <2>2 DEF IInv, PayTypeOK
  <2>4. IdInv'
    BY <1>4, <1>5, <1>6, <2>1, <2>2 DEF IInv, IdInv, Tx
  <2>5. LockInv'
    BY <1>6, <2>1, <2>2 DEF IInv, LockInv
  <2>6. RefundInv'
    BY <1>6, <2>1, <2>2 DEF IInv, RefundInv, At, Exists
  <2>7. NoNewWork
    BY <1>1, <1>2, <2>1, <2>2 DEF NoNewWork, WorksFor
  <2>8. \A i \in DOMAIN jobs' : jobs'[i].pc \in Tx =>
            jobs'[i].for = {} \/ \E m \in Notice : jobs'[i].for = {m}
    BY <1>2, <2>1, <2>2 DEF IInv, NoticeInv
  <2>9. NoticeInv' /\ NonceInv'
    BY <1>5, <1>6, <2>7, <2>8, WorkFrame DEF IInv
  <2>. QED BY <2>3, <2>4, <2>5, <2>6, <2>9, <1>6, Frames DEF IInv
<1>. QED BY <1>1, <1>3, <1>7, <1>8 DEF VerifyBody

(* A transaction is started by a client, for no notice *)
LEMMA StartInv ==
    ASSUME IInv, NEW o \in OrderIds, NEW op \in {"paid", "refunded"}, o <= answered,
           Start([pc |-> "update", op |-> op, order |-> o, for |-> {}]),
           UNCHANGED <<cfg, rows, answered, outbox, prepays, notices, sent, nonces, restarts, acted>>,
           refunds' = IF op = "paid" THEN refunds ELSE [refunds EXCEPT ![o] = @ + 1]
    PROVE  IInv'
<1>. DEFINE job == [pc |-> "update", op |-> op, order |-> o, for |-> {}]
            new == Len(jobs) + 1
<1>1. job \in Job /\ job.pc = "update" /\ job.op = op /\ job.order = o /\ job.for = {}
  BY DEF Job, InTx, Ids
<1>2. jobs' = Append(jobs, job)
  BY DEF Start
<1>. HIDE DEF job
<1>3. /\ jobs' \in Seq(Job)
      /\ DOMAIN jobs' = DOMAIN jobs \cup {new}
      /\ new \notin DOMAIN jobs
      /\ jobs'[new] = job
      /\ \A i \in DOMAIN jobs : jobs'[i] = jobs[i]
  BY <1>1, <1>2, JobStarts DEF IInv
<1>. HIDE DEF new
<1>4. refunds \in [Ids -> Nat] /\ o \in Ids
  BY DEF IInv, PayTypeOK, Ids
<1>5. /\ refunds' \in [Ids -> Nat]
      /\ \A p \in Ids : refunds'[p] >= refunds[p]
      /\ \A p \in Ids : p # o => refunds'[p] = refunds[p]
      /\ op = "paid" => refunds'[o] = refunds[o]
      /\ op = "refunded" => refunds'[o] = refunds[o] + 1
  BY <1>4
<1>6. PayTypeOK'
  BY <1>3, <1>5 DEF IInv, PayTypeOK
<1>7. IdInv'
  BY <1>1, <1>3 DEF IInv, IdInv, Tx
<1>8. LockInv'
  BY <1>1, <1>3 DEF IInv, LockInv
<1>9. RefundInv'
  <2>. SUFFICES ASSUME NEW p \in Ids
                PROVE  /\ \A j \in DOMAIN jobs' : At(j, Tx, "refunded", p)' =>
                             /\ refunds'[p] >= 1
                             /\ refunds'[p] <= 1 => \A r \in rows : r.id = p => r.status # "refunded"
                             /\ jobs'[j].pc = "miss" /\ Exists(p) => refunds'[p] >= 2
                       /\ \A i, j \in DOMAIN jobs' :
                             At(i, Tx, "refunded", p)' /\ At(j, Tx, "refunded", p)'
                                /\ refunds'[p] <= 1 => i = j
                       /\ \A r \in rows : r.id = p /\ r.status = "refunded" => refunds'[p] >= 1
    BY DEF RefundInv, Exists
  <2>1. /\ \A j \in DOMAIN jobs : At(j, Tx, "refunded", p) =>
              /\ refunds[p] >= 1
              /\ refunds[p] <= 1 => \A r \in rows : r.id = p => r.status # "refunded"
              /\ jobs[j].pc = "miss" /\ Exists(p) => refunds[p] >= 2
        /\ \A i, j \in DOMAIN jobs :
              At(i, Tx, "refunded", p) /\ At(j, Tx, "refunded", p) /\ refunds[p] <= 1 => i = j
        /\ \A r \in rows : r.id = p /\ r.status = "refunded" => refunds[p] >= 1
    BY DEF IInv, RefundInv
  <2>2. \A j \in DOMAIN jobs' : At(j, Tx, "refunded", p)' =>
            \/ j \in DOMAIN jobs /\ At(j, Tx, "refunded", p)
            \/ j = new /\ p = o /\ op = "refunded"
    BY <1>1, <1>3 DEF At
  <2>3. /\ refunds[p] \in Nat /\ refunds'[p] \in Nat /\ refunds'[p] >= refunds[p]
        /\ p = o /\ op = "refunded" => refunds'[p] = refunds[p] + 1
    BY <1>4, <1>5
  <2>4. jobs'[new].pc # "miss" /\ \A j \in DOMAIN jobs : jobs'[j].pc = jobs[j].pc
    BY <1>1, <1>3
  <2>5. ASSUME NEW j \in DOMAIN jobs', At(j, Tx, "refunded", p)'
        PROVE  /\ refunds'[p] >= 1
               /\ refunds'[p] <= 1 => \A r \in rows : r.id = p => r.status # "refunded"
               /\ jobs'[j].pc = "miss" /\ Exists(p) => refunds'[p] >= 2
    BY <2>1, <2>2, <2>3, <2>4, <2>5
  <2>6. ASSUME NEW i \in DOMAIN jobs', NEW j \in DOMAIN jobs',
               At(i, Tx, "refunded", p)', At(j, Tx, "refunded", p)', refunds'[p] <= 1
        PROVE  i = j
    BY <2>1, <2>2, <2>3, <2>6
  <2>. QED BY <2>1, <2>3, <2>5, <2>6
<1>10. LastEventTellsStatus'
  <2>1. \A r \in rows : r.id \in Ids
    BY DEF IInv, PayTypeOK, OrderRow, Ids
  <2>2. \A r \in rows : refunds'[r.id] <= 1 => refunds[r.id] <= 1
    BY <1>4, <1>5, <2>1
  <2>. QED BY <2>2 DEF IInv, LastEventTellsStatus
<1>11. NoNewWork
  BY <1>1, <1>3 DEF NoNewWork, WorksFor
<1>12. \A i \in DOMAIN jobs' : jobs'[i].pc \in Tx =>
          jobs'[i].for = {} \/ \E m \in Notice : jobs'[i].for = {m}
  BY <1>1, <1>3 DEF IInv, NoticeInv
<1>13. NoticeInv' /\ NonceInv'
  BY <1>11, <1>12, WorkFrame DEF IInv
<1>. QED BY <1>6, <1>7, <1>8, <1>9, <1>10, <1>13, Frames DEF IInv

LEMMA BeginInv ==
    ASSUME IInv, NEW o \in 1..answered,
           \/ BeginMarkPaid(o)
           \/ BeginRefund(o)
           \/ \E ch \in Channels : ChannelRefund(o, ch)
    PROVE  IInv'
<1>1. o \in OrderIds /\ o <= answered
  BY OrdersAssumption DEF IInv, PayTypeOK, OrderIds
<1>2. CASE BeginMarkPaid(o)
  BY <1>1, <1>2, StartInv DEF BeginMarkPaid
<1>3. CASE BeginRefund(o)
  BY <1>1, <1>3, StartInv DEF BeginRefund
<1>. QED BY <1>2, <1>3 DEF ChannelRefund

(* The conditional UPDATE: a transaction locks a row it will change, or finds none *)
LEMMA UpdateInv ==
    ASSUME IInv, NEW j \in DOMAIN jobs, Update(j)
    PROVE  IInv'
<1>1. PICK x, o, op : x = jobs[j] /\ o = x.order /\ op = x.op
  OBVIOUS
<1>2. x \in InTx /\ x.pc = "update" /\ o \in Ids /\ op \in {"paid", "refunded"}
  BY <1>1, JobShape DEF IInv, Update, InTx, Tx
<1>3. PICK to \in {"hit", "miss"} : jobs' = [jobs EXCEPT ![j].pc = to] /\
          (to = "hit" <=> Matches(o, op)) /\ (to = "hit" => ~Locked(o))
  BY <1>1 DEF Update
<1>. DEFINE y == [x EXCEPT !.pc = to]
<1>4. jobs' = [jobs EXCEPT ![j] = y]
  BY <1>1, <1>3
<1>5. y \in Job /\ y.pc = to /\ y.op = op /\ y.order = o /\ y.for = x.for
  BY <1>1, <1>2 DEF Job, InTx
<1>. HIDE DEF y
<1>6. /\ jobs' \in Seq(Job)
      /\ DOMAIN jobs' = DOMAIN jobs
      /\ jobs'[j] = y
      /\ \A i \in DOMAIN jobs : i # j => jobs'[i] = jobs[i]
  BY <1>4, <1>5, JobMoves DEF IInv
<1>7. PayTypeOK'
  BY <1>6 DEF Update, IInv, PayTypeOK
<1>8. IdInv'
  BY <1>1, <1>2, <1>5, <1>6 DEF Update, IInv, IdInv, Tx
<1>9. LockInv'
  <2>1. to = "hit" => \E r \in rows : r.id = o /\ r.status # op
    BY <1>3, RowExists DEF Matches
  <2>2. to = "hit" => \A i \in DOMAIN jobs : jobs[i].pc = "hit" => jobs[i].order # o
    BY <1>3 DEF Locked
  <2>. QED BY <1>2, <1>5, <1>6, <2>1, <2>2 DEF Update, IInv, LockInv
<1>10. RefundInv'
  <2>1. \A i \in DOMAIN jobs : \A p \in Ids :
            At(i, Tx, "refunded", p)' <=> At(i, Tx, "refunded", p)
    BY <1>1, <1>2, <1>5, <1>6 DEF At, Tx
  <2>2. ASSUME to = "miss", op = "refunded", Exists(o)
        PROVE  refunds[o] >= 2
    <3>1. Row(o) \in rows /\ Row(o).id = o /\ Row(o).status = "refunded"
      BY <2>2, <1>3, RowExists DEF Matches
    <3>2. At(j, Tx, "refunded", o)
      BY <2>2, <1>1, <1>2 DEF At, Tx
    <3>3. refunds[o] \in Nat /\ ~(refunds[o] <= 1)
      BY <3>1, <3>2, <1>2 DEF IInv, RefundInv, PayTypeOK
    <3>. QED BY <3>3
  <2>3. \A i \in DOMAIN jobs : \A p \in Ids :
            At(i, Tx, "refunded", p)' /\ jobs'[i].pc = "miss" /\ Exists(p) => refunds[p] >= 2
    <3>. SUFFICES ASSUME NEW i \in DOMAIN jobs, NEW p \in Ids,
                         At(i, Tx, "refunded", p)', jobs'[i].pc = "miss", Exists(p)
                  PROVE  refunds[p] >= 2
      OBVIOUS
    <3>1. CASE i = j
      <4>1. to = "miss" /\ op = "refunded" /\ o = p
        BY <3>1, <1>5, <1>6 DEF At
      <4>. QED BY <4>1, <2>2
    <3>2. CASE i # j
      BY <3>2, <2>1, <1>6 DEF IInv, RefundInv
    <3>. QED BY <3>1, <3>2
  <2>. QED BY <1>6, <2>1, <2>3 DEF Update, IInv, RefundInv, Exists
<1>11. NoNewWork
  BY <1>1, <1>2, <1>5, <1>6 DEF NoNewWork, WorksFor, Tx
<1>12. \A i \in DOMAIN jobs' : jobs'[i].pc \in Tx =>
          jobs'[i].for = {} \/ \E m \in Notice : jobs'[i].for = {m}
  BY <1>1, <1>2, <1>5, <1>6 DEF IInv, NoticeInv, Tx
<1>13. NoticeInv' /\ NonceInv'
  BY <1>11, <1>12, WorkFrame DEF IInv, Update
<1>. QED BY <1>7, <1>8, <1>9, <1>10, <1>13, Frames DEF IInv, Update

LEMMA FinishEnds ==
    ASSUME NEW j \in DOMAIN jobs, Finish(j)
    PROVE  jobs' = [jobs EXCEPT ![j] = Done] /\ notices' \subseteq notices
BY DEF Finish, Answer

(* The commit of a transaction that found its row.  It holds the lock, so the
   row is as it found it, and no other goroutine is about to change it *)
LEMMA CommitHitInv ==
    ASSUME IInv, NEW j \in DOMAIN jobs, CommitHit(j)
    PROVE  IInv'
<1>1. PICK x, o, op : x = jobs[j] /\ o = x.order /\ op = x.op
  OBVIOUS
<1>2. x \in InTx /\ x.pc = "hit" /\ o \in Ids /\ op \in {"paid", "refunded"} /\ op \in Statuses
  BY <1>1, JobShape DEF IInv, CommitHit, InTx, Tx, Statuses
<1>3. PICK r \in rows : r.id = o /\ r.status # op
  BY <1>1, <1>2 DEF IInv, LockInv
<1>4. rows \subseteq OrderRow /\ o \in OrderIds /\ \A q \in rows : q.id = o => q = r
  BY <1>3 DEF IInv, PayTypeOK, OrderRow, IdInv
<1>5. rows' = Set(r.id, op)
  BY <1>1, <1>3 DEF CommitHit
<1>6. /\ rows' \subseteq OrderRow
      /\ \A q \in rows' : q.id = o => q.status = op
      /\ \A q \in rows' : q.id # o => q \in rows
      /\ \A q \in rows : q.id # o => q \in rows'
      /\ \E q \in rows' : q.id = o
      /\ \A p, q \in rows' : p.id = q.id => p = q
      /\ \A q \in rows' : \E p \in rows : p.id = q.id
  BY <1>2, <1>3, <1>5, RowIsSet DEF IInv
<1>7. PICK e : e = Event(Topic[op], o)
  OBVIOUS
<1>8. /\ e \in OutboxRow /\ e.order = o
      /\ op = "paid" => e.topic = "order.paid"
      /\ op = "refunded" => e.topic = "order.refunded" /\ e = Event("order.refunded", o)
      /\ outbox' = Append(outbox, e)
  BY <1>1, <1>2, <1>4, <1>7 DEF CommitHit, WriteOutbox, Event, Topic, OutboxRow
<1>9. /\ outbox' \in Seq(OutboxRow)
      /\ Len(outbox) \in Nat
      /\ Len(outbox') = Len(outbox) + 1
      /\ DOMAIN outbox = 1..Len(outbox)
      /\ DOMAIN outbox' = 1..Len(outbox) + 1
      /\ outbox'[Len(outbox) + 1] = e
      /\ \A i \in DOMAIN outbox : outbox'[i] = outbox[i]
  BY <1>8, EventWritten DEF IInv
<1>10. jobs' = [jobs EXCEPT ![j] = Done] /\ notices' \subseteq notices
  BY FinishEnds DEF CommitHit
<1>11. /\ jobs' \in Seq(Job)
       /\ DOMAIN jobs' = DOMAIN jobs
       /\ jobs'[j] = Done
       /\ \A i \in DOMAIN jobs : i # j => jobs'[i] = jobs[i]
  BY <1>10, JobMoves DEF IInv, Job
<1>12. \A i \in DOMAIN jobs' : jobs'[i].pc # "done" => i # j /\ jobs'[i] = jobs[i]
  BY <1>11 DEF Done
<1>13. acted \in [Nonces -> Nat] /\ x.for \subseteq Notice
  BY <1>2 DEF IInv, PayTypeOK, InTx
<1>14. \A n \in Notice : n \in x.for <=> WorksFor(j, n)
  BY <1>1, <1>2 DEF WorksFor, Tx
<1>15. x.for = {} \/ \E n \in Notice : x.for = {n}
  BY <1>1, <1>2 DEF IInv, NoticeInv, Tx
<1>16. \A k \in Nonces : acted'[k] = acted[k] + Cardinality({n \in x.for : n.nonce = k})
  BY <1>1 DEF CommitHit
<1>17. ASSUME NEW k \in Nonces, \A n \in x.for : n.nonce # k
       PROVE  acted'[k] = acted[k]
  <2>1. {n \in x.for : n.nonce = k} = {}
    BY <1>17
  <2>2. Cardinality({n \in x.for : n.nonce = k}) = 0
    BY <2>1, FS_EmptySet
  <2>. QED BY <2>2, <1>13, <1>16
<1>18. ASSUME NEW n \in x.for
       PROVE  acted'[n.nonce] = acted[n.nonce] + 1
  <2>1. {m \in x.for : m.nonce = n.nonce} = {n}
    BY <1>15
  <2>2. Cardinality({m \in x.for : m.nonce = n.nonce}) = 1
    BY <2>1, FS_Singleton
  <2>3. n.nonce \in Nonces
    BY <1>13 DEF Notice
  <2>. QED BY <2>2, <2>3, <1>13, <1>16
<1>19. PayTypeOK'
  <2>1. \A k \in Nonces : acted'[k] \in Nat
    <3>. SUFFICES ASSUME NEW k \in Nonces PROVE acted'[k] \in Nat
      OBVIOUS
    <3>1. CASE \E n \in x.for : n.nonce = k
      BY <3>1, <1>13, <1>18
    <3>2. CASE \A n \in x.for : n.nonce # k
      BY <3>2, <1>13, <1>17
    <3>. QED BY <3>1, <3>2
  <2>2. acted' \in [Nonces -> Nat]
    BY <2>1 DEF CommitHit
  <2>. QED BY <2>2, <1>6, <1>9, <1>10, <1>11 DEF CommitHit, IInv, PayTypeOK
<1>20. IdInv'
  BY <1>6, <1>10, <1>11, <1>12 DEF CommitHit, IInv, IdInv, Tx
<1>21. LockInv'
  <2>1. \A i \in DOMAIN jobs' : jobs'[i].pc = "hit" => jobs'[i].order # o
    BY <1>1, <1>2, <1>11, <1>12 DEF IInv, LockInv
  <2>2. \A i \in DOMAIN jobs' : jobs'[i].pc = "hit" =>
            \E q \in rows' : q.id = jobs'[i].order /\ q.status # jobs'[i].op
    BY <2>1, <1>6, <1>11, <1>12 DEF IInv, LockInv
  <2>. QED BY <2>2, <1>11, <1>12 DEF IInv, LockInv
<1>22. PaidInv'
  <2>. SUFFICES ASSUME NEW i \in DOMAIN outbox', outbox'[i].topic = "order.paid"
                PROVE  \E q \in rows' :
                          /\ q.id = outbox'[i].order
                          /\ \/ q.status = "paid"
                             \/ \E m \in i..Len(outbox') :
                                   outbox'[m] = Event("order.refunded", outbox'[i].order)
    BY DEF PaidInv, Event
  <2>1. CASE i = Len(outbox) + 1
    BY <2>1, <1>2, <1>6, <1>8, <1>9
  <2>2. CASE i \in DOMAIN outbox
    <3>1. PICK q \in rows :
              /\ q.id = outbox[i].order
              /\ \/ q.status = "paid"
                 \/ \E m \in i..Len(outbox) : outbox[m] = Event("order.refunded", outbox[i].order)
      BY <2>2, <1>9 DEF IInv, PaidInv
    <3>2. outbox'[i] = outbox[i]
      BY <2>2, <1>9
    <3>3. CASE q.id # o
      BY <3>1, <3>2, <3>3, <2>2, <1>6, <1>9
    <3>4. CASE q.id = o /\ op = "paid"
      <4>1. PICK m \in i..Len(outbox) : outbox[m] = Event("order.refunded", outbox[i].order)
        BY <3>1, <3>4, <1>3, <1>4
      <4>2. m \in DOMAIN outbox /\ m \in i..Len(outbox')
        BY <2>2, <1>9
      <4>. QED BY <4>1, <4>2, <3>1, <3>2, <3>4, <1>6, <1>9
    <3>5. CASE q.id = o /\ op = "refunded"
      <4>1. Len(outbox) + 1 \in i..Len(outbox')
        BY <2>2, <1>9
      <4>. QED BY <4>1, <3>1, <3>2, <3>5, <1>6, <1>8, <1>9
    <3>. QED BY <3>3, <3>4, <3>5, <1>2
  <2>. QED BY <2>1, <2>2, <1>9
<1>23. PaidAnnouncedOnce'
  <2>1. e.topic = "order.paid" => op = "paid"
    BY <1>2, <1>8
  <2>2. ASSUME e.topic = "order.paid",
               NEW i \in DOMAIN outbox, outbox[i].topic = "order.paid", outbox[i].order = e.order
        PROVE  \E k \in i..Len(outbox) : outbox[k] = Event("order.refunded", e.order)
    BY <2>1, <2>2, <1>3, <1>4, <1>8 DEF IInv, PaidInv
  <2>. QED BY <2>2, <1>8, AnnouncedApart DEF IInv
<1>24. LastEventTellsStatus'
  <2>. SUFFICES ASSUME NEW q \in rows', refunds[q.id] <= 1
                PROVE  \E i \in DOMAIN outbox' :
                          /\ outbox'[i] = Event(Topic[q.status], q.id)
                          /\ \A m \in i + 1 .. Len(outbox') : outbox'[m].order # q.id
    BY DEF LastEventTellsStatus, Event, Topic, CommitHit
  <2>1. CASE q.id = o
    <3>1. outbox'[Len(outbox) + 1] = Event(Topic[q.status], q.id)
      BY <2>1, <1>6, <1>7, <1>9
    <3>. QED BY <3>1, <1>9
  <2>2. CASE q.id # o
    <3>1. PICK i \in DOMAIN outbox :
              /\ outbox[i] = Event(Topic[q.status], q.id)
              /\ \A m \in i + 1 .. Len(outbox) : outbox[m].order # q.id
      BY <2>2, <1>6 DEF IInv, LastEventTellsStatus
    <3>2. \A m \in i + 1 .. Len(outbox') : outbox'[m].order # q.id
      BY <2>2, <3>1, <1>8, <1>9
    <3>. QED BY <3>1, <3>2, <1>9
  <2>. QED BY <2>1, <2>2
<1>25. RefundInv'
  <2>. SUFFICES ASSUME NEW p \in Ids
                PROVE  /\ \A i \in DOMAIN jobs : At(i, Tx, "refunded", p)' =>
                             /\ refunds[p] >= 1
                             /\ refunds[p] <= 1 => \A q \in rows' : q.id = p => q.status # "refunded"
                             /\ jobs'[i].pc = "miss" /\ Exists(p)' => refunds[p] >= 2
                       /\ \A h, i \in DOMAIN jobs :
                             At(h, Tx, "refunded", p)' /\ At(i, Tx, "refunded", p)'
                                /\ refunds[p] <= 1 => h = i
                       /\ \A q \in rows' : q.id = p /\ q.status = "refunded" => refunds[p] >= 1
    BY <1>11 DEF RefundInv, CommitHit
  <2>1. /\ \A i \in DOMAIN jobs : At(i, Tx, "refunded", p) =>
              /\ refunds[p] >= 1
              /\ refunds[p] <= 1 => \A q \in rows : q.id = p => q.status # "refunded"
              /\ jobs[i].pc = "miss" /\ Exists(p) => refunds[p] >= 2
        /\ \A h, i \in DOMAIN jobs :
              At(h, Tx, "refunded", p) /\ At(i, Tx, "refunded", p) /\ refunds[p] <= 1 => h = i
        /\ \A q \in rows : q.id = p /\ q.status = "refunded" => refunds[p] >= 1
    BY DEF IInv, RefundInv
  <2>2. \A i \in DOMAIN jobs : At(i, Tx, "refunded", p)' =>
            i # j /\ jobs'[i] = jobs[i] /\ At(i, Tx, "refunded", p)
    BY <1>11, <1>12 DEF At, Tx
  <2>3. Exists(p)' => Exists(p)
    BY <1>6 DEF Exists
  <2>4. p = o /\ op = "refunded" => At(j, Tx, "refunded", p)
    BY <1>1, <1>2 DEF At, Tx
  <2>5. \A q \in rows' : q.id = p /\ q.status = "refunded" =>
            q \in rows \/ At(j, Tx, "refunded", p)
    BY <2>4, <1>6
  <2>. QED BY <2>1, <2>2, <2>3, <2>5
<1>26. /\ \A n \in Notice : \A i \in DOMAIN jobs' :
             WorksFor(i, n)' => i \in DOMAIN jobs /\ WorksFor(i, n) /\ i # j
       /\ \A n \in Notice : Known(n)' => Known(n)
  <2>1. \A n \in Notice : \A i \in DOMAIN jobs' :
            WorksFor(i, n)' => i \in DOMAIN jobs /\ WorksFor(i, n) /\ i # j
    BY <1>11, <1>12 DEF WorksFor, Tx
  <2>. QED BY <2>1, <1>10 DEF Known
<1>27. NoticeInv'
  <2>1. \A n \in Notice : Known(n)' => n.nonce <= sent'
    BY <1>26 DEF CommitHit, IInv, NoticeInv
  <2>2. \A m, n \in Notice : Known(m)' /\ Known(n)' /\ m.nonce = n.nonce => m = n
    BY <1>26 DEF IInv, NoticeInv
  <2>3. \A i \in DOMAIN jobs' : jobs'[i].pc \in Tx =>
            jobs'[i].for = {} \/ \E n \in Notice : jobs'[i].for = {n}
    BY <1>11, <1>12 DEF IInv, NoticeInv, Tx
  <2>4. ASSUME NEW k \in Nonces, k > sent
        PROVE  acted'[k] = 0 /\ \A ch \in Channels : k \notin nonces[ch]
    <3>1. \A n \in x.for : n.nonce <= sent
      BY <1>13, <1>14 DEF IInv, NoticeInv, Known
    <3>2. \A n \in x.for : n.nonce # k
      BY <2>4, <3>1 DEF IInv, PayTypeOK, Nonces
    <3>. QED BY <2>4, <3>2, <1>17 DEF IInv, NoticeInv
  <2>. QED BY <2>1, <2>2, <2>3, <2>4 DEF NoticeInv, CommitHit
<1>28. NonceInv'
  <2>. SUFFICES ASSUME NEW n \in Notice, Known(n)', TracksNonce(cfg[n.ch], n)
                PROVE  /\ acted'[n.nonce] <= 1 + restarts
                       /\ n.nonce \notin nonces[n.ch] =>
                             acted'[n.nonce] <= restarts /\ \A i \in DOMAIN jobs' : ~WorksFor(i, n)'
                       /\ \A i \in DOMAIN jobs' : WorksFor(i, n)' => acted'[n.nonce] <= restarts
                       /\ \A h, i \in DOMAIN jobs' : WorksFor(h, n)' /\ WorksFor(i, n)' => h = i
    BY DEF NonceInv, CommitHit
  <2>1. Known(n)
    BY <1>26
  <2>2. /\ acted[n.nonce] <= 1 + restarts
        /\ n.nonce \notin nonces[n.ch] =>
              acted[n.nonce] <= restarts /\ \A i \in DOMAIN jobs : ~WorksFor(i, n)
        /\ \A i \in DOMAIN jobs : WorksFor(i, n) => acted[n.nonce] <= restarts
        /\ \A h, i \in DOMAIN jobs : WorksFor(h, n) /\ WorksFor(i, n) => h = i
    BY <2>1 DEF IInv, NonceInv
  <2>3. \A i \in DOMAIN jobs' : WorksFor(i, n)' => i \in DOMAIN jobs /\ WorksFor(i, n) /\ i # j
    BY <1>26
  <2>4. acted[n.nonce] \in Nat /\ restarts \in Nat /\ n.nonce \in Nonces
    BY <1>13 DEF IInv, PayTypeOK, Notice
  <2>5. CASE n \in x.for
    <3>1. WorksFor(j, n)
      BY <2>5, <1>14
    <3>2. acted'[n.nonce] = acted[n.nonce] + 1
      BY <2>5, <1>18
    <3>. QED BY <2>2, <2>3, <2>4, <3>1, <3>2
  <2>6. CASE n \notin x.for
    <3>1. \A m \in x.for : Known(m) /\ m \in Notice
      BY <1>13, <1>14 DEF Known
    <3>2. \A m \in x.for : m.nonce # n.nonce
      BY <2>1, <2>6, <3>1 DEF IInv, NoticeInv
    <3>3. acted'[n.nonce] = acted[n.nonce]
      BY <2>4, <3>2, <1>17
    <3>. QED BY <2>2, <2>3, <3>3
  <2>. QED BY <2>5, <2>6
<1>. QED BY <1>19, <1>20, <1>21, <1>22, <1>23, <1>24, <1>25, <1>27, <1>28 DEF IInv

(* The commit of a transaction that found no row to change.  A refund that
   announces itself all the same is at least the second one of its order *)
LEMMA CommitMissInv ==
    ASSUME IInv, NEW j \in DOMAIN jobs, CommitMiss(j)
    PROVE  IInv'
<1>1. PICK x, o : x = jobs[j] /\ o = x.order
  OBVIOUS
<1>2. x \in InTx /\ x.pc = "miss" /\ o \in Ids
  BY <1>1, JobShape DEF IInv, CommitMiss, InTx, Tx
<1>3. jobs' = [jobs EXCEPT ![j] = Done] /\ notices' \subseteq notices
  BY FinishEnds DEF CommitMiss
<1>4. IdInv' /\ LockInv' /\ RefundInv' /\ NoticeInv' /\ NonceInv'
  BY <1>3, GoroutineEnds DEF CommitMiss
<1>5. jobs' \in Seq(Job)
  BY <1>3, JobMoves DEF IInv, Job
<1>6. CASE UNCHANGED outbox
  <2>1. PayTypeOK'
    BY <1>3, <1>5, <1>6 DEF CommitMiss, IInv, PayTypeOK
  <2>. QED BY <2>1, <1>4, <1>6, Frames DEF CommitMiss, IInv
<1>7. CASE x.op = "refunded" /\ Exists(o) /\ outbox' = Append(outbox, Event(Topic[x.op], o))
  <2>1. PICK e : e = Event(Topic[x.op], o)
    OBVIOUS
  <2>2. o \in OrderIds
    BY <1>7, RowExists DEF IInv, PayTypeOK, OrderRow
  <2>3. /\ e \in OutboxRow /\ e.order = o /\ e.topic = "order.refunded"
        /\ outbox' = Append(outbox, e)
    BY <1>7, <2>1, <2>2 DEF Event, Topic, OutboxRow
  <2>4. /\ outbox' \in Seq(OutboxRow)
        /\ Len(outbox) \in Nat
        /\ Len(outbox') = Len(outbox) + 1
        /\ DOMAIN outbox = 1..Len(outbox)
        /\ DOMAIN outbox' = 1..Len(outbox) + 1
        /\ outbox'[Len(outbox) + 1] = e
        /\ \A i \in DOMAIN outbox : outbox'[i] = outbox[i]
    BY <2>3, EventWritten DEF IInv
  <2>5. PayTypeOK'
    BY <1>3, <1>5, <2>4 DEF CommitMiss, IInv, PayTypeOK
  <2>6. PaidInv'
    <3>. SUFFICES ASSUME NEW i \in DOMAIN outbox', outbox'[i].topic = "order.paid"
                  PROVE  \E r \in rows :
                            /\ r.id = outbox'[i].order
                            /\ \/ r.status = "paid"
                               \/ \E m \in i..Len(outbox') :
                                     outbox'[m] = Event("order.refunded", outbox'[i].order)
      BY DEF PaidInv, Event, CommitMiss
    <3>1. i \in DOMAIN outbox /\ outbox'[i] = outbox[i]
      BY <2>3, <2>4
    <3>2. PICK r \in rows :
              /\ r.id = outbox[i].order
              /\ \/ r.status = "paid"
                 \/ \E m \in i..Len(outbox) : outbox[m] = Event("order.refunded", outbox[i].order)
      BY <3>1 DEF IInv, PaidInv
    <3>. QED BY <3>1, <3>2, <2>4
  <2>7. PaidAnnouncedOnce'
    BY <2>3, AnnouncedApart DEF IInv
  <2>8. refunds[o] >= 2
    <3>1. At(j, Tx, "refunded", o)
      BY <1>1, <1>2, <1>7 DEF At, Tx
    <3>. QED BY <3>1, <1>1, <1>2, <1>7 DEF IInv, RefundInv
  <2>9. LastEventTellsStatus'
    <3>. SUFFICES ASSUME NEW r \in rows, refunds[r.id] <= 1
                  PROVE  \E i \in DOMAIN outbox' :
                            /\ outbox'[i] = Event(Topic[r.status], r.id)
                            /\ \A m \in i + 1 .. Len(outbox') : outbox'[m].order # r.id
      BY DEF LastEventTellsStatus, Event, Topic, CommitMiss
    <3>1. r.id # o
      BY <2>8, <1>2 DEF IInv, PayTypeOK
    <3>2. PICK i \in DOMAIN outbox :
              /\ outbox[i] = Event(Topic[r.status], r.id)
              /\ \A m \in i + 1 .. Len(outbox) : outbox[m].order # r.id
      BY DEF IInv, LastEventTellsStatus
    <3>3. \A m \in i + 1 .. Len(outbox') : outbox'[m].order # r.id
      BY <3>1, <3>2, <2>3, <2>4
    <3>. QED BY <3>2, <3>3, <2>4
  <2>. QED BY <2>5, <2>6, <2>7, <2>9, <1>4 DEF IInv
<1>. QED BY <1>1, <1>6, <1>7 DEF CommitMiss, WriteOutbox

LEMMA TxFailsInv ==
    ASSUME IInv, NEW j \in DOMAIN jobs, TxFails(j)
    PROVE  IInv'
<1>1. jobs' = [jobs EXCEPT ![j] = Done] /\ notices' \subseteq notices
  BY FinishEnds DEF TxFails
<1>2. IdInv' /\ LockInv' /\ RefundInv' /\ NoticeInv' /\ NonceInv'
  BY <1>1, GoroutineEnds DEF TxFails
<1>3. PayTypeOK'
  BY <1>1, JobMoves DEF TxFails, IInv, PayTypeOK, Job
<1>. QED BY <1>2, <1>3, Frames DEF TxFails, IInv

(* The restart forgets the nonces; a nonce may act once more for it *)
LEMMA RestartInv ==
    ASSUME IInv, Restart
    PROVE  IInv'
<1>1. jobs \in Seq(Job)
  BY DEF IInv, PayTypeOK
<1>2. DOMAIN jobs' = DOMAIN jobs /\ \A j \in DOMAIN jobs : jobs'[j].pc = "done" /\ jobs'[j] = Done
  BY DEF Restart, Done
<1>3. jobs' \in Seq(Job)
  BY <1>1 DEF Restart, Job
<1>4. PayTypeOK'
  BY <1>3 DEF Restart, IInv, PayTypeOK
<1>5. IdInv'
  BY <1>2 DEF Restart, IInv, IdInv, Tx
<1>6. LockInv'
  BY <1>2 DEF LockInv
<1>7. RefundInv'
  BY <1>2 DEF Restart, IInv, RefundInv, At, Tx
<1>8. \A n \in Notice : \A j \in DOMAIN jobs' : ~WorksFor(j, n)'
  BY <1>2 DEF WorksFor, Tx
<1>9. \A n \in Notice : Known(n)' => Known(n)
  BY <1>8 DEF Known, Restart
<1>10. NoticeInv'
  <2>1. \A n \in Notice : Known(n)' => n.nonce <= sent'
    BY <1>9 DEF Restart, IInv, NoticeInv
  <2>2. \A m, n \in Notice : Known(m)' /\ Known(n)' /\ m.nonce = n.nonce => m = n
    BY <1>9 DEF IInv, NoticeInv
  <2>3. \A j \in DOMAIN jobs' : jobs'[j].pc \notin Tx
    BY <1>2 DEF Tx
  <2>4. \A k \in Nonces : k > sent' => acted'[k] = 0 /\ \A ch \in Channels : k \notin nonces'[ch]
    BY DEF Restart, IInv, NoticeInv
  <2>. QED BY <2>1, <2>2, <2>3, <2>4 DEF NoticeInv
<1>11. NonceInv'
  <2>. SUFFICES ASSUME NEW n \in Notice, Known(n)', TracksNonce(cfg[n.ch], n)
                PROVE  acted[n.nonce] <= restarts' /\ acted[n.nonce] <= 1 + restarts'
    BY <1>8 DEF NonceInv, Restart
  <2>1. acted[n.nonce] <= 1 + restarts
    BY <1>9 DEF IInv, NonceInv
  <2>2. acted[n.nonce] \in Nat /\ restarts \in Nat /\ restarts' = restarts + 1
    BY DEF Restart, IInv, PayTypeOK, Notice
  <2>. QED BY <2>1, <2>2
<1>. QED BY <1>4, <1>5, <1>6, <1>7, <1>10, <1>11, Frames DEF Restart, IInv

(* The reconcile worker, and a step of other components, write nothing of this *)
LEMMA StutterInv ==
    ASSUME IInv, UNCHANGED <<cfg, rows, answered, outbox, prepays, notices, sent, nonces, jobs,
                             restarts, acted, refunds>>
    PROVE  IInv'
<1>1. PayTypeOK'
  BY DEF IInv, PayTypeOK
<1>2. IdInv'
  BY DEF IInv, IdInv
<1>3. NoticeInv' /\ NonceInv'
  BY JobsFrame
<1>. QED BY <1>1, <1>2, <1>3, Frames DEF IInv

LEMMA NextInv == IInv /\ [Next]_vars => IInv'
<1>. SUFFICES ASSUME IInv, [Next]_vars PROVE IInv'
  OBVIOUS
<1>1. CASE Client
  BY <1>1, CreateInv, HandlePrepayInv, BeginInv DEF Client
<1>2. CASE Provider
  BY <1>2, NotifyInv DEF Provider
<1>3. CASE Webhook
  BY <1>3, VerifyNonceInv DEF Webhook
<1>4. CASE \E j \in DOMAIN jobs : Step(j)
  BY <1>4, VerifyBodyInv, UpdateInv, CommitHitInv, CommitMissInv, TxFailsInv DEF Step
<1>5. CASE Restart
  BY <1>5, RestartInv
<1>6. CASE RunOnce
  BY <1>6, StutterInv DEF RunOnce, ListOrders, Reconcile
<1>7. CASE UNCHANGED vars
  BY <1>7, StutterInv DEF vars
<1>. QED BY <1>1, <1>2, <1>3, <1>4, <1>5, <1>6, <1>7 DEF Next

----------------------------------------------------------------------------
(***************************************************************************)
(* The theorems.                                                           *)
(***************************************************************************)

(* The inductive invariant holds in every state the service reaches *)
THEOREM OrdersInvariance == Spec => []IInv
<1>1. Init => IInv
  BY InitInv
<1>2. IInv /\ [Next]_vars => IInv'
  BY NextInv
<1>. QED BY <1>1, <1>2, PTL DEF Spec

(* Webhooks and pay requests of any number of goroutines, repeated and racing
   for a row, announce one payment between two refunds (store.go MarkPaid) *)
THEOREM PaymentAnnouncedOnce == Spec => []PaidAnnouncedOnce
<1>1. IInv => PaidAnnouncedOnce
  BY DEF IInv
<1>. QED BY <1>1, OrdersInvariance, PTL

(* While an order was refunded at most once, its last event tells the status of
   its row, whatever transactions raced for the row (store.go MarkPaid, Refund) *)
THEOREM EventsFollowRows == Spec => []LastEventTellsStatus
<1>1. IInv => LastEventTellsStatus
  BY DEF IInv
<1>. QED BY <1>1, OrdersInvariance, PTL

(* A webhook whose channel keeps nonces moves an order to paid at most once in
   the life of a process (the nonce maps of internal/pay) *)
THEOREM NonceActsOncePerProcess == Spec => []NonceActsOnce
<1>1. IInv => NonceActsOnce
  BY DEF IInv, PayTypeOK, NonceInv, NonceActsOnce, Known
<1>. QED BY <1>1, OrdersInvariance, PTL

(* A transaction that has passed its UPDATE is alone with its row, and the row
   is still to be changed: what it commits is what it decided on (store.go) *)
THEOREM RowLocksAreExclusive == Spec => []LockInv
<1>1. IInv => LockInv
  BY DEF IInv
<1>. QED BY <1>1, OrdersInvariance, PTL

----------------------------------------------------------------------------
(***************************************************************************)
(* Notices that a channel cannot read.                                     *)
(***************************************************************************)

(* A goroutine that is past the signature has verified it, and one in a
   transaction has read its notice *)
JobsRead ==
    \A j \in DOMAIN jobs :
        /\ jobs[j].pc = "body" => Accepts(cfg[jobs[j].notice.ch], jobs[j].notice, TRUE)
        /\ jobs[j].pc \in Tx => \A n \in jobs[j].for : Reads(cfg[n.ch], n)

(* A notice that cannot be read has paid nothing *)
UnreadActs == \A n \in notices : ~Reads(cfg[n.ch], n) => acted[n.nonce] = 0

(* A notice that is accepted late would be accepted in time *)
LEMMA AcceptsFresh ==
    ASSUME NEW c, NEW n, n.ch \in Channels, NEW fresh \in BOOLEAN, Accepts(c, n, fresh)
    PROVE  Accepts(c, n, TRUE)
<1>1. CASE n.ch = "mock"
  BY <1>1 DEF Accepts, MockAccepts
<1>2. CASE n.ch = "wechat"
  BY <1>2 DEF Accepts, WeChatAccepts
<1>3. CASE n.ch = "alipay"
  BY <1>3 DEF Accepts, AlipayAccepts
<1>4. CASE n.ch = "appleiap"
  BY <1>4 DEF Accepts, AppleAccepts, AppleVerifyMock
<1>. QED BY <1>1, <1>2, <1>3, <1>4 DEF Channels

LEMMA JobsReadFrame ==
    ASSUME JobsRead, UNCHANGED cfg,
           \A i \in DOMAIN jobs' :
              \/ i \in DOMAIN jobs /\ jobs'[i] = jobs[i]
              \/ jobs'[i] = Done
              \/ jobs'[i].pc = "body" /\ Accepts(cfg[jobs'[i].notice.ch], jobs'[i].notice, TRUE)
              \/ jobs'[i].pc \in Tx /\ \A n \in jobs'[i].for : Reads(cfg[n.ch], n)
    PROVE  JobsRead'
<1>. SUFFICES ASSUME NEW j \in DOMAIN jobs'
              PROVE  /\ jobs'[j].pc = "body" => Accepts(cfg[jobs'[j].notice.ch], jobs'[j].notice, TRUE)
                     /\ jobs'[j].pc \in Tx => \A n \in jobs'[j].for : Reads(cfg[n.ch], n)
  BY DEF JobsRead
<1>1. CASE j \in DOMAIN jobs /\ jobs'[j] = jobs[j]
  <2>1. /\ jobs[j].pc = "body" => Accepts(cfg[jobs[j].notice.ch], jobs[j].notice, TRUE)
        /\ jobs[j].pc \in Tx => \A n \in jobs[j].for : Reads(cfg[n.ch], n)
    BY <1>1 DEF JobsRead
  <2>. QED BY <1>1, <2>1
<1>2. CASE jobs'[j] = Done
  BY <1>2 DEF Done, Tx
<1>3. CASE jobs'[j].pc = "body" /\ Accepts(cfg[jobs'[j].notice.ch], jobs'[j].notice, TRUE)
  BY <1>3 DEF Tx
<1>4. CASE jobs'[j].pc \in Tx /\ \A n \in jobs'[j].for : Reads(cfg[n.ch], n)
  BY <1>4 DEF Tx
<1>. QED BY <1>1, <1>2, <1>3, <1>4

LEMMA JobsReadEnds ==
    ASSUME IInv, JobsRead, UNCHANGED cfg, NEW j \in DOMAIN jobs, jobs' = [jobs EXCEPT ![j] = Done]
    PROVE  JobsRead'
<1>1. DOMAIN jobs' = DOMAIN jobs /\ jobs'[j] = Done /\ \A i \in DOMAIN jobs : i # j => jobs'[i] = jobs[i]
  BY JobMoves DEF IInv, Job
<1>. QED BY <1>1, JobsReadFrame

LEMMA ClientReads ==
    ASSUME IInv, JobsRead, UnreadActs, Client
    PROVE  JobsRead' /\ UnreadActs'
<1>1. UNCHANGED <<cfg, notices, acted>>
  BY DEF Client, Create, HandlePrepay, BeginMarkPaid, BeginRefund, ChannelRefund
<1>2. UnreadActs'
  BY <1>1 DEF UnreadActs
<1>3. CASE UNCHANGED jobs
  BY <1>1, <1>2, <1>3, JobsReadFrame
<1>4. ASSUME NEW o \in 1..answered, NEW op \in {"paid", "refunded"},
             Start([pc |-> "update", op |-> op, order |-> o, for |-> {}])
      PROVE  JobsRead'
  <2>. DEFINE job == [pc |-> "update", op |-> op, order |-> o, for |-> {}]
              new == Len(jobs) + 1
  <2>1. o \in OrderIds
    BY OrdersAssumption DEF IInv, PayTypeOK, OrderIds
  <2>2. job \in Job /\ job.pc \in Tx /\ job.for = {}
    BY <2>1 DEF Job, InTx, Ids, Tx
  <2>3. jobs' = Append(jobs, job)
    BY <1>4 DEF Start
  <2>. HIDE DEF job
  <2>4. /\ DOMAIN jobs' = DOMAIN jobs \cup {new}
        /\ jobs'[new] = job
        /\ \A i \in DOMAIN jobs : jobs'[i] = jobs[i]
    BY <2>2, <2>3, JobStarts DEF IInv
  <2>. QED BY <1>1, <2>2, <2>4, JobsReadFrame
<1>5. UNCHANGED jobs \/ \E o \in 1..answered, op \in {"paid", "refunded"} :
          Start([pc |-> "update", op |-> op, order |-> o, for |-> {}])
  BY DEF Client, Create, HandlePrepay, BeginMarkPaid, BeginRefund, ChannelRefund
<1>. QED BY <1>2, <1>3, <1>4, <1>5

LEMMA ProviderReads ==
    ASSUME IInv, JobsRead, UnreadActs, Provider
    PROVE  JobsRead' /\ UnreadActs'
<1>1. PICK pp \in prepays \cup Purchases : \E x \in {PaidWord(pp.ch), RefundWord(pp.ch)} : Notify(pp, x)
  BY DEF Provider
<1>. PICK w \in {PaidWord(pp.ch), RefundWord(pp.ch)} : Notify(pp, w)
  BY <1>1
<1>2. JobsRead'
  BY <1>1 DEF Notify, JobsRead
<1>3. PICK n : n = [ch |-> pp.ch, order |-> pp.order, trade |-> Trade,
                    amount |-> pp.amount, state |-> w, nonce |-> sent + 1]
  OBVIOUS
<1>4. n.nonce = sent + 1 /\ n.nonce \in Nonces /\ sent \in Nat
  BY <1>1, <1>3, OrdersAssumption DEF Notify, IInv, PayTypeOK, Nonces
<1>5. acted[n.nonce] = 0
  BY <1>4 DEF IInv, NoticeInv
<1>6. notices' = notices \cup {n} /\ UNCHANGED <<cfg, acted>>
  BY <1>1, <1>3 DEF Notify
<1>. QED BY <1>2, <1>5, <1>6 DEF UnreadActs

LEMMA WebhookReads ==
    ASSUME IInv, JobsRead, UnreadActs, Webhook
    PROVE  JobsRead' /\ UnreadActs'
<1>1. PICK n \in notices, fresh \in BOOLEAN : VerifyNonce(n, fresh)
  BY DEF Webhook
<1>. DEFINE job == [pc |-> "body", notice |-> n]
            new == Len(jobs) + 1
<1>2. n \in Notice /\ n.ch \in Channels
  BY DEF IInv, PayTypeOK, Notice
<1>3. job \in Job /\ job.pc = "body" /\ job.notice = n
  BY <1>2 DEF Job, Verifying
<1>4. jobs' = Append(jobs, job) /\ UNCHANGED <<cfg, notices, acted>> /\ Accepts(cfg[n.ch], n, fresh)
  BY <1>1 DEF VerifyNonce, Start
<1>5. Accepts(cfg[n.ch], n, TRUE)
  BY <1>2, <1>4, AcceptsFresh
<1>. HIDE DEF job
<1>6. /\ DOMAIN jobs' = DOMAIN jobs \cup {new}
      /\ jobs'[new] = job
      /\ \A i \in DOMAIN jobs : jobs'[i] = jobs[i]
  BY <1>3, <1>4, JobStarts DEF IInv
<1>7. JobsRead'
  BY <1>3, <1>4, <1>5, <1>6, JobsReadFrame
<1>. QED BY <1>4, <1>7 DEF UnreadActs

LEMMA VerifyBodyReads ==
    ASSUME IInv, JobsRead, UnreadActs, NEW j \in DOMAIN jobs, VerifyBody(j)
    PROVE  JobsRead' /\ UnreadActs'
<1>1. PICK n : n = jobs[j].notice
  OBVIOUS
<1>2. jobs[j].pc = "body" /\ n \in Notice /\ n.order <= answered
  BY <1>1, JobShape DEF IInv, IdInv, VerifyBody, Verifying
<1>3. PICK o : o = OrderOf(cfg[n.ch], n)
  OBVIOUS
<1>4. o \in Ids
  BY <1>2, <1>3, OrderOfType DEF IInv, PayTypeOK
<1>5. notices' \subseteq notices /\ UNCHANGED <<cfg, acted>>
  BY DEF VerifyBody, Answer
<1>6. UnreadActs'
  BY <1>5 DEF UnreadActs
<1>7. CASE jobs' = [jobs EXCEPT ![j] = Done]
  BY <1>5, <1>6, <1>7, JobsReadEnds
<1>8. CASE /\ Opens(cfg[n.ch], n)
           /\ jobs' = [jobs EXCEPT ![j] = [pc |-> "update", op |-> "paid", order |-> o, for |-> {n}]]
  <2>. DEFINE x == [pc |-> "update", op |-> "paid", order |-> o, for |-> {n}]
  <2>1. x \in Job /\ x.pc \in Tx /\ x.for = {n}
    BY <1>2, <1>4 DEF Job, InTx, Tx
  <2>. HIDE DEF x
  <2>2. /\ DOMAIN jobs' = DOMAIN jobs
        /\ jobs'[j] = x
        /\ \A i \in DOMAIN jobs : i # j => jobs'[i] = jobs[i]
    BY <1>8, <2>1, JobMoves DEF IInv, x
  <2>3. Reads(cfg[n.ch], n)
    BY <1>1, <1>2, <1>8 DEF JobsRead, Reads
  <2>. QED BY <1>5, <1>6, <2>1, <2>2, <2>3, JobsReadFrame
<1>. QED BY <1>1, <1>3, <1>7, <1>8 DEF VerifyBody

LEMMA UpdateReads ==
    ASSUME IInv, JobsRead, UnreadActs, NEW j \in DOMAIN jobs, Update(j)
    PROVE  JobsRead' /\ UnreadActs'
<1>1. jobs[j].pc = "update" /\ jobs[j] \in InTx /\ jobs \in Seq(Job)
  BY JobShape DEF IInv, Update, Tx, PayTypeOK
<1>2. PICK to \in {"hit", "miss"} : jobs' = [jobs EXCEPT ![j].pc = to]
  BY DEF Update
<1>3. DOMAIN jobs' = DOMAIN jobs /\ \A i \in DOMAIN jobs : i # j => jobs'[i] = jobs[i]
  BY <1>1, <1>2
<1>4. jobs'[j].pc = to /\ jobs'[j].for = jobs[j].for
  BY <1>1, <1>2 DEF InTx
<1>5. \A n \in jobs'[j].for : Reads(cfg[n.ch], n)
  BY <1>1, <1>4 DEF JobsRead, Tx
<1>6. UNCHANGED <<cfg, notices, acted>>
  BY DEF Update
<1>7. JobsRead'
  BY <1>2, <1>3, <1>4, <1>5, <1>6, JobsReadFrame DEF Tx
<1>. QED BY <1>6, <1>7 DEF UnreadActs

(* Only a transaction that read its notice counts for its nonce *)
LEMMA CommitHitReads ==
    ASSUME IInv, JobsRead, UnreadActs, NEW j \in DOMAIN jobs, CommitHit(j)
    PROVE  JobsRead' /\ UnreadActs'
<1>1. jobs[j].pc = "hit" /\ jobs[j] \in InTx
  BY JobShape DEF IInv, CommitHit, Tx
<1>2. PICK x : x = jobs[j].for
  OBVIOUS
<1>3. x \subseteq Notice /\ \A m \in x : Known(m) /\ Reads(cfg[m.ch], m)
  BY <1>1, <1>2 DEF InTx, Known, WorksFor, Tx, JobsRead
<1>4. jobs' = [jobs EXCEPT ![j] = Done] /\ notices' \subseteq notices /\ UNCHANGED cfg
  BY FinishEnds DEF CommitHit
<1>5. JobsRead'
  BY <1>4, JobsReadEnds
<1>6. ASSUME NEW n \in notices', ~Reads(cfg[n.ch], n)
      PROVE  acted'[n.nonce] = 0
  <2>1. n \in notices /\ n \in Notice /\ Known(n) /\ n.nonce \in Nonces
    BY <1>4 DEF IInv, PayTypeOK, Known, Notice
  <2>2. acted[n.nonce] = 0
    BY <2>1, <1>6 DEF UnreadActs
  <2>3. \A m \in x : m.nonce # n.nonce
    BY <2>1, <1>3, <1>6 DEF IInv, NoticeInv
  <2>4. {m \in x : m.nonce = n.nonce} = {}
    BY <2>3
  <2>5. Cardinality({m \in x : m.nonce = n.nonce}) = 0
    BY <2>4, FS_EmptySet
  <2>6. acted'[n.nonce] = acted[n.nonce] + Cardinality({m \in x : m.nonce = n.nonce})
    BY <2>1, <1>2 DEF CommitHit
  <2>. QED BY <2>2, <2>5, <2>6
<1>. QED BY <1>4, <1>5, <1>6 DEF UnreadActs

LEMMA EndsRead ==
    ASSUME IInv, JobsRead, UnreadActs, NEW j \in DOMAIN jobs, CommitMiss(j) \/ TxFails(j)
    PROVE  JobsRead' /\ UnreadActs'
<1>1. /\ jobs' = [jobs EXCEPT ![j] = Done]
      /\ notices' \subseteq notices
      /\ UNCHANGED <<cfg, acted>>
  BY FinishEnds DEF CommitMiss, TxFails
<1>. QED BY <1>1, JobsReadEnds DEF UnreadActs

LEMMA RestartReads ==
    ASSUME IInv, JobsRead, UnreadActs, Restart
    PROVE  JobsRead' /\ UnreadActs'
<1>1. \A j \in DOMAIN jobs' : jobs'[j] = Done
  BY DEF Restart
<1>. QED BY <1>1, JobsReadFrame DEF Restart, UnreadActs

LEMMA NextReads == IInv /\ JobsRead /\ UnreadActs /\ [Next]_vars => JobsRead' /\ UnreadActs'
<1>. SUFFICES ASSUME IInv, JobsRead, UnreadActs, [Next]_vars PROVE JobsRead' /\ UnreadActs'
  OBVIOUS
<1>1. CASE \E j \in DOMAIN jobs : Step(j)
  BY <1>1, VerifyBodyReads, UpdateReads, CommitHitReads, EndsRead DEF Step
<1>2. CASE UNCHANGED <<cfg, jobs, notices, acted>>
  BY <1>2 DEF JobsRead, UnreadActs
<1>3. CASE RunOnce
  BY <1>2, <1>3 DEF RunOnce, ListOrders, Reconcile
<1>4. CASE UNCHANGED vars
  BY <1>2, <1>4 DEF vars
<1>. QED BY <1>1, <1>3, <1>4, ClientReads, ProviderReads, WebhookReads, RestartReads DEF Next

(* A configuration that the readiness report calls ready, with well-formed
   keys, verifies and opens its channel's notices *)
LEMMA ReadyReads ==
    ASSUME NEW f \in [Channels -> [mock : BOOLEAN, set : SUBSET Fields]], NEW n, n.ch \in Channels,
           AllReady(f), ~Malformed(n.ch, f[n.ch])
    PROVE  Reads(f[n.ch], n)
<1>1. PICK c : c = f[n.ch]
  OBVIOUS
<1>2. c.mock \in BOOLEAN /\ ParsesKeys(c) /\ (n.ch = "wechat" => AesGCMDecrypt(c))
  BY <1>1 DEF Malformed
<1>3. Mode(n.ch, c) # "nil"
  BY <1>2 DEF Channels, Mode, NewMockChannel, NewWeChatChannel, NewAlipayChannel,
              NewAppleIAPChannel, ModeFor
<1>4. CASE n.ch = "mock"
  BY <1>1, <1>3, <1>4 DEF Reads, Opens, Accepts, MockAccepts
<1>5. CASE n.ch = "wechat"
  <2>1. CheckWeChatCredentials(c) \subseteq {"ready", "mock", "sandbox"}
    BY <1>1, <1>5 DEF AllReady, CheckAllCredentials
  <2>2. ~c.mock => FieldStatus(c, "platform_public_key", "partial") \in {"ready", "mock", "sandbox"}
    BY <2>1, <1>2 DEF CheckWeChatCredentials
  <2>3. ~c.mock => "platform_public_key" \in c.set
    BY <2>2 DEF FieldStatus
  <2>4. NewWeChatChannel(c) = "real" => ~c.mock
    BY <1>2 DEF NewWeChatChannel, ModeFor
  <2>5. Accepts(c, n, TRUE)
    BY <1>3, <1>5, <2>3, <2>4 DEF Accepts, WeChatAccepts
  <2>. QED BY <1>1, <1>2, <1>5, <2>5 DEF Reads, Opens
<1>6. CASE n.ch = "alipay"
  <2>1. NewAlipayChannel(c) # "mock" => "alipay_public_key" \in c.set
    BY <1>2 DEF NewAlipayChannel, ModeFor
  <2>. QED BY <1>1, <1>3, <1>6, <2>1 DEF Reads, Opens, Accepts, AlipayAccepts, AlipayVerify
<1>7. CASE n.ch = "appleiap"
  BY <1>1, <1>3, <1>7 DEF Reads, Opens, Accepts, AppleAccepts, AppleVerifyMock, DecodeAndVerifyAppleJWS
<1>. QED BY <1>4, <1>5, <1>6, <1>7 DEF Channels

(* Whatever the configuration of the deployment: a notice that its channel
   cannot verify or open never pays an order, and when the credential report
   calls every channel ready, a malformed key is why (diagnose/credentials
   against the constructors and VerifyWebhook) *)
THEOREM ReadyConfigurationsRead == Spec => []ReadyChannelsRead
<1>1. Init => JobsRead /\ UnreadActs
  BY DEF Init, JobsRead, UnreadActs
<1>2. IInv /\ UnreadActs => ReadyChannelsRead
  <2>. SUFFICES ASSUME IInv, UnreadActs, NEW n \in notices, ~Reads(cfg[n.ch], n)
                PROVE  (AllReady(cfg) => Malformed(n.ch, cfg[n.ch])) /\ acted[n.nonce] = 0
    BY DEF ReadyChannelsRead
  <2>1. cfg \in [Channels -> [mock : BOOLEAN, set : SUBSET Fields]] /\ n.ch \in Channels
    BY OrdersAssumption DEF IInv, PayTypeOK, Notice
  <2>2. AllReady(cfg) => Malformed(n.ch, cfg[n.ch])
    BY <2>1, ReadyReads
  <2>. QED BY <2>2 DEF UnreadActs
<1>. QED BY <1>1, <1>2, NextReads, OrdersInvariance, PTL DEF Spec

----------------------------------------------------------------------------
(***************************************************************************)
(* The reconcile round.                                                    *)
(***************************************************************************)

(* A listed row is the row of its order as long as nothing moved; what is told
   so far is about the orders queried so far, which all exist *)
RoundInv ==
    /\ remote = [ch \in Channels |-> [o \in Ids |-> remote[ch][o]]]
    /\ \A r \in listed : r.id \notin moved => r \in rows
    /\ \A r \in listed : r.id \in OrderIds /\ r.id <= answered /\ r.id \notin checked
    /\ \A r, q \in listed : r.id = q.id => r = q
    /\ \A o \in checked : o \in OrderIds /\ o <= answered
    /\ \A d \in diffs : d.order \in checked
    /\ RoundTellsMismatches

(* What the worker and the channel have told of the row r *)
Told(r) ==
    {d \in diffs : d.order = r.id} =
        {[order |-> r.id, local |-> r.status, remote |-> s] :
            s \in {remote[ch][r.id] : ch \in {r.ch} \cap Registered} \ {r.status}}

LEMMA RoundStays ==
    ASSUME IInv, RoundInv, UNCHANGED <<listed, checked, diffs, remote, moved>>,
           answered' \in Nat, answered <= answered',
           \A r \in rows : r \in rows',
           \A r \in rows' : r \in rows \/ r.id > answered
    PROVE  RoundInv'
<1>1. answered \in Nat
  BY DEF IInv, PayTypeOK
<1>2. ASSUME NEW r \in rows', r.id \in checked \ moved
      PROVE  Told(r)
  <2>1. r.id \in Nat /\ r.id <= answered
    BY <1>2 DEF RoundInv, OrderIds
  <2>2. r \in rows
    BY <1>1, <2>1
  <2>. QED BY <1>2, <2>2 DEF RoundInv, RoundTellsMismatches, Told
<1>3. RoundTellsMismatches'
  BY <1>2 DEF RoundTellsMismatches, Told
<1>. QED BY <1>1, <1>3 DEF RoundInv, OrderIds

LEMMA CreateRound ==
    ASSUME IInv, RoundInv, NEW o \in OrderIds, NEW k \in Keys, NEW price \in Prices,
           NEW ch \in RowChannels, Create(o, k, price, ch)
    PROVE  RoundInv'
<1>1. answered \in Nat /\ o = answered + 1 /\ answered' = o
  BY DEF IInv, PayTypeOK, Create
<1>2. PICK new : new = [id |-> o, key |-> k, price |-> price, ch |-> ch, status |-> "created"]
  OBVIOUS
<1>3. rows' = rows \/ rows' = rows \cup {new}
  BY <1>2 DEF Create, InsertOrder
<1>4. new.id > answered
  BY <1>1, <1>2
<1>. QED BY <1>1, <1>3, <1>4, RoundStays DEF Create, round

LEMMA VerifyBodyRound ==
    ASSUME IInv, RoundInv, NEW j \in DOMAIN jobs, VerifyBody(j)
    PROVE  RoundInv'
<1>1. PICK n : n = jobs[j].notice
  OBVIOUS
<1>2. n \in Notice /\ n.ch \in Channels /\ n.order <= answered /\ answered \in Nat
  BY <1>1, JobShape DEF IInv, IdInv, VerifyBody, Verifying, Notice, PayTypeOK
<1>3. PICK o : o = OrderOf(cfg[n.ch], n)
  OBVIOUS
<1>4. o \in Ids
  BY <1>2, <1>3, OrderOfType
<1>5. UNCHANGED <<listed, checked, diffs, rows, answered>>
  BY DEF VerifyBody, round
<1>6. CASE UNCHANGED <<remote, moved>>
  BY <1>2, <1>5, <1>6, RoundStays
<1>7. CASE remote' = [remote EXCEPT ![n.ch][o] = StatusOf(n)] /\ Moves(o)
  <2>1. remote' = [ch \in Channels |-> [i \in Ids |-> remote'[ch][i]]]
    BY <1>2, <1>4, <1>7 DEF RoundInv
  <2>2. \A ch \in Channels : \A i \in Ids : i # o => remote'[ch][i] = remote[ch][i]
    BY <1>2, <1>4, <1>7 DEF RoundInv
  <2>3. moved \subseteq moved' /\ (o \in checked => o \in moved')
    BY <1>7 DEF Moves
  <2>4. ASSUME NEW r \in rows, r.id \in checked \ moved'
        PROVE  Told(r)'
    <3>1. r.id # o /\ r.id \in Ids /\ r.id \in checked \ moved
      BY <2>3, <2>4 DEF RoundInv, Ids
    <3>2. \A ch \in {r.ch} \cap Registered : remote'[ch][r.id] = remote[ch][r.id]
      BY <3>1, <2>2, OrdersAssumption
    <3>3. Told(r)
      BY <3>1 DEF RoundInv, RoundTellsMismatches, Told
    <3>4. {remote'[ch][r.id] : ch \in {r.ch} \cap Registered} =
          {remote[ch][r.id] : ch \in {r.ch} \cap Registered}
      BY <3>2
    <3>. QED BY <1>5, <3>3, <3>4 DEF Told
  <2>5. RoundTellsMismatches'
    BY <1>5, <2>4 DEF RoundTellsMismatches, Told
  <2>. QED BY <1>5, <2>1, <2>3, <2>5 DEF RoundInv
<1>. QED BY <1>1, <1>3, <1>6, <1>7 DEF VerifyBody

LEMMA CommitHitRound ==
    ASSUME IInv, RoundInv, NEW j \in DOMAIN jobs, CommitHit(j)
    PROVE  RoundInv'
<1>1. PICK o, op : o = jobs[j].order /\ op = jobs[j].op
  OBVIOUS
<1>2. jobs[j] \in InTx /\ jobs[j].pc = "hit" /\ op \in Statuses
  BY <1>1, JobShape DEF IInv, CommitHit, InTx, Tx, Statuses
<1>3. PICK r \in rows : r.id = o
  BY <1>1, <1>2 DEF IInv, LockInv
<1>4. rows' = Set(r.id, op)
  BY <1>1, <1>3 DEF CommitHit
<1>5. /\ \A q \in rows' : q.id # o => q \in rows
      /\ \A q \in rows : q.id # o => q \in rows'
  BY <1>2, <1>3, <1>4, RowIsSet DEF IInv
<1>6. UNCHANGED <<listed, checked, diffs, remote, answered>>
  BY DEF CommitHit, round
<1>7. moved' = moved \cup ({o} \cap (checked \cup {q.id : q \in listed}))
  BY <1>1 DEF CommitHit, Moves
<1>8. moved \subseteq moved' /\ (o \in checked => o \in moved')
  BY <1>7
<1>9. \A q \in listed : q.id = o => o \in moved'
  BY <1>7
<1>10. RoundTellsMismatches'
  <2>. SUFFICES ASSUME NEW q \in rows', q.id \in checked \ moved' PROVE Told(q)
    BY <1>6 DEF RoundTellsMismatches, Told
  <2>1. q.id # o /\ q \in rows
    BY <1>5, <1>8
  <2>. QED BY <2>1, <1>8 DEF RoundInv, RoundTellsMismatches, Told
<1>11. \A q \in listed' : q.id \notin moved' => q \in rows'
  BY <1>5, <1>6, <1>8, <1>9 DEF RoundInv
<1>. QED BY <1>6, <1>10, <1>11 DEF RoundInv

LEMMA RestartRound ==
    ASSUME IInv, RoundInv, Restart
    PROVE  RoundInv'
BY DEF Restart, RoundInv, RoundTellsMismatches

LEMMA ListOrdersRound ==
    ASSUME IInv, RoundInv, NEW old \in 0..answered, ListOrders(old)
    PROVE  RoundInv'
<1>1. listed' \subseteq rows /\ checked' = {} /\ diffs' = {} /\ moved' = {}
  BY DEF ListOrders
<1>2. UNCHANGED <<rows, answered, remote>>
  BY DEF ListOrders
<1>3. \A r \in rows : r.id \in OrderIds /\ r.id <= answered
  BY DEF IInv, PayTypeOK, OrderRow, IdInv
<1>4. \A r, q \in rows : r.id = q.id => r = q
  BY DEF IInv, IdInv
<1>. QED BY <1>1, <1>2, <1>3, <1>4 DEF RoundInv, RoundTellsMismatches

(* The row that is compared is the one listed, which is still the order's
   unless something moved *)
LEMMA ReconcileRound ==
    ASSUME IInv, RoundInv, NEW r \in listed, Reconcile(r)
    PROVE  RoundInv'
<1>1. /\ listed' = listed \ {r}
      /\ checked' = checked \cup {r.id}
      /\ diffs' = IF Differs(r) THEN diffs \cup {Diff(r)} ELSE diffs
      /\ UNCHANGED <<rows, answered, remote, moved>>
  BY DEF Reconcile
<1>2. r.id \in OrderIds /\ r.id <= answered /\ r.id \notin checked
  BY DEF RoundInv
<1>3. \A q \in listed' : q \in listed /\ q.id # r.id
  BY <1>1 DEF RoundInv
<1>4. Diff(r) = [order |-> r.id, local |-> r.status, remote |-> remote[r.ch][r.id]]
  BY DEF Diff, QueryStatus
<1>5. Diff(r).order = r.id
  BY <1>4
<1>6. \A d \in diffs' : d \in diffs \/ (d = Diff(r) /\ Differs(r))
  BY <1>1
<1>7. diffs \subseteq diffs' /\ (Differs(r) => Diff(r) \in diffs')
  BY <1>1
<1>8. \A d \in diffs : d.order # r.id
  BY <1>2 DEF RoundInv
<1>9. ASSUME NEW q \in rows, q.id \in checked' \ moved
      PROVE  Told(q)'
  <2>1. CASE q.id = r.id
    <3>1. r \in rows /\ q = r
      BY <2>1, <1>9 DEF RoundInv, IInv, IdInv
    <3>2. {d \in diffs' : d.order = r.id} = {d \in {Diff(r)} : Differs(r)}
      BY <1>5, <1>6, <1>7, <1>8
    <3>3. {remote[ch][r.id] : ch \in {r.ch} \cap Registered} \ {r.status} =
             {s \in {remote[r.ch][r.id]} : Differs(r)}
      BY DEF Differs, Get, QueryStatus
    <3>4. {d \in diffs' : d.order = r.id} =
             {[order |-> r.id, local |-> r.status, remote |-> s] :
                 s \in {s \in {remote[r.ch][r.id]} : Differs(r)}}
      BY <3>2, <1>4
    <3>. QED BY <3>1, <3>3, <3>4, <1>1 DEF Told
  <2>2. CASE q.id # r.id
    <3>1. q.id \in checked \ moved
      BY <2>2, <1>1, <1>9
    <3>2. Told(q)
      BY <3>1 DEF RoundInv, RoundTellsMismatches, Told
    <3>3. {d \in diffs' : d.order = q.id} = {d \in diffs : d.order = q.id}
      BY <2>2, <1>5, <1>6, <1>7
    <3>. QED BY <3>2, <3>3, <1>1 DEF Told
  <2>. QED BY <2>1, <2>2
<1>10. RoundTellsMismatches'
  BY <1>1, <1>9 DEF RoundTellsMismatches, Told
<1>11. \A d \in diffs' : d.order \in checked'
  BY <1>1, <1>5, <1>6 DEF RoundInv
<1>. QED BY <1>1, <1>2, <1>3, <1>10, <1>11 DEF RoundInv

LEMMA NextRound == IInv /\ RoundInv /\ [Next]_vars => RoundInv'
<1>. SUFFICES ASSUME IInv, RoundInv, [Next]_vars PROVE RoundInv'
  OBVIOUS
<1>1. answered \in Nat
  BY DEF IInv, PayTypeOK
<1>2. CASE UNCHANGED <<rows, answered, remote, round, moved>>
  BY <1>1, <1>2, RoundStays DEF round
<1>3. CASE Client
  BY <1>2, <1>3, CreateRound DEF Client, HandlePrepay, BeginMarkPaid, BeginRefund, ChannelRefund
<1>4. CASE Provider \/ Webhook
  BY <1>2, <1>4 DEF Provider, Webhook, Notify, VerifyNonce
<1>5. CASE \E j \in DOMAIN jobs : Step(j)
  BY <1>2, <1>5, VerifyBodyRound, CommitHitRound DEF Step, Update, CommitMiss, TxFails
<1>6. CASE RunOnce
  BY <1>6, ListOrdersRound, ReconcileRound DEF RunOnce
<1>7. CASE UNCHANGED vars
  BY <1>2, <1>7 DEF vars
<1>. QED BY <1>3, <1>4, <1>5, <1>6, <1>7, RestartRound DEF Next

(* Of an order that no webhook and no transaction moved since its round listed
   it, the reconcile worker has told both statuses if they differ and nothing if
   they agree, whatever else went on between the listing and the query
   (reconcile.go RunOnce) *)
THEOREM RoundsTellMismatches == Spec => []RoundTellsMismatches
<1>1. Init => RoundInv
  BY DEF Init, RoundInv, RoundTellsMismatches
<1>2. RoundInv => RoundTellsMismatches
  BY DEF RoundInv
<1>. QED BY <1>1, <1>2, NextRound, OrdersInvariance, PTL DEF Spec
=============================================================================

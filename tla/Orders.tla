------------------------------- MODULE Orders -------------------------------
(***************************************************************************)
(* Orders of billing-svc on PostgreSQL: creation with an idempotency key,  *)
(* prepay, the payment provider's webhooks, the pay and refund endpoints,  *)
(* and the reconciliation worker.                                          *)
(*                                                                         *)
(* A handler runs in a goroutine of its own.  MarkPaid and Refund are      *)
(* READ COMMITTED transactions of two statements: the conditional UPDATE,  *)
(* which locks the row it changes, and the rest (load, outbox, commit).    *)
(* A webhook goes through two critical sections of its channel first.      *)
(*                                                                         *)
(* server.New does not start the reconciliation worker: a deployment that  *)
(* wants it builds it with a source and a sink of its own.  So a round may *)
(* happen here and need not.                                               *)
(***************************************************************************)
EXTENDS PayChannel, Sequences

CONSTANTS MaxOrders,      \* bound: orders asked for; ids grow, as ids.New's do
          Keys,           \* idempotency keys
          NoKey,          \* the key of a request without one: NULLIF in the INSERT
          Prices,         \* AmountCny of an order
          Amounts,        \* amount_fen a client puts in a prepay request
          RowChannels,    \* Order.Channel: a free string of the client
          Registered,     \* the channels server.New registers
          Configs,        \* the channel configurations of the deployment
          MaxPrepays,     \* bound: prepays clients hold
          MaxNotices,     \* bound: notices the provider sends
          MaxCalls,       \* bound: handler goroutines
          MaxRestarts     \* bound: restarts of the process

ASSUME OrdersAssumption ==
    /\ Prices \subseteq Nat \ {0}
    /\ Amounts \subseteq Int
    /\ Registered \subseteq Channels
    /\ Configs \subseteq [Channels -> [mock : BOOLEAN, set : SUBSET Fields]]
    /\ MaxOrders \in Nat /\ MaxPrepays \in Nat /\ MaxNotices \in Nat
    /\ MaxCalls \in Nat /\ MaxRestarts \in Nat

VARIABLES
    cfg,        \* the configuration the process was started with
    rows,       \* table orders: set of rows, one per id
    answered,   \* how many ids Create has given to clients
    outbox,     \* committed outbox rows of billing-svc, in order
    prepays,    \* prepays clients hold
    notices,    \* notices the provider has not had a 200 for
    sent,       \* how many notices were made: the next nonce
    nonces,     \* the channels' nonce maps
    remote,     \* the channels' status maps
    jobs,       \* the goroutines started so far and where each one is
    listed,     \* rows the reconcile round has listed and still has to query
    checked,    \* orders the round has queried
    diffs,      \* what ReconcileSink.EmitDiff was told in the round
    restarts,
    moved,      \* history: orders whose row or channel status moved in the round
    acted,      \* history: transitions to paid made for each nonce
    refunds     \* history: Refund transactions begun for each order

\* The reconcile worker's round.
round == <<listed, checked, diffs>>

vars == <<cfg, rows, answered, outbox, prepays, notices, sent, nonces, remote,
          jobs, round, restarts, moved, acted, refunds>>

OrderIds == 1..MaxOrders
Trade == 0                             \* a transaction id of Apple's
Ids == OrderIds \cup {Trade}
Nonces == 1..MaxNotices
Done == [pc |-> "done"]
Statuses == {"created", "paid", "refunded"}

Row(o) == CHOOSE r \in rows : r.id = o
Exists(o) == \E r \in rows : r.id = o
Set(o, s) == {IF r.id = o THEN [r EXCEPT !.status = s] ELSE r : r \in rows}
Get(ch) == ch \in Registered           \* Registry.Get
Locked(o) == \E j \in DOMAIN jobs : jobs[j].pc = "hit" /\ jobs[j].order = o
Topic == [created |-> "order.created", paid |-> "order.paid", refunded |-> "order.refunded"]
Event(topic, o) == [topic |-> topic, order |-> o]

\* The row or the channel status of an order moves while a round is about it.
Moves(o) == moved' = moved \cup ({o} \cap (checked \cup {r.id : r \in listed}))

Init ==
    /\ cfg \in Configs
    /\ rows = {} /\ answered = 0 /\ outbox = <<>>
    /\ prepays = {} /\ notices = {} /\ sent = 0
    /\ nonces = [ch \in Channels |-> {}]
    /\ remote = [ch \in Channels |-> [o \in Ids |-> "pending"]]
    /\ jobs = <<>>
    /\ listed = {} /\ checked = {} /\ diffs = {} /\ moved = {}
    /\ restarts = 0
    /\ acted = [n \in Nonces |-> 0]
    /\ refunds = [o \in Ids |-> 0]

----------------------------------------------------------------------------
(***************************************************************************)
(* POST /orders.  A second order of a key is not inserted, yet its event   *)
(* is written and its id is answered.                                      *)
(***************************************************************************)
Conflicts(k) == k # NoKey /\ \E r \in rows : r.key = k

InsertOrder(o, k, price, ch) ==
    rows' = IF Conflicts(k) THEN rows
            ELSE rows \cup {[id |-> o, key |-> k, price |-> price, ch |-> ch, status |-> "created"]}

Create(o, k, price, ch) ==
    /\ o = answered + 1
    /\ InsertOrder(o, k, price, ch)
    /\ answered' = o
    /\ outbox' = Append(outbox, Event("order.created", o))
    /\ UNCHANGED <<cfg, prepays, notices, sent, nonces, remote, jobs, round,
                   restarts, moved, acted, refunds>>

\* POST /orders/{id}/prepay: the amount defaults to the order's price.
PrepayAmount(o, asked) == IF asked = 0 THEN Row(o).price * 100 ELSE asked

HandlePrepay(o, ch, asked) ==
    /\ Cardinality(prepays) < MaxPrepays
    /\ Get(ch) /\ Exists(o)
    /\ prepays' = prepays \cup CreatePrepay(cfg[ch], ch, o, PrepayAmount(o, asked))
    /\ prepays' # prepays
    /\ UNCHANGED <<cfg, rows, answered, outbox, notices, sent, nonces, remote, jobs,
                   round, restarts, moved, acted, refunds>>

----------------------------------------------------------------------------
(***************************************************************************)
(* The provider (external): it notifies of a payment or of its refund and  *)
(* repeats a notice it has had no 200 for, with the same nonce. A purchase *)
(* at Apple starts on the phone, with or without a prepay of ours.         *)
(***************************************************************************)
Purchases ==
    {[ch |-> "appleiap", order |-> o, amount |-> a, signed |-> FALSE] :
        o \in 1..answered, a \in Amounts}

Notify(pp, word) ==
    /\ sent < MaxNotices
    /\ sent' = sent + 1
    /\ notices' = notices \cup {[ch |-> pp.ch, order |-> pp.order, trade |-> Trade,
                                 amount |-> pp.amount, state |-> word, nonce |-> sent + 1]}
    /\ UNCHANGED <<cfg, rows, answered, outbox, prepays, nonces, remote, jobs, round,
                   restarts, moved, acted, refunds>>

----------------------------------------------------------------------------
(***************************************************************************)
(* POST /pay/webhook/{channel}: VerifyWebhook in two critical sections,    *)
(* then MarkPaid when the status is paid.                                  *)
(***************************************************************************)
Start(job) ==
    /\ Len(jobs) < MaxCalls
    /\ jobs' = Append(jobs, job)

Replayed_Never(n) == FALSE

Replayed(n) == TracksNonce(cfg[n.ch], n) /\ n.nonce \in nonces[n.ch]

VerifyNonce(n, fresh) ==
    /\ Get(n.ch)
    /\ Accepts(cfg[n.ch], n, fresh)
    /\ ~Replayed(n)
    /\ Start([pc |-> "body", notice |-> n])
    /\ nonces' = IF TracksNonce(cfg[n.ch], n)
                 THEN [nonces EXCEPT ![n.ch] = @ \cup {n.nonce}] ELSE nonces
    /\ UNCHANGED <<cfg, rows, answered, outbox, prepays, notices, sent, remote,
                   round, restarts, moved, acted, refunds>>

\* The 200 may be lost on the way to the provider.
Answer(n) == notices' \in {notices, notices \ {n}}

VerifyBody(j) ==
    LET n == jobs[j].notice
        o == OrderOf(cfg[n.ch], n)
    IN  /\ jobs[j].pc = "body"
        /\ IF Opens(cfg[n.ch], n)
           THEN /\ remote' = [remote EXCEPT ![n.ch][o] = StatusOf(n)]
                /\ Moves(o)
                /\ IF StatusOf(n) = "paid"
                   THEN /\ jobs' = [jobs EXCEPT ![j] = [pc |-> "update", op |-> "paid", order |-> o, for |-> {n}]]
                        /\ UNCHANGED notices
                   ELSE /\ jobs' = [jobs EXCEPT ![j] = Done]
                        /\ Answer(n)
           ELSE /\ jobs' = [jobs EXCEPT ![j] = Done]
                /\ UNCHANGED <<remote, notices, moved>>
        /\ UNCHANGED <<cfg, rows, answered, outbox, prepays, sent, nonces, round,
                       restarts, acted, refunds>>

----------------------------------------------------------------------------
(***************************************************************************)
(* The pay and refund endpoints.  The channel refund asks the channel      *)
(* first; only an order that exists gets that far.                         *)
(***************************************************************************)
BeginMarkPaid(o) ==
    /\ Start([pc |-> "update", op |-> "paid", order |-> o, for |-> {}])
    /\ UNCHANGED <<cfg, rows, answered, outbox, prepays, notices, sent, nonces, remote,
                   round, restarts, moved, acted, refunds>>

BeginRefund(o) ==
    /\ Start([pc |-> "update", op |-> "refunded", order |-> o, for |-> {}])
    /\ refunds' = [refunds EXCEPT ![o] = @ + 1]
    /\ UNCHANGED <<cfg, rows, answered, outbox, prepays, notices, sent, nonces, remote,
                   round, restarts, moved, acted>>

\* Every adapter's Refund answers without touching its status map, so what is
\* left of the handler on our side is the transaction.
ChannelRefund(o, ch) ==
    /\ Get(ch)
    /\ Exists(o)
    /\ BeginRefund(o)

Matches_Any(o, op) == Exists(o)

\* UPDATE ... WHERE id = $2 AND status <> op.  A row that another transaction
\* holds is waited for and looked at again.
Matches(o, op) == Exists(o) /\ Row(o).status # op

Update(j) ==
    LET o == jobs[j].order IN
    /\ jobs[j].pc = "update"
    /\ IF Matches(o, jobs[j].op)
       THEN ~Locked(o) /\ jobs' = [jobs EXCEPT ![j].pc = "hit"]
       ELSE jobs' = [jobs EXCEPT ![j].pc = "miss"]
    /\ UNCHANGED <<cfg, rows, answered, outbox, prepays, notices, sent, nonces, remote,
                   round, restarts, moved, acted, refunds>>

Finish(j) ==
    /\ jobs' = [jobs EXCEPT ![j] = Done]
    /\ \/ jobs[j].for = {} /\ UNCHANGED notices
       \/ \E n \in jobs[j].for : Answer(n)

WriteOutbox_Paid(topic, o) ==
    outbox' = IF topic = "order.paid" THEN Append(outbox, Event(topic, o)) ELSE outbox

\* The row changed: its event is written and both are committed.
WriteOutbox(topic, o) == outbox' = Append(outbox, Event(topic, o))

CommitHit(j) ==
    LET o == jobs[j].order IN
    /\ jobs[j].pc = "hit"
    /\ rows' = Set(o, jobs[j].op)
    /\ Moves(o)
    /\ WriteOutbox(Topic[jobs[j].op], o)
    /\ acted' = [k \in Nonces |-> acted[k] + Cardinality({n \in jobs[j].for : n.nonce = k})]
    /\ Finish(j)
    /\ UNCHANGED <<cfg, answered, prepays, sent, nonces, remote, round,
                   restarts, refunds>>

\* No row changed.  MarkPaid ends in ErrNotFound or ErrAlreadyPaid; Refund of an
\* order that exists writes its event all the same.
CommitMiss(j) ==
    LET o == jobs[j].order IN
    /\ jobs[j].pc = "miss"
    /\ IF jobs[j].op = "refunded" /\ Exists(o)
       THEN WriteOutbox(Topic[jobs[j].op], o) ELSE UNCHANGED outbox
    /\ Finish(j)
    /\ UNCHANGED <<cfg, rows, answered, prepays, sent, nonces, remote, round,
                   restarts, moved, acted, refunds>>

\* The database fails: the transaction is rolled back.  A webhook is answered
\* with 200 and ok = false whatever the error was.
TxFails(j) ==
    /\ jobs[j].pc \in {"update", "hit", "miss"}
    /\ Finish(j)
    /\ UNCHANGED <<cfg, rows, answered, outbox, prepays, sent, nonces, remote, round,
                   restarts, moved, acted, refunds>>

\* Nonces and statuses live in the channels' memory.
Restart ==
    /\ restarts < MaxRestarts
    /\ restarts' = restarts + 1
    /\ jobs' = [j \in DOMAIN jobs |-> Done]
    /\ nonces' = [ch \in Channels |-> {}]
    /\ remote' = [ch \in Channels |-> [o \in Ids |-> "pending"]]
    /\ listed' = {} /\ checked' = {} /\ diffs' = {} /\ moved' = {}
    /\ UNCHANGED <<cfg, rows, answered, outbox, prepays, notices, sent,
                   acted, refunds>>

----------------------------------------------------------------------------
(***************************************************************************)
(* ReconcileWorker.RunOnce: the orders created since now - lookback are    *)
(* listed once and then queried one by one, in the order of the source.    *)
(* No adapter reports an amount, so only statuses differ.  A query of a    *)
(* nil adapter panics in the worker's goroutine and ends the process,      *)
(* which is a Restart.                                                     *)
(***************************************************************************)
\* The orders up to old were created before since = now - lookback.
ListOrders(old) ==
    /\ listed = {}
    /\ listed' = {r \in rows : r.id > old}
    /\ checked' = {} /\ diffs' = {} /\ moved' = {}
    /\ UNCHANGED <<cfg, rows, answered, outbox, prepays, notices, sent, nonces, remote,
                   jobs, restarts, acted, refunds>>

QueryStatus(ch, o) == remote[ch][o]

Differs_PaidOnly(r) ==
    Get(r.ch) /\ r.status = "paid" /\ QueryStatus(r.ch, r.id) # r.status

Differs(r) == Get(r.ch) /\ QueryStatus(r.ch, r.id) # r.status

\* The ReconcileRecord that EmitDiff is given.
Diff(r) == [order |-> r.id, local |-> r.status, remote |-> QueryStatus(r.ch, r.id)]

Reconcile(r) ==
    /\ Get(r.ch) => Mode(r.ch, cfg[r.ch]) # "nil"
    /\ listed' = listed \ {r}
    /\ checked' = checked \cup {r.id}
    /\ diffs' = IF Differs(r) THEN diffs \cup {Diff(r)} ELSE diffs
    /\ UNCHANGED <<cfg, rows, answered, outbox, prepays, notices, sent, nonces, remote,
                   jobs, restarts, moved, acted, refunds>>

RunOnce == (\E old \in 0..answered : ListOrders(old)) \/ \E r \in listed : Reconcile(r)

----------------------------------------------------------------------------
Client ==
    \/ \E o \in OrderIds, k \in Keys, x \in Prices, ch \in RowChannels : Create(o, k, x, ch)
    \/ \E o \in 1..answered, ch \in Channels, a \in Amounts : HandlePrepay(o, ch, a)
    \/ \E o \in 1..answered :
          \/ BeginMarkPaid(o)
          \/ BeginRefund(o)
          \/ \E ch \in Channels : ChannelRefund(o, ch)

Provider ==
    \E pp \in prepays \cup Purchases : \E w \in {PaidWord(pp.ch), RefundWord(pp.ch)} : Notify(pp, w)

\* A notice may arrive late, outside the window of its timestamp.
Webhook == \E n \in notices, fresh \in BOOLEAN : VerifyNonce(n, fresh)

Step(j) == VerifyBody(j) \/ Update(j) \/ CommitHit(j) \/ CommitMiss(j) \/ TxFails(j)

Next ==
    \/ Client \/ Provider \/ Webhook
    \/ \E j \in DOMAIN jobs : Step(j)
    \/ Restart
    \/ RunOnce

Spec == Init /\ [][Next]_vars
----------------------------------------------------------------------------
TypeOK ==
    /\ cfg \in Configs
    /\ rows \subseteq [id : OrderIds, key : Keys, price : Prices,
                        ch : RowChannels, status : Statuses]
    /\ answered \in 0..MaxOrders
    /\ outbox \in Seq([topic : {"order.created", "order.paid", "order.refunded"}, order : OrderIds])
    /\ sent \in 0..MaxNotices
    /\ nonces \in [Channels -> SUBSET Nonces]
    /\ listed \subseteq [id : OrderIds, key : Keys, price : Prices,
                          ch : RowChannels, status : Statuses]
    /\ checked \subseteq OrderIds /\ moved \subseteq OrderIds
    /\ acted \in [Nonces -> Nat]

\* Downstream grants what was bought on order.paid.  Between two order.paid of
\* one order there is an order.refunded: webhooks and pay requests that race
\* for a row, and repeated ones, announce one payment (store.go MarkPaid).
PaidAnnouncedOnce ==
    \A i, j \in DOMAIN outbox :
        (/\ i < j
         /\ outbox[i].order = outbox[j].order
         /\ outbox[i].topic = "order.paid" /\ outbox[j].topic = "order.paid")
        => \E k \in i..j : outbox[k] = Event("order.refunded", outbox[i].order)

\* While an order was refunded at most once, the last event about it tells the
\* status of its row: row and event are committed together and in the order
\* the row lock imposes.  (A second Refund announces again without a lock.)
LastEventTellsStatus ==
    \A r \in rows : refunds[r.id] <= 1 =>
        \E i \in DOMAIN outbox :
            /\ outbox[i] = Event(Topic[r.status], r.id)
            /\ \A k \in i + 1 .. Len(outbox) : outbox[k].order # r.id

\* A webhook whose channel keeps nonces moves an order to paid at most once in
\* the life of a process, however often the provider repeats it.
NonceActsOnce ==
    \A n \in notices : TracksNonce(cfg[n.ch], n) => acted[n.nonce] <= 1 + restarts

\* The readiness report looks only at which credentials are present, while a
\* constructor's error is dropped (server.go:73) and a body is opened after the
\* nonce is burnt.  When the report calls every channel ready, a notice that its
\* channel cannot verify or open has a malformed key as the cause, never a
\* missing one; and such a notice never pays an order.
ReadyChannelsRead ==
    \A n \in notices :
        \/ Reads(cfg[n.ch], n)
        \/ /\ AllReady(cfg) => Malformed(n.ch, cfg[n.ch])
           /\ acted[n.nonce] = 0

\* A reconcile round lists the rows first and asks the channels later.  Of an
\* order that no webhook and no transaction moved meanwhile it has told exactly
\* what is so: both statuses when they differ, as after a payment that a failed
\* transaction lost (channel paid, row created), and nothing when they agree.
\* (Orders older than the lookback are not listed, and an order nobody paid is
\* told too: its row says created, the channel pending.)
RoundTellsMismatches ==
    \A r \in rows : r.id \in checked \ moved =>
        {d \in diffs : d.order = r.id} =
            {[order |-> r.id, local |-> r.status, remote |-> s] :
                s \in {remote[ch][r.id] : ch \in {r.ch} \cap Registered} \ {r.status}}
=============================================================================

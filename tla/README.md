# yunmao: specifications of the back-end

yunmao is a live-streaming platform on which viewers pay to feed cats. A request
travels from a Go service (feeding-svc) through checks of limits, a wallet reservation
(billing-svc), an outbox table, Kafka and either a Rust service with simulated devices
(device-edge) or an MQTT bridge with feeders (device-svc, cat-feeder-sim); the outcome
travels back and decides whether the money is taken or given back. Around that path are
the services that own orders and payments, devices and rooms, chat, accounts and keys.
The specifications in this directory model the places where several processes, retries,
clocks and money meet.

All paths below are relative to the repository's root, `src/` left out.

## 1. Inventory

| Component | State | Operations | Interacts with | What is hard | What makes it correct |
|---|---|---|---|---|---|
| feedstate (`go/pkg/yunmao/feedstate`) | none (transition table) | Transition, IsTerminal | feeding-svc | – | final states stay final |
| feeding-svc (`go/services/feeding-svc`) | maps `requests`, `receipts` under one mutex; cache keys; rows and outbox in PostgreSQL | Create, publishing goroutine, HandleAck, Cancel, TimeoutScanRun, outbox listener | cache, billing-svc (HTTP), device-edge (HTTP) or outbox | the mutex is released around every remote call; acknowledgement, cancel and timeout race; errors of billing are ignored; restart loses the maps | money matches outcome; one request per key; each request ends; events tell the outcome |
| billing-svc wallet (`go/services/billing-svc`) | balances, holds, outbox | Reserve, Confirm, Cancel, TopUp | feeding-svc, outbox | overlapping transactions, row locks in opposite orders, duplicates | reserved money is backed, nothing is created or lost, one hold per key, a settlement is final |
| billing-svc orders and payment channels | order rows, outbox, nonce and status maps of four channels | Create, prepay, webhook, MarkPaid, Refund, channel refund, reconcile, readiness report | providers, outbox | repeated and late notices, racing refund and payment, failures after a nonce is burnt, restarts, incomplete or malformed credentials, a reconcile round that lists first and asks later | a payment is announced once, events tell the row, a nonce acts once, a round tells what differs |
| outbox relay (`go/pkg/yunmao/db/outbox.go`) | table `outbox`, `outbox_dlq`, open transactions | InsertOutbox, processBatch, publishWithRetry, Stop | Kafka | crash between publish and commit, several workers, rows of one key committed out of order, retry limit, a stop within the back-off | nothing marked is unsent, nothing waits for ever |
| event bus (`go/pkg/yunmao/eventbus`) | group offset, readers, in-process channels | Publish, Subscribe, dispatch, sendDLQ | all consumers | rebalances, commit after handling, first join | at-least-once |
| device-edge (`rust/crates/yunmao-device-edge`) | bounded idempotency set, a channel and a worker per device | submit, run_worker, execute | feeding-svc (HTTP), Kafka | concurrent submits, full set, full channel, dropped handlers, an acknowledgement that hangs, restart | a command runs once, a device runs one at a time, accepted work is done |
| device-svc bridge and feeder (`go/services/device-svc/internal/bridge`, `clients/cat-feeder-sim`) | subscriptions, hopper, device row | handleKafkaCmd, handleMqttEvent, handleFeed, handleCancel | Kafka, MQTT, registry | two topics for one command, repeated and lost records, messages and events, stale reports, a feeder that restarts with another hopper | no dispense that nothing asked for, reports reach Kafka unless something was lost, the row does not under-report what the feeder told |
| device-svc registry, room-svc | rows of devices and rooms, in memory or in PostgreSQL | register, PATCH, bind, status, firmware, credential, heartbeat; stream key, subscription tokens | bridge, admin, gateway | PATCH is read, merge, write; PostgreSQL refuses what the memory store takes | no update is lost but by an overlap, private rooms stay private, the stores agree on what both took |
| admission: flags, limits, cooldown (`cache`, `feedingsafety`, `featureflags`, admin-svc) | cache keys with lifetimes, cached rows, flag snapshot, token bucket | Check, Consume, Get/Put/Invalidate, refresh, UpdatePolicy | feeding-svc, admin-svc, Redis, PostgreSQL | reads and writes without a lock, caches of two services, a policy in memory without a row, 32-bit counters, midnight | limits hold against what was over before, counters lose nothing, caches and flags are recent |
| chat-svc | rate keys, messages | Send, Moderate | Redis, PostgreSQL, moderation service, gateway | instances share a rate key or each have their own; store, then publish; retries | the rate holds per counter, the last event tells the status, a retry shows once |
| user-svc, keys and tokens (`kms`, `authjwt`) | challenges, users, key versions, cached JWKS | SMS and development login, rotation, signing, verification | PostgreSQL, Vault, all services | racing first logins, rotation between two steps, restart, overlapping refreshes | one account per number, valid tokens verify, stale keys are bounded |
| gateway (`rust/crates/yunmao-gateway`) | rooms, bounded channels of connections | join, leave, publish, fan-out | Kafka, Redis, clients | slow readers, join racing broadcast | no message to the wrong room, slow readers isolated |
| media path (`yunmao-ingest`, `yunmao-media-edge`, `yunmao-webrtc`) | segment windows, sessions, bitrate state | packaging, SFU, ABR | clients | byte formats, windows | – |
| clients, httpx, proto, deploy, docs | user interfaces, plumbing, generated code | – | – | – | – |

`PROJECT.json` lists the same parts with their status, and the hazards line by line.

## 2. Modules

| Module | Models | Depends on |
|---|---|---|
| `FeedState` | abstract specification: the feedstate transition table | – |
| `FeedingService` | the feeding saga of one process | `FeedState` (INSTANCE, refined) |
| `FeedingServiceProofs` | inductive invariant and theorems | `FeedingService` |
| `Wallet` | abstract specification: the in-memory wallet store | – |
| `WalletPg` | the PostgreSQL store, statement by statement | `Wallet` (extended, refined) |
| `WalletPgProofs` | inductive invariants, theorems and the refinement of the wallet; the same for admission, and the lemmas on sums that both need | `WalletPg`, `Admission` |
| `OutboxRelay` | outbox table and relay workers | – |
| `OutboxRelayProofs` | inductive invariant and theorems | `OutboxRelay` |
| `KafkaConsumer` | the consuming side of the bus, one partition | – |
| `DeviceEdge` | device-edge scheduler and simulated devices | – |
| `DeviceEdgeProofs` | inductive invariant and theorems | `DeviceEdge` |
| `DeviceBridge` | bridge, feeder, device row and the events of feeding-svc: a composition | – |
| `DeviceBridgeProofs` | inductive invariants and theorems of the bridge and of the registry | `DeviceBridge`, `Catalogue` |
| `PayChannel` | the four payment adapters: modes, checks, nonces, readiness | – |
| `Orders` | orders, webhooks, refunds and reconciliation: a composition with the channels | `PayChannel` (extended) |
| `OrdersProofs` | inductive invariant and theorems | `Orders` |
| `SafetyPolicy` | how limits are merged and resolved | – |
| `Admission` | Create up to the reservation, both services' caches, flags, operators | `SafetyPolicy` (extended) |
| `Catalogue` | rows of devices and rooms on both stores | – |
| `KeyProviders` | local KMS, file and throw-away keys, Vault Transit | – |
| `Identity` | logins, signing, JWKS clients: a composition with the providers | `KeyProviders` (extended) |
| `IdentityProofs` | inductive invariant and theorems | `Identity` |
| `Chat` | Send and Moderate on both stores and both caches | – |
| `ChatProofs` | inductive invariant and theorems | `Chat` |
| `MC*` | instances for TLC | the module of the same name |

Names ending in `_Something` after the name of a definition are broken versions of that
definition ("mutants"); the property each is listed with in `PROJECT.json` catches it.

### FeedingService

A request is named by the Create call that makes it. `pc` is where the call is;
`status`, `requests`, `receipts` are the fields of the service; `publish` is the
goroutine of direct mode, `acking` a HandleAck between its cache insertion and the mutex,
`settle` a billing call decided under the mutex and not made yet. `idem`, `ackIdem` stand
for the cache, `hold` for billing-svc, `db` for PostgreSQL (row status and outbox topics),
`device` and `acks` for everything beyond. One action is one critical section of `s.mu` or
one remote call outside it:

| Action | Code |
|---|---|
| `CreateRefused` … `CreateDispatch` | the stretches of `Create` between its sections and remote calls |
| `PublishSend`, `PublishDone` | the goroutine started at `service.go:315` |
| `HandleAckInsert`, `HandleAckApply` | `HandleAck` before and inside the mutex |
| `Cancel`, `TimeoutScanRun` | the sections of those functions; the scan may hit several requests and calls billing inside the mutex, so that call belongs to the action |
| `SettleHold` | `billing.Confirm`/`Cancel` after unlocking; lost when `BillingReliable` is false |
| `RelayDeliver`, `DeviceRun`, `Restart` | the surroundings |

`transition` is `transitionLocked` with the outbox listener it calls: the row, the event
and the outbox rows of a transition commit together or the save fails as a whole and the
listener drops the error (`outbox_listener.go:49`). Abstracted: amounts, texts,
notifications of the gateway, and the checks of Create (cooldown, safety, flags), which are
one nondeterministic refusal here and have `Admission` to themselves. The cache keeps a key for 48 hours; the model looks at one
such period, and at a deployment whose cache is Redis, so that a restart keeps it.

### Wallet and WalletPg

`Wallet` is `memoryStore`: each operation is atomic. `WalletPg` is `pgStore`. A Reserve
call is `idle`, has missed its key (`LookupMiss`), has the wallet's row lock
(`LockWallet`), and commits (`InsertCommit`) or runs into the unique index
(`InsertConflict`); a settler has loaded and locked a hold (`SettleLoad`) and commits
(`SettleCommit`) once it gets the wallet row. Rollbacks can happen at each point, and
`DeadlockVictim` is PostgreSQL's answer when a Reserve and a settlement wait for each
other. Grams are converted to fen as in `ConvertGramsToFen`.

### OutboxRelay

Ids are drawn before a transaction commits and the key of a row is a room or a device that
several transactions write at once, so `InsertOutbox` makes rows visible in any order.
`worker[w]` is the open transaction of a relay worker: the claimed rows (locked; SKIP
LOCKED makes `Unclaimed` leave them out), the attempt, the rows it will mark and those it
moved to the dead-letter table; `snapshot` remembers which unpublished rows the query could
see. `Rollback` is a crash, a cancelled context or a failed commit. A publish may fail after
Kafka took the message. `Stop` closes `stopCh`: a worker in its back-off gives the row up at
once (`BackoffStopped`) and leaves after the batch; `Start` is the next process.

### KafkaConsumer

One partition. `committed = 0` is a group that has never committed: it starts at the end of
the log. `lost` is a history variable for the two ways a message is skipped in this code,
so that `AtLeastOnce` says that there is no third one.

### DeviceEdge

A delivery is one call of `submit`; its actions are the stretches between awaits
(`Insert`, `Lookup`, `Create`, `Send`). A worker is named by the delivery that created it.
`Abort` is axum dropping the handler of a client that went away. The worker runs a command
(`Execute`) and then waits for the delivery of its acknowledgement, which ends (`Finish`), fails
(`FinishUnacked`) or hangs (`Hang`): `HttpAckSink::post_raw` has no timeout on connect, write
or read. `Answer` ends a hung one, and nothing says that it ever happens. `Restart` is the end of
the process, which keeps nothing.

### DeviceBridge

The composition: what feeding-svc's outbox puts on the three topics, the bridge's consumer,
MQTT in both directions, a goroutine of the feeder for each message, and the row that
`MarkOnline` writes. Nothing between them delivers exactly once. A record is handled again after
a crash before the commit or when the relay repeats it (`RecordAgain`); a publish may fail after
the broker took the message, and the consumer tries again (`PublishTimesOut`) or gives up
(`MoveToDlq`); QoS 1 repeats messages and events (`MqttAgain`, `EventAgain`); with clean sessions
the broker drops what is for a client that is not connected (`DeviceReceive`, `LoseEvent`); the
feeder ignores its publish errors (`FeedAck`, `FeedDone`). `DeviceRestart` ends the feeder's
goroutines where they are, silently, and starts it with the configured or a random level. The
row starts with what the POST said. `repeats` and `lost` record, command by command, what was
delivered more than once and what was lost; `told` says whether the row is from the feeder that
runs now.

### PayChannel and Orders

A handler is an entry of `jobs`. A webhook takes its channel's mutex for the nonce
(`VerifyNonce`) and again for the status map (`VerifyBody`); MarkPaid and Refund are READ
COMMITTED transactions of two steps, the conditional UPDATE that locks the row it changes
(`Update`) and the rest (`CommitHit`, `CommitMiss`), and may fail (`TxFails`). A notice stays
with the provider until it has had a 200. `ListOrders` and `Reconcile` are RunOnce of the
reconcile worker: it lists the orders created since now - lookback (those after `old`) and then
asks the channels one by one. `server.New` does not start the worker, so a round may happen and
never has to. `checked` and `moved` are the orders the round has asked about, and those that a
webhook or a transaction changed since the listing. A configuration is the set of fields that are
filled in, with a mark for a key that does not parse (`"bad_key"`) and one for an APIv3 key of
the length AES needs (`"api_v3_key_32"`); a signature is a matching pair of keys.

### SafetyPolicy and Admission

A feed is a request in Create and a step is one access to shared state: the flag snapshot and
the token bucket, the key in the cache store, the cached or stored limits of the room and of
the whole system, the reads of Check and Consume, their three writes. Time advances in
seconds and removes what has expired. `ops` are requests of operators in admin-svc, whose
mutex is `lock`. admin-svc begins with the policy of the demo room that its constructor puts
into memory without a row (`Seeded`), also after `AdminRestart`; `wrote` is the last request
since then that wrote a room's policy. `GramsAfter` keeps the width of the counter (`Modulus`). `was` records which row
was in force when, so that `CacheIsRecent` can speak of the past.

### Catalogue

A field holds the number of the request that wrote it. A PATCH is two steps (`Reads`, then
`UpdateDevice` or `UpdateRoom`), every other writer one; each behaviour runs the same requests
on the memory store and on PostgreSQL side by side, which is what lets `StoresAgree` compare
them. PostgreSQL may refuse a request that the memory store obeys (`refused`): a foreign key of
`room_id`, `owner_id` or `cat_id` without its row, a NULL in `cat_ids`, a number too large for
its column. The set `on` of a request says which stores serve it.

### KeyProviders and Identity

A key pair is a number, a kid the number it was made for, or 0 when the environment fixes it.
A login goes through its stretches (`TakeChallenge`, `GetByPhoneHash`, `Upsert`, `TakeKey`,
`SignClaims`, `AppendLogin`), a verification through `Fetch`, `Store` and `Look`. The memory
store of users has no mutex; a concurrent map access that Go detects ends the process, which
is a restart here.

### Chat

A request holds its instance's mutex from reading the rate key to writing it; instances that
share Redis do not share the mutex. `RateKey` is the counter an instance uses: the one key in
Redis, or the key in the memory of this `life` of the process. `Crash` stops and restarts an
instance, which ends its requests and its counter; the messages let through stay in the history
`passed`. A text is the set of marks its judges look for. `raced`,
`crossed` and `unheard` record the overlaps and lost announcements the properties except.

## 3. Runs

| Run | Instance | Shows |
|---|---|---|
| `feeding_direct` | two calls, one key, direct mode, all faults, one restart | `HoldMatchesOutcome`, `OneRequestPerKey`, `PaidOnlyIfFed`, the refinement `FeedStateSpec`, and `EventuallyFinal` |
| `feeding_outbox` | two calls, two keys, outbox mode, failing saves and billing calls, the scan hitting two requests at once | `EventsTellOutcome` |
| `wallet_pg` | four Reserve calls on two keys, two settlers, top-ups up to 15 fen | `MoneyConserved`, the refinement `MemorySpec`, `EventuallyAnswered` |
| `orders` | two requests of one key, one prepay, one notice repeated at will, three handlers, a restart, reconcile rounds, three configurations (complete, one key missing, keys malformed) | `PaidAnnouncedOnce`, `LastEventTellsStatus`, `NonceActsOnce`, `ReadyChannelsRead`, `RoundTellsMismatches` |
| `admission` | six scenarios: racing requests, a fault, a restart of each service, one or two operators, a day's end | `CooldownHolds`, `DailyLimitHolds`, `AcceptedIsCounted`, `CacheIsRecent`, `PolicyMatchesRow`, `FlagsArrive` |
| `relay_two_workers` | three rows, two keys, two workers, batches of two, two attempts, two faults, one stop | `NothingLostOrRepeated`, `OvertakesOnlyUnseenOrHeld`, `EventuallyRelayed` |
| `consumer_group` | three messages, two members, two attempts, two faults | `AtLeastOnce` |
| `edge_scheduler` | four deliveries of three commands to two devices, a set of two, channels of one, one fault: a lost or hung acknowledgement, a dropped handler or a restart | `OnceUnlessForgotten`, `AcceptedEventuallyRuns` |
| `bridge` | one command, four MQTT messages, a feeder that starts at any level, one fault: a repetition, a loss, a failed call or a restart of the feeder | `FeedsAreAskedFor`, `RowIsUpperBound`, `CommandIsReported` |
| `catalogue` | five requests on one device or room, each of which PostgreSQL may refuse | `LostOnlyByOverlap`, `StoresAgree`, `PrivateIsHonoured` |
| `identity` | scenarios: racing logins on each store, three rotations with a restart, two verifications of tokens of each kind of key | `PhoneNamesOneUser`, `UnexpiredInJwks`, `SignedUnderItsKid`, `UnknownOnlyIfOvertaken`, `StaleKeyBounded` |
| `chat` | scenarios: a sender at its limit in one instance, in a restarted one, in two with their own counters and in two on Redis; texts before each judge; three racing requests on one message | `RateHolds`, `LastEventTellsModeration`, `RetryIsShownOnce` |

**Bounds.** Two calls are enough for the races in feeding-svc: its sections look at one
request, or at the requests of one key, except the scan, which `feeding_outbox` gives two
requests. The wallet's 15 fen pay for one hold of 5 and one of 10, so calls are refused or
accepted depending on the order, and each key has a racing pair. Three relay rows with
batches of two leave a row for the other worker, and rows 1 and 3 share a key so that they
can overtake. A set of two with three commands overflows once. Four MQTT messages are those of the three
records of a command and one repetition. One or two faults make every fault action happen, also in pairs
where recovery from one could be hit by another. Three racing
handlers are a payment, its repetition and a refund of one order. The run looks at
them through a view (`MCView`) that forgets in which order they came, on which no action and no
property depends. Five requests on a row are
its registration, two overlapping PATCHes and two writers between them. In `Admission`,
`Identity` and `Chat` a behaviour carries the bounds of one scenario (`max`, chosen in Init from
the set `Bounds`): one instance with all of them at once is out of reach, and no race needs
more than a scenario has. A day of two seconds and lifetimes of one or two make every expiry
happen before, between and after the steps of a request. All runs set `CHECK_DEADLOCK FALSE`:
every instance has a bounded number of calls, rows or deliveries and really ends.

**Fairness.** In feeding-svc: the Go scheduler runs every goroutine, HTTP calls have client
time-outs, and the ticker of the timeout worker keeps scanning; nothing is assumed of users,
devices, the relay or restarts. In WalletPg: PostgreSQL runs transactions to their end,
breaks deadlocks after `deadlock_timeout`, and queues the waiters of a row lock, hence strong
fairness for the steps that wait for a lock. In the relay and the consumer: loops that run until
their context ends get weak fairness, and a relay that was stopped is started again. In the
scheduler: handlers, workers and executions, which only sleep; the delivery of an acknowledgement
ends, fails or hangs, and nothing is assumed of a hung one. In the bridge: the consumer handles,
retries or gives up what it reads, a message or an event ends up delivered or dropped. In
`Admission`: the ticker that refreshes the flags. `Orders` assumes no fairness. Faults are never fair,
and their number is bounded, as a liveness property needs.

## 4. Proofs

Each theorem holds for every value of the constants that satisfies the module's named
assumption: any number of calls, keys, users, deliveries, devices, any capacity and any
bound on faults.

* **FeedingServiceProofs.** `HoldMatchesOutcome` is not inductive: nothing in it says that a
  billing call already decided agrees with the status, or that a request can still be settled
  only if its receipt is in the map. `IInv` adds, for each call, where it can be
  (`ControlInv`), what the device and its acknowledgement can have done (`DeviceInv`), that at
  most one of receipt, pending billing call and past billing call exists (`MoneyInv`), what an
  early acknowledgement leaves (`EarlyAckInv`), how the hold follows (`HoldInv`), that stored
  events follow the status (`EventInv`), and that a key in use was taken (`KeyInv`). From it
  follow `TypeCorrect`, `MoneyMatchesOutcome`, `SettlementIsUnique`, `KeyAdmitsOneRequest`,
  `SuccessIsCharged`, `NoChargeWithoutFeeding`, `FinalEventIsTrue` and the refinement
  `RefinesFeedState`.
* **WalletPgProofs.** `IInv` says what a transaction in progress relies on: at most one Reserve
  holds a wallet's lock, at most one settler a hold's, a loaded hold is still reserved. From it
  follow `PgTypeCorrect`, `ReserveIsIdempotent`, `AnswersAreHolds`, `OutboxIsExact`,
  `SettlementIsFinal` and `PgImplementsMemory`: every step of the PostgreSQL store is an atomic
  operation of the memory store or changes nothing that a caller can see.
  `MoneyConserved` is about sums over the holds of a user, which the specification folds. The
  module counts instead: a hold of n fen is a pile of n coins (`Pile`, `Coins`), the coins of a
  finite set are a finite set, and its cardinality grows by n with the hold (`CoinsAdd`). That
  the fold and the count agree (`FoldCounts`) needs no induction: of the sets on which they
  differ a smallest one would exist, and removing the element the fold removes gives a smaller.
  `MoneyInv` adds to the property that the holds are finite in number, and each commit moves one
  hold between the sums (`MoneyInsert`, `MoneySettle`): `MoneyIsConserved`.
* **Admission, in WalletPgProofs.** `NextIsFeedSide` first says what each action does to the
  requests, the clock and the store, and the invariants about them are kept step by step from
  that alone. `AdmInv` has these parts. *Operators:* the mutex of admin-svc is held by the one
  request that writes a room's policy, and a policy that an operator wrote since the service started
  differs from its row only between the two writes or after one that failed (`PolicyInv`; of the
  seed nothing is claimed): `PoliciesMatchRows`. *Caches:* an entry, and also a row
  that a Get has read and not stored yet, was the row's value when its time began (`WasRow`,
  `FetchInv`, `GetInv`); without the rows on their way the invariant is not inductive:
  `CachesAreRecent`. *Cooldowns:* what a feed that ran alone wrote refuses everybody until its
  end (`GuardInv`), and whoever came later and got past Check did so after that end (`LaterInv`).
  The two lean on each other: the guard stays because who writes over it came later.
  The proof shows which code carries the promise: towards earlier feeds Check alone enforces the
  cooldowns, the second reading in Consume adds nothing to it. `CooldownsHold`. *Daily totals:*
  the counter of a cat and a day is not removed before the day is over (`OutlivesInv`), holds at
  least the grams of today's feeds (`LeastInv`) and at most those of all requests that are past
  the counter (`MostInv`), so that it does not wrap while the run's grams fit; who passed Check
  is within its limit together with the feeds that were over (`DailyInv`): `DailyLimitsHold`,
  `AcceptedGramsAreCounted`. The sums are counts of coins as above (`TotalIsCount`).
* **DeviceEdgeProofs.** `IInv` relates deliveries to the channels that carry them (`SenderInv`,
  `ChanInv`), says that a device has one live worker (`WorkerInv`) and that an accepted command
  is remembered or was forgotten (`MemoryInv`). From it follow `EdgeTypeCorrect`,
  `DuplicatesAreDropped` and `DevicesAreSerial`.

* **OutboxRelayProofs.** `NothingLostOrRepeated` speaks of the table and of Kafka only; a commit
  keeps it because of what the open transactions know. `IInv` says that no row is claimed by two
  workers, that what is claimed is still pending, and listed once and in order (`ClaimInv`), that
  the rows a worker will mark have reached Kafka (`DeliveredInv`), that without a fault what is in
  Kafka is there once and is or will be marked (`OnceInv`), and that the earlier rows of a waiting
  row's key that its batch's query saw are dealt with or in some batch (`OrderInv`). From it follow `RelayTypeCorrect`, `RelayDelivers`,
  `RelayClaims`, and the action property `RelayOrder`.
* **DeviceBridgeProofs.** `FeedsAreAskedFor` needs a chain of counts: dispenses are at most the
  messages acted on, and the messages of a command at most its records that the bridge has done
  with plus its repetitions (`CountInv`). `IInv` adds that a goroutine runs for a message that was
  sent (`MessageInv`), that feeding-svc puts a record on a topic once (`TopicInv`), and that a level
  on its way to the row, if the feeder that runs now read it, was read when at least as much food
  was left as now (`LevelInv`). From it follow `BridgeTypeCorrect`, `BridgeAddsNoFeeds` and
  `RowBoundsHopper`.
* **The registry, in DeviceBridgeProofs.** The three properties speak of rows and finished
  requests; what can spoil them is the copy of the row that a PATCH holds between its two
  accesses. `CatInv` therefore says of each column of such a copy, on each store, that it is what
  was last set, or was read before that, or the loss is already explained by another PATCH
  (`StaleCopy`, `LostInv`); that, as long as PostgreSQL took one POST and refused no PATCH, the columns a
  PATCH can write are the same in the copies and rows of both stores but for values it refused
  (`AgreeInv`); and that a copy in which the room is open was
  read before the room was made private, or the room was opened since (`PrivateInv`).
  `CatBase` is the frame: every value names a request that wrote, in the past of the clock. From
  it follow `ValuesAreLostOnlyByOverlap`, `MemoryAndPgAgree` and `GuestsAreRefused`.
* **OrdersProofs.** A transaction that has passed its UPDATE holds its row's lock, and its row is
  still what the UPDATE saw (`LockInv`): without this neither announcement property survives a
  commit. `IInv` adds that ids are unique and were answered (`IdInv`), that an order announced as
  paid is paid or was refunded since (`PaidInv`), that the only refund of an order finds it not
  refunded (`RefundInv`), that a nonce names one notice (`NoticeInv`) and that a tracked nonce
  starts one goroutine in the life of a process (`NonceInv`). From it follow `PaymentAnnouncedOnce`, `EventsFollowRows`,
  `NonceActsOncePerProcess` and `RowLocksAreExclusive`. `ReadyConfigurationsRead` compares the
  readiness report with what each adapter does with a notice, signature and body, for every
  configuration: of a ready one only a malformed key keeps a notice from being read, and a notice
  that is not read never pays (`UnreadActs`). `RoundInv` says that a listed row is the row as long
  as nothing moved it, and what the round has told so far: `RoundsTellMismatches`.
* **IdentityProofs.** `IInv` says that a provider holds records of published keys, retired only
  when too old, and that the table is a copy while no write is lost (`KeyInv`), that a login about to sign has a kid and a key that were published together
  (`SignInv`) and whose record is still held and tells the key's age (`HeldInv`), that no two
  users of the table have one number (`PhoneInv`), that each fetch is one verification's and the
  cache holds what some fetch got (`FetchInv`), and that a verification looks into keys that were
  fresh when it began (`FreshInv`). From it follow `IdentityTypeCorrect`, `OnePhoneOneUser`, `UnexpiredArePublished`,
  `TokensNameTheirKey`, `UnknownKidWasAskedFor` and `KeysAreFresh`.
* **ChatProofs.** `RateHolds` is about all windows and says nothing of the counters. `RateInv`
  supplies them: while a window is open the counter of its key covers the messages counted in it
  and lives at least as long, a request that has read the counter will cover one more, and no two
  requests are between Get and Set on one key unless `raced`; a counter that a restart has just
  begun has let nothing through (`KeyInv`). So each counter takes at most RateMax messages of a
  window (`CountsHold`), and the window at most RateMax for each of its counters: its messages
  inject into counters times 1..RateMax (`SumOverCounters`), which needs no induction. In a
  process's memory requests never race, because the mutex is held (`LockInv`, `NoRaceInMemory`):
  within one life the rate is exact, `RateIsExactInOneLife`. `EventInv` says that a message has at most
  one writer that has yet to announce, which wrote what is stored; `StoreInv` is the unique index
  and that what is announced was stored. From these follow `ChatTypeCorrect`, `RateIsKept`,
  `EventsTellModeration` and `RetryShownOnce`.

TLC checked each inductive invariant on its run's instance before it was proved. Assumptions are
the named ones of the modules: sizes are natural numbers, durations are positive, and the like;
`Identity` needs tokens to live no longer than keys are kept after a rotation, as the
code's defaults do (24 hours against 7 days), and `Chat` that the bounds of a scenario are numbers.
`SafetyPolicy` needs a default for each limit, as DefaultGlobal has, `Admission` that amounts fit
in the counter and that operators write limits, `Catalogue` that a PATCH body counts only
the fields the handler knows.

Some theorems are about invariants that no run lists, because they hold for every instance by
proof: `SettledOnce`, `SucceededIsCharged`, `OneHoldPerKey`, `AnswersAgree`, `OutboxTellsHold`,
`TerminalIsFinal`, `SerialPerDevice`, `ClaimsAreExclusive`, the lock invariant of the orders, the
exact rate within one life of a process and the type invariants of the proved modules.

Only model-checked: the liveness properties (`EventuallyFinal`, `EventuallyAnswered`,
`EventuallyRelayed`, `AtLeastOnce`, `AcceptedEventuallyRuns`, `CommandIsReported`,
`FlagsArrive`), since the prover does not reason about fairness. Every
invariant, action property and refinement that a run checks is also stated by a theorem; of a
refined specification the theorems prove initial states and steps, which is all that `FeedState`
and `Wallet` have.

## 5. Plan

Modelled: the feeding saga with its admission, the wallet, orders and payment channels, the relay,
the consumer, device-edge, the bridge, the catalogue of devices and rooms, logins with their keys,
and chat. What a further module would add, in order: `GatewayHub` (rooms, bounded channels, slow
readers, fan-out between nodes), then the playlist window and the bitrate controller of the media
path.

`Admission` and `Catalogue` name their specifications after themselves (`AdmissionSpec`,
`CatalogueSpec`), so that a module of proofs can extend them beside another component.

## 6. Where code and documents disagree

Met while modelling; the properties are stated so that they hold for the code as it is, and say
which case they leave out.

Feeding and devices:

* A request that fails because its command could not be published keeps its hold reserved
  (feeding `service.go:318`); an acknowledgement that arrives before the request is dispatched
  uses up the receipt, and the hold of the request that then times out stays reserved
  (`service.go:408`). `billing.go:20` says that Cancel is called in both final states.
* A Reserve that overlaps its duplicate is refused, by the balance or by the unique index, instead
  of being given the hold (billing `store.go:449`, against `wallet.go:9`).
* `requested` and `dispatched` both become feed commands (`bridge.go:127`) and the feeder does not
  recognise the second; the architecture document
  (`docs/finalproductplanning/01-技术选型与系统架构.md:289`) asks for one dispense.
  `FeedsAreAskedFor` bounds the repetitions.
* Nothing in feeding-svc reads the completions that the bridge puts on Kafka (`bridge.go:204`,
  against ADR 0012).
* After a restart of feeding-svc nobody finishes the stored rows; the worker that
  `service.go:475` mentions does not exist. Holds do not expire, although they carry an expiry
  (`wallet.go:43`). The answer of Create is copied without the mutex (`service.go:335`).
* ADR 0010 speaks of reading the outbox in order; workers with SKIP LOCKED overtake each other
  (`OvertakesOnlyUnseenOrHeld` says exactly when), and an id that commits late is overtaken by
  the later ones of its room or device.
* A consumer group that has committed nothing restarts at the end of the log (`kafka.go:108`); an
  error of sendDLQ is dropped (`kafka.go:134`); after a failed commit the reader goes on with the
  next message, unlike the comment at `kafka.go:139`.
* device-edge drops a duplicate without answering (`scheduler.rs:59`), forgets everything at a
  restart, and discards the retry of a command whose handler was dropped between
  `scheduler.rs:58` and `:90`; `expires_at` of a command is not looked at. The post of an
  acknowledgement has no timeout (`server.rs:64`): a peer that never closes stops the worker of
  its device, whose channel then fills up and holds its callers.
* The bridge publishes `completed` for failed feeds too (`bridge.go:200`); a level of 0 is never
  written to the row (device `store.go:201`); a cancel does not stop a running feed. With clean
  sessions (`main.go:80` of cat-feeder-sim, and the bridge) commands for a disconnected feeder are dropped, and
  the feeder ignores errors of its own publishes (`simdev.go:240`, `:288`): a command may go
  unreported without an error anywhere. A restarted feeder has a new level, and until its first
  report the row shows the old one, or what the POST said.

Admission:

* The header of `cooldown.go` and the architecture document (`:258`) call the cooldown atomic;
  Consume is six accesses, two requests beside each other may both pass, and the one with the
  older clock may shorten the cooldown. Sums near 2^32 wrap. A daily counter written after
  midnight of the request's clock gets no lifetime.
* A limit of 0 means "not set" when limits are merged, and "unlimited" in the comments of the
  cooldown. `feeding_open` and the no-feed window that an operator sets never reach feeding-svc;
  `feed.global_kill_switch` is read by nobody; the `enabled` field of `device_maintenance` is
  ignored.
* A rejected attempt burns its idempotency key. admin-svc's map of policies is lost at a restart,
  differs from the row after a failed write, and has a policy of `room_demo` from the start that no
  row holds and no other service sees. Packages `cooldown` and `idempotent` and the
  RateLimiter are used by nobody.

Orders:

* CreateOrder writes its event, and answers an id, also when the row exists already (billing
  `store.go:312`); MarkPaid accepts a refunded order (`:331`), unlike the state machine at
  `service.go:3`; Refund repeats its event (`:359`); a prepay is accepted for a paid or refunded
  order and its amount is the client's.
* The readiness report looks at which credentials are present. The errors of the constructors are
  dropped (`server.go:73`), and an APIv3 key that is not 32 bytes long is noticed only when a body is
  opened, after the nonce is burnt (`wechat.go:371`).
* The reconcile worker is not started by `server.New`, and would list only the orders of the last
  24 hours (`reconcile.go:147`); no adapter reports an amount, so
  `amount_mismatch` cannot occur; the local status "created" never equals the remote "pending".
  Channels "apple_iap" and "manual" are never registered. ADR 0021 (`:50`) says that all channels
  keep nonces; Alipay and Apple do so in mock mode only.

Devices and rooms:

* An overlapping PATCH reopens a private or a banned room on both stores, and on the memory store
  restores a replaced stream key or credential. IssueSubscription does not look at "banned".
* A POST of an existing id leaves PostgreSQL's row and answers the posted data; the memory store
  overwrites it, credential included. A PATCH cannot clear a field. A heartbeat overwrites the
  status "error" an operator set, and nothing sets a silent device offline.
* The foreign keys of devices and rooms and NOT NULL of `cat_ids` make PostgreSQL refuse POST, bind
  and PATCH requests that the memory store, and so every test without a database, accepts.

Accounts and keys:

* Only the file and throw-away keys are built by the services' mains; the KMS, Vault and AWS
  providers have no caller. Vault's refresh interval is not used: after a rotation in Vault
  tokens carry the old kid and the new signature until a restart.
* A rotation that comes late retires the key before it at once, so tokens signed after the key was
  due may stop verifying; `UnexpiredInJwks` is about keys that were not overdue. Dropped errors of
  Save and UpdateState lose keys at a restart or leave two active.
* A throw-away key under a fixed kid is verified with the old key until the cache expires. A
  refresh that reaches only some endpoints drops the keys of the others, unlike
  `jwks_client.go:27`; an older answer may replace a newer one. Parse checks neither audience
  nor issuer.
* A challenge is used up when a later step of the login fails. A development login with an id can
  move a user's row to another number.

Chat:

* `recall`, `warn` and `mute` are accepted by the service and refused by the CHECK of
  `migrations/0006_chat_messages.sql:26`, so ADR 0022's recall works on the memory store only.
* A repeated `client_msg_id` is answered 500 on PostgreSQL after it was counted against the rate,
  and stored twice on the memory store.
* Two Moderates that overlap may be announced in the opposite order of their rows.
* `service.go:234` promises a rate per user. Each instance with its own memory, and each restart of
  it, begins another counter, so a window has as many times RateMax messages as counters took
  part; instances that share Redis let more than RateMax through when their checks overlap.
* The real moderation client is built by nobody; imported word lists bump a version nobody polls.

## 7. Not modelled

Formats, cryptography, metrics, routing and user interfaces; generated code (`go/proto`); the
in-process `MemoryBus`; the heartbeats of the feeder in `DeviceBridge`, for which device-svc only
writes `last_seen_at` (they are actions of `Catalogue`); the memory store of orders, which has the
same transitions under one mutex and writes no events; the proxies of admin-svc, which keep no
state; AWS KMS, which is Vault's case with a fixed key; the sink of the word list, one map under
one mutex; a restart of a catalogue in memory, after which nothing is left to compare; the eviction
of keys by Redis before they expire. Time in the feeding saga is the freedom of a timeout to happen whenever its guard
holds; in `Admission`, `Identity` and `Chat` it is a clock.

The realtime gateway keeps rooms and connections in memory only and promises no delivery: its
channels drop what a slow reader does not take. The media path is packaging of bytes. Both are
Rust services apart from the ones modelled here; section 5 says what a module for them would hold.
The components with status `not_modelled` in `PROJECT.json` carry their reason.

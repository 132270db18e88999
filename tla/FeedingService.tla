--------------------------- MODULE FeedingService ---------------------------
(***************************************************************************)
(* feeding-svc: the life of feeding requests inside one service process.    *)
(*                                                                          *)
(* Create runs in its caller's goroutine and takes the service mutex s.mu   *)
(* several times; HandleAck, Cancel and the timeout worker take it once     *)
(* each.  One action is one critical section, or one call of another        *)
(* service (cache, billing-svc, device-edge) made outside the mutex.  A     *)
(* Create call makes at most one request, so a request is named by the call *)
(* that made it.                                                            *)
(***************************************************************************)
EXTENDS Naturals, FiniteSets

CONSTANTS
    Call,            \* Create calls, also the names of the requests they make
    Key,             \* idempotency keys
    KeyOf,           \* the key each call carries
    PG,              \* a database is configured: the outbox listener runs
    OutboxMode,      \* database and bus: commands travel through the outbox
    BillingRequired, \* an error of Reserve fails Create (no "noop" fallback)
    BillingReliable, \* Confirm and Cancel always reach billing-svc
    PublishReliable, \* the HTTP call to device-edge never fails
    StoreReliable,   \* a transaction of the outbox listener never fails
    MaxCrashes       \* bound: restarts of the process

ASSUME FeedingAssumption ==
    /\ KeyOf \in [Call -> Key]
    /\ {PG, OutboxMode, BillingRequired} \subseteq BOOLEAN
    /\ {BillingReliable, PublishReliable, StoreReliable} \subseteq BOOLEAN
    /\ OutboxMode => PG
    /\ MaxCrashes \in Nat

VARIABLES
    pc,         \* where each Create call is
    status,     \* Request.Status of each call's request ("created" before it exists)
    requests,   \* the requests in the map s.requests
    receipts,   \* s.receipts: "none", a real "hold" or the fallback "noop"
    receiptID,  \* Create's local receiptID
    publish,    \* the goroutine that sends the command in direct mode
    acking,     \* the status carried by a HandleAck past its idempotency check
    settle,     \* billing calls decided under the mutex and not yet made
    idem,       \* keys taken in the cache under "feed"
    ackIdem,    \* commands taken in the cache under "ack"
    hold,       \* billing-svc: the hold of each call
    db,         \* PostgreSQL: row status and outbox topics of each request
    device,     \* what the device did with the command
    acks,       \* acknowledgements on their way, possibly more than once
    calls,      \* history: number of billing calls decided for each request
    lost,       \* history: requests whose billing call was lost
    crashes     \* number of restarts so far

service == <<pc, status, requests, receipts, receiptID, publish, acking, settle>>
vars == <<service, idem, ackIdem, hold, db, device, acks, calls, lost, crashes>>

FS == INSTANCE FeedState WITH Request <- Call

Returned == {"created", "existing", "duplicate", "refused", "crashed"}
PC == {"start", "lookup", "check", "accept", "queue", "dispatch"} \cup Returned
Topic == {"requested", "dispatched", "acked", "completed", "failed", "cancelled"}
AckStatus == {"succeeded", "failed"}
Final == {"succeeded", "failed", "rejected"}

TypeOK ==
    /\ pc \in [Call -> PC]
    /\ status \in [Call -> FS!State]
    /\ requests \subseteq Call
    /\ receipts \in [Call -> {"none", "hold", "noop"}]
    /\ receiptID \in [Call -> {"none", "hold", "noop"}]
    /\ publish \in [Call -> {"idle", "send", "ok", "err"}]
    /\ acking \in [Call -> {"none"} \cup AckStatus]
    /\ settle \in [Call -> {"none", "confirm", "cancel"}]
    /\ idem \subseteq Key
    /\ ackIdem \subseteq Call
    /\ hold \in [Call -> {"none", "reserved", "confirmed", "cancelled"}]
    /\ db \in [Call -> [row : FS!State \cup {"none"}, topics : SUBSET Topic]]
    /\ device \in [Call -> {"idle", "commanded", "ran"}]
    /\ acks \in [Call -> SUBSET AckStatus]
    /\ calls \in [Call -> Nat]
    /\ lost \subseteq Call
    /\ crashes \in 0 .. MaxCrashes

Init ==
    /\ pc = [c \in Call |-> "start"]
    /\ status = [c \in Call |-> "created"]
    /\ requests = {}
    /\ receipts = [c \in Call |-> "none"]
    /\ receiptID = [c \in Call |-> "none"]
    /\ publish = [c \in Call |-> "idle"]
    /\ acking = [c \in Call |-> "none"]
    /\ settle = [c \in Call |-> "none"]
    /\ idem = {}
    /\ ackIdem = {}
    /\ hold = [c \in Call |-> "none"]
    /\ db = [c \in Call |-> [row |-> "none", topics |-> {}]]
    /\ device = [c \in Call |-> "idle"]
    /\ acks = [c \in Call |-> {}]
    /\ calls = [c \in Call |-> 0]
    /\ lost = {}
    /\ crashes = 0

-----------------------------------------------------------------------------
(* The outbox listener, called by transitionLocked under the mutex. *)

buildOutboxEvents(from, to) ==
    CASE from = "accepted" /\ to = "queued"         -> {"requested"}
      [] from = "queued" /\ to = "dispatched"       -> {"dispatched"}
      [] from = "dispatched" /\ to = "acknowledged" -> {"acked"}
      [] from = "acknowledged" /\ to = "succeeded"  -> {"completed"}
      [] to = "failed"                              -> {"failed"}
      [] to = "rejected" /\ from \in {"queued", "dispatched"} -> {"cancelled"}
      [] OTHER                                      -> {}

(* PgStore.Create and SaveTransition: row, event and outbox rows commit in one
   transaction or not at all.  The event row references the request row, so a
   request whose first save failed can never be saved later.  The listener
   swallows the error. *)
Save(d, from, to, ok) ==
    IF ok /\ PG /\ FS!Legal(from, to) /\ (from = "created" \/ d.row # "none")
    THEN [row |-> to, topics |-> d.topics \cup buildOutboxEvents(from, to)]
    ELSE d

SaveOutcome == IF StoreReliable THEN {TRUE} ELSE BOOLEAN

transition(c, to) ==
    /\ status' = [status EXCEPT ![c] = FS!Transition(@, to)]
    /\ \E ok \in SaveOutcome : db' = [db EXCEPT ![c] = Save(@, status[c], to, ok)]

-----------------------------------------------------------------------------
(* Create *)

(* Validation, feature flags, the region rate limit, or an error of the cache:
   nothing is recorded, except that a failed SetNX may still have taken effect *)
CreateRefused(c) ==
    /\ pc[c] = "start"
    /\ pc' = [pc EXCEPT ![c] = "refused"]
    /\ idem' \in {idem, idem \cup {KeyOf[c]}}
    /\ UNCHANGED <<status, requests, receipts, receiptID, publish, acking, settle,
                   ackIdem, hold, db, device, acks, calls, lost, crashes>>

(* Mutant: only keys of recorded requests count as taken *)
FirstUse_ByRequests(c) == ~ \E r \in requests : KeyOf[r] = KeyOf[c]

(* Redis SETNX on the key: true for the first caller only *)
FirstUse(c) == KeyOf[c] \notin idem

(* idem.Insert("feed", key) *)
CreateInsertKey(c) ==
    /\ pc[c] = "start"
    /\ pc' = [pc EXCEPT ![c] = IF FirstUse(c) THEN "check" ELSE "lookup"]
    /\ idem' = idem \cup {KeyOf[c]}
    /\ UNCHANGED <<status, requests, receipts, receiptID, publish, acking, settle,
                   ackIdem, hold, db, device, acks, calls, lost, crashes>>

(* A repeated key: return the request found by scanning s.requests, if any *)
CreateLookup(c) ==
    /\ pc[c] = "lookup"
    /\ pc' = [pc EXCEPT ![c] =
                IF \E r \in requests : KeyOf[r] = KeyOf[c] THEN "existing" ELSE "duplicate"]
    /\ UNCHANGED <<status, requests, receipts, receiptID, publish, acking, settle,
                   idem, ackIdem, hold, db, device, acks, calls, lost, crashes>>

(* Unknown or closed room, no-feed window, safety limits unavailable, cooldown
   not finished, daily limit, or the race on Consume lost: the key stays taken *)
CreateCheckFails(c) ==
    /\ pc[c] = "check"
    /\ pc' = [pc EXCEPT ![c] = "refused"]
    /\ UNCHANGED <<status, requests, receipts, receiptID, publish, acking, settle,
                   idem, ackIdem, hold, db, device, acks, calls, lost, crashes>>

(* billing.Reserve.  A failed call may have taken effect at billing-svc, its
   answer lost; the HTTP hook then either gives up or goes on without a hold *)
CreateReserve(c) ==
    /\ pc[c] = "check"
    /\ \/ /\ hold' = [hold EXCEPT ![c] = "reserved"]
          /\ receiptID' = [receiptID EXCEPT ![c] = "hold"]
          /\ pc' = [pc EXCEPT ![c] = "accept"]
       \/ /\ \E h \in {"none", "reserved"} : hold' = [hold EXCEPT ![c] = h]
          /\ IF BillingRequired
             THEN /\ pc' = [pc EXCEPT ![c] = "refused"]
                  /\ UNCHANGED receiptID
             ELSE /\ pc' = [pc EXCEPT ![c] = "accept"]
                  /\ receiptID' = [receiptID EXCEPT ![c] = "noop"]
    /\ UNCHANGED <<status, requests, receipts, publish, acking, settle,
                   idem, ackIdem, db, device, acks, calls, lost, crashes>>

(* receipts[id] and requests[id] are set and the request is accepted; no other
   goroutine knows the id before the last of these sections *)
CreateAccept(c) ==
    /\ pc[c] = "accept"
    /\ receipts' = [receipts EXCEPT ![c] = receiptID[c]]
    /\ transition(c, "accepted")
    /\ requests' = requests \cup {c}
    /\ pc' = [pc EXCEPT ![c] = "queue"]
    /\ UNCHANGED <<receiptID, publish, acking, settle,
                   idem, ackIdem, hold, device, acks, calls, lost, crashes>>

CreateQueue(c) ==
    /\ pc[c] = "queue"
    /\ transition(c, "queued")
    /\ pc' = [pc EXCEPT ![c] = "dispatch"]
    /\ UNCHANGED <<requests, receipts, receiptID, publish, acking, settle,
                   idem, ackIdem, hold, device, acks, calls, lost, crashes>>

(* Outbox mode moves to dispatched at once; direct mode starts the goroutine *)
CreateDispatch(c) ==
    /\ pc[c] = "dispatch"
    /\ pc' = [pc EXCEPT ![c] = "created"]
    /\ IF OutboxMode
       THEN transition(c, "dispatched") /\ UNCHANGED publish
       ELSE publish' = [publish EXCEPT ![c] = "send"] /\ UNCHANGED <<status, db>>
    /\ UNCHANGED <<requests, receipts, receiptID, acking, settle,
                   idem, ackIdem, hold, device, acks, calls, lost, crashes>>

-----------------------------------------------------------------------------
(* The publishing goroutine of direct mode *)

(* PublishFeedCommandRequested; a call that times out may have been received *)
PublishSend(c) ==
    /\ publish[c] = "send"
    /\ \E res \in {"ok"} \cup (IF PublishReliable THEN {} ELSE {"err"}), reached \in BOOLEAN :
          /\ res = "ok" => reached
          /\ publish' = [publish EXCEPT ![c] = res]
          /\ device' = [device EXCEPT ![c] = IF reached THEN "commanded" ELSE @]
    /\ UNCHANGED <<pc, status, requests, receipts, receiptID, acking, settle,
                   idem, ackIdem, hold, db, acks, calls, lost, crashes>>

(* The section after the call: failed or dispatched.  The failure path leaves
   the receipt in the map and does not call billing *)
PublishDone(c) ==
    /\ publish[c] \in {"ok", "err"}
    /\ transition(c, IF publish[c] = "ok" THEN "dispatched" ELSE "failed")
    /\ publish' = [publish EXCEPT ![c] = "idle"]
    /\ UNCHANGED <<pc, requests, receipts, receiptID, acking, settle,
                   idem, ackIdem, hold, device, acks, calls, lost, crashes>>

-----------------------------------------------------------------------------
(* HandleAck, Cancel, TimeoutScanRun and the billing calls they decide *)

(* SETNX on the command id *)
FirstAck(c) == c \notin ackIdem

(* idem.Insert("ack", command); a repeated acknowledgement returns here *)
HandleAckInsert(c) ==
    /\ \E s \in acks[c] : acking' = [acking EXCEPT ![c] = s]
    /\ FirstAck(c)
    /\ ackIdem' = ackIdem \cup {c}
    /\ UNCHANGED <<pc, status, requests, receipts, receiptID, publish, settle,
                   idem, hold, db, device, acks, calls, lost, crashes>>

(* Mutants: the outcome is not read; the status is not read *)
AckTarget_AlwaysSucceeded(from, ack) == IF from = "dispatched" THEN "succeeded" ELSE from
AckTarget_AnyStatus(from, ack) == ack

(* The status an acknowledgement leaves a request in *)
AckTarget(from, ack) ==
    LET s == IF from = "dispatched" THEN "acknowledged" ELSE from
    IN  IF s = "acknowledged" THEN (IF ack = "succeeded" THEN "succeeded" ELSE "failed") ELSE s

(* Mutant: everything but success gives the hold back *)
Owed_ElseCancel(receipt, s) ==
    IF receipt # "hold" THEN "none" ELSE IF s = "succeeded" THEN "confirm" ELSE "cancel"

(* The billing call owed for a receipt once the request is in status s; Confirm
   and Cancel of the fallback receipt "noop" do nothing *)
Owed(receipt, s) ==
    IF receipt # "hold" THEN "none"
    ELSE CASE s = "succeeded" -> "confirm"
           [] s \in {"failed", "rejected"} -> "cancel"
           [] OTHER -> "none"

TakeReceipt(c) == receipts' = [receipts EXCEPT ![c] = "none"]

Decide(c, call) ==
    /\ settle' = [settle EXCEPT ![c] = IF call = "none" THEN @ ELSE call]
    /\ calls' = [calls EXCEPT ![c] = IF call = "none" THEN @ ELSE @ + 1]

(* The section of HandleAck.  Whatever the status, the receipt is taken out of
   the map; the billing call follows only if the request is now final *)
HandleAckApply(c) ==
    /\ acking[c] # "none"
    /\ acking' = [acking EXCEPT ![c] = "none"]
    /\ IF c \in requests
       THEN LET s == AckTarget(status[c], acking[c])
            IN  /\ status' = [status EXCEPT ![c] = s]
                /\ \E ok1, ok2 \in SaveOutcome :
                      db' = [db EXCEPT ![c] =
                                IF s = status[c] THEN @
                                ELSE Save(Save(@, status[c], "acknowledged", ok1),
                                          "acknowledged", s, ok2)]
                /\ TakeReceipt(c)
                /\ Decide(c, Owed(receipts[c], s))
       ELSE UNCHANGED <<status, db, receipts, settle, calls>>
    /\ UNCHANGED <<pc, requests, receiptID, publish, idem, ackIdem, hold,
                   device, acks, lost, crashes>>

(* The user cancels: only a queued or dispatched request can be rejected *)
Cancel(c) ==
    /\ c \in requests
    /\ status[c] \in {"queued", "dispatched"}
    /\ transition(c, "rejected")
    /\ TakeReceipt(c)
    /\ Decide(c, Owed(receipts[c], "rejected"))
    /\ UNCHANGED <<pc, requests, receiptID, publish, acking,
                   idem, ackIdem, hold, device, acks, lost, crashes>>

(* What billing-svc does with a call: only a reserved hold changes *)
Settled(h, call) ==
    IF h # "reserved" THEN h ELSE IF call = "confirm" THEN "confirmed" ELSE "cancelled"

(* The call HandleAck or Cancel makes after unlocking; its error is ignored *)
SettleHold(c) ==
    /\ settle[c] # "none"
    /\ settle' = [settle EXCEPT ![c] = "none"]
    /\ \/ /\ hold' = [hold EXCEPT ![c] = Settled(@, settle[c])]
          /\ UNCHANGED lost
       \/ /\ ~BillingReliable
          /\ lost' = lost \cup {c}
          /\ UNCHANGED hold
    /\ UNCHANGED <<pc, status, requests, receipts, receiptID, publish, acking,
                   idem, ackIdem, db, device, acks, calls, crashes>>

(* Mutant: dispatched requests are not scanned *)
Expirable_QueuedOnly(c) == c \in requests /\ status[c] = "queued"

Expirable(c) == c \in requests /\ status[c] \in {"queued", "dispatched"}

(* One pass of the timeout worker over the requests S older than the ttl; the
   billing calls are made inside the mutex *)
TimeoutScanRun(S) ==
    /\ S # {}
    /\ \A c \in S : Expirable(c)
    /\ status' = [c \in Call |-> IF c \in S THEN FS!Transition(status[c], "failed") ELSE status[c]]
    /\ \E saved \in (IF StoreReliable THEN {S} ELSE SUBSET S) :
          db' = [c \in Call |-> IF c \in saved THEN Save(db[c], status[c], "failed", TRUE) ELSE db[c]]
    /\ receipts' = [c \in Call |-> IF c \in S THEN "none" ELSE receipts[c]]
    /\ LET owed == {c \in S : receipts[c] = "hold"}
       IN  \E L \in SUBSET owed :
              /\ BillingReliable => L = {}
              /\ hold' = [c \in Call |-> IF c \in owed \ L THEN Settled(hold[c], "cancel") ELSE hold[c]]
              /\ calls' = [c \in Call |-> IF c \in owed THEN calls[c] + 1 ELSE calls[c]]
              /\ lost' = lost \cup L
    /\ UNCHANGED <<pc, requests, receiptID, publish, acking, settle,
                   idem, ackIdem, device, acks, crashes>>

-----------------------------------------------------------------------------
(* The world around the process *)

(* The relay publishes the outbox row feed.command.requested *)
RelayDeliver(c) ==
    /\ OutboxMode
    /\ "requested" \in db[c].topics
    /\ device[c] = "idle"
    /\ device' = [device EXCEPT ![c] = "commanded"]
    /\ UNCHANGED <<service, idem, ackIdem, hold, db, acks, calls, lost, crashes>>

(* The device runs the command once and reports; the report may be lost *)
DeviceRun(c) ==
    /\ device[c] = "commanded"
    /\ device' = [device EXCEPT ![c] = "ran"]
    /\ \E sent \in {{}} \cup {{s} : s \in AckStatus} : acks' = [acks EXCEPT ![c] = sent]
    /\ UNCHANGED <<service, idem, ackIdem, hold, db, calls, lost, crashes>>

(* The process dies and restarts: its maps, goroutines and calls are gone, the
   cache (Redis), the database, billing-svc and the device are not *)
Restart ==
    /\ crashes < MaxCrashes
    /\ crashes' = crashes + 1
    /\ pc' = [c \in Call |-> IF pc[c] \in Returned \cup {"start"} THEN pc[c] ELSE "crashed"]
    /\ requests' = {}
    /\ receipts' = [c \in Call |-> "none"]
    /\ publish' = [c \in Call |-> "idle"]
    /\ acking' = [c \in Call |-> "none"]
    /\ settle' = [c \in Call |-> "none"]
    /\ lost' = lost \cup {c \in Call : settle[c] # "none"}
    /\ UNCHANGED <<status, receiptID, idem, ackIdem, hold, db, device, acks, calls>>

-----------------------------------------------------------------------------
Create(c) ==
    \/ CreateRefused(c) \/ CreateInsertKey(c) \/ CreateLookup(c) \/ CreateCheckFails(c)
    \/ CreateReserve(c) \/ CreateAccept(c) \/ CreateQueue(c) \/ CreateDispatch(c)

Next ==
    \/ \E c \in Call :
          \/ Create(c) \/ PublishSend(c) \/ PublishDone(c)
          \/ HandleAckInsert(c) \/ HandleAckApply(c) \/ Cancel(c) \/ SettleHold(c)
          \/ RelayDeliver(c) \/ DeviceRun(c)
    \/ \E S \in SUBSET Call : TimeoutScanRun(S)
    \/ Restart

(* Goroutines of the process make progress and the timeout worker's ticker
   keeps scanning; nothing is assumed of the relay, the device, the network,
   the users or the restarts *)
Fairness ==
    \A c \in Call :
        /\ WF_vars(Create(c)) /\ WF_vars(PublishSend(c)) /\ WF_vars(PublishDone(c))
        /\ WF_vars(HandleAckApply(c)) /\ WF_vars(SettleHold(c))
        /\ WF_vars(\E S \in SUBSET Call : c \in S /\ TimeoutScanRun(S))

Spec == Init /\ [][Next]_vars
FairSpec == Spec /\ Fairness

-----------------------------------------------------------------------------
(* Safety *)

(* Money and outcome agree: a hold is charged only for a request that succeeded
   and given back only for one that failed or was rejected, whichever of the
   acknowledgement, the user's cancel and the timeout worker came first. *)
HoldMatchesOutcome ==
    \A c \in Call :
        /\ hold[c] = "confirmed" => status[c] = "succeeded"
        /\ hold[c] = "cancelled" => status[c] \in {"failed", "rejected"}

(* At most one of Confirm and Cancel is ever decided for a request: the receipt
   is taken from the map in the section that decides (HandleAck, Cancel,
   TimeoutScanRun race for it). *)
SettledOnce == \A c \in Call : calls[c] <= 1

(* Two Create calls with the same idempotency key never both make a request,
   also when one of them fails half way or the process restarts (within the
   48 hours the cache keeps a key). *)
OneRequestPerKey ==
    \A c, d \in Call :
        KeyOf[c] = KeyOf[d] /\ status[c] # "created" /\ status[d] # "created" => c = d

(* Every request that succeeded and had a hold is charged, unless the one call
   of Confirm is still to come or was lost.  It rests on the idempotency of
   acknowledgements: an early one consumes the receipt, so a second one must
   not be able to complete the request. *)
SucceededIsCharged ==
    \A c \in Call :
        status[c] = "succeeded" /\ receiptID[c] = "hold" =>
            hold[c] = "confirmed" \/ settle[c] = "confirm" \/ c \in lost

(* A user pays only if the device reported that it fed. *)
PaidOnlyIfFed == \A c \in Call : hold[c] = "confirmed" => "succeeded" \in acks[c]

(* The final event a request left in the outbox tells its outcome, whatever
   saves failed before it: consumers never see a completed and a failed, or a
   cancelled and a completed, event of one request. *)
EventsTellOutcome ==
    \A c \in Call :
        /\ "completed" \in db[c].topics => status[c] = "succeeded"
        /\ "failed" \in db[c].topics => status[c] = "failed"
        /\ "cancelled" \in db[c].topics => status[c] = "rejected"

(* Each request walks the feedstate machine. *)
FeedStateSpec == FS!Spec

(* Every recorded request reaches a final status while the process lives: the
   timeout worker finishes what no acknowledgement does. *)
EventuallyFinal ==
    \A c \in Call : c \in requests ~> (c \notin requests \/ status[c] \in Final)
=============================================================================

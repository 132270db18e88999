----------------------- MODULE FeedingServiceProofs -----------------------
(***************************************************************************)
(* Proofs about FeedingService, for every set of calls and keys, every      *)
(* configuration and every number of restarts.                              *)
(***************************************************************************)
EXTENDS FeedingService, TLAPS

(* Where a call is, what its request's status is and what is recorded agree. *)
Walking == {"queue", "dispatch", "created"}

ControlInv(c) ==
    /\ status[c] \notin {"acknowledged", "compensated"}
    /\ c \in requests => pc[c] \in Walking
    /\ status[c] = "created" => pc[c] \notin Walking
    /\ status[c] # "created" => pc[c] \in Walking \cup {"crashed"}
    /\ status[c] = "accepted" => pc[c] \in {"queue", "crashed"}
    /\ pc[c] = "queue" => status[c] = "accepted"
    /\ publish[c] # "idle" => pc[c] = "created" /\ ~OutboxMode

(* The command reaches the device at most once, and only then is there an
   acknowledgement. *)
DeviceInv(c) ==
    /\ device[c] # "ran" => acks[c] = {}
    /\ ~OutboxMode /\ (pc[c] \notin {"created", "crashed"} \/ publish[c] = "send") => device[c] = "idle"
    /\ acking[c] # "none" => c \in ackIdem /\ acking[c] \in acks[c]

(* A receipt in the map stands for an untouched reservation; a decided call
   stands for the only decision. *)
MoneyInv(c) ==
    /\ calls[c] \in {0, 1}
    /\ calls[c] = 0 => hold[c] \in {"none", "reserved"} /\ settle[c] = "none"
    /\ receipts[c] = "hold" => calls[c] = 0 /\ status[c] # "succeeded"
    /\ receipts[c] # "none" => receipts[c] = receiptID[c] /\ c \in requests
    /\ receiptID[c] = "hold" => hold[c] # "none"
    /\ receiptID[c] # "none" => pc[c] \notin {"start", "lookup", "check"}
    /\ pc[c] = "accept" => calls[c] = 0
    /\ pc[c] \in {"start", "lookup", "check"} => calls[c] = 0
    /\ settle[c] # "none" => hold[c] = "reserved"
    /\ settle[c] = "confirm" => status[c] = "succeeded" /\ "succeeded" \in acks[c]
    /\ settle[c] = "cancel" => status[c] \in {"failed", "rejected"}

(* Only an acknowledgement can take the receipt of an unfinished request, and
   no other acknowledgement of that request follows. *)
EarlyAckInv(c) ==
    c \in requests /\ status[c] \notin Final /\ receiptID[c] = "hold" /\ receipts[c] = "none" =>
        c \in ackIdem /\ acking[c] = "none"

HoldInv(c) ==
    /\ hold[c] = "confirmed" => status[c] = "succeeded" /\ "succeeded" \in acks[c]
    /\ hold[c] = "cancelled" => status[c] \in {"failed", "rejected"}
    /\ status[c] = "succeeded" /\ receiptID[c] = "hold" =>
            hold[c] = "confirmed" \/ settle[c] = "confirm" \/ c \in lost

EventInv(c) ==
    /\ "completed" \in db[c].topics => status[c] = "succeeded"
    /\ "failed" \in db[c].topics => status[c] = "failed"
    /\ "cancelled" \in db[c].topics => status[c] = "rejected"

CallInv(c) ==
    ControlInv(c) /\ DeviceInv(c) /\ MoneyInv(c) /\ EarlyAckInv(c) /\ HoldInv(c) /\ EventInv(c)

(* The call that took a key is the only one past the idempotency check. *)
Owner(c) == pc[c] \in {"check", "accept"} \cup Walking \/ status[c] # "created"
KeyInv ==
    /\ \A c \in Call : Owner(c) => KeyOf[c] \in idem
    /\ \A c, d \in Call : Owner(c) /\ Owner(d) /\ KeyOf[c] = KeyOf[d] => c = d

IInv == TypeOK /\ (\A c \in Call : CallInv(c)) /\ KeyInv

-----------------------------------------------------------------------------
(* The operators *)

(* Which edges of allowedTransitions enter each state feeding-svc moves to. *)
LEMMA LegalFacts ==
    ASSUME NEW s \in FS!State
    PROVE  /\ FS!Legal(s, "accepted") <=> s = "created"
           /\ FS!Legal(s, "queued") <=> s = "accepted"
           /\ FS!Legal(s, "dispatched") <=> s = "queued"
           /\ FS!Legal(s, "acknowledged") <=> s = "dispatched"
           /\ FS!Legal(s, "succeeded") <=> s = "acknowledged"
           /\ FS!Legal(s, "failed") <=> s \in {"queued", "dispatched", "acknowledged"}
           /\ FS!Legal(s, "rejected") <=> s \in {"created", "accepted", "queued", "dispatched"}
  BY DEF FS!Legal, FS!allowedTransitions, FS!State

Row == [row : FS!State \cup {"none"}, topics : SUBSET Topic]

(* A save keeps the shape of the stored data and writes a final event only for
   the edge it saves. *)
LEMMA SaveFacts ==
    ASSUME NEW d \in Row, NEW from \in FS!State, NEW to \in FS!State, NEW ok \in BOOLEAN
    PROVE  LET e == Save(d, from, to, ok)
           IN  /\ e \in Row
               /\ "completed" \in e.topics => "completed" \in d.topics \/ (FS!Legal(from, to) /\ to = "succeeded")
               /\ "failed" \in e.topics => "failed" \in d.topics \/ (FS!Legal(from, to) /\ to = "failed")
               /\ "cancelled" \in e.topics => "cancelled" \in d.topics \/ (FS!Legal(from, to) /\ to = "rejected")
<1>1. buildOutboxEvents(from, to) \subseteq Topic
  BY DEF buildOutboxEvents, Topic
<1>2. /\ "completed" \in buildOutboxEvents(from, to) => to = "succeeded"
      /\ "failed" \in buildOutboxEvents(from, to) => to = "failed"
      /\ "cancelled" \in buildOutboxEvents(from, to) => to = "rejected"
  BY DEF buildOutboxEvents
<1>3. CASE ok /\ PG /\ FS!Legal(from, to) /\ (from = "created" \/ d.row # "none")
  BY <1>1, <1>2, <1>3 DEF Save, Row
<1>4. CASE ~(ok /\ PG /\ FS!Legal(from, to) /\ (from = "created" \/ d.row # "none"))
  BY <1>4 DEF Save, Row
<1>5. QED BY <1>3, <1>4

(* What transition(c, to) does to the status and to the stored data. *)
LEMMA TransitionFacts ==
    ASSUME TypeOK, NEW c \in Call, NEW to \in FS!State, transition(c, to)
    PROVE  /\ status' \in [Call -> FS!State]
           /\ status'[c] = IF FS!Legal(status[c], to) THEN to ELSE status[c]
           /\ \A d \in Call : d # c => status'[d] = status[d] /\ db'[d] = db[d]
           /\ db' \in [Call -> Row]
           /\ "completed" \in db'[c].topics =>
                   "completed" \in db[c].topics \/ (FS!Legal(status[c], to) /\ to = "succeeded")
           /\ "failed" \in db'[c].topics =>
                   "failed" \in db[c].topics \/ (FS!Legal(status[c], to) /\ to = "failed")
           /\ "cancelled" \in db'[c].topics =>
                   "cancelled" \in db[c].topics \/ (FS!Legal(status[c], to) /\ to = "rejected")
<1>1. PICK ok \in SaveOutcome : db' = [db EXCEPT ![c] = Save(@, status[c], to, ok)]
  BY DEF transition
<1>2. ok \in BOOLEAN
  BY FeedingAssumption DEF SaveOutcome
<1>3. db[c] \in Row /\ status[c] \in FS!State /\ db \in [Call -> Row]
  BY DEF TypeOK, Row
<1>4. Save(db[c], status[c], to, ok) \in Row
  BY <1>2, <1>3, SaveFacts
<1>5. /\ db' \in [Call -> Row]
      /\ db'[c] = Save(db[c], status[c], to, ok)
      /\ \A d \in Call : d # c => db'[d] = db[d]
  BY <1>1, <1>3, <1>4
<1>6. /\ status' \in [Call -> FS!State]
      /\ status'[c] = IF FS!Legal(status[c], to) THEN to ELSE status[c]
      /\ \A d \in Call : d # c => status'[d] = status[d]
  BY DEF transition, TypeOK, FS!Transition
<1>7. QED BY <1>2, <1>3, <1>5, <1>6, SaveFacts

(* What the section of HandleAck does to the status and to the stored data. *)
LEMMA AckFacts ==
    ASSUME TypeOK, NEW c \in Call, HandleAckApply(c)
    PROVE  /\ status' \in [Call -> FS!State]
           /\ db' \in [Call -> Row]
           /\ \A d \in Call : d # c => status'[d] = status[d] /\ db'[d] = db[d]
           /\ status'[c] # status[c] =>
                  /\ c \in requests
                  /\ status[c] \in {"dispatched", "acknowledged"}
                  /\ status'[c] \in AckStatus
                  /\ status'[c] = "succeeded" => acking[c] = "succeeded"
           /\ "completed" \in db'[c].topics => "completed" \in db[c].topics \/ status'[c] = "succeeded"
           /\ "failed" \in db'[c].topics => "failed" \in db[c].topics \/ status'[c] = "failed"
           /\ "cancelled" \in db'[c].topics => "cancelled" \in db[c].topics
<1> DEFINE s == AckTarget(status[c], acking[c])
<1>1. status[c] \in FS!State /\ db \in [Call -> Row] /\ db[c] \in Row /\ "acknowledged" \in FS!State
  BY DEF TypeOK, Row, FS!State
<1>2. /\ s \in FS!State
      /\ s # status[c] =>
            /\ status[c] \in {"dispatched", "acknowledged"}
            /\ s \in AckStatus
            /\ s = "succeeded" => acking[c] = "succeeded"
  BY <1>1 DEF AckTarget, AckStatus, FS!State
<1>3. CASE c \notin requests
  BY <1>1, <1>3 DEF HandleAckApply, TakeReceipt, TypeOK
<1>4. CASE c \in requests /\ s = status[c]
  <2>1. status' = [status EXCEPT ![c] = s] /\ db' = [db EXCEPT ![c] = db[c]]
    BY <1>4 DEF HandleAckApply, AckTarget
  <2>2. QED BY <1>1, <1>4, <2>1 DEF TypeOK
<1>5. CASE c \in requests /\ s # status[c]
  <2>1. status' = [status EXCEPT ![c] = s]
    BY <1>5 DEF HandleAckApply
  <2>2. PICK ok1 \in SaveOutcome, ok2 \in SaveOutcome :
           db' = [db EXCEPT ![c] = Save(Save(@, status[c], "acknowledged", ok1), "acknowledged", s, ok2)]
    BY <1>5 DEF HandleAckApply
  <2>3. ok1 \in BOOLEAN /\ ok2 \in BOOLEAN
    BY FeedingAssumption DEF SaveOutcome
  <2> DEFINE d1 == Save(db[c], status[c], "acknowledged", ok1)
  <2>4. /\ d1 \in Row
        /\ "completed" \in d1.topics => "completed" \in db[c].topics
        /\ "failed" \in d1.topics => "failed" \in db[c].topics
        /\ "cancelled" \in d1.topics => "cancelled" \in db[c].topics
    BY <1>1, <2>3, SaveFacts
  <2> DEFINE d2 == Save(d1, "acknowledged", s, ok2)
  <2>5. /\ d2 \in Row
        /\ "completed" \in d2.topics => "completed" \in d1.topics \/ s = "succeeded"
        /\ "failed" \in d2.topics => "failed" \in d1.topics \/ s = "failed"
        /\ "cancelled" \in d2.topics => "cancelled" \in d1.topics \/ s = "rejected"
    <3> HIDE DEF d1
    <3>1. QED BY <1>1, <1>2, <2>3, <2>4, SaveFacts
  <2>6. db' = [db EXCEPT ![c] = d2]
    BY <2>2
  <2> HIDE DEF d1, d2, s
  <2>7. QED BY <1>1, <1>2, <1>5, <2>1, <2>4, <2>5, <2>6 DEF TypeOK, AckStatus
<1>6. QED BY <1>3, <1>4, <1>5

(* What a decision under the mutex records. *)
LEMMA DecideFacts ==
    ASSUME TypeOK, NEW c \in Call, NEW receipt, NEW s, Decide(c, Owed(receipt, s))
    PROVE  /\ settle' \in [Call -> {"none", "confirm", "cancel"}]
           /\ calls' \in [Call -> Nat]
           /\ \A d \in Call : d # c => settle'[d] = settle[d] /\ calls'[d] = calls[d]
           /\ \/ settle'[c] = settle[c] /\ calls'[c] = calls[c]
              \/ /\ receipt = "hold" /\ calls'[c] = calls[c] + 1
                 /\ \/ settle'[c] = "confirm" /\ s = "succeeded"
                    \/ settle'[c] = "cancel" /\ s \in {"failed", "rejected"}
           /\ receipt = "hold" /\ s = "succeeded" => settle'[c] = "confirm"
<1> DEFINE o == Owed(receipt, s)
<1>1. /\ o \in {"none", "confirm", "cancel"}
      /\ o # "none" => receipt = "hold"
      /\ o = "confirm" => s = "succeeded"
      /\ o = "cancel" => s \in {"failed", "rejected"}
      /\ receipt = "hold" /\ s = "succeeded" => o = "confirm"
  BY DEF Owed
<1>2. /\ settle' = [settle EXCEPT ![c] = IF o = "none" THEN @ ELSE o]
      /\ calls' = [calls EXCEPT ![c] = IF o = "none" THEN @ ELSE @ + 1]
  BY DEF Decide
<1>3. settle \in [Call -> {"none", "confirm", "cancel"}] /\ calls \in [Call -> Nat]
  BY DEF TypeOK
<1> HIDE DEF o
<1>4. QED BY <1>1, <1>2, <1>3

(* What a pass of the timeout worker does to holds and decisions. *)
LEMMA ScanMoney ==
    ASSUME TypeOK, NEW S \in SUBSET Call, TimeoutScanRun(S)
    PROVE  /\ hold' \in [Call -> {"none", "reserved", "confirmed", "cancelled"}]
           /\ calls' \in [Call -> Nat]
           /\ lost' \subseteq Call /\ lost \subseteq lost'
           /\ receipts' \in [Call -> {"none", "hold", "noop"}]
           /\ \A d \in Call \ S : hold'[d] = hold[d] /\ calls'[d] = calls[d] /\ receipts'[d] = receipts[d]
           /\ \A d \in S :
                 /\ receipts'[d] = "none"
                 /\ receipts[d] # "hold" => hold'[d] = hold[d] /\ calls'[d] = calls[d]
                 /\ receipts[d] = "hold" => hold'[d] \in {hold[d], Settled(hold[d], "cancel")} /\ calls'[d] = calls[d] + 1
<1> DEFINE owed == {c \in S : receipts[c] = "hold"}
<1>1. PICK L \in SUBSET owed :
         /\ hold' = [c \in Call |-> IF c \in owed \ L THEN Settled(hold[c], "cancel") ELSE hold[c]]
         /\ calls' = [c \in Call |-> IF c \in owed THEN calls[c] + 1 ELSE calls[c]]
         /\ lost' = lost \cup L
  BY Zenon DEF TimeoutScanRun
<1>2. receipts' = [c \in Call |-> IF c \in S THEN "none" ELSE receipts[c]]
  BY DEF TimeoutScanRun
<1>3. owed \subseteq S /\ L \subseteq Call /\ \A c \in Call : c \in owed <=> c \in S /\ receipts[c] = "hold"
  OBVIOUS
<1>4. \A h \in {"none", "reserved", "confirmed", "cancelled"} :
         Settled(h, "cancel") \in {"none", "reserved", "confirmed", "cancelled"}
  BY DEF Settled
<1> HIDE DEF owed
<1>5. QED BY <1>1, <1>2, <1>3, <1>4 DEF TypeOK

(* What a pass of the timeout worker does to the status and the stored data. *)
LEMMA ScanFacts ==
    ASSUME TypeOK, NEW S \in SUBSET Call, TimeoutScanRun(S)
    PROVE  /\ status' \in [Call -> FS!State]
           /\ db' \in [Call -> Row]
           /\ \A d \in S : d \in requests /\ status[d] \in {"queued", "dispatched"} /\ status'[d] = "failed"
           /\ \A d \in Call \ S : status'[d] = status[d] /\ db'[d] = db[d]
           /\ \A d \in S :
                 /\ "completed" \in db'[d].topics => "completed" \in db[d].topics
                 /\ "cancelled" \in db'[d].topics => "cancelled" \in db[d].topics
<1>1. /\ status' = [c \in Call |-> IF c \in S THEN FS!Transition(status[c], "failed") ELSE status[c]]
      /\ \A d \in S : d \in Call /\ d \in requests /\ status[d] \in {"queued", "dispatched"}
  BY DEF TimeoutScanRun, Expirable
<1>2. \A d \in S : FS!Transition(status[d], "failed") = "failed"
  BY <1>1, LegalFacts DEF FS!Transition, TypeOK
<1>3. /\ \A d \in S : status'[d] = "failed"
      /\ \A d \in Call \ S : status'[d] = status[d]
      /\ status' \in [Call -> FS!State]
  BY <1>1, <1>2 DEF TypeOK, FS!State
<1>4. \E saved \in SUBSET S :
         db' = [c \in Call |-> IF c \in saved THEN Save(db[c], status[c], "failed", TRUE) ELSE db[c]]
  <2>1. PICK saved \in (IF StoreReliable THEN {S} ELSE SUBSET S) :
           db' = [c \in Call |-> IF c \in saved THEN Save(db[c], status[c], "failed", TRUE) ELSE db[c]]
    BY Zenon DEF TimeoutScanRun
  <2>2. saved \subseteq S
    BY <2>1
  <2>3. QED BY <2>1, <2>2
<1>4a. PICK saved \in SUBSET S :
         db' = [c \in Call |-> IF c \in saved THEN Save(db[c], status[c], "failed", TRUE) ELSE db[c]]
  BY <1>4
<1>5. \A d \in Call : LET e == Save(db[d], status[d], "failed", TRUE)
                      IN  /\ db[d] \in Row /\ e \in Row
                          /\ "completed" \in e.topics => "completed" \in db[d].topics
                          /\ "cancelled" \in e.topics => "cancelled" \in db[d].topics
  <2> SUFFICES ASSUME NEW d \in Call
               PROVE  LET e == Save(db[d], status[d], "failed", TRUE)
                      IN  /\ db[d] \in Row /\ e \in Row
                          /\ "completed" \in e.topics => "completed" \in db[d].topics
                          /\ "cancelled" \in e.topics => "cancelled" \in db[d].topics
    OBVIOUS
  <2>1. db[d] \in Row /\ status[d] \in FS!State /\ "failed" \in FS!State
    BY DEF TypeOK, Row, FS!State
  <2>2. QED BY <2>1, SaveFacts
<1>6. /\ db' \in [Call -> Row]
      /\ \A d \in Call \ S : db'[d] = db[d]
      /\ \A d \in S : /\ "completed" \in db'[d].topics => "completed" \in db[d].topics
                      /\ "cancelled" \in db'[d].topics => "cancelled" \in db[d].topics
  BY <1>4a, <1>5
<1>7. \A d \in S : d \in requests /\ status[d] \in {"queued", "dispatched"} /\ status'[d] = "failed"
  BY <1>1, <1>3
<1>8. \A d \in Call \ S : status'[d] = status[d] /\ db'[d] = db[d]
  BY <1>3, <1>6
<1>9. status' \in [Call -> FS!State] /\ db' \in [Call -> Row]
  BY <1>3, <1>6
<1>10. \A d \in S : /\ "completed" \in db'[d].topics => "completed" \in db[d].topics
                    /\ "cancelled" \in db'[d].topics => "cancelled" \in db[d].topics
  BY <1>6
<1>11. QED BY <1>7, <1>8, <1>9, <1>10

-----------------------------------------------------------------------------
(* Type correctness *)

LEMMA InitInv == Init => IInv
<1> SUFFICES ASSUME Init PROVE IInv
  OBVIOUS
<1>1. TypeOK
  BY FeedingAssumption DEF Init, TypeOK, PC, FS!State
<1>2. \A c \in Call : CallInv(c)
  BY DEF Init, CallInv, ControlInv, DeviceInv, MoneyInv, EarlyAckInv, HoldInv, EventInv, Walking, Final
<1>3. KeyInv
  BY DEF Init, KeyInv, Owner, Walking
<1>4. QED BY <1>1, <1>2, <1>3 DEF IInv

LEMMA TypeStep == TypeOK /\ [Next]_vars => TypeOK'
<1> SUFFICES ASSUME TypeOK, [Next]_vars PROVE TypeOK'
  OBVIOUS
<1> USE FeedingAssumption
<1>0. {"accepted", "queued", "dispatched", "failed", "rejected"} \subseteq FS!State
  BY DEF FS!State
<1>1. ASSUME NEW c \in Call, CreateRefused(c) \/ CreateInsertKey(c) \/ CreateLookup(c)
                              \/ CreateCheckFails(c) \/ CreateReserve(c)
      PROVE  TypeOK'
  <2>1. CASE CreateRefused(c)
    <3>1. idem' \subseteq Key
      BY <2>1 DEF CreateRefused, TypeOK
    <3>2. QED BY <2>1, <3>1 DEF TypeOK, CreateRefused, PC, Returned
  <2>1a. CASE CreateLookup(c)
    BY <2>1a DEF TypeOK, CreateLookup, PC, Returned
  <2>1b. CASE CreateCheckFails(c)
    BY <2>1b DEF TypeOK, CreateCheckFails, PC, Returned
  <2>2. CASE CreateInsertKey(c)
    BY <2>2 DEF TypeOK, CreateInsertKey, FirstUse, PC, Returned
  <2>3. CASE CreateReserve(c)
    <3>1. /\ hold' \in [Call -> {"none", "reserved", "confirmed", "cancelled"}]
          /\ receiptID' \in [Call -> {"none", "hold", "noop"}]
          /\ pc' \in [Call -> PC]
      <4>1. \E h \in {"none", "reserved"} : hold' = [hold EXCEPT ![c] = h]
        BY <2>3 DEF CreateReserve
      <4>2. \E x \in {"accept", "refused"} : pc' = [pc EXCEPT ![c] = x]
        BY <2>3, Zenon DEF CreateReserve
      <4>3. receiptID' = receiptID \/ \E r \in {"hold", "noop"} : receiptID' = [receiptID EXCEPT ![c] = r]
        BY <2>3, Zenon DEF CreateReserve
      <4>4. pc' \in [Call -> PC]
        BY <4>2 DEF TypeOK, PC, Returned
      <4>5. hold' \in [Call -> {"none", "reserved", "confirmed", "cancelled"}]
        BY <4>1 DEF TypeOK
      <4>6. receiptID' \in [Call -> {"none", "hold", "noop"}]
        BY <4>3 DEF TypeOK
      <4>7. QED BY <4>4, <4>5, <4>6
    <3>2. QED BY <2>3, <3>1 DEF TypeOK, CreateReserve
  <2>4. QED BY <1>1, <2>1, <2>1a, <2>1b, <2>2, <2>3
<1>2. ASSUME NEW c \in Call, CreateAccept(c) PROVE TypeOK'
  <2>1. status' \in [Call -> FS!State] /\ db' \in [Call -> Row]
    BY <1>0, <1>2, TransitionFacts DEF CreateAccept
  <2>2. QED BY <1>2, <2>1 DEF TypeOK, CreateAccept, PC, Row
<1>3. ASSUME NEW c \in Call, CreateQueue(c) PROVE TypeOK'
  <2>1. status' \in [Call -> FS!State] /\ db' \in [Call -> Row]
    BY <1>0, <1>3, TransitionFacts DEF CreateQueue
  <2>2. QED BY <1>3, <2>1 DEF TypeOK, CreateQueue, PC, Row
<1>4. ASSUME NEW c \in Call, CreateDispatch(c) PROVE TypeOK'
  <2>1. status' \in [Call -> FS!State] /\ db' \in [Call -> Row]
    BY <1>0, <1>4, TransitionFacts DEF CreateDispatch, TypeOK, Row
  <2>2. QED BY <1>4, <2>1 DEF TypeOK, CreateDispatch, PC, Returned, Row
<1>5. ASSUME NEW c \in Call, PublishSend(c) PROVE TypeOK'
  BY <1>5 DEF TypeOK, PublishSend
<1>6. ASSUME NEW c \in Call, PublishDone(c) PROVE TypeOK'
  <2>1. status' \in [Call -> FS!State] /\ db' \in [Call -> Row]
    BY <1>0, <1>6, TransitionFacts DEF PublishDone
  <2>2. QED BY <1>6, <2>1 DEF TypeOK, PublishDone, Row
<1>7. ASSUME NEW c \in Call, HandleAckInsert(c) PROVE TypeOK'
  BY <1>7 DEF TypeOK, HandleAckInsert
<1>8. ASSUME NEW c \in Call, HandleAckApply(c) PROVE TypeOK'
  <2>1. status' \in [Call -> FS!State] /\ db' \in [Call -> Row]
    BY <1>8, AckFacts DEF TypeOK, Row
  <2>2. /\ settle' \in [Call -> {"none", "confirm", "cancel"}]
        /\ calls' \in [Call -> Nat]
        /\ receipts' \in [Call -> {"none", "hold", "noop"}]
    <3>1. CASE c \in requests
      <4>1. Decide(c, Owed(receipts[c], AckTarget(status[c], acking[c])))
        BY <1>8, <3>1 DEF HandleAckApply
      <4>2. settle' \in [Call -> {"none", "confirm", "cancel"}] /\ calls' \in [Call -> Nat]
        BY <4>1, DecideFacts DEF TypeOK
      <4>3. receipts' \in [Call -> {"none", "hold", "noop"}]
        BY <1>8, <3>1 DEF HandleAckApply, TakeReceipt, TypeOK
      <4>4. QED BY <4>2, <4>3
    <3>2. CASE c \notin requests
      BY <1>8, <3>2 DEF HandleAckApply, TakeReceipt, TypeOK
    <3>3. QED BY <3>1, <3>2
  <2>3. acking' \in [Call -> {"none"} \cup AckStatus]
    BY <1>8 DEF HandleAckApply, TakeReceipt, TypeOK
  <2>4. UNCHANGED <<pc, requests, receiptID, publish, idem, ackIdem, hold, device, acks, lost, crashes>>
    BY <1>8 DEF HandleAckApply
  <2>5. QED BY <2>1, <2>2, <2>3, <2>4 DEF TypeOK, Row
<1>9. ASSUME NEW c \in Call, Cancel(c) PROVE TypeOK'
  <2>1. status' \in [Call -> FS!State] /\ db' \in [Call -> Row]
    BY <1>0, <1>9, TransitionFacts DEF Cancel
  <2>2. settle' \in [Call -> {"none", "confirm", "cancel"}] /\ calls' \in [Call -> Nat]
    BY <1>9, DecideFacts DEF Cancel
  <2>3. QED BY <1>9, <2>1, <2>2 DEF TypeOK, Cancel, TakeReceipt, Row
<1>10. ASSUME NEW c \in Call, SettleHold(c) \/ RelayDeliver(c) \/ DeviceRun(c) PROVE TypeOK'
  <2>1. CASE SettleHold(c)
    BY <2>1 DEF TypeOK, SettleHold, Settled
  <2>2. CASE RelayDeliver(c)
    BY <2>2 DEF TypeOK, RelayDeliver, service
  <2>3. CASE DeviceRun(c)
    BY <2>3 DEF TypeOK, DeviceRun, AckStatus, service
  <2>4. QED BY <1>10, <2>1, <2>2, <2>3
<1>11. ASSUME NEW S \in SUBSET Call, TimeoutScanRun(S) PROVE TypeOK'
  <2>1. status' \in [Call -> FS!State] /\ db' \in [Call -> Row]
    BY <1>11, ScanFacts
  <2>2. UNCHANGED <<pc, requests, receiptID, publish, acking, settle, idem, ackIdem, device, acks, crashes>>
    BY <1>11 DEF TimeoutScanRun
  <2>3. QED BY <1>11, <2>1, <2>2, ScanMoney DEF TypeOK, Row
<1>12. ASSUME Restart PROVE TypeOK'
  BY <1>12 DEF TypeOK, Restart, PC, Returned
<1>13. CASE UNCHANGED vars
  BY <1>13 DEF TypeOK, vars, service
<1>14. QED
  BY <1>1, <1>2, <1>3, <1>4, <1>5, <1>6, <1>7, <1>8, <1>9, <1>10, <1>11, <1>12, <1>13 DEF Next, Create

-----------------------------------------------------------------------------
(* The invariant of one call *)

(* A step leaves everything about call d as it was. *)
Same(d) ==
    /\ pc'[d] = pc[d] /\ status'[d] = status[d]
    /\ receipts'[d] = receipts[d] /\ receiptID'[d] = receiptID[d]
    /\ publish'[d] = publish[d] /\ acking'[d] = acking[d]
    /\ settle'[d] = settle[d] /\ hold'[d] = hold[d] /\ db'[d] = db[d]
    /\ device'[d] = device[d] /\ acks'[d] = acks[d] /\ calls'[d] = calls[d]
    /\ d \in requests' <=> d \in requests
    /\ d \in ackIdem' <=> d \in ackIdem
    /\ d \in lost => d \in lost'

LEMMA Frame ==
    ASSUME NEW d \in Call, CallInv(d), Same(d)
    PROVE  CallInv(d)'
  BY DEF Same, CallInv, ControlInv, DeviceInv, MoneyInv, EarlyAckInv, HoldInv, EventInv, Final

LEMMA CreateRefusedInv ==
    ASSUME IInv, NEW c \in Call, CreateRefused(c), NEW d \in Call
    PROVE  CallInv(d)'
<1>1. TypeOK /\ CallInv(c) /\ CallInv(d)
  BY DEF IInv
<1>2. CASE d # c
  <2>1. Same(d)
    BY <1>1, <1>2 DEF TypeOK, CreateRefused, Same
  <2>2. QED BY <1>1, <2>1, Frame
<1>3. CASE d = c
  BY <1>1, <1>3 DEF TypeOK, CreateRefused, Walking, Final, Returned,
     CallInv, ControlInv, DeviceInv, MoneyInv, EarlyAckInv, HoldInv, EventInv
<1>4. QED BY <1>2, <1>3

LEMMA CreateInsertKeyInv ==
    ASSUME IInv, NEW c \in Call, CreateInsertKey(c), NEW d \in Call
    PROVE  CallInv(d)'
<1>1. TypeOK /\ CallInv(c) /\ CallInv(d)
  BY DEF IInv
<1>2. CASE d # c
  <2>1. Same(d)
    BY <1>1, <1>2 DEF TypeOK, CreateInsertKey, FirstUse, Same
  <2>2. QED BY <1>1, <2>1, Frame
<1>3. CASE d = c
  BY <1>1, <1>3 DEF TypeOK, CreateInsertKey, FirstUse, Walking, Final, Returned,
     CallInv, ControlInv, DeviceInv, MoneyInv, EarlyAckInv, HoldInv, EventInv
<1>4. QED BY <1>2, <1>3

LEMMA CreateLookupInv ==
    ASSUME IInv, NEW c \in Call, CreateLookup(c), NEW d \in Call
    PROVE  CallInv(d)'
<1>1. TypeOK /\ CallInv(c) /\ CallInv(d)
  BY DEF IInv
<1>2. CASE d # c
  <2>1. Same(d)
    BY <1>1, <1>2 DEF TypeOK, CreateLookup, Same
  <2>2. QED BY <1>1, <2>1, Frame
<1>3. CASE d = c
  BY <1>1, <1>3 DEF TypeOK, CreateLookup, Walking, Final, Returned,
     CallInv, ControlInv, DeviceInv, MoneyInv, EarlyAckInv, HoldInv, EventInv
<1>4. QED BY <1>2, <1>3

LEMMA CreateCheckFailsInv ==
    ASSUME IInv, NEW c \in Call, CreateCheckFails(c), NEW d \in Call
    PROVE  CallInv(d)'
<1>1. TypeOK /\ CallInv(c) /\ CallInv(d)
  BY DEF IInv
<1>2. CASE d # c
  <2>1. Same(d)
    BY <1>1, <1>2 DEF TypeOK, CreateCheckFails, Same
  <2>2. QED BY <1>1, <2>1, Frame
<1>3. CASE d = c
  BY <1>1, <1>3 DEF TypeOK, CreateCheckFails, Walking, Final, Returned,
     CallInv, ControlInv, DeviceInv, MoneyInv, EarlyAckInv, HoldInv, EventInv
<1>4. QED BY <1>2, <1>3

LEMMA CreateReserveInv ==
    ASSUME IInv, NEW c \in Call, CreateReserve(c), NEW d \in Call
    PROVE  CallInv(d)'
<1>1. TypeOK /\ CallInv(c) /\ CallInv(d)
  BY DEF IInv
<1>2. CASE d # c
  <2>1. Same(d)
    BY <1>1, <1>2 DEF TypeOK, CreateReserve, Same
  <2>2. QED BY <1>1, <2>1, Frame
<1>3. CASE d = c
  BY <1>1, <1>3 DEF TypeOK, CreateReserve, Walking, Final, Returned,
     CallInv, ControlInv, DeviceInv, MoneyInv, EarlyAckInv, HoldInv, EventInv
<1>4. QED BY <1>2, <1>3

LEMMA PublishSendInv ==
    ASSUME IInv, NEW c \in Call, PublishSend(c), NEW d \in Call
    PROVE  CallInv(d)'
<1>1. TypeOK /\ CallInv(c) /\ CallInv(d)
  BY DEF IInv
<1>2. CASE d # c
  <2>1. Same(d)
    BY <1>1, <1>2 DEF TypeOK, PublishSend, Same
  <2>2. QED BY <1>1, <2>1, Frame
<1>3. CASE d = c
  BY <1>1, <1>3 DEF TypeOK, PublishSend, Walking, Final, Returned,
     CallInv, ControlInv, DeviceInv, MoneyInv, EarlyAckInv, HoldInv, EventInv
<1>4. QED BY <1>2, <1>3

LEMMA HandleAckInsertInv ==
    ASSUME IInv, NEW c \in Call, HandleAckInsert(c), NEW d \in Call
    PROVE  CallInv(d)'
<1>1. TypeOK /\ CallInv(c) /\ CallInv(d)
  BY DEF IInv
<1>2. CASE d # c
  <2>1. Same(d)
    BY <1>1, <1>2 DEF TypeOK, HandleAckInsert, Same
  <2>2. QED BY <1>1, <2>1, Frame
<1>3. CASE d = c
  BY <1>1, <1>3 DEF TypeOK, HandleAckInsert, FirstAck, Walking, Final, Returned,
     CallInv, ControlInv, DeviceInv, MoneyInv, EarlyAckInv, HoldInv, EventInv
<1>4. QED BY <1>2, <1>3

LEMMA SettleHoldInv ==
    ASSUME IInv, NEW c \in Call, SettleHold(c), NEW d \in Call
    PROVE  CallInv(d)'
<1>1. TypeOK /\ CallInv(c) /\ CallInv(d)
  BY DEF IInv
<1>2. CASE d # c
  <2>1. Same(d)
    BY <1>1, <1>2 DEF TypeOK, SettleHold, Settled, Same
  <2>2. QED BY <1>1, <2>1, Frame
<1>3. CASE d = c
  BY <1>1, <1>3 DEF TypeOK, SettleHold, Settled, Walking, Final, Returned,
     CallInv, ControlInv, DeviceInv, MoneyInv, EarlyAckInv, HoldInv, EventInv
<1>4. QED BY <1>2, <1>3

LEMMA RelayDeliverInv ==
    ASSUME IInv, NEW c \in Call, RelayDeliver(c), NEW d \in Call
    PROVE  CallInv(d)'
<1>1. TypeOK /\ CallInv(c) /\ CallInv(d)
  BY DEF IInv
<1>2. CASE d # c
  <2>1. Same(d)
    BY <1>1, <1>2 DEF TypeOK, RelayDeliver, service, Same
  <2>2. QED BY <1>1, <2>1, Frame
<1>3. CASE d = c
  BY <1>1, <1>3 DEF TypeOK, RelayDeliver, service, Walking, Final, Returned,
     CallInv, ControlInv, DeviceInv, MoneyInv, EarlyAckInv, HoldInv, EventInv
<1>4. QED BY <1>2, <1>3

LEMMA DeviceRunInv ==
    ASSUME IInv, NEW c \in Call, DeviceRun(c), NEW d \in Call
    PROVE  CallInv(d)'
<1>1. TypeOK /\ CallInv(c) /\ CallInv(d)
  BY DEF IInv
<1>2. CASE d # c
  <2>1. Same(d)
    BY <1>1, <1>2 DEF TypeOK, DeviceRun, service, AckStatus, Same
  <2>2. QED BY <1>1, <2>1, Frame
<1>3. CASE d = c
  BY <1>1, <1>3 DEF TypeOK, DeviceRun, service, AckStatus, Walking, Final, Returned,
     CallInv, ControlInv, DeviceInv, MoneyInv, EarlyAckInv, HoldInv, EventInv
<1>4. QED BY <1>2, <1>3

LEMMA CreateAcceptInv ==
    ASSUME IInv, NEW c \in Call, CreateAccept(c), NEW d \in Call
    PROVE  CallInv(d)'
<1>1. TypeOK /\ CallInv(c) /\ CallInv(d) /\ status[c] \in FS!State
  BY DEF IInv, TypeOK
<1>2. /\ status'[c] = IF FS!Legal(status[c], "accepted") THEN "accepted" ELSE status[c]
      /\ \A e \in Call : e # c => status'[e] = status[e] /\ db'[e] = db[e]
      /\ "completed" \in db'[c].topics => "completed" \in db[c].topics
      /\ "failed" \in db'[c].topics => "failed" \in db[c].topics
      /\ "cancelled" \in db'[c].topics => "cancelled" \in db[c].topics
  BY <1>1, TransitionFacts DEF CreateAccept, FS!State
<1>3. CASE d # c
  <2>1. Same(d)
    BY <1>1, <1>2, <1>3 DEF TypeOK, CreateAccept, Same
  <2>2. QED BY <1>1, <2>1, Frame
<1>4. CASE d = c
  BY <1>1, <1>2, <1>4, LegalFacts DEF TypeOK, CreateAccept, Walking, Final, Returned,
     CallInv, ControlInv, DeviceInv, MoneyInv, EarlyAckInv, HoldInv, EventInv
<1>5. QED BY <1>3, <1>4

LEMMA CreateQueueInv ==
    ASSUME IInv, NEW c \in Call, CreateQueue(c), NEW d \in Call
    PROVE  CallInv(d)'
<1>1. TypeOK /\ CallInv(c) /\ CallInv(d) /\ status[c] \in FS!State
  BY DEF IInv, TypeOK
<1>2. /\ status'[c] = IF FS!Legal(status[c], "queued") THEN "queued" ELSE status[c]
      /\ \A e \in Call : e # c => status'[e] = status[e] /\ db'[e] = db[e]
      /\ "completed" \in db'[c].topics => "completed" \in db[c].topics
      /\ "failed" \in db'[c].topics => "failed" \in db[c].topics
      /\ "cancelled" \in db'[c].topics => "cancelled" \in db[c].topics
  BY <1>1, TransitionFacts DEF CreateQueue, FS!State
<1>3. CASE d # c
  <2>1. Same(d)
    BY <1>1, <1>2, <1>3 DEF TypeOK, CreateQueue, Same
  <2>2. QED BY <1>1, <2>1, Frame
<1>4. CASE d = c
  BY <1>1, <1>2, <1>4, LegalFacts DEF TypeOK, CreateQueue, Walking, Final, Returned,
     CallInv, ControlInv, DeviceInv, MoneyInv, EarlyAckInv, HoldInv, EventInv
<1>5. QED BY <1>3, <1>4

LEMMA CancelInv ==
    ASSUME IInv, NEW c \in Call, Cancel(c), NEW d \in Call
    PROVE  CallInv(d)'
<1>1. TypeOK /\ CallInv(c) /\ CallInv(d) /\ status[c] \in FS!State
  BY DEF IInv, TypeOK
<1>2. /\ status'[c] = IF FS!Legal(status[c], "rejected") THEN "rejected" ELSE status[c]
      /\ \A e \in Call : e # c => status'[e] = status[e] /\ db'[e] = db[e]
      /\ "completed" \in db'[c].topics => "completed" \in db[c].topics
      /\ "failed" \in db'[c].topics => "failed" \in db[c].topics
      /\ "cancelled" \in db'[c].topics => "cancelled" \in db[c].topics \/ FS!Legal(status[c], "rejected")
  BY <1>1, TransitionFacts DEF Cancel, FS!State
<1>2a. /\ \A e \in Call : e # c => settle'[e] = settle[e] /\ calls'[e] = calls[e]
       /\ \/ settle'[c] = settle[c] /\ calls'[c] = calls[c]
          \/ receipts[c] = "hold" /\ calls'[c] = calls[c] + 1 /\ settle'[c] = "cancel"
  <2>1. Decide(c, Owed(receipts[c], "rejected"))
    BY DEF Cancel
  <2>2. QED BY <1>1, <2>1, DecideFacts
<1>3. CASE d # c
  <2>1. Same(d)
    BY <1>1, <1>2, <1>3, <1>2a DEF TypeOK, Cancel, TakeReceipt, Same
  <2>2. QED BY <1>1, <2>1, Frame
<1>4. CASE d = c
  BY <1>1, <1>2, <1>4, LegalFacts, <1>2a DEF TypeOK, Cancel, TakeReceipt, Walking, Final, Returned,
     CallInv, ControlInv, DeviceInv, MoneyInv, EarlyAckInv, HoldInv, EventInv
<1>5. QED BY <1>3, <1>4

LEMMA HandleAckApplyInv ==
    ASSUME IInv, NEW c \in Call, HandleAckApply(c), NEW d \in Call
    PROVE  CallInv(d)'
<1>1. TypeOK /\ CallInv(c) /\ CallInv(d) /\ status[c] \in FS!State
  BY DEF IInv, TypeOK
<1>2. UNCHANGED <<pc, requests, receiptID, publish, idem, ackIdem, hold, device, acks, lost, crashes>>
      /\ acking' = [acking EXCEPT ![c] = "none"] /\ acking[c] # "none"
  BY DEF HandleAckApply
<1>3. CASE c \notin requests
  <2>1. UNCHANGED <<status, db, receipts, settle, calls>>
    BY <1>3 DEF HandleAckApply
  <2>2. QED BY <1>1, <1>2, <1>3, <2>1 DEF TypeOK, Walking, Final,
               CallInv, ControlInv, DeviceInv, MoneyInv, EarlyAckInv, HoldInv, EventInv
<1>4. CASE c \in requests
  <2>1. /\ status'[c] = AckTarget(status[c], acking[c])
        /\ receipts' = [receipts EXCEPT ![c] = "none"]
        /\ Decide(c, Owed(receipts[c], AckTarget(status[c], acking[c])))
    BY <1>1, <1>4 DEF HandleAckApply, TakeReceipt, TypeOK
  <2>2. /\ \A e \in Call : e # c => settle'[e] = settle[e] /\ calls'[e] = calls[e]
        /\ \/ settle'[c] = settle[c] /\ calls'[c] = calls[c]
           \/ /\ receipts[c] = "hold" /\ calls'[c] = calls[c] + 1
              /\ \/ settle'[c] = "confirm" /\ status'[c] = "succeeded"
                 \/ settle'[c] = "cancel" /\ status'[c] \in {"failed", "rejected"}
        /\ receipts[c] = "hold" /\ status'[c] = "succeeded" => settle'[c] = "confirm"
    <3>1. receipts[c] = receipts[c] /\ AckTarget(status[c], acking[c]) = status'[c]
      BY <2>1
    <3>2. QED BY <1>1, <2>1, <3>1, DecideFacts
  <2>3. /\ \A e \in Call : e # c => status'[e] = status[e] /\ db'[e] = db[e]
        /\ status'[c] # status[c] =>
                  /\ status[c] \in {"dispatched", "acknowledged"}
                  /\ status'[c] \in AckStatus
                  /\ status'[c] = "succeeded" => acking[c] = "succeeded"
        /\ "completed" \in db'[c].topics => "completed" \in db[c].topics \/ status'[c] = "succeeded"
        /\ "failed" \in db'[c].topics => "failed" \in db[c].topics \/ status'[c] = "failed"
        /\ "cancelled" \in db'[c].topics => "cancelled" \in db[c].topics
    BY <1>1, AckFacts
  <2>4. CASE d # c
    <3>1. Same(d)
      BY <1>1, <1>2, <2>1, <2>2, <2>3, <2>4 DEF TypeOK, Same
    <3>2. QED BY <1>1, <3>1, Frame
  <2>5. CASE d = c
    <3>1. receipts'[c] = "none" /\ acking'[c] = "none"
      BY <1>1, <1>2, <2>1 DEF TypeOK
    <3>2. status[c] = "succeeded" => status'[c] = "succeeded"
      BY <2>3
    <3>3. ControlInv(c)' /\ EventInv(c)'
      BY <1>1, <1>2, <1>4, <2>3 DEF AckStatus, Walking, CallInv, ControlInv, EventInv
    <3>4. DeviceInv(c)' /\ EarlyAckInv(c)'
      BY <1>1, <1>2, <3>1 DEF CallInv, DeviceInv, EarlyAckInv
    <3>5. MoneyInv(c)'
      BY <1>1, <1>2, <1>4, <2>2, <2>3, <3>1 DEF TypeOK, Walking, CallInv, ControlInv, DeviceInv, MoneyInv
    <3>6. HoldInv(c)'
      BY <1>1, <1>2, <1>4, <2>2, <2>3, <3>1, <3>2
         DEF Final, CallInv, ControlInv, DeviceInv, MoneyInv, EarlyAckInv, HoldInv, TypeOK
    <3>7. QED BY <2>5, <3>3, <3>4, <3>5, <3>6 DEF CallInv
  <2>6. QED BY <2>4, <2>5
<1>5. QED BY <1>3, <1>4

LEMMA CreateDispatchInv ==
    ASSUME IInv, NEW c \in Call, CreateDispatch(c), NEW d \in Call
    PROVE  CallInv(d)'
<1>1. TypeOK /\ CallInv(c) /\ CallInv(d) /\ status[c] \in FS!State
  BY DEF IInv, TypeOK
<1>2. /\ status'[c] = IF OutboxMode /\ FS!Legal(status[c], "dispatched") THEN "dispatched" ELSE status[c]
      /\ \A e \in Call : e # c => status'[e] = status[e] /\ db'[e] = db[e]
      /\ "completed" \in db'[c].topics => "completed" \in db[c].topics
      /\ "failed" \in db'[c].topics => "failed" \in db[c].topics
      /\ "cancelled" \in db'[c].topics => "cancelled" \in db[c].topics
  <2>1. CASE OutboxMode
    BY <1>1, <2>1, TransitionFacts DEF CreateDispatch, FS!State
  <2>2. CASE ~OutboxMode
    BY <2>2 DEF CreateDispatch
  <2>3. QED BY <2>1, <2>2
<1>3. publish' = [publish EXCEPT ![c] = IF OutboxMode THEN @ ELSE "send"]
  <2>1. publish = [publish EXCEPT ![c] = publish[c]]
    BY <1>1 DEF TypeOK
  <2>2. QED BY <2>1 DEF CreateDispatch
<1>4. CASE d # c
  <2>1. Same(d)
    BY <1>1, <1>2, <1>3, <1>4 DEF TypeOK, CreateDispatch, Same
  <2>2. QED BY <1>1, <2>1, Frame
<1>5. CASE d = c
  BY <1>1, <1>2, <1>3, <1>5, LegalFacts DEF TypeOK, CreateDispatch, Walking, Final, Returned,
     CallInv, ControlInv, DeviceInv, MoneyInv, EarlyAckInv, HoldInv, EventInv
<1>6. QED BY <1>4, <1>5

LEMMA PublishDoneInv ==
    ASSUME IInv, NEW c \in Call, PublishDone(c), NEW d \in Call
    PROVE  CallInv(d)'
<1>1. TypeOK /\ CallInv(c) /\ CallInv(d) /\ status[c] \in FS!State
  BY DEF IInv, TypeOK
<1> DEFINE to == IF publish[c] = "ok" THEN "dispatched" ELSE "failed"
<1>2. /\ status'[c] = IF FS!Legal(status[c], to) THEN to ELSE status[c]
      /\ \A e \in Call : e # c => status'[e] = status[e] /\ db'[e] = db[e]
      /\ "completed" \in db'[c].topics => "completed" \in db[c].topics
      /\ "failed" \in db'[c].topics => "failed" \in db[c].topics \/ (FS!Legal(status[c], to) /\ to = "failed")
      /\ "cancelled" \in db'[c].topics => "cancelled" \in db[c].topics
  BY <1>1, TransitionFacts DEF PublishDone, FS!State
<1>3. CASE d # c
  <2>1. Same(d)
    BY <1>1, <1>2, <1>3 DEF TypeOK, PublishDone, Same
  <2>2. QED BY <1>1, <2>1, Frame
<1>4. CASE d = c
  BY <1>1, <1>2, <1>4, LegalFacts DEF TypeOK, PublishDone, Walking, Final, Returned,
     CallInv, ControlInv, DeviceInv, MoneyInv, EarlyAckInv, HoldInv, EventInv
<1>5. QED BY <1>3, <1>4

LEMMA TimeoutScanRunInv ==
    ASSUME IInv, NEW S \in SUBSET Call, TimeoutScanRun(S), NEW d \in Call
    PROVE  CallInv(d)'
<1>1. TypeOK /\ CallInv(d)
  BY DEF IInv
<1>2. UNCHANGED <<pc, requests, receiptID, publish, acking, settle, idem, ackIdem, device, acks, crashes>>
  BY DEF TimeoutScanRun
<1>3. CASE d \notin S
  <2>1. /\ status'[d] = status[d] /\ db'[d] = db[d] /\ hold'[d] = hold[d]
        /\ calls'[d] = calls[d] /\ receipts'[d] = receipts[d] /\ lost \subseteq lost'
    BY <1>1, <1>3, ScanFacts, ScanMoney
  <2>2. Same(d)
    BY <1>2, <2>1 DEF Same
  <2>3. QED BY <1>1, <2>2, Frame
<1>4. CASE d \in S
  <2>1. /\ d \in requests /\ status[d] \in {"queued", "dispatched"} /\ status'[d] = "failed"
        /\ "completed" \in db'[d].topics => "completed" \in db[d].topics
        /\ "cancelled" \in db'[d].topics => "cancelled" \in db[d].topics
    BY <1>1, <1>4, ScanFacts
  <2>2. /\ receipts'[d] = "none"
        /\ receipts[d] # "hold" => hold'[d] = hold[d] /\ calls'[d] = calls[d]
        /\ receipts[d] = "hold" => hold'[d] \in {hold[d], Settled(hold[d], "cancel")} /\ calls'[d] = calls[d] + 1
    BY <1>1, <1>4, ScanMoney
  <2>3. QED BY <1>1, <1>2, <2>1, <2>2 DEF TypeOK, Settled, Walking, Final,
               CallInv, ControlInv, DeviceInv, MoneyInv, EarlyAckInv, HoldInv, EventInv
<1>5. QED BY <1>3, <1>4

LEMMA RestartInv ==
    ASSUME IInv, Restart, NEW d \in Call
    PROVE  CallInv(d)'
<1>1. TypeOK /\ CallInv(d)
  BY DEF IInv
<1>2. QED BY <1>1 DEF TypeOK, Restart, Walking, Final, Returned,
             CallInv, ControlInv, DeviceInv, MoneyInv, EarlyAckInv, HoldInv, EventInv

-----------------------------------------------------------------------------
(* The invariant of all calls *)

LEMMA CallStep == IInv /\ [Next]_vars => \A d \in Call : CallInv(d)'
<1> SUFFICES ASSUME IInv, [Next]_vars, NEW d \in Call PROVE CallInv(d)'
  OBVIOUS
<1>1. ASSUME NEW c \in Call, Create(c) PROVE CallInv(d)'
  BY <1>1, CreateRefusedInv, CreateInsertKeyInv, CreateLookupInv, CreateCheckFailsInv,
     CreateReserveInv, CreateAcceptInv, CreateQueueInv, CreateDispatchInv DEF Create
<1>2. ASSUME NEW c \in Call,
             PublishSend(c) \/ PublishDone(c) \/ HandleAckInsert(c) \/ HandleAckApply(c)
      PROVE  CallInv(d)'
  BY <1>2, PublishSendInv, PublishDoneInv, HandleAckInsertInv, HandleAckApplyInv
<1>3. ASSUME NEW c \in Call,
             Cancel(c) \/ SettleHold(c) \/ RelayDeliver(c) \/ DeviceRun(c)
      PROVE  CallInv(d)'
  BY <1>3, CancelInv, SettleHoldInv, RelayDeliverInv, DeviceRunInv
<1>4. ASSUME NEW S \in SUBSET Call, TimeoutScanRun(S) PROVE CallInv(d)'
  BY <1>4, TimeoutScanRunInv
<1>5. CASE Restart
  BY <1>5, RestartInv
<1>6. CASE UNCHANGED vars
  <2>1. CallInv(d) /\ Same(d)
    BY <1>6 DEF IInv, vars, service, Same
  <2>2. QED BY <2>1, Frame
<1>7. QED BY <1>1, <1>2, <1>3, <1>4, <1>5, <1>6 DEF Next

(* No step makes a call an owner except taking a fresh key, and no key is ever
   released. *)
LEMMA KeyStep == IInv /\ [Next]_vars => KeyInv'
<1> SUFFICES ASSUME IInv, [Next]_vars PROVE KeyInv'
  OBVIOUS
<1>1. TypeOK /\ KeyInv /\ \A c \in Call : CallInv(c)
  BY DEF IInv
<1>2. TypeOK' /\ \A c \in Call : CallInv(c)'
  BY <1>1, TypeStep, CallStep
<1>3. ASSUME \A d \in Call : Owner(d)' => Owner(d), idem \subseteq idem'
      PROVE  KeyInv'
  BY <1>1, <1>3 DEF KeyInv
<1>4. ASSUME \A d \in Call : pc'[d] \in {"check", "accept"} \cup Walking =>
                            pc[d] \in {"check", "accept"} \cup Walking,
             \A d \in Call : pc[d] \notin {"accept"} \cup Walking => status'[d] = status[d],
             idem \subseteq idem'
      PROVE  KeyInv'
  BY <1>3, <1>4 DEF Owner
<1>5. ASSUME NEW c \in Call, CreateInsertKey(c) PROVE KeyInv'
  <2>1. CASE KeyOf[c] \in idem
    <3>1. pc' = [pc EXCEPT ![c] = "lookup"] /\ idem' = idem \cup {KeyOf[c]} /\ status' = status
      BY <1>5, <2>1 DEF CreateInsertKey, FirstUse
    <3>2. QED BY <1>1, <1>4, <3>1 DEF TypeOK, Walking
  <2>2. CASE KeyOf[c] \notin idem
    <3>1. pc' = [pc EXCEPT ![c] = "check"] /\ idem' = idem \cup {KeyOf[c]} /\ status' = status
      BY <1>5, <2>2 DEF CreateInsertKey, FirstUse
    <3>2. \A d \in Call : d # c => (Owner(d)' <=> Owner(d))
      BY <1>1, <3>1 DEF TypeOK, Owner
    <3>3. \A d \in Call : d # c /\ Owner(d) => KeyOf[d] # KeyOf[c]
      BY <1>1, <2>2 DEF KeyInv
    <3>4. QED BY <1>1, <3>1, <3>2, <3>3 DEF KeyInv
  <2>3. QED BY <2>1, <2>2
<1>6. ASSUME NEW c \in Call, CreateRefused(c) \/ CreateLookup(c) \/ CreateCheckFails(c)
      PROVE  KeyInv'
  BY <1>1, <1>4, <1>6 DEF TypeOK, CreateRefused, CreateLookup, CreateCheckFails, Walking
<1>7. ASSUME NEW c \in Call, CreateReserve(c) PROVE KeyInv'
  <2>1. /\ \E x \in {"accept", "refused"} : pc' = [pc EXCEPT ![c] = x]
        /\ pc[c] = "check" /\ idem' = idem /\ status' = status
    BY <1>7, Zenon DEF CreateReserve
  <2>2. QED BY <1>1, <1>4, <2>1 DEF TypeOK, Walking
<1>8. ASSUME NEW c \in Call, CreateAccept(c) PROVE KeyInv'
  <2>1. \A e \in Call : e # c => status'[e] = status[e]
    BY <1>1, <1>8, TransitionFacts DEF CreateAccept, FS!State
  <2>2. QED BY <1>1, <1>4, <1>8, <2>1 DEF TypeOK, CreateAccept, Walking
<1>9. ASSUME NEW c \in Call, CreateQueue(c) PROVE KeyInv'
  <2>1. \A e \in Call : e # c => status'[e] = status[e]
    BY <1>1, <1>9, TransitionFacts DEF CreateQueue, FS!State
  <2>2. QED BY <1>1, <1>4, <1>9, <2>1 DEF TypeOK, CreateQueue, Walking
<1>10. ASSUME NEW c \in Call, CreateDispatch(c) PROVE KeyInv'
  <2>1. \A e \in Call : e # c => status'[e] = status[e]
    BY <1>1, <1>10, TransitionFacts DEF CreateDispatch, FS!State
  <2>2. QED BY <1>1, <1>4, <1>10, <2>1 DEF TypeOK, CreateDispatch, Walking
<1>11. ASSUME NEW c \in Call, PublishDone(c) PROVE KeyInv'
  <2>1. \A e \in Call : e # c => status'[e] = status[e]
    BY <1>1, <1>11, TransitionFacts DEF PublishDone, FS!State
  <2>2. QED BY <1>1, <1>4, <1>11, <2>1 DEF TypeOK, PublishDone, CallInv, ControlInv, Walking
<1>12. ASSUME NEW c \in Call, HandleAckApply(c) PROVE KeyInv'
  <2>1. /\ \A e \in Call : e # c => status'[e] = status[e]
        /\ status'[c] # status[c] => c \in requests
    BY <1>1, <1>12, AckFacts
  <2>2. pc' = pc /\ idem' = idem
    BY <1>12 DEF HandleAckApply
  <2>3. QED BY <1>1, <1>4, <2>1, <2>2 DEF CallInv, ControlInv
<1>13. ASSUME NEW c \in Call, Cancel(c) PROVE KeyInv'
  <2>1. \A e \in Call : e # c => status'[e] = status[e]
    BY <1>1, <1>13, TransitionFacts DEF Cancel, FS!State
  <2>2. QED BY <1>1, <1>4, <1>13, <2>1 DEF Cancel, CallInv, ControlInv
<1>14. ASSUME NEW c \in Call, PublishSend(c) \/ HandleAckInsert(c) \/ SettleHold(c)
                               \/ RelayDeliver(c) \/ DeviceRun(c)
       PROVE  KeyInv'
  <2>1. pc' = pc /\ idem' = idem /\ status' = status
    BY <1>14 DEF PublishSend, HandleAckInsert, SettleHold, RelayDeliver, DeviceRun, service
  <2>2. QED BY <1>4, <2>1
<1>15. ASSUME NEW S \in SUBSET Call, TimeoutScanRun(S) PROVE KeyInv'
  <2>1. /\ \A e \in Call \ S : status'[e] = status[e]
        /\ \A e \in S : e \in requests
    BY <1>1, <1>15, ScanFacts
  <2>2. pc' = pc /\ idem' = idem
    BY <1>15 DEF TimeoutScanRun
  <2>3. QED BY <1>1, <1>4, <2>1, <2>2 DEF CallInv, ControlInv
<1>16. CASE Restart
  BY <1>1, <1>4, <1>16 DEF TypeOK, Restart, Returned, Walking
<1>17. CASE UNCHANGED vars
  BY <1>4, <1>17 DEF vars, service
<1>18. QED
  BY <1>5, <1>6, <1>7, <1>8, <1>9, <1>10, <1>11, <1>12, <1>13, <1>14, <1>15, <1>16, <1>17 DEF Next, Create

-----------------------------------------------------------------------------
(* Theorems *)

(* IInv is an inductive invariant of feeding-svc. *)
THEOREM Invariance == Spec => []IInv
<1>1. IInv /\ [Next]_vars => IInv'
  BY TypeStep, CallStep, KeyStep DEF IInv
<1>2. QED BY <1>1, InitInv, PTL DEF Spec

(* Every variable keeps its type in every behaviour of the service. *)
THEOREM TypeCorrect == Spec => []TypeOK
<1>1. IInv => TypeOK
  BY DEF IInv
<1>2. QED BY <1>1, Invariance, PTL

(* A hold is charged only for a succeeded request and returned only for a failed
   or rejected one, for any number of requests, crashes and lost billing calls. *)
THEOREM MoneyMatchesOutcome == Spec => []HoldMatchesOutcome
<1>1. IInv => HoldMatchesOutcome
  BY DEF IInv, CallInv, HoldInv, HoldMatchesOutcome
<1>2. QED BY <1>1, Invariance, PTL

(* No request is ever settled twice: HandleAck, Cancel and the timeout worker
   never both decide a billing call for it. *)
THEOREM SettlementIsUnique == Spec => []SettledOnce
<1>1. IInv => SettledOnce
  BY DEF IInv, CallInv, MoneyInv, SettledOnce
<1>2. QED BY <1>1, Invariance, PTL

(* The idempotency key admits one request. *)
THEOREM KeyAdmitsOneRequest == Spec => []OneRequestPerKey
<1>1. IInv => OneRequestPerKey
  BY DEF IInv, KeyInv, Owner, OneRequestPerKey
<1>2. QED BY <1>1, Invariance, PTL

(* A succeeded request with a hold is charged unless its Confirm call is pending
   or was lost. *)
THEOREM SuccessIsCharged == Spec => []SucceededIsCharged
<1>1. IInv => SucceededIsCharged
  BY DEF IInv, CallInv, HoldInv, SucceededIsCharged
<1>2. QED BY <1>1, Invariance, PTL

(* Nobody pays for food the device did not report as given. *)
THEOREM NoChargeWithoutFeeding == Spec => []PaidOnlyIfFed
<1>1. IInv => PaidOnlyIfFed
  BY DEF IInv, CallInv, HoldInv, PaidOnlyIfFed
<1>2. QED BY <1>1, Invariance, PTL

(* The final outbox event of a request agrees with its status, whatever saves
   of the listener failed. *)
THEOREM FinalEventIsTrue == Spec => []EventsTellOutcome
<1>1. IInv => EventsTellOutcome
  BY DEF IInv, CallInv, EventInv, EventsTellOutcome
<1>2. QED BY <1>1, Invariance, PTL

(* feeding-svc implements the feedstate machine: every critical section moves
   each request along at most two edges of allowedTransitions. *)
THEOREM RefinesFeedState == Spec => FeedStateSpec
<1>1. Init => FS!Init
  BY DEF Init, FS!Init
<1>2. IInv /\ [Next]_vars => [FS!Next]_status
  <2> SUFFICES ASSUME IInv, [Next]_vars PROVE [FS!Next]_status
    OBVIOUS
  <2>1. TypeOK /\ (\A c \in Call : CallInv(c)) /\ status' \in [Call -> FS!State]
    BY TypeStep DEF IInv, TypeOK
  <2>2. ASSUME NEW c \in Call,
               \A e \in Call : e # c => status'[e] = status[e],
               status'[c] = status[c] \/ FS!Legal(status[c], status'[c])
        PROVE  FS!Next
    BY <2>1, <2>2 DEF FS!Next, FS!Reach
  <2>3. ASSUME NEW c \in Call, NEW to \in FS!State, transition(c, to)
        PROVE  FS!Next
    <3>1. /\ status'[c] = IF FS!Legal(status[c], to) THEN to ELSE status[c]
          /\ \A e \in Call : e # c => status'[e] = status[e]
      BY <2>1, <2>3, TransitionFacts
    <3>2. QED BY <2>2, <3>1
  <2>4. CASE UNCHANGED status
    BY <2>4
  <2>5. ASSUME NEW c \in Call, Create(c) PROVE [FS!Next]_status
    BY <2>3, <2>5 DEF Create, CreateRefused, CreateInsertKey, CreateLookup, CreateCheckFails,
       CreateReserve, CreateAccept, CreateQueue, CreateDispatch, FS!State
  <2>6. ASSUME NEW c \in Call, PublishDone(c) \/ Cancel(c) PROVE [FS!Next]_status
    BY <2>3, <2>6 DEF PublishDone, Cancel, FS!State
  <2>7. ASSUME NEW c \in Call, HandleAckApply(c) PROVE [FS!Next]_status
    <3>1. /\ \A e \in Call : e # c => status'[e] = status[e]
          /\ status'[c] # status[c] =>
                status[c] \in {"dispatched", "acknowledged"} /\ status'[c] \in AckStatus
      BY <2>1, <2>7, AckFacts
    <3>2. status'[c] # status[c] => status[c] = "dispatched"
      BY <2>1, <3>1 DEF CallInv, ControlInv
    <3>3. /\ "acknowledged" \in FS!State /\ "dispatched" \in FS!State
          /\ FS!Legal("dispatched", "acknowledged")
          /\ \A a \in AckStatus : FS!Legal("acknowledged", a)
      BY LegalFacts DEF FS!State, AckStatus
    <3>4. status'[c] # status[c] => FS!Reach(status[c], status'[c])
      BY <3>1, <3>2, <3>3 DEF FS!Reach
    <3>5. QED BY <2>1, <3>1, <3>4 DEF FS!Next
  <2>8. ASSUME NEW S \in SUBSET Call, TimeoutScanRun(S) PROVE [FS!Next]_status
    <3>1. /\ \A e \in S : status[e] \in {"queued", "dispatched"} /\ status'[e] = "failed"
          /\ \A e \in Call \ S : status'[e] = status[e]
      BY <2>1, <2>8, ScanFacts
    <3>2. \A e \in S : FS!Reach(status[e], status'[e])
      BY <2>1, <3>1, LegalFacts DEF FS!Reach, FS!State
    <3>3. QED BY <2>1, <3>1, <3>2 DEF FS!Next
  <2>9. ASSUME NEW c \in Call, PublishSend(c) \/ HandleAckInsert(c) \/ SettleHold(c)
                                \/ RelayDeliver(c) \/ DeviceRun(c)
        PROVE  UNCHANGED status
    BY <2>9 DEF PublishSend, HandleAckInsert, SettleHold, RelayDeliver, DeviceRun, service
  <2>10. ASSUME Restart \/ UNCHANGED vars PROVE UNCHANGED status
    BY <2>10 DEF Restart, vars, service
  <2>11. QED BY <2>4, <2>5, <2>6, <2>7, <2>8, <2>9, <2>10 DEF Next
<1>3. QED BY <1>1, <1>2, Invariance, PTL DEF Spec, FeedStateSpec, FS!Spec
=============================================================================

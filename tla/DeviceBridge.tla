---------------------------- MODULE DeviceBridge ----------------------------
(***************************************************************************)
(* device-svc's bridge between Kafka and MQTT, with the feeder it talks to  *)
(* (pkg/simdev) and the events feeding-svc's outbox puts on Kafka.          *)
(*                                                                          *)
(* Down: records of the topics requested, dispatched and cancelled become   *)
(* MQTT messages "feed" and "cancel" of the device.  The feeder runs a      *)
(* goroutine for each message it gets.  Up: its events become Kafka events, *)
(* and the food it reports is written to the device's row.  Kafka delivers  *)
(* at least once; MQTT, at QoS 1 with clean sessions on both sides, repeats *)
(* messages and drops those for a client that is not connected.             *)
(***************************************************************************)
EXTENDS Naturals, Sequences, FiniteSets

CONSTANTS
    Command,      \* feed requests for one device
    Grams,        \* amount_grams of each
    FullHopper,        \* the most food a feeder starts with
    InitialFoodGrams,  \* the feeder's configuration; 0 means a random level
    PostedGrams,       \* remaining_food_grams of the POST that registered the device
    MaxMessages,  \* bound: MQTT messages delivered to the device
    MaxFaults     \* bound: repetitions, losses, failed calls and restarts of the feeder

ASSUME BridgeAssumption ==
    /\ Grams \in [Command -> Nat]
    /\ FullHopper \in Nat
    /\ InitialFoodGrams \in 0 .. FullHopper
    /\ PostedGrams \in 0 .. FullHopper
    /\ MaxMessages \in Nat
    /\ MaxFaults \in Nat

VARIABLES
    feed,      \* feeding-svc's status of each request
    down,      \* Kafka records for the bridge's group
    msgs,      \* MQTT deliveries to the device; a goroutine is named by its place
    stage,     \* how far the device is with each delivery
    report,    \* what the goroutine of each delivery will report
    left,      \* food in the hopper
    fed,       \* how often the device dispensed for each command
    up,        \* MQTT events the bridge has not handled yet
    row,       \* remaining_food_grams of the device's row in PostgreSQL
    told,      \* history: the row was last written by the feeder that runs now
    topics,    \* Kafka events the bridge published about each command
    repeats,   \* history: repeated deliveries for each command, of a record or a message
    lost,      \* history: commands of which a record, a message or an event was lost
    faults     \* number of faults so far

vars == <<feed, down, msgs, stage, report, left, fed, up, row, told, topics,
          repeats, lost, faults>>
deviceVars == <<stage, report, left, fed>>
rowVars == <<row, told>>

Down == {"requested", "dispatched", "cancelled"}
Report == [status : {"acked", "succeeded", "failed", "cancelled"}, remaining : Nat]
(* fresh: sent by the feeder that runs now *)
Event == [type : {"feed_ack", "feed_done", "cancelled"}, cmd : Command, ack : Report, fresh : BOOLEAN]
Message == [kind : {"feed", "cancel"}, cmd : Command]
NoReport == [status |-> "acked", remaining |-> 0]

TypeOK ==
    /\ feed \in [Command -> {"none", "queued", "dispatched", "rejected"}]
    /\ down \in [Down \X Command -> {"none", "pending", "handled", "dead"}]
    /\ msgs \in Seq(Message)
    /\ stage \in [1 .. MaxMessages -> {"none", "flight", "ack", "wait", "read", "tell", "end"}]
    /\ report \in [1 .. MaxMessages -> Report]
    /\ left \in 0 .. FullHopper
    /\ fed \in [Command -> Nat]
    /\ up \in Seq(Event)
    /\ row \in 0 .. FullHopper
    /\ told \in BOOLEAN
    /\ topics \in [Command -> SUBSET {"acked", "completed", "cancelled_acked"}]
    /\ repeats \in [Command -> Nat]
    /\ lost \in SUBSET Command
    /\ faults \in 0 .. MaxFaults

(* New: what a feeder may start with *)
StartLevels == IF InitialFoodGrams = 0 THEN 0 .. FullHopper ELSE {InitialFoodGrams}

Init ==
    /\ feed = [c \in Command |-> "none"]
    /\ down = [r \in Down \X Command |-> "none"]
    /\ msgs = <<>>
    /\ stage = [i \in 1 .. MaxMessages |-> "none"]
    /\ report = [i \in 1 .. MaxMessages |-> NoReport]
    /\ left \in StartLevels
    /\ fed = [c \in Command |-> 0]
    /\ up = <<>>
    /\ row = PostedGrams
    /\ told = FALSE
    /\ topics = [c \in Command |-> {}]
    /\ repeats = [c \in Command |-> 0]
    /\ lost = {}
    /\ faults = 0

-----------------------------------------------------------------------------
(* feeding-svc in outbox mode, reduced to what reaches the bridge (the outcome of
   a request and its timeout do not); the relay delivers each topic in its own
   time *)

FeedStep(c, from, to, topic) ==
    /\ feed[c] \in from
    /\ feed' = [feed EXCEPT ![c] = to]
    /\ down' = [down EXCEPT ![<<topic, c>>] = "pending"]
    /\ UNCHANGED <<msgs, deviceVars, up, rowVars, topics, repeats, lost, faults>>

Request(c) == FeedStep(c, {"none"}, "queued", "requested")
Dispatch(c) == FeedStep(c, {"queued"}, "dispatched", "dispatched")
CancelFeed(c) == FeedStep(c, {"queued", "dispatched"}, "rejected", "cancelled")

-----------------------------------------------------------------------------
(* handleKafkaCmd *)

(* Mutant: cancelled records are forwarded as feed commands *)
MqttCmd_AlwaysFeed(topic) == "feed"

MqttCmd(topic) == IF topic = "cancelled" THEN "cancel" ELSE "feed"

(* The broker has a message for the device *)
Deliver(m) ==
    /\ Len(msgs) < MaxMessages
    /\ msgs' = Append(msgs, m)
    /\ stage' = [stage EXCEPT ![Len(msgs) + 1] = "flight"]

Forward(topic, c) == Deliver([kind |-> MqttCmd(topic), cmd |-> c])

Fault == faults < MaxFaults /\ faults' = faults + 1

NoFault == UNCHANGED <<lost, faults>>

(* Something of the command is delivered once more *)
Repeat(c) ==
    /\ Fault
    /\ repeats' = [repeats EXCEPT ![c] = @ + 1]

(* Something of the command is gone *)
Lose(c) ==
    /\ Fault
    /\ lost' = lost \cup {c}

HandleKafkaCmd(topic, c) ==
    /\ down[<<topic, c>>] = "pending"
    /\ Forward(topic, c)
    /\ down' = [down EXCEPT ![<<topic, c>>] = "handled"]
    /\ UNCHANGED <<feed, report, left, fed, up, rowVars, topics, repeats, lost, faults>>

(* Publish fails or times out after the broker took the message, and the consumer
   tries again (a retry of a message that did not leave changes nothing) *)
PublishTimesOut(topic, c) ==
    /\ down[<<topic, c>>] = "pending"
    /\ Forward(topic, c)
    /\ Repeat(c)
    /\ UNCHANGED <<feed, down, report, left, fed, up, rowVars, topics, lost>>

(* The consumer gives up and moves the record to the DLQ; the last attempt may
   have reached the broker *)
MoveToDlq(topic, c) ==
    /\ down[<<topic, c>>] = "pending"
    /\ down' = [down EXCEPT ![<<topic, c>>] = "dead"]
    /\ \/ Forward(topic, c) /\ Fault /\ UNCHANGED lost
       \/ UNCHANGED <<msgs, stage>> /\ Lose(c)
    /\ UNCHANGED <<feed, report, left, fed, up, rowVars, topics, repeats>>

(* The bridge crashes, or loses its partition, before the commit, or the outbox
   relay publishes the record again *)
RecordAgain(topic, c) ==
    /\ down[<<topic, c>>] \in {"handled", "dead"}
    /\ Repeat(c)
    /\ down' = [down EXCEPT ![<<topic, c>>] = "pending"]
    /\ UNCHANGED <<feed, msgs, deviceVars, up, rowVars, topics, lost>>

-----------------------------------------------------------------------------
(* The feeder: a goroutine for each delivery *)

Move(i, s) == stage' = [stage EXCEPT ![i] = s]

Emit(type, i, ack) ==
    up' = Append(up, [type |-> type, cmd |-> msgs[i].cmd, ack |-> ack, fresh |-> TRUE])

(* QoS 1: the broker sends a message again that was not confirmed to it in time *)
MqttAgain(i) ==
    /\ stage[i] # "none"
    /\ Repeat(msgs[i].cmd)
    /\ Deliver(msgs[i])
    /\ UNCHANGED <<feed, down, report, left, fed, up, rowVars, topics, lost>>

(* The subscription's callback starts the goroutine of the message; the broker
   drops it when the feeder is not connected, or has not subscribed since *)
DeviceReceive(i) ==
    /\ stage[i] = "flight"
    /\ \/ Move(i, "ack") /\ NoFault
       \/ Move(i, "end") /\ Lose(msgs[i].cmd)
    /\ UNCHANGED <<feed, down, msgs, report, left, fed, up, rowVars, topics, repeats>>

(* handleFeed acknowledges before it dispenses, and ignores an error; Wait has no
   timeout, so without a broker the goroutine stays here for ever *)
FeedAck(i) ==
    /\ stage[i] = "ack"
    /\ msgs[i].kind = "feed"
    /\ \/ Emit("feed_ack", i, NoReport) /\ Move(i, "wait") /\ NoFault
       \/ UNCHANGED <<up, lost>> /\ Move(i, "wait") /\ Fault
       \/ UNCHANGED up /\ Move(i, "end") /\ Lose(msgs[i].cmd)
    /\ UNCHANGED <<feed, down, msgs, report, left, fed, rowVars, topics, repeats>>

Dispensed(grams) == IF left >= grams THEN left - grams ELSE 0

(* The delay is over: the motor jams, or food falls *)
Feed(i) ==
    /\ stage[i] = "wait"
    /\ \E failed \in BOOLEAN :
          /\ report' = [report EXCEPT ![i].status = IF failed THEN "failed" ELSE "succeeded"]
          /\ left' = IF failed THEN left ELSE Dispensed(Grams[msgs[i].cmd])
          /\ fed' = [fed EXCEPT ![msgs[i].cmd] = IF failed THEN @ ELSE @ + 1]
    /\ Move(i, "read")
    /\ UNCHANGED <<feed, down, msgs, up, rowVars, topics, repeats, lost, faults>>

(* remaining is read in a second critical section *)
ReadRemaining(i) ==
    /\ stage[i] = "read"
    /\ report' = [report EXCEPT ![i].remaining = left]
    /\ Move(i, "tell")
    /\ UNCHANGED <<feed, down, msgs, left, fed, up, rowVars, topics, repeats, lost, faults>>

FeedDone(i) ==
    /\ stage[i] = "tell"
    /\ \/ Emit("feed_done", i, report[i]) /\ NoFault
       \/ UNCHANGED up /\ Lose(msgs[i].cmd)
    /\ Move(i, "end")
    /\ report' = [report EXCEPT ![i] = NoReport]
    /\ UNCHANGED <<feed, down, msgs, left, fed, rowVars, topics, repeats>>

(* handleCancel confirms, or ignores the message; it stops no running feed *)
DeviceCancel(i) ==
    /\ stage[i] = "ack"
    /\ msgs[i].kind = "cancel"
    /\ \/ Emit("cancelled", i, [status |-> "cancelled", remaining |-> 0])
       \/ UNCHANGED up
    /\ Move(i, "end")
    /\ UNCHANGED <<feed, down, msgs, report, left, fed, rowVars, topics, repeats, lost, faults>>

Running == {i \in 1 .. MaxMessages : stage[i] \in {"ack", "wait", "read", "tell"}}

(* The context is cancelled, or the feeder crashes: every goroutine ends where it
   is, the next process starts with a hopper of its own *)
DeviceRestart ==
    /\ Fault
    /\ stage' = [i \in 1 .. MaxMessages |-> IF i \in Running THEN "end" ELSE stage[i]]
    /\ report' = [i \in 1 .. MaxMessages |-> NoReport]
    /\ lost' = lost \cup {msgs[i].cmd : i \in Running}
    /\ left' \in StartLevels
    /\ up' = [j \in DOMAIN up |-> [up[j] EXCEPT !.fresh = FALSE]]
    /\ told' = FALSE
    /\ UNCHANGED <<feed, down, msgs, fed, row, topics, repeats>>

-----------------------------------------------------------------------------
(* handleMqttEvent *)

(* Mutant: an acknowledgement without a food level empties the row *)
MarkOnline_Zero(e) == row' = e.ack.remaining /\ told' = e.fresh

(* The callback onAck; 0 means that the event carries no level *)
MarkOnline(e) ==
    IF e.ack.remaining > 0 THEN row' = e.ack.remaining /\ told' = e.fresh
    ELSE UNCHANGED rowVars

(* Mutant: confirmed cancellations are published as acknowledgements of feeds *)
KafkaTopic_Swapped(e) ==
    CASE e.type = "cancelled" -> "completed" [] e.type = "feed_done" -> "cancelled_acked" [] OTHER -> "acked"

KafkaTopic(e) ==
    CASE e.type = "cancelled" -> "cancelled_acked"
      [] e.type = "feed_done" \/ e.ack.status = "succeeded" -> "completed"
      [] OTHER -> "acked"

HandleMqttEvent ==
    /\ up # <<>>
    /\ LET e == Head(up)
       IN  /\ IF e.type = "cancelled" THEN UNCHANGED rowVars ELSE MarkOnline(e)
           /\ topics' = [topics EXCEPT ![e.cmd] = @ \cup {KafkaTopic(e)}]
    /\ up' = Tail(up)
    /\ NoFault
    /\ UNCHANGED <<feed, down, msgs, deviceVars, repeats>>

(* The error of MarkOnline is ignored.  A Kafka publish that fails loses the event:
   the MQTT client ignores the handler's error *)
HandleMqttEventFails ==
    /\ up # <<>>
    /\ LET e == Head(up)
       IN  \/ /\ topics' = [topics EXCEPT ![e.cmd] = @ \cup {KafkaTopic(e)}]
              /\ Fault
              /\ UNCHANGED <<rowVars, lost>>
           \/ /\ IF e.type = "cancelled" THEN UNCHANGED rowVars ELSE MarkOnline(e)
              /\ Lose(e.cmd)
              /\ UNCHANGED topics
    /\ up' = Tail(up)
    /\ UNCHANGED <<feed, down, msgs, deviceVars, repeats>>

(* The broker delivers an event once more, after others *)
EventAgain ==
    /\ up # <<>>
    /\ Fault
    /\ up' = Append(up, Head(up))
    /\ UNCHANGED <<feed, down, msgs, deviceVars, rowVars, topics, repeats, lost>>

(* The broker drops an event while the bridge is not connected *)
LoseEvent ==
    /\ up # <<>>
    /\ up' = Tail(up)
    /\ Lose(Head(up).cmd)
    /\ UNCHANGED <<feed, down, msgs, deviceVars, rowVars, topics, repeats>>

-----------------------------------------------------------------------------
Bridge(topic, c) ==
    HandleKafkaCmd(topic, c) \/ PublishTimesOut(topic, c) \/ MoveToDlq(topic, c)

Goroutine(i) ==
    DeviceReceive(i) \/ FeedAck(i) \/ Feed(i) \/ ReadRemaining(i) \/ FeedDone(i) \/ DeviceCancel(i)

Uplink == HandleMqttEvent \/ HandleMqttEventFails \/ LoseEvent

Next ==
    \/ \E c \in Command : Request(c) \/ Dispatch(c) \/ CancelFeed(c)
    \/ \E topic \in Down, c \in Command : Bridge(topic, c) \/ RecordAgain(topic, c)
    \/ \E i \in 1 .. MaxMessages : Goroutine(i) \/ MqttAgain(i)
    \/ DeviceRestart
    \/ Uplink \/ EventAgain

(* The consumer handles, retries or gives up what it reads, and a message or an
   event ends up delivered or dropped; nothing else is promised *)
Fairness ==
    /\ \A topic \in Down, c \in Command : WF_vars(Bridge(topic, c))
    /\ \A i \in 1 .. MaxMessages : WF_vars(Goroutine(i))
    /\ WF_vars(Uplink)

Spec == Init /\ [][Next]_vars /\ Fairness

-----------------------------------------------------------------------------
(* The device dispenses for a command at most once for each record that asks for
   it and each repetition that Kafka, the relay or MQTT made for this command: the
   bridge and the goroutines of the feeder add none of their own, and neither do a
   cancellation, a loss, a restart or the repetitions of another command. *)
FeedsAreAskedFor ==
    \A c \in Command :
        fed[c] <= Cardinality({t \in {"requested", "dispatched"} : down[<<t, c>>] # "none"}) + repeats[c]

(* A row that the running feeder has written never shows less food than the hopper
   holds, although levels are read late, events are lost, repeated out of order or
   carry no level, and writes fail (onAck, MarkOnline).  Nothing is said before the
   first report after a start: the row then shows what somebody else wrote. *)
RowIsUpperBound == told => left <= row

(* What the bridge takes from Kafka is executed and reported to Kafka, unless a
   record, message or event of this very command was lost on the way. *)
CommandIsReported ==
    \A c \in Command :
        down[<<"requested", c>>] = "pending" ~> c \in lost \/ "completed" \in topics[c]
=============================================================================

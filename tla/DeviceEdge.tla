----------------------------- MODULE DeviceEdge -----------------------------
(***************************************************************************)
(* yunmao-device-edge: the scheduler that feeds every device serially.      *)
(*                                                                          *)
(* A delivery is one arrival of a command: an HTTP POST to /commands or a   *)
(* Kafka record.  A POST runs submit in a task of its own; records run it   *)
(* in the fetch loop, where the next one is not received before the last is *)
(* queued (arrivals are in no order here, and nothing promises one).        *)
(* submit awaits, and may be overtaken, between remembering the command id, *)
(* looking up the device's queue, creating it, and sending.  The first      *)
(* delivery for a device spawns the device's worker, which executes its     *)
(* queue one command at a time and hands each ack to the sink.  Workers are *)
(* named by the delivery that spawned them.                                 *)
(***************************************************************************)
EXTENDS Naturals, Sequences, FiniteSetsExt

CONSTANTS
    Delivery,    \* bound: the deliveries that ever happen
    Command,     \* values of device_command_id
    CommandOf,   \* the command each delivery carries
    Device,
    DeviceOf,    \* the device each command is for
    Grams,       \* amount_grams of each command
    Roll,        \* pseudo_random_percent of each command
    Capacity,    \* of the IdempotentSet
    QueueSize,   \* of a device's mpsc channel
    FullHopper,  \* food_remaining_grams of a new worker
    MaxFaults,   \* bound: acks lost or stuck, handlers dropped and restarts
    None

ASSUME EdgeAssumption ==
    /\ CommandOf \in [Delivery -> Command]
    /\ DeviceOf \in [Command -> Device]
    /\ Grams \in [Command -> Nat]
    /\ Roll \in [Command -> 0 .. 99]
    /\ Capacity \in Nat
    /\ QueueSize \in Nat \ {0}
    /\ FullHopper \in Nat
    /\ MaxFaults \in Nat
    /\ None \notin Delivery

VARIABLES
    pc,         \* how far each delivery is
    processed,  \* IdempotentSet: the remembered commands, oldest first
    queues,     \* the worker that serves each device, or None
    sender,     \* the worker each delivery's handler will send to
    chan,       \* the queued deliveries of each worker
    food,       \* what is left in the hopper of each worker's device
    status,     \* status of the ack of each executed delivery
    forgotten,  \* history: commands that were remembered once and later dropped
    faults

vars == <<pc, processed, queues, sender, chan, food, status, forgotten, faults>>

Handling == {"lookup", "create", "send"}
Working == {"running", "delivering", "hung"}
Accepted == Handling \cup Working \cup {"queued", "acked", "unacked", "aborted", "lost"}
Remembered == {processed[i] : i \in DOMAIN processed}

TypeOK ==
    /\ pc \in [Delivery -> Accepted \cup {"absent", "insert", "dropped"}]
    /\ processed \in Seq(Command)
    /\ Len(processed) <= Capacity
    /\ queues \in [Device -> Delivery \cup {None}]
    /\ sender \in [Delivery -> Delivery \cup {None}]
    /\ chan \in [Delivery -> Seq(Delivery)]
    /\ \A w \in Delivery : Len(chan[w]) <= QueueSize
    /\ food \in [Delivery -> Nat]
    /\ status \in [Delivery -> {"None", "Succeeded", "Failed", "InsufficientFood"}]
    /\ forgotten \in SUBSET Command
    /\ faults \in 0 .. MaxFaults

Init ==
    /\ pc = [d \in Delivery |-> "absent"]
    /\ processed = <<>>
    /\ queues = [dev \in Device |-> None]
    /\ sender = [d \in Delivery |-> None]
    /\ chan = [w \in Delivery |-> <<>>]
    /\ food = [w \in Delivery |-> FullHopper]
    /\ status = [d \in Delivery |-> "None"]
    /\ forgotten = {}
    /\ faults = 0

Dev(d) == DeviceOf[CommandOf[d]]
Goto(d, l) == pc' = [pc EXCEPT ![d] = l]

-----------------------------------------------------------------------------
(* submit, one step per stretch between two awaits *)

Receive(d) ==
    /\ pc[d] = "absent"
    /\ Goto(d, "insert")
    /\ UNCHANGED <<processed, queues, sender, chan, food, status, forgotten, faults>>

Overflows(s) == Len(s) > Capacity

(* Mutant: a duplicate is remembered again and goes on *)
IsDuplicate_Never(c) == FALSE

IsDuplicate(c) == c \in Remembered

(* IdempotentSet::insert under the mutex; a duplicate is dropped without an ack *)
Insert(d) ==
    LET c == CommandOf[d]
        s == Append(processed, c)
    IN  /\ pc[d] = "insert"
        /\ IF IsDuplicate(c)
             THEN /\ Goto(d, "dropped")
                  /\ UNCHANGED <<processed, forgotten>>
             ELSE /\ Goto(d, "lookup")
                  /\ processed' = IF Overflows(s) THEN Tail(s) ELSE s
                  /\ forgotten' = IF Overflows(s) THEN forgotten \cup {Head(s)} ELSE forgotten
        /\ UNCHANGED <<queues, sender, chan, food, status, faults>>

(* Under the read lock *)
Lookup(d) ==
    /\ pc[d] = "lookup"
    /\ sender' = [sender EXCEPT ![d] = queues[Dev(d)]]
    /\ Goto(d, IF queues[Dev(d)] = None THEN "create" ELSE "send")
    /\ UNCHANGED <<processed, queues, chan, food, status, forgotten, faults>>

Served(dev) == queues[dev] # None

(* Under the write lock: looks again, and spawns run_worker if there is still none *)
Create(d) ==
    LET w == IF Served(Dev(d)) THEN queues[Dev(d)] ELSE d
    IN  /\ pc[d] = "create"
        /\ queues' = [queues EXCEPT ![Dev(d)] = w]
        /\ sender' = [sender EXCEPT ![d] = w]
        /\ Goto(d, "send")
        /\ UNCHANGED <<processed, chan, food, status, forgotten, faults>>

(* Mutant: the last place of the channel is never used *)
HasRoom_Short(w) == Len(chan[w]) + 1 < QueueSize

HasRoom(w) == Len(chan[w]) < QueueSize

(* sender.send(req).await waits for room *)
Send(d) ==
    /\ pc[d] = "send"
    /\ HasRoom(sender[d])
    /\ chan' = [chan EXCEPT ![sender[d]] = Append(@, d)]
    /\ Goto(d, "queued")
    /\ UNCHANGED <<processed, queues, sender, food, status, forgotten, faults>>

(* The client closes its connection: the HTTP server drops the handler at an await *)
Abort(d) ==
    /\ pc[d] \in {"insert"} \cup Handling
    /\ faults < MaxFaults
    /\ Goto(d, IF pc[d] = "insert" THEN "absent" ELSE "aborted")
    /\ faults' = faults + 1
    /\ UNCHANGED <<processed, queues, sender, chan, food, status, forgotten>>

-----------------------------------------------------------------------------
(* run_worker *)

Idle(w) == \A d \in Delivery : ~(pc[d] \in Working /\ sender[d] = w)

(* failure_rate_percent of the profile that submit builds *)
FailureRate == 0

Decide(c, left) ==
    IF left < Grams[c] THEN "InsufficientFood"
    ELSE IF Roll[c] < FailureRate THEN "Failed"
    ELSE "Succeeded"

(* saturating_sub *)
Take(left, grams) == IF grams > left THEN 0 ELSE left - grams

(* recv, and execute up to its sleep *)
Start(w) ==
    /\ chan[w] # <<>>
    /\ Idle(w)
    /\ LET d == Head(chan[w])
           c == CommandOf[d]
           s == Decide(c, food[w])
       IN  /\ status' = [status EXCEPT ![d] = s]
           /\ food' = [food EXCEPT ![w] = IF s = "Succeeded" THEN Take(@, Grams[c]) ELSE @]
           /\ Goto(d, "running")
    /\ chan' = [chan EXCEPT ![w] = Tail(@)]
    /\ UNCHANGED <<processed, queues, sender, forgotten, faults>>

(* The sleep ends, and the worker awaits sink.deliver *)
Execute(d) ==
    /\ pc[d] = "running"
    /\ Goto(d, "delivering")
    /\ UNCHANGED <<processed, queues, sender, chan, food, status, forgotten, faults>>

(* The sink delivers the ack *)
Finish(d) ==
    /\ pc[d] = "delivering"
    /\ Goto(d, "acked")
    /\ UNCHANGED <<processed, queues, sender, chan, food, status, forgotten, faults>>

(* The sink fails: the ack is logged and gone *)
FinishUnacked(d) ==
    /\ pc[d] = "delivering"
    /\ faults < MaxFaults
    /\ Goto(d, "unacked")
    /\ faults' = faults + 1
    /\ UNCHANGED <<processed, queues, sender, chan, food, status, forgotten>>

(* The peer neither answers nor closes: post_raw has no timeout *)
Hang(d) ==
    /\ pc[d] = "delivering"
    /\ faults < MaxFaults
    /\ Goto(d, "hung")
    /\ faults' = faults + 1
    /\ UNCHANGED <<processed, queues, sender, chan, food, status, forgotten>>

(* It does in the end, or the connection breaks; it may also never *)
Answer(d) ==
    /\ pc[d] = "hung"
    /\ \E l \in {"acked", "unacked"} : Goto(d, l)
    /\ UNCHANGED <<processed, queues, sender, chan, food, status, forgotten, faults>>

-----------------------------------------------------------------------------
(* The process ends and starts again: everything it keeps is in memory *)
Restart ==
    /\ faults < MaxFaults
    /\ faults' = faults + 1
    /\ pc' = [d \in Delivery |->
                IF pc[d] \in Handling \cup Working \cup {"queued"} THEN "lost"
                ELSE IF pc[d] = "insert" THEN "absent" ELSE pc[d]]
    /\ processed' = <<>>
    /\ queues' = [dev \in Device |-> None]
    /\ chan' = [w \in Delivery |-> <<>>]
    /\ forgotten' = forgotten \cup Remembered
    /\ UNCHANGED <<sender, food, status>>

Deliver(d) == Finish(d) \/ FinishUnacked(d) \/ Hang(d)

Handler(d) == Insert(d) \/ Lookup(d) \/ Create(d) \/ Send(d)

Next ==
    \/ \E d \in Delivery : Receive(d) \/ Handler(d) \/ Abort(d)
    \/ \E d \in Delivery : Start(d) \/ Execute(d) \/ Deliver(d) \/ Answer(d)
    \/ Restart

(* tokio polls every task that is ready, and execute only sleeps for a bounded
   time.  A delivery of an ack ends, fails or hangs; that a hung one ends is not
   promised *)
Fairness ==
    \A d \in Delivery :
        /\ WF_vars(Handler(d))
        /\ WF_vars(Start(d))
        /\ WF_vars(Execute(d))
        /\ WF_vars(Deliver(d))

Spec == Init /\ [][Next]_vars /\ Fairness

-----------------------------------------------------------------------------
(* A command goes past the idempotency check twice only when the set has
   forgotten it: duplicates that overlap, or that arrive after the execution,
   never dispense a second time (scheduler.rs submit) *)
OnceUnlessForgotten ==
    \A d, e \in Delivery :
        d # e /\ CommandOf[d] = CommandOf[e] /\ {pc[d], pc[e]} \subseteq Accepted
            => CommandOf[d] \in forgotten

(* A device never runs two commands at once, also when its first two commands
   race to create its queue (submit's double-checked creation, run_worker) *)
SerialPerDevice ==
    \A d, e \in Delivery :
        pc[d] \in Working /\ pc[e] \in Working /\ Dev(d) = Dev(e) => d = e

(* A delivery that passed the idempotency check is executed, unless its client
   went away, the process ended, or the acknowledgement of another command of this
   very device hangs (HttpAckSink::post_raw waits without a timeout): no handler or
   worker waits for ever on a full channel, and a peer that does not answer for one
   device never stops what was accepted for another. *)
AcceptedEventuallyRuns ==
    \A d \in Delivery :
        pc[d] \in Handling ~>
            \/ pc[d] \in {"acked", "unacked", "aborted", "lost"}
            \/ \E e \in Delivery : pc[e] = "hung" /\ Dev(e) = Dev(d)
=============================================================================

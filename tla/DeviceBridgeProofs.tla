------------------------- MODULE DeviceBridgeProofs -------------------------
(***************************************************************************)
(* Proofs about the bridge and the feeder, for any number of commands, any *)
(* amounts, any hopper and any bound on messages and faults, and, in the   *)
(* second half, about the registry whose device row the bridge writes, for *)
(* any number of requests.                                                 *)
(***************************************************************************)
EXTENDS DeviceBridge, Catalogue, FiniteSetTheorems, SequenceTheorems, TLAPS

(* The records that ask for food *)
FeedTopics == {"requested", "dispatched"}

(* Records of the command that the bridge has done with *)
Forwarded(c) == {t \in FeedTopics : down[<<t, c>>] \in {"handled", "dead"}}

(* Messages that asked the device for food, and those it will not act on any more *)
Sent(c) == {i \in DOMAIN msgs : msgs[i].kind = "feed" /\ msgs[i].cmd = c}
ActedOn(c) == {i \in Sent(c) : stage[i] \in {"read", "tell", "end"}}

(* A goroutine runs for a message that was sent; only feeds wait for the motor *)
MessageInv ==
    /\ Len(msgs) <= MaxMessages
    /\ \A i \in 1 .. MaxMessages :
          /\ stage[i] # "none" => i \in DOMAIN msgs
          /\ stage[i] \in {"wait", "read", "tell"} => msgs[i].kind = "feed"

(* feeding-svc puts a record on a topic once *)
TopicInv ==
    \A c \in Command :
        /\ feed[c] = "none" => down[<<"requested", c>>] = "none"
        /\ feed[c] \in {"none", "queued"} => down[<<"dispatched", c>>] = "none"

(* Every message comes from a record the bridge has done with or from a repetition,
   every feed from a message *)
CountInv ==
    \A c \in Command :
        /\ fed[c] <= Cardinality(ActedOn(c))
        /\ Cardinality(Sent(c)) <= Cardinality(Forwarded(c)) + repeats[c]

(* A level on its way to the row that this feeder read was read when at least as
   much food was left as now; 0 means that there is no level *)
Level(n) == n > 0 => left <= n

LevelsOf(e) == e.ack.remaining \in 0 .. FullHopper /\ (e.fresh => Level(e.ack.remaining))

UpLevels == \A j \in DOMAIN up : LevelsOf(up[j])

LevelInv ==
    /\ told => left <= row
    /\ UpLevels
    /\ \A i \in 1 .. MaxMessages :
          /\ report[i].remaining \in 0 .. FullHopper
          /\ stage[i] = "tell" => Level(report[i].remaining)

IInv ==
    /\ TypeOK
    /\ MessageInv
    /\ TopicInv
    /\ CountInv
    /\ LevelInv

Stages == {"none", "flight", "ack", "wait", "read", "tell", "end"}

USE BridgeAssumption

-----------------------------------------------------------------------------
(* The counted sets are finite. *)
LEMMA CountedSets ==
    ASSUME TypeOK, NEW c \in Command
    PROVE  /\ IsFiniteSet(Sent(c)) /\ Cardinality(Sent(c)) \in Nat
           /\ IsFiniteSet(ActedOn(c)) /\ Cardinality(ActedOn(c)) \in Nat
           /\ Cardinality(ActedOn(c)) <= Cardinality(Sent(c))
           /\ IsFiniteSet(Forwarded(c)) /\ Cardinality(Forwarded(c)) \in Nat
<1>1. IsFiniteSet(DOMAIN msgs)
  <2>1. Len(msgs) \in Nat /\ DOMAIN msgs = 1 .. Len(msgs)
    BY DEF TypeOK
  <2>2. QED
    BY <2>1, FS_Interval
<1>2. Sent(c) \in SUBSET DOMAIN msgs /\ ActedOn(c) \in SUBSET Sent(c)
  BY DEF Sent, ActedOn
<1>3. IsFiniteSet(Sent(c))
  BY <1>1, <1>2, FS_Subset
<1>4. IsFiniteSet(ActedOn(c)) /\ Cardinality(ActedOn(c)) <= Cardinality(Sent(c))
  BY <1>2, <1>3, FS_Subset
<1>5. IsFiniteSet(Forwarded(c))
  <2>1. IsFiniteSet({} \cup {"requested"})
    BY FS_EmptySet, FS_AddElement
  <2>2. IsFiniteSet(({} \cup {"requested"}) \cup {"dispatched"})
    BY <2>1, FS_AddElement
  <2>3. Forwarded(c) \in SUBSET (({} \cup {"requested"}) \cup {"dispatched"})
    BY DEF Forwarded, FeedTopics
  <2>4. QED
    BY <2>2, <2>3, FS_Subset
<1>6. QED
  BY <1>3, <1>4, <1>5, FS_CardinalityType

(* The initial state: nothing is asked for, and no feeder has reported. *)
LEMMA InitInv == Init => IInv
<1> SUFFICES ASSUME Init PROVE IInv
  OBVIOUS
<1>1. TypeOK
  <2>1. left \in 0 .. FullHopper
    BY DEF Init, StartLevels
  <2>2. NoReport \in Report
    BY DEF Report, NoReport
  <2>3. /\ told \in BOOLEAN
        /\ lost \in SUBSET Command /\ faults \in 0 .. MaxFaults
    <3>1. told \in BOOLEAN
      BY Zenon DEF Init
    <3>2. lost \in SUBSET Command /\ faults \in 0 .. MaxFaults
      BY DEF Init
    <3>3. QED
      BY <3>1, <3>2
  <2>4. repeats \in [Command -> Nat] /\ fed \in [Command -> Nat]
    BY DEF Init
  <2>5. topics \in [Command -> SUBSET {"acked", "completed", "cancelled_acked"}]
    BY DEF Init
  <2>6. QED
    BY <2>1, <2>2, <2>3, <2>4, <2>5 DEF Init, TypeOK
<1>2. MessageInv /\ TopicInv
  BY DEF Init, MessageInv, TopicInv, Down
<1>3. LevelInv
  BY DEF Init, LevelInv, UpLevels, Level, NoReport
<1>4. CountInv
  <2> SUFFICES ASSUME NEW c \in Command
               PROVE  /\ fed[c] <= Cardinality(ActedOn(c))
                      /\ Cardinality(Sent(c)) <= Cardinality(Forwarded(c)) + repeats[c]
    BY DEF CountInv
  <2>1. Sent(c) = {} /\ fed[c] = 0 /\ repeats[c] = 0
    BY DEF Init, Sent
  <2>2. Cardinality(Sent(c)) = 0
    BY <2>1, FS_EmptySet
  <2>3. QED
    BY <1>1, <2>1, <2>2, CountedSets
<1>5. QED
  BY <1>1, <1>2, <1>3, <1>4 DEF IInv

(* Faults stay within their bound, and what they are counted by keeps its type. *)
LEMMA FaultType ==
    ASSUME IInv
    PROVE  /\ Fault => faults' \in 0 .. MaxFaults
           /\ \A c \in Command : Lose(c) => lost' \in SUBSET Command /\ faults' \in 0 .. MaxFaults
           /\ \A c \in Command : Repeat(c) =>
                 /\ repeats' \in [Command -> Nat] /\ faults' \in 0 .. MaxFaults
                 /\ \A d \in Command : repeats'[d] = IF d = c THEN repeats[d] + 1 ELSE repeats[d]
<1>1. faults \in 0 .. MaxFaults /\ lost \in SUBSET Command /\ repeats \in [Command -> Nat]
  BY DEF IInv, TypeOK
<1>2. Fault => faults' \in 0 .. MaxFaults
  BY <1>1 DEF Fault
<1>3. ASSUME NEW c \in Command, Lose(c)
      PROVE  lost' \in SUBSET Command /\ faults' \in 0 .. MaxFaults
  BY <1>1, <1>2, <1>3 DEF Lose
<1>4. ASSUME NEW c \in Command, Repeat(c)
      PROVE  /\ repeats' \in [Command -> Nat] /\ faults' \in 0 .. MaxFaults
             /\ \A d \in Command : repeats'[d] = IF d = c THEN repeats[d] + 1 ELSE repeats[d]
  BY <1>1, <1>2, <1>4 DEF Repeat
<1>5. QED
  BY <1>2, <1>3, <1>4

(* feeding-svc puts a record on a topic that had none for the command. *)
LEMMA FeedStepInv ==
    ASSUME IInv, NEW c \in Command, Request(c) \/ Dispatch(c) \/ CancelFeed(c)
    PROVE  IInv'
<1>1. PICK topic \in Down :
          /\ down' = [down EXCEPT ![<<topic, c>>] = "pending"]
          /\ topic \in FeedTopics => down[<<topic, c>>] = "none"
  BY DEF Request, Dispatch, CancelFeed, FeedStep, Down, FeedTopics, IInv, TopicInv
<1>2. UNCHANGED <<msgs, stage, report, left, fed, up, row, told, topics, repeats, lost, faults>>
  BY DEF Request, Dispatch, CancelFeed, FeedStep, deviceVars, rowVars
<1>3. /\ down' \in [Down \X Command -> {"none", "pending", "handled", "dead"}]
      /\ \A t \in Down, d \in Command : t # topic \/ d # c => down'[<<t, d>>] = down[<<t, d>>]
      /\ down'[<<topic, c>>] = "pending"
  BY <1>1 DEF IInv, TypeOK
<1>4. TypeOK'
  BY <1>2, <1>3 DEF IInv, TypeOK, Request, Dispatch, CancelFeed, FeedStep
<1>5. MessageInv'
  BY <1>2 DEF IInv, MessageInv
<1>6. TopicInv'
  <2>1. CASE Request(c)
    BY <2>1 DEF Request, FeedStep, IInv, TypeOK, TopicInv, Down
  <2>2. CASE Dispatch(c)
    BY <2>2 DEF Dispatch, FeedStep, IInv, TypeOK, TopicInv, Down
  <2>3. CASE CancelFeed(c)
    BY <2>3 DEF CancelFeed, FeedStep, IInv, TypeOK, TopicInv, Down
  <2>4. QED
    BY <2>1, <2>2, <2>3
<1>7. \A d \in Command :
         Forwarded(d)' = Forwarded(d) /\ Sent(d)' = Sent(d) /\ ActedOn(d)' = ActedOn(d)
  BY <1>1, <1>2, <1>3 DEF Forwarded, FeedTopics, Down, Sent, ActedOn
<1>8. CountInv'
  BY <1>2, <1>7 DEF IInv, CountInv
<1>9. LevelInv'
  BY <1>2 DEF IInv, LevelInv, UpLevels, LevelsOf, Level
<1>10. QED
  BY <1>4, <1>5, <1>6, <1>8, <1>9 DEF IInv

(* The broker has a message for the device: it takes the next place, and its
   goroutine has not begun. *)
LEMMA DeliverSets ==
    ASSUME IInv, NEW m \in Message, Deliver(m)
    PROVE  /\ Len(msgs) + 1 \in 1 .. MaxMessages /\ Len(msgs) + 1 \notin DOMAIN msgs
           /\ msgs' \in Seq(Message)
           /\ Len(msgs') = Len(msgs) + 1 /\ DOMAIN msgs' = DOMAIN msgs \cup {Len(msgs) + 1}
           /\ stage' \in [1 .. MaxMessages -> Stages]
           /\ stage'[Len(msgs) + 1] = "flight"
           /\ \A i \in DOMAIN msgs : msgs'[i] = msgs[i]
           /\ \A i \in 1 .. MaxMessages : i # Len(msgs) + 1 => stage'[i] = stage[i]
           /\ \A d \in Command : ActedOn(d)' = ActedOn(d)
           /\ \A d \in Command : Sent(d)' = IF d = m.cmd /\ m.kind = "feed"
                                            THEN Sent(d) \cup {Len(msgs) + 1} ELSE Sent(d)
<1> DEFINE n == Len(msgs) + 1
<1>2. msgs \in Seq(Message) /\ Len(msgs) < MaxMessages /\ msgs' = Append(msgs, m)
  BY DEF IInv, TypeOK, Deliver
<1>3. /\ n \in 1 .. MaxMessages /\ n \notin DOMAIN msgs
      /\ msgs' \in Seq(Message) /\ Len(msgs') = n
      /\ DOMAIN msgs' = DOMAIN msgs \cup {n}
      /\ \A i \in DOMAIN msgs : msgs'[i] = msgs[i]
      /\ msgs'[n] = m
  BY <1>2
<1>4. DOMAIN msgs \subseteq 1 .. MaxMessages
  BY <1>2
<1>5. /\ stage' \in [1 .. MaxMessages -> Stages]
      /\ stage'[n] = "flight"
      /\ \A i \in 1 .. MaxMessages : i # n => stage'[i] = stage[i]
  BY <1>3 DEF IInv, TypeOK, Deliver, Stages
<1> HIDE DEF n
<1>6. \A d \in Command : Sent(d)' = IF d = m.cmd /\ m.kind = "feed"
                                    THEN Sent(d) \cup {n} ELSE Sent(d)
  BY <1>3 DEF Sent
<1>7. \A d \in Command : Sent(d) \subseteq DOMAIN msgs
  BY DEF Sent
<1>8. \A d \in Command : ActedOn(d)' = ActedOn(d)
  BY <1>3, <1>4, <1>5, <1>6, <1>7 DEF ActedOn
<1>9. QED
  BY <1>3, <1>5, <1>6, <1>8 DEF n

(* A forwarded record becomes a message of its command, a feed unless it cancels. *)
LEMMA ForwardMessage ==
    ASSUME NEW topic \in Down, NEW c \in Command, Forward(topic, c)
    PROVE  \E m \in Message : Deliver(m) /\ m.cmd = c /\ (m.kind = "feed" <=> topic \in FeedTopics)
<1> DEFINE m == [kind |-> MqttCmd(topic), cmd |-> c]
<1>1. m \in Message /\ m.cmd = c /\ (m.kind = "feed" <=> topic \in FeedTopics)
  BY DEF Message, MqttCmd, FeedTopics, Down
<1>2. Deliver(m)
  BY DEF Forward
<1> HIDE DEF m
<1>3. QED
  BY <1>1, <1>2

(* The parts of the invariant that a delivery touches whatever brought it about. *)
LEMMA DeliverInv ==
    ASSUME IInv, NEW m \in Message, Deliver(m), UNCHANGED <<report, left, up, row, told>>
    PROVE  MessageInv' /\ LevelInv'
<1>1. MessageInv'
  <2>1. PICK n : n = Len(msgs) + 1
    OBVIOUS
  <2>2. /\ n \in 1 .. MaxMessages
        /\ Len(msgs') = n /\ DOMAIN msgs' = DOMAIN msgs \cup {n}
        /\ stage'[n] = "flight"
        /\ \A i \in DOMAIN msgs : msgs'[i] = msgs[i]
        /\ \A i \in 1 .. MaxMessages : i # n => stage'[i] = stage[i]
    BY <2>1, DeliverSets
  <2>3. Len(msgs') <= MaxMessages
    BY <2>2
  <2>4. \A i \in 1 .. MaxMessages : stage'[i] # "none" => i \in DOMAIN msgs'
    BY <2>2 DEF IInv, MessageInv
  <2>5. \A i \in 1 .. MaxMessages : stage'[i] \in {"wait", "read", "tell"} => msgs'[i].kind = "feed"
    BY <2>2 DEF IInv, MessageInv
  <2>6. QED
    BY <2>3, <2>4, <2>5 DEF MessageInv
<1>2. LevelInv'
  BY DeliverSets DEF IInv, LevelInv, UpLevels, LevelsOf, Level
<1>3. QED
  BY <1>1, <1>2

(* What may become of a record: a topic once used stays used. *)
LEMMA RecordInv ==
    ASSUME IInv, NEW topic \in Down, NEW c \in Command, down[<<topic, c>>] # "none",
           NEW s \in {"pending", "handled", "dead"},
           down' = [down EXCEPT ![<<topic, c>>] = s], UNCHANGED feed
    PROVE  /\ down' \in [Down \X Command -> {"none", "pending", "handled", "dead"}]
           /\ TopicInv'
           /\ \A d \in Command : Forwarded(d)' =
                 IF d = c /\ topic \in FeedTopics
                 THEN IF s = "pending" THEN Forwarded(d) \ {topic} ELSE Forwarded(d) \cup {topic}
                 ELSE Forwarded(d)
           /\ down[<<topic, c>>] = "pending" => topic \notin Forwarded(c)
<1>1. /\ down' \in [Down \X Command -> {"none", "pending", "handled", "dead"}]
      /\ \A t \in Down, d \in Command : t # topic \/ d # c => down'[<<t, d>>] = down[<<t, d>>]
      /\ down'[<<topic, c>>] = s
  BY DEF IInv, TypeOK
<1>2. FeedTopics \subseteq Down
  BY DEF FeedTopics, Down
<1>3. TopicInv'
  <2>1. \A t \in Down, d \in Command : down[<<t, d>>] = "none" => down'[<<t, d>>] = "none"
    BY <1>1
  <2>2. {"requested", "dispatched"} \subseteq Down
    BY DEF Down
  <2>3. QED
    BY <2>1, <2>2 DEF IInv, TopicInv
<1>4. \A d \in Command : Forwarded(d)' =
          IF d = c /\ topic \in FeedTopics
          THEN IF s = "pending" THEN Forwarded(d) \ {topic} ELSE Forwarded(d) \cup {topic}
          ELSE Forwarded(d)
  BY <1>1, <1>2 DEF Forwarded
<1>5. down[<<topic, c>>] = "pending" => topic \notin Forwarded(c)
  BY DEF Forwarded
<1>6. QED
  BY <1>1, <1>3, <1>4, <1>5

(* Each message more is paid for by a record done with or by a repetition. *)
LEMMA PaidFor ==
    ASSUME IInv, NEW c \in Command, NEW n, repeats' \in [Command -> Nat], UNCHANGED fed,
           \A d \in Command : ActedOn(d)' = ActedOn(d),
           \A d \in Command : d # c =>
               /\ Sent(d)' = Sent(d) /\ Forwarded(d)' = Forwarded(d)
               /\ repeats'[d] = repeats[d],
           Sent(c)' = Sent(c) \/ Sent(c)' = Sent(c) \cup {n},
           \/ Forwarded(c)' = Forwarded(c) /\ repeats'[c] = repeats[c] + 1
           \/ /\ \E t : t \notin Forwarded(c) /\ Forwarded(c)' = Forwarded(c) \cup {t}
              /\ repeats'[c] = repeats[c]
           \/ /\ \E t : Forwarded(c)' = Forwarded(c) \ {t}
              /\ repeats'[c] = repeats[c] + 1 /\ Sent(c)' = Sent(c)
           \/ /\ Forwarded(c)' = Forwarded(c) /\ repeats'[c] = repeats[c]
              /\ Sent(c)' = Sent(c)
    PROVE  CountInv'
<1> SUFFICES ASSUME NEW d \in Command
             PROVE  /\ fed'[d] <= Cardinality(ActedOn(d)')
                    /\ Cardinality(Sent(d)') <= Cardinality(Forwarded(d)') + repeats'[d]
  BY DEF CountInv
<1>1. fed'[d] <= Cardinality(ActedOn(d)')
  BY DEF IInv, CountInv
<1>2. /\ Cardinality(Sent(d)) <= Cardinality(Forwarded(d)) + repeats[d]
      /\ repeats[d] \in Nat
  BY DEF IInv, TypeOK, CountInv
<1>3. /\ IsFiniteSet(Sent(d)) /\ Cardinality(Sent(d)) \in Nat
      /\ IsFiniteSet(Forwarded(d)) /\ Cardinality(Forwarded(d)) \in Nat
  BY CountedSets DEF IInv
<1>4. CASE d # c
  BY <1>1, <1>2, <1>4
<1>5. CASE d = c
  <2>1. /\ Cardinality(Sent(c)') \in Nat
        /\ \/ Sent(c)' = Sent(c) /\ Cardinality(Sent(c)') = Cardinality(Sent(c))
           \/ Cardinality(Sent(c)') <= Cardinality(Sent(c)) + 1
    <3>1. \/ Cardinality(Sent(c) \cup {n}) = Cardinality(Sent(c))
          \/ Cardinality(Sent(c) \cup {n}) = Cardinality(Sent(c)) + 1
      BY <1>3, <1>5, FS_AddElement
    <3>2. CASE Sent(c)' = Sent(c)
      BY <1>3, <1>5, <3>2
    <3>3. CASE Sent(c)' = Sent(c) \cup {n}
      BY <1>3, <1>5, <3>1, <3>3
    <3>4. QED
      BY <3>2, <3>3
  <2>2. Cardinality(Sent(c)') <= Cardinality(Sent(c)) + 1
    BY <1>3, <1>5, <2>1
  <2>3. CASE Forwarded(c)' = Forwarded(c) /\ repeats'[c] = repeats[c] + 1
    <3>1. Cardinality(Sent(c)') <= Cardinality(Forwarded(c)') + repeats'[c]
      BY <1>2, <1>3, <1>5, <2>1, <2>2, <2>3
    <3>2. QED
      BY <1>1, <1>5, <3>1
  <2>4. CASE /\ \E t : t \notin Forwarded(c) /\ Forwarded(c)' = Forwarded(c) \cup {t}
             /\ repeats'[c] = repeats[c]
    <3>1. PICK t : t \notin Forwarded(c) /\ Forwarded(c)' = Forwarded(c) \cup {t}
      BY <2>4
    <3>2. Cardinality(Forwarded(c) \cup {t}) = Cardinality(Forwarded(c)) + 1
      BY <1>3, <1>5, <3>1, FS_AddElement
    <3>3. Cardinality(Forwarded(c)') = Cardinality(Forwarded(c)) + 1
      BY <3>1, <3>2
    <3>4. Cardinality(Sent(c)') <= Cardinality(Forwarded(c)') + repeats'[c]
      BY <1>2, <1>3, <1>5, <2>1, <2>2, <2>4, <3>3
    <3>5. QED
      BY <1>1, <1>5, <3>4
  <2>5. CASE /\ \E t : Forwarded(c)' = Forwarded(c) \ {t}
             /\ repeats'[c] = repeats[c] + 1 /\ Sent(c)' = Sent(c)
    <3>1. PICK t : Forwarded(c)' = Forwarded(c) \ {t}
      BY <2>5
    <3>2. \/ Cardinality(Forwarded(c) \ {t}) = Cardinality(Forwarded(c))
          \/ Cardinality(Forwarded(c) \ {t}) = Cardinality(Forwarded(c)) - 1
      BY <1>3, <1>5, FS_RemoveElement
    <3>3. \/ Cardinality(Forwarded(c)') = Cardinality(Forwarded(c))
          \/ Cardinality(Forwarded(c)') = Cardinality(Forwarded(c)) - 1
      BY <3>1, <3>2
    <3>4. Cardinality(Sent(c)') <= Cardinality(Forwarded(c)') + repeats'[c]
      BY <1>2, <1>3, <1>5, <2>5, <3>3
    <3>5. QED
      BY <1>1, <1>5, <3>4
  <2>6. CASE /\ Forwarded(c)' = Forwarded(c) /\ repeats'[c] = repeats[c]
             /\ Sent(c)' = Sent(c)
    BY <1>1, <1>2, <1>5, <2>6
  <2>7. QED
    BY <2>3, <2>4, <2>5, <2>6
<1>6. QED
  BY <1>4, <1>5

(* The messages and records of other commands stay as they are. *)
LEMMA ForwardCounts ==
    ASSUME IInv, NEW topic \in Down, NEW c \in Command, Forward(topic, c)
    PROVE  /\ msgs' \in Seq(Message) /\ stage' \in [1 .. MaxMessages -> Stages]
           /\ \A d \in Command : ActedOn(d)' = ActedOn(d)
           /\ \A d \in Command : d # c => Sent(d)' = Sent(d)
           /\ Sent(c)' = IF topic \in FeedTopics THEN Sent(c) \cup {Len(msgs) + 1} ELSE Sent(c)
           /\ UNCHANGED <<report, left, up, row, told>> => MessageInv' /\ LevelInv'
<1>1. PICK m \in Message :
          Deliver(m) /\ m.cmd = c /\ (m.kind = "feed" <=> topic \in FeedTopics)
  BY ForwardMessage
<1>2. UNCHANGED <<report, left, up, row, told>> => MessageInv' /\ LevelInv'
  BY <1>1, DeliverInv
<1>3. /\ msgs' \in Seq(Message) /\ stage' \in [1 .. MaxMessages -> Stages]
      /\ \A d \in Command : ActedOn(d)' = ActedOn(d)
      /\ \A d \in Command : Sent(d)' = IF d = m.cmd /\ m.kind = "feed"
                                       THEN Sent(d) \cup {Len(msgs) + 1} ELSE Sent(d)
  BY <1>1, DeliverSets
<1>4. QED
  BY <1>1, <1>2, <1>3

(* A record is forwarded and acknowledged: one message more, one record more. *)
LEMMA HandleKafkaCmdInv ==
    ASSUME IInv, NEW topic \in Down, NEW c \in Command, HandleKafkaCmd(topic, c)
    PROVE  IInv'
<1>1. /\ Forward(topic, c) /\ down[<<topic, c>>] = "pending"
      /\ down' = [down EXCEPT ![<<topic, c>>] = "handled"]
      /\ UNCHANGED <<feed, report, left, fed, up, row, told, topics, repeats, lost, faults>>
  BY DEF HandleKafkaCmd, rowVars
<1>2. /\ MessageInv' /\ LevelInv'
      /\ msgs' \in Seq(Message) /\ stage' \in [1 .. MaxMessages -> Stages]
      /\ \A d \in Command : ActedOn(d)' = ActedOn(d)
      /\ \A d \in Command : d # c => Sent(d)' = Sent(d)
      /\ Sent(c)' = IF topic \in FeedTopics THEN Sent(c) \cup {Len(msgs) + 1} ELSE Sent(c)
  BY <1>1, ForwardCounts
<1>3. /\ down' \in [Down \X Command -> {"none", "pending", "handled", "dead"}]
      /\ TopicInv' /\ topic \notin Forwarded(c)
      /\ \A d \in Command : Forwarded(d)' = IF d = c /\ topic \in FeedTopics
                                            THEN Forwarded(d) \cup {topic} ELSE Forwarded(d)
  BY <1>1, RecordInv
<1>4. TypeOK'
  BY <1>1, <1>2, <1>3 DEF IInv, TypeOK, Stages
<1>5. repeats' \in [Command -> Nat] /\ repeats' = repeats
  BY <1>1 DEF IInv, TypeOK
<1>6. CountInv'
  <2>1. CASE topic \in FeedTopics
    BY <1>1, <1>2, <1>3, <1>5, <2>1, PaidFor
  <2>2. CASE topic \notin FeedTopics
    BY <1>1, <1>2, <1>3, <1>5, <2>2, PaidFor
  <2>3. QED
    BY <2>1, <2>2
<1>7. QED
  BY <1>2, <1>3, <1>4, <1>6 DEF IInv

(* A publish that fails late: one message more at most, one repetition more. *)
LEMMA PublishTimesOutInv ==
    ASSUME IInv, NEW topic \in Down, NEW c \in Command, PublishTimesOut(topic, c)
    PROVE  IInv'
<1>1. /\ Forward(topic, c) /\ Repeat(c)
      /\ UNCHANGED <<feed, down, report, left, fed, up, row, told, topics, lost>>
  BY DEF PublishTimesOut, rowVars
<1>2. /\ MessageInv' /\ LevelInv'
      /\ msgs' \in Seq(Message) /\ stage' \in [1 .. MaxMessages -> Stages]
      /\ \A d \in Command : ActedOn(d)' = ActedOn(d)
      /\ \A d \in Command : d # c => Sent(d)' = Sent(d)
      /\ Sent(c)' = IF topic \in FeedTopics THEN Sent(c) \cup {Len(msgs) + 1} ELSE Sent(c)
  BY <1>1, ForwardCounts
<1>3. /\ repeats' \in [Command -> Nat] /\ faults' \in 0 .. MaxFaults
      /\ \A d \in Command : repeats'[d] = IF d = c THEN repeats[d] + 1 ELSE repeats[d]
  BY <1>1, FaultType
<1>4. TypeOK'
  BY <1>1, <1>2, <1>3 DEF IInv, TypeOK, Stages
<1>5. TopicInv' /\ \A d \in Command : Forwarded(d)' = Forwarded(d)
  BY <1>1 DEF IInv, TopicInv, Forwarded
<1>6. CountInv'
  BY <1>1, <1>2, <1>3, <1>5, PaidFor
<1>7. QED
  BY <1>2, <1>4, <1>5, <1>6 DEF IInv

(* The dead-letter move: the record is done with, whether or not its message left. *)
LEMMA MoveToDlqInv ==
    ASSUME IInv, NEW topic \in Down, NEW c \in Command, MoveToDlq(topic, c)
    PROVE  IInv'
<1>1. /\ down[<<topic, c>>] = "pending"
      /\ down' = [down EXCEPT ![<<topic, c>>] = "dead"]
      /\ UNCHANGED <<feed, report, left, fed, up, row, told, topics, repeats>>
      /\ \/ Forward(topic, c) /\ Fault /\ UNCHANGED lost
         \/ UNCHANGED <<msgs, stage>> /\ Lose(c)
  BY DEF MoveToDlq, rowVars
<1>2. /\ down' \in [Down \X Command -> {"none", "pending", "handled", "dead"}]
      /\ TopicInv' /\ topic \notin Forwarded(c)
      /\ \A d \in Command : Forwarded(d)' = IF d = c /\ topic \in FeedTopics
                                            THEN Forwarded(d) \cup {topic} ELSE Forwarded(d)
  BY <1>1, RecordInv
<1>3. /\ MessageInv' /\ LevelInv'
      /\ msgs' \in Seq(Message) /\ stage' \in [1 .. MaxMessages -> Stages]
      /\ \A d \in Command : ActedOn(d)' = ActedOn(d)
      /\ \A d \in Command : d # c => Sent(d)' = Sent(d)
      /\ Sent(c)' = Sent(c) \/ (topic \in FeedTopics /\ Sent(c)' = Sent(c) \cup {Len(msgs) + 1})
  <2>1. CASE Forward(topic, c)
    BY <1>1, <2>1, ForwardCounts
  <2>2. CASE UNCHANGED <<msgs, stage>>
    BY <1>1, <2>2 DEF IInv, TypeOK, Stages, MessageInv, LevelInv, UpLevels, LevelsOf, Level,
                      Sent, ActedOn
  <2>3. QED
    BY <1>1, <2>1, <2>2
<1>4. lost' \in SUBSET Command /\ faults' \in 0 .. MaxFaults
  BY <1>1, FaultType DEF IInv, TypeOK
<1>5. TypeOK'
  BY <1>1, <1>2, <1>3, <1>4 DEF IInv, TypeOK, Stages
<1>6. repeats' \in [Command -> Nat] /\ repeats' = repeats
  BY <1>1 DEF IInv, TypeOK
<1>7. CountInv'
  <2>1. CASE topic \in FeedTopics
    BY <1>1, <1>2, <1>3, <1>6, <2>1, PaidFor
  <2>2. CASE topic \notin FeedTopics
    BY <1>1, <1>2, <1>3, <1>6, <2>2, PaidFor
  <2>3. QED
    BY <2>1, <2>2
<1>8. QED
  BY <1>2, <1>3, <1>5, <1>7 DEF IInv

(* A record comes again: one record less is done with, one repetition more. *)
LEMMA RecordAgainInv ==
    ASSUME IInv, NEW topic \in Down, NEW c \in Command, RecordAgain(topic, c)
    PROVE  IInv'
<1>1. /\ down[<<topic, c>>] # "none" /\ Repeat(c)
      /\ down' = [down EXCEPT ![<<topic, c>>] = "pending"]
      /\ UNCHANGED <<feed, msgs, stage, report, left, fed, up, row, told, topics, lost>>
  BY DEF RecordAgain, deviceVars, rowVars
<1>2. /\ down' \in [Down \X Command -> {"none", "pending", "handled", "dead"}]
      /\ TopicInv'
      /\ \A d \in Command : Forwarded(d)' = IF d = c /\ topic \in FeedTopics
                                            THEN Forwarded(d) \ {topic} ELSE Forwarded(d)
  BY <1>1, RecordInv
<1>3. /\ repeats' \in [Command -> Nat] /\ faults' \in 0 .. MaxFaults
      /\ \A d \in Command : repeats'[d] = IF d = c THEN repeats[d] + 1 ELSE repeats[d]
  BY <1>1, FaultType
<1>4. TypeOK'
  BY <1>1, <1>2, <1>3 DEF IInv, TypeOK
<1>5. MessageInv' /\ LevelInv'
  BY <1>1 DEF IInv, MessageInv, LevelInv, UpLevels, LevelsOf, Level
<1>6. \A d \in Command : Sent(d)' = Sent(d) /\ ActedOn(d)' = ActedOn(d)
  BY <1>1 DEF Sent, ActedOn
<1>7. CountInv'
  <2>1. CASE topic \in FeedTopics
    BY <1>1, <1>2, <1>3, <1>6, <2>1, PaidFor
  <2>2. CASE topic \notin FeedTopics
    BY <1>1, <1>2, <1>3, <1>6, <2>2, PaidFor
  <2>3. QED
    BY <2>1, <2>2
<1>8. QED
  BY <1>2, <1>4, <1>5, <1>7 DEF IInv

(* The broker repeats a message. *)
LEMMA MqttAgainInv == ASSUME IInv, NEW i \in 1 .. MaxMessages, MqttAgain(i) PROVE IInv'
<1>1. /\ stage[i] # "none" /\ Repeat(msgs[i].cmd) /\ Deliver(msgs[i])
      /\ UNCHANGED <<feed, down, report, left, fed, up, row, told, topics, lost>>
  BY DEF MqttAgain, rowVars
<1>2. msgs[i] \in Message
  <2>1. msgs \in Seq(Message) /\ i \in DOMAIN msgs
    BY <1>1 DEF IInv, TypeOK, MessageInv
  <2>2. QED
    BY <2>1
<1>3. PICK c \in Command : c = msgs[i].cmd
  BY <1>2 DEF Message
<1>4. /\ msgs' \in Seq(Message) /\ stage' \in [1 .. MaxMessages -> Stages]
      /\ \A d \in Command : ActedOn(d)' = ActedOn(d)
      /\ \A d \in Command : d # c => Sent(d)' = Sent(d)
      /\ Sent(c)' = Sent(c) \/ Sent(c)' = Sent(c) \cup {Len(msgs) + 1}
  <2>1. PICK m \in Message : m = msgs[i]
    BY <1>2
  <2>2. \A d \in Command : Sent(d)' = IF d = m.cmd /\ m.kind = "feed"
                                      THEN Sent(d) \cup {Len(msgs) + 1} ELSE Sent(d)
    BY <1>1, <2>1, DeliverSets
  <2>3. /\ msgs' \in Seq(Message) /\ stage' \in [1 .. MaxMessages -> Stages]
        /\ \A d \in Command : ActedOn(d)' = ActedOn(d)
    BY <1>1, <1>2, DeliverSets
  <2>4. QED
    BY <1>3, <2>1, <2>2, <2>3
<1>5. MessageInv' /\ LevelInv'
  BY <1>1, <1>2, DeliverInv
<1>6. /\ repeats' \in [Command -> Nat] /\ faults' \in 0 .. MaxFaults
      /\ \A d \in Command : repeats'[d] = IF d = c THEN repeats[d] + 1 ELSE repeats[d]
  BY <1>1, <1>3, FaultType
<1>7. TypeOK'
  BY <1>1, <1>4, <1>6 DEF IInv, TypeOK, Stages
<1>8. TopicInv' /\ \A d \in Command : Forwarded(d)' = Forwarded(d)
  BY <1>1 DEF IInv, TopicInv, Forwarded
<1>9. CountInv'
  <2>1. PICK n : n = Len(msgs) + 1
    OBVIOUS
  <2>2. Sent(c)' = Sent(c) \/ Sent(c)' = Sent(c) \cup {n}
    BY <1>4, <2>1
  <2>3. \A d \in Command : d # c =>
            /\ Sent(d)' = Sent(d) /\ Forwarded(d)' = Forwarded(d)
            /\ repeats'[d] = repeats[d]
    BY <1>4, <1>6, <1>8
  <2>4. Forwarded(c)' = Forwarded(c) /\ repeats'[c] = repeats[c] + 1
    BY <1>6, <1>8
  <2>5. (\A d \in Command : ActedOn(d)' = ActedOn(d)) /\ UNCHANGED fed
    BY <1>1, <1>4
  <2>6. QED
    BY <1>6, <2>2, <2>3, <2>4, <2>5, PaidFor
<1>10. QED
  BY <1>5, <1>7, <1>8, <1>9 DEF IInv

(* A goroutine takes a step: what was sent stays. *)
LEMMA MoveInv ==
    ASSUME IInv, NEW i \in 1 .. MaxMessages, stage[i] # "none",
           NEW s \in {"ack", "wait", "read", "tell", "end"}, Move(i, s),
           s \in {"wait", "read", "tell"} => msgs[i].kind = "feed",
           UNCHANGED <<feed, down, msgs>>
    PROVE  /\ stage' \in [1 .. MaxMessages -> Stages]
           /\ stage'[i] = s
           /\ \A j \in 1 .. MaxMessages : j # i => stage'[j] = stage[j]
           /\ i \in DOMAIN msgs /\ msgs[i] \in Message /\ DOMAIN msgs \subseteq 1 .. MaxMessages
           /\ MessageInv' /\ TopicInv'
           /\ \A d \in Command : Sent(d)' = Sent(d) /\ Forwarded(d)' = Forwarded(d)
<1>1. /\ stage' \in [1 .. MaxMessages -> Stages]
      /\ stage'[i] = s
      /\ \A j \in 1 .. MaxMessages : j # i => stage'[j] = stage[j]
  BY DEF IInv, TypeOK, Move, Stages
<1>2. i \in DOMAIN msgs /\ msgs[i] \in Message /\ DOMAIN msgs \subseteq 1 .. MaxMessages
  <2>1. msgs \in Seq(Message) /\ Len(msgs) <= MaxMessages /\ i \in DOMAIN msgs
    BY DEF IInv, TypeOK, MessageInv
  <2>2. QED
    BY <2>1
<1>3. MessageInv'
  BY <1>1, <1>2 DEF IInv, MessageInv
<1>4. TopicInv'
  BY DEF IInv, TopicInv
<1>5. \A d \in Command : Sent(d)' = Sent(d) /\ Forwarded(d)' = Forwarded(d)
  BY DEF Sent, Forwarded
<1>6. QED
  BY <1>1, <1>2, <1>3, <1>4, <1>5

(* A step of the device that dispenses nothing keeps the counts: messages it has
   done with are not taken up again. *)
LEMMA IdleMotor ==
    ASSUME IInv, UNCHANGED <<down, msgs, fed, repeats>>,
           \A j \in 1 .. MaxMessages :
               stage[j] \in {"read", "tell", "end"} => stage'[j] \in {"read", "tell", "end"}
    PROVE  CountInv'
<1> SUFFICES ASSUME NEW d \in Command
             PROVE  /\ fed'[d] <= Cardinality(ActedOn(d)')
                    /\ Cardinality(Sent(d)') <= Cardinality(Forwarded(d)') + repeats'[d]
  BY DEF CountInv
<1>1. Sent(d)' = Sent(d) /\ Forwarded(d)' = Forwarded(d)
  BY DEF Sent, Forwarded
<1>2. DOMAIN msgs \subseteq 1 .. MaxMessages
  <2>1. msgs \in Seq(Message) /\ Len(msgs) <= MaxMessages
    BY DEF IInv, TypeOK, MessageInv
  <2>2. QED
    BY <2>1
<1>3. ActedOn(d) \in SUBSET ActedOn(d)' /\ ActedOn(d)' \in SUBSET Sent(d)
  BY <1>1, <1>2 DEF ActedOn, Sent
<1>4. IsFiniteSet(Sent(d)) /\ Cardinality(ActedOn(d)) \in Nat
  BY CountedSets DEF IInv
<1>5. IsFiniteSet(ActedOn(d)')
  BY <1>3, <1>4, FS_Subset
<1>6. Cardinality(ActedOn(d)) <= Cardinality(ActedOn(d)') /\ Cardinality(ActedOn(d)') \in Nat
  BY <1>3, <1>5, FS_Subset, FS_CardinalityType
<1>7. /\ fed[d] \in Nat /\ fed[d] <= Cardinality(ActedOn(d))
      /\ Cardinality(Sent(d)) <= Cardinality(Forwarded(d)) + repeats[d]
  BY DEF IInv, TypeOK, CountInv
<1>8. fed[d] <= Cardinality(ActedOn(d)')
  BY <1>4, <1>6, <1>7
<1>9. QED
  BY <1>1, <1>7, <1>8

(* What the device says is added at the end of the queue. *)
LEMMA EmitLevels ==
    ASSUME IInv, NEW i \in DOMAIN msgs, NEW type \in {"feed_ack", "feed_done", "cancelled"},
           NEW ack \in Report, Emit(type, i, ack), UNCHANGED left,
           ack.remaining \in 0 .. FullHopper, Level(ack.remaining)
    PROVE  up' \in Seq(Event) /\ UpLevels'
<1> DEFINE e == [type |-> type, cmd |-> msgs[i].cmd, ack |-> ack, fresh |-> TRUE]
<1>1. e \in Event /\ e.ack = ack
  <2>1. msgs \in Seq(Message)
    BY DEF IInv, TypeOK
  <2>2. msgs[i] \in Message
    BY <2>1
  <2>3. QED
    BY <2>2 DEF Message, Event
<1>2. up \in Seq(Event) /\ up' = Append(up, e)
  BY DEF IInv, TypeOK, Emit
<1> HIDE DEF e
<1>3. /\ up' \in Seq(Event) /\ DOMAIN up' = DOMAIN up \cup {Len(up) + 1}
      /\ \A j \in DOMAIN up : up'[j] = up[j]
      /\ up'[Len(up) + 1] = e
  BY <1>1, <1>2
<1>4. UpLevels'
  <2>1. \A j \in DOMAIN up : LevelsOf(up[j])
    BY DEF IInv, LevelInv, UpLevels
  <2>2. LevelsOf(e)
    BY <1>1 DEF LevelsOf
  <2>3. \A x : LevelsOf(x) => LevelsOf(x)'
    BY DEF LevelsOf, Level
  <2>4. QED
    BY <1>3, <2>1, <2>2, <2>3 DEF UpLevels
<1>5. QED
  BY <1>3, <1>4

(* The level part, for steps that neither dispense nor write the row. *)
LEMMA SameLevels ==
    ASSUME IInv, UNCHANGED <<left, row, told>>, UpLevels',
           \A j \in 1 .. MaxMessages :
               /\ report'[j].remaining \in 0 .. FullHopper
               /\ stage'[j] = "tell" => Level(report'[j].remaining)
    PROVE  LevelInv'
BY DEF IInv, LevelInv, Level

(* The device receives a message, or never does. *)
LEMMA DeviceReceiveInv ==
    ASSUME IInv, NEW i \in 1 .. MaxMessages, DeviceReceive(i) PROVE IInv'
<1>1. /\ stage[i] = "flight"
      /\ UNCHANGED <<feed, down, msgs, report, left, fed, up, row, told, topics, repeats>>
  BY DEF DeviceReceive, rowVars
<1>2. PICK s \in {"ack", "end"} :
          Move(i, s) /\ (UNCHANGED <<lost, faults>> \/ Lose(msgs[i].cmd))
  BY DEF DeviceReceive, NoFault
<1>3. /\ stage' \in [1 .. MaxMessages -> Stages]
      /\ stage'[i] = s /\ msgs[i] \in Message
      /\ \A j \in 1 .. MaxMessages : j # i => stage'[j] = stage[j]
      /\ MessageInv' /\ TopicInv'
  BY <1>1, <1>2, MoveInv
<1>4. lost' \in SUBSET Command /\ faults' \in 0 .. MaxFaults
  <2>1. msgs[i].cmd \in Command
    BY <1>3 DEF Message
  <2>2. QED
    BY <1>2, <2>1, FaultType DEF IInv, TypeOK
<1>5. TypeOK'
  BY <1>1, <1>3, <1>4 DEF IInv, TypeOK, Stages
<1>6. CountInv'
  BY <1>1, <1>3, IdleMotor
<1>7. LevelInv'
  BY <1>1, <1>3 DEF IInv, LevelInv, UpLevels, LevelsOf, Level
<1>8. QED
  BY <1>3, <1>5, <1>6, <1>7 DEF IInv

(* A feed is acknowledged, or the acknowledgement fails: it carries no level. *)
LEMMA FeedAckInv == ASSUME IInv, NEW i \in 1 .. MaxMessages, FeedAck(i) PROVE IInv'
<1>1. /\ stage[i] = "ack" /\ msgs[i].kind = "feed"
      /\ UNCHANGED <<feed, down, msgs, report, left, fed, row, told, topics, repeats>>
  BY DEF FeedAck, rowVars
<1>2. PICK s \in {"wait", "end"} :
          /\ Move(i, s)
          /\ Emit("feed_ack", i, NoReport) \/ UNCHANGED up
          /\ UNCHANGED <<lost, faults>> \/ (UNCHANGED lost /\ Fault) \/ Lose(msgs[i].cmd)
  BY DEF FeedAck, NoFault
<1>3. /\ stage' \in [1 .. MaxMessages -> Stages]
      /\ stage'[i] = s /\ i \in DOMAIN msgs /\ msgs[i] \in Message
      /\ \A j \in 1 .. MaxMessages : j # i => stage'[j] = stage[j]
      /\ MessageInv' /\ TopicInv'
  BY <1>1, <1>2, MoveInv
<1>4. NoReport \in Report /\ NoReport.remaining \in 0 .. FullHopper /\ Level(NoReport.remaining)
  BY DEF Report, NoReport, Level
<1>5. up' \in Seq(Event) /\ UpLevels'
  <2>1. CASE Emit("feed_ack", i, NoReport)
    BY <1>1, <1>3, <1>4, <2>1, EmitLevels
  <2>2. CASE UNCHANGED up
    BY <1>1, <2>2 DEF IInv, TypeOK, LevelInv, UpLevels, LevelsOf, Level
  <2>3. QED
    BY <1>2, <2>1, <2>2
<1>6. lost' \in SUBSET Command /\ faults' \in 0 .. MaxFaults
  <2>1. msgs[i].cmd \in Command
    BY <1>3 DEF Message
  <2>2. QED
    BY <1>2, <2>1, FaultType DEF IInv, TypeOK
<1>7. TypeOK'
  BY <1>1, <1>3, <1>5, <1>6 DEF IInv, TypeOK, Stages
<1>8. CountInv'
  BY <1>1, <1>3, IdleMotor
<1>9. LevelInv'
  BY <1>1, <1>3, <1>5, SameLevels DEF IInv, LevelInv
<1>10. QED
  BY <1>3, <1>7, <1>8, <1>9 DEF IInv

(* The food level is read: it is the level of this moment. *)
LEMMA ReadRemainingInv == ASSUME IInv, NEW i \in 1 .. MaxMessages, ReadRemaining(i) PROVE IInv'
<1>1. /\ stage[i] = "read" /\ Move(i, "tell") /\ msgs[i].kind = "feed"
      /\ report' = [report EXCEPT ![i].remaining = left]
      /\ UNCHANGED <<feed, down, msgs, left, fed, up, row, told, topics, repeats, lost, faults>>
  BY DEF ReadRemaining, IInv, MessageInv, rowVars
<1>2. /\ stage' \in [1 .. MaxMessages -> Stages]
      /\ stage'[i] = "tell"
      /\ \A j \in 1 .. MaxMessages : j # i => stage'[j] = stage[j]
      /\ MessageInv' /\ TopicInv'
  BY <1>1, MoveInv
<1>3. /\ report' \in [1 .. MaxMessages -> Report]
      /\ report'[i].remaining = left
      /\ \A j \in 1 .. MaxMessages : j # i => report'[j] = report[j]
  <2>1. report \in [1 .. MaxMessages -> Report] /\ left \in Nat
    BY DEF IInv, TypeOK
  <2>2. report[i] \in Report
    BY <2>1
  <2>3. /\ [report[i] EXCEPT !.remaining = left] \in Report
        /\ [report[i] EXCEPT !.remaining = left].remaining = left
    BY <2>1, <2>2 DEF Report
  <2>4. QED
    BY <1>1, <2>1, <2>3
<1>4. TypeOK'
  BY <1>1, <1>2, <1>3 DEF IInv, TypeOK, Stages
<1>5. CountInv'
  BY <1>1, <1>2, IdleMotor
<1>6. left \in 0 .. FullHopper
  BY DEF IInv, TypeOK
<1>7. LevelInv'
  BY <1>1, <1>2, <1>3, <1>6 DEF IInv, LevelInv, UpLevels, LevelsOf, Level
<1>8. QED
  BY <1>2, <1>4, <1>5, <1>7 DEF IInv

(* The result is reported with the level read before, or is lost. *)
LEMMA FeedDoneInv == ASSUME IInv, NEW i \in 1 .. MaxMessages, FeedDone(i) PROVE IInv'
<1>1. /\ stage[i] = "tell" /\ Move(i, "end") /\ msgs[i].kind = "feed"
      /\ Emit("feed_done", i, report[i]) \/ UNCHANGED up
      /\ UNCHANGED <<lost, faults>> \/ Lose(msgs[i].cmd)
      /\ report' = [report EXCEPT ![i] = NoReport]
      /\ UNCHANGED <<feed, down, msgs, left, fed, row, told, topics, repeats>>
  BY DEF FeedDone, IInv, MessageInv, NoFault, rowVars
<1>2. /\ stage' \in [1 .. MaxMessages -> Stages]
      /\ stage'[i] = "end" /\ i \in DOMAIN msgs /\ msgs[i] \in Message
      /\ \A j \in 1 .. MaxMessages : j # i => stage'[j] = stage[j]
      /\ MessageInv' /\ TopicInv'
  BY <1>1, MoveInv
<1>3. /\ report[i] \in Report /\ Level(report[i].remaining)
      /\ report[i].remaining \in 0 .. FullHopper
  BY <1>1 DEF IInv, TypeOK, LevelInv
<1>4. up' \in Seq(Event) /\ UpLevels'
  <2>1. CASE Emit("feed_done", i, report[i])
    BY <1>1, <1>2, <1>3, <2>1, EmitLevels
  <2>2. CASE UNCHANGED up
    BY <1>1, <2>2 DEF IInv, TypeOK, LevelInv, UpLevels, LevelsOf, Level
  <2>3. QED
    BY <1>1, <2>1, <2>2
<1>5. lost' \in SUBSET Command /\ faults' \in 0 .. MaxFaults
  <2>1. msgs[i].cmd \in Command
    BY <1>2 DEF Message
  <2>2. QED
    BY <1>1, <2>1, FaultType DEF IInv, TypeOK
<1>6. NoReport \in Report /\ NoReport.remaining = 0
  BY DEF Report, NoReport
<1>7. /\ report' \in [1 .. MaxMessages -> Report]
      /\ report'[i] = NoReport
      /\ \A j \in 1 .. MaxMessages : j # i => report'[j] = report[j]
  BY <1>1, <1>6 DEF IInv, TypeOK
<1>8. TypeOK'
  BY <1>1, <1>2, <1>4, <1>5, <1>7 DEF IInv, TypeOK, Stages
<1>9. CountInv'
  BY <1>1, <1>2, IdleMotor
<1>10. LevelInv'
  BY <1>1, <1>2, <1>4, <1>6, <1>7, SameLevels DEF IInv, LevelInv
<1>11. QED
  BY <1>2, <1>8, <1>9, <1>10 DEF IInv

(* A cancellation is confirmed or ignored. *)
LEMMA DeviceCancelInv == ASSUME IInv, NEW i \in 1 .. MaxMessages, DeviceCancel(i) PROVE IInv'
<1> DEFINE ack == [status |-> "cancelled", remaining |-> 0]
<1>1. /\ stage[i] = "ack" /\ Move(i, "end") /\ msgs[i].kind = "cancel"
      /\ Emit("cancelled", i, ack) \/ UNCHANGED up
      /\ UNCHANGED <<feed, down, msgs, report, left, fed, row, told, topics, repeats, lost, faults>>
  BY DEF DeviceCancel, rowVars
<1>2. /\ stage' \in [1 .. MaxMessages -> Stages]
      /\ stage'[i] = "end" /\ i \in DOMAIN msgs
      /\ \A j \in 1 .. MaxMessages : j # i => stage'[j] = stage[j]
      /\ MessageInv' /\ TopicInv'
  BY <1>1, MoveInv
<1>3. ack \in Report /\ ack.remaining \in 0 .. FullHopper /\ Level(ack.remaining)
  BY DEF Report, Level
<1> HIDE DEF ack
<1>4. up' \in Seq(Event) /\ UpLevels'
  <2>1. CASE Emit("cancelled", i, ack)
    BY <1>1, <1>2, <1>3, <2>1, EmitLevels
  <2>2. CASE UNCHANGED up
    BY <1>1, <2>2 DEF IInv, TypeOK, LevelInv, UpLevels, LevelsOf, Level
  <2>3. QED
    BY <1>1, <2>1, <2>2
<1>5. TypeOK'
  BY <1>1, <1>2, <1>4 DEF IInv, TypeOK, Stages
<1>6. CountInv'
  BY <1>1, <1>2, IdleMotor
<1>7. LevelInv'
  BY <1>1, <1>2, <1>4, SameLevels DEF IInv, LevelInv
<1>8. QED
  BY <1>2, <1>5, <1>6, <1>7 DEF IInv

(* The hopper only loses food. *)
LEMMA DispensedLevel ==
    ASSUME left \in 0 .. FullHopper, NEW grams \in Nat
    PROVE  Dispensed(grams) \in 0 .. FullHopper /\ Dispensed(grams) <= left
BY DEF Dispensed

(* The motor turns, or jams: one message more is acted on, one feed more at most. *)
LEMMA FeedInv == ASSUME IInv, NEW i \in 1 .. MaxMessages, Feed(i) PROVE IInv'
<1>1. /\ stage[i] = "wait" /\ Move(i, "read") /\ msgs[i].kind = "feed"
      /\ UNCHANGED <<feed, down, msgs, up, row, told, topics, repeats, lost, faults>>
  BY DEF Feed, IInv, MessageInv, rowVars
<1>2. /\ stage' \in [1 .. MaxMessages -> Stages]
      /\ stage'[i] = "read" /\ i \in DOMAIN msgs /\ msgs[i] \in Message
      /\ DOMAIN msgs \subseteq 1 .. MaxMessages
      /\ \A j \in 1 .. MaxMessages : j # i => stage'[j] = stage[j]
      /\ MessageInv' /\ TopicInv'
      /\ \A d \in Command : Sent(d)' = Sent(d) /\ Forwarded(d)' = Forwarded(d)
  BY <1>1, MoveInv
<1>3. PICK c \in Command : c = msgs[i].cmd
  BY <1>2 DEF Message
<1>4. PICK failed \in BOOLEAN :
          /\ report' = [report EXCEPT ![i].status = IF failed THEN "failed" ELSE "succeeded"]
          /\ left' = IF failed THEN left ELSE Dispensed(Grams[c])
          /\ fed' = [fed EXCEPT ![c] = IF failed THEN @ ELSE @ + 1]
  BY <1>3 DEF Feed
<1>5. /\ report' \in [1 .. MaxMessages -> Report]
      /\ \A j \in 1 .. MaxMessages : report'[j].remaining = report[j].remaining
  <2> DEFINE st == IF failed THEN "failed" ELSE "succeeded"
  <2>1. report \in [1 .. MaxMessages -> Report]
    BY DEF IInv, TypeOK
  <2>2. st \in {"acked", "succeeded", "failed", "cancelled"} /\ report[i] \in Report
    BY <2>1
  <2>3. report' = [report EXCEPT ![i].status = st]
    BY <1>4
  <2> HIDE DEF st
  <2>4. /\ [report[i] EXCEPT !.status = st] \in Report
        /\ [report[i] EXCEPT !.status = st].remaining = report[i].remaining
    BY <2>2 DEF Report
  <2>5. QED
    BY <2>1, <2>3, <2>4
<1>6. left \in 0 .. FullHopper /\ left' \in 0 .. FullHopper /\ left' <= left
  <2>1. left \in 0 .. FullHopper /\ Grams[c] \in Nat
    BY <1>3 DEF IInv, TypeOK
  <2>2. QED
    BY <1>4, <2>1, DispensedLevel
<1>7. /\ fed' \in [Command -> Nat]
      /\ \A d \in Command : d # c => fed'[d] = fed[d]
      /\ fed'[c] <= fed[c] + 1
  <2>1. fed \in [Command -> Nat]
    BY DEF IInv, TypeOK
  <2>2. PICK n \in Nat : n = (IF failed THEN fed[c] ELSE fed[c] + 1)
    BY <2>1
  <2>3. fed' = [fed EXCEPT ![c] = n]
    BY <1>4, <2>2
  <2>4. QED
    BY <2>1, <2>2, <2>3
<1>8. TypeOK'
  BY <1>1, <1>2, <1>5, <1>6, <1>7 DEF IInv, TypeOK, Stages
<1>9. LevelInv'
  <2>1. (told => left <= row) /\ left \in Nat /\ left' \in Nat /\ row \in Nat
    BY <1>6 DEF IInv, LevelInv, TypeOK
  <2>2. told' => left' <= row'
    BY <1>1, <1>6, <2>1
  <2>3. \A n \in Nat : Level(n) => Level(n)'
    BY <1>6, <2>1 DEF Level
  <2>4. UpLevels'
    <3>1. \A j \in DOMAIN up : LevelsOf(up[j])
      BY DEF IInv, LevelInv, UpLevels
    <3>2. \A x : LevelsOf(x) => LevelsOf(x)'
      BY <2>3 DEF LevelsOf
    <3>3. QED
      BY <1>1, <3>1, <3>2 DEF UpLevels
  <2>5. \A j \in 1 .. MaxMessages : stage'[j] = "tell" => stage[j] = "tell"
    BY <1>2
  <2>6. \A j \in 1 .. MaxMessages : report[j].remaining \in Nat
    BY DEF IInv, LevelInv
  <2>7. QED
    BY <1>5, <2>2, <2>3, <2>4, <2>5, <2>6 DEF IInv, LevelInv
<1>10. /\ ActedOn(c)' = ActedOn(c) \cup {i} /\ i \notin ActedOn(c)
       /\ \A d \in Command : d # c => ActedOn(d)' = ActedOn(d)
  BY <1>1, <1>2, <1>3 DEF ActedOn, Sent
<1>11. CountInv'
  <2> SUFFICES ASSUME NEW d \in Command
               PROVE  /\ fed'[d] <= Cardinality(ActedOn(d)')
                      /\ Cardinality(Sent(d)') <= Cardinality(Forwarded(d)') + repeats'[d]
    BY DEF CountInv
  <2>1. Cardinality(Sent(d)') <= Cardinality(Forwarded(d)') + repeats'[d]
    BY <1>1, <1>2 DEF IInv, CountInv
  <2>2. CASE d = c
    <3>1. IsFiniteSet(ActedOn(c)) /\ Cardinality(ActedOn(c)) \in Nat
      BY <1>3, CountedSets DEF IInv
    <3>2. Cardinality(ActedOn(c) \cup {i}) = Cardinality(ActedOn(c)) + 1
      BY <1>10, <3>1, FS_AddElement
    <3>3. fed[c] \in Nat /\ fed'[c] \in Nat /\ fed[c] <= Cardinality(ActedOn(c))
      BY <1>3, <1>7 DEF IInv, TypeOK, CountInv
    <3>4. fed'[c] <= Cardinality(ActedOn(c)) + 1
      BY <1>7, <3>1, <3>3
    <3>5. QED
      BY <1>10, <2>1, <2>2, <3>2, <3>4
  <2>3. CASE d # c
    BY <1>7, <1>10, <2>1, <2>3 DEF IInv, CountInv
  <2>4. QED
    BY <2>2, <2>3
<1>12. QED
  BY <1>2, <1>8, <1>9, <1>11 DEF IInv

(* The feeder starts again: nothing it has done with is taken up again, and what
   it said before binds nobody. *)
LEMMA DeviceRestartInv == ASSUME IInv, DeviceRestart PROVE IInv'
<1>1. /\ Fault
      /\ stage' = [i \in 1 .. MaxMessages |-> IF i \in Running THEN "end" ELSE stage[i]]
      /\ report' = [i \in 1 .. MaxMessages |-> NoReport]
      /\ lost' = lost \cup {msgs[i].cmd : i \in Running}
      /\ left' \in StartLevels
      /\ up' = [j \in DOMAIN up |-> [up[j] EXCEPT !.fresh = FALSE]]
      /\ told' = FALSE
      /\ UNCHANGED <<feed, down, msgs, fed, row, topics, repeats>>
  BY DEF DeviceRestart
<1>2. /\ stage' \in [1 .. MaxMessages -> Stages]
      /\ \A i \in 1 .. MaxMessages : stage'[i] = "end" \/ stage'[i] = stage[i]
      /\ \A i \in 1 .. MaxMessages : stage'[i] = "end" => stage[i] # "none"
      /\ \A i \in 1 .. MaxMessages : stage'[i] \notin {"ack", "wait", "read", "tell"}
  BY <1>1 DEF IInv, TypeOK, Stages, Running
<1>3. left' \in 0 .. FullHopper
  BY <1>1 DEF StartLevels
<1>4. lost' \in SUBSET Command
  <2>1. \A i \in Running : msgs[i] \in Message
    <3>1. msgs \in Seq(Message)
      BY DEF IInv, TypeOK
    <3>2. \A i \in Running : i \in DOMAIN msgs
      BY DEF IInv, MessageInv, Running
    <3>3. QED
      BY <3>1, <3>2
  <2>2. \A i \in Running : msgs[i].cmd \in Command
    BY <2>1 DEF Message
  <2>3. lost \in SUBSET Command
    BY DEF IInv, TypeOK
  <2>4. QED
    BY <1>1, <2>2, <2>3
<1>5. /\ up' \in Seq(Event)
      /\ DOMAIN up' = DOMAIN up
      /\ \A j \in DOMAIN up : up'[j].ack = up[j].ack /\ up'[j].fresh = FALSE
  <2>1. up \in Seq(Event)
    BY DEF IInv, TypeOK
  <2>2. \A j \in DOMAIN up : up[j] \in Event
    BY <2>1
  <2>3. \A j \in DOMAIN up : /\ [up[j] EXCEPT !.fresh = FALSE] \in Event
                             /\ [up[j] EXCEPT !.fresh = FALSE].ack = up[j].ack
                             /\ [up[j] EXCEPT !.fresh = FALSE].fresh = FALSE
    BY <2>2 DEF Event
  <2>4. Len(up) \in Nat /\ DOMAIN up = 1 .. Len(up)
    BY <2>1
  <2>5. up' \in [1 .. Len(up) -> Event]
    BY <1>1, <2>3, <2>4
  <2>6. up' \in Seq(Event)
    BY <2>4, <2>5
  <2>7. QED
    BY <1>1, <2>3, <2>6
<1>6. NoReport \in Report /\ NoReport.remaining = 0
  BY DEF Report, NoReport
<1>7. report' \in [1 .. MaxMessages -> Report] /\ faults' \in 0 .. MaxFaults /\ told' \in BOOLEAN
  BY <1>1, <1>6, FaultType
<1>8. TypeOK'
  BY <1>1, <1>2, <1>3, <1>4, <1>5, <1>7 DEF IInv, TypeOK, Stages
<1>9. MessageInv' /\ TopicInv'
  BY <1>1, <1>2 DEF IInv, MessageInv, TopicInv
<1>10. CountInv'
  <2>1. \A j \in 1 .. MaxMessages :
            stage[j] \in {"read", "tell", "end"} => stage'[j] \in {"read", "tell", "end"}
    BY <1>2
  <2>2. QED
    BY <1>1, <2>1, IdleMotor
<1>11. LevelInv'
  <2>1. UpLevels'
    BY <1>5 DEF IInv, LevelInv, UpLevels, LevelsOf
  <2>2. \A i \in 1 .. MaxMessages : report'[i].remaining = 0 /\ stage'[i] # "tell"
    BY <1>1, <1>2, <1>6
  <2>3. QED
    BY <1>1, <2>1, <2>2 DEF LevelInv
<1>12. QED
  BY <1>8, <1>9, <1>10, <1>11 DEF IInv

(* The parts of the invariant that no event touches. *)
LEMMA EventInv ==
    ASSUME IInv, UNCHANGED <<feed, down, msgs, stage, report, left, fed, repeats>>
    PROVE  MessageInv' /\ TopicInv' /\ CountInv'
<1>1. MessageInv' /\ TopicInv'
  BY DEF IInv, MessageInv, TopicInv
<1>2. CountInv'
  BY DEF IInv, CountInv, Sent, ActedOn, Forwarded
<1>3. QED
  BY <1>1, <1>2

(* The next event, and the queue without it. *)
LEMMA HeadAndTail ==
    ASSUME IInv, up # <<>>
    PROVE  /\ Head(up) \in Event /\ Head(up).cmd \in Command
           /\ LevelsOf(Head(up))
           /\ Tail(up) \in Seq(Event)
           /\ \A j \in DOMAIN Tail(up) : LevelsOf(Tail(up)[j])
<1>1. up \in Seq(Event)
  BY DEF IInv, TypeOK
<1>2. /\ Head(up) \in Event /\ Head(up) = up[1] /\ 1 \in DOMAIN up
      /\ Tail(up) \in Seq(Event)
      /\ \A j \in DOMAIN Tail(up) : j + 1 \in DOMAIN up /\ Tail(up)[j] = up[j + 1]
  BY <1>1
<1>3. Head(up).cmd \in Command
  BY <1>2 DEF Event
<1>4. QED
  BY <1>2, <1>3 DEF IInv, LevelInv, UpLevels

(* A level from this feeder is not below the hopper's. *)
LEMMA MarkOnlineInv ==
    ASSUME IInv, NEW e \in Event, LevelsOf(e), UNCHANGED left,
           MarkOnline(e) \/ UNCHANGED rowVars
    PROVE  row' \in 0 .. FullHopper /\ told' \in BOOLEAN /\ (told' => left' <= row')
<1>1. row \in 0 .. FullHopper /\ told \in BOOLEAN /\ (told => left <= row)
  BY DEF IInv, TypeOK, LevelInv
<1>2. CASE UNCHANGED rowVars
  BY <1>1, <1>2 DEF rowVars
<1>3. CASE e.ack.remaining > 0 /\ row' = e.ack.remaining /\ told' = e.fresh
  <2>1. e.fresh \in BOOLEAN
    BY DEF Event
  <2>2. e.ack.remaining \in 0 .. FullHopper /\ (e.fresh => left <= e.ack.remaining)
    BY <1>3 DEF LevelsOf, Level
  <2>3. QED
    BY <1>3, <2>1, <2>2
<1>4. QED
  BY <1>2, <1>3 DEF MarkOnline

(* An event is published on one of the three topics. *)
LEMMA TopicsType ==
    ASSUME IInv, NEW e \in Event,
           topics' = [topics EXCEPT ![e.cmd] = @ \cup {KafkaTopic(e)}] \/ UNCHANGED topics
    PROVE  topics' \in [Command -> SUBSET {"acked", "completed", "cancelled_acked"}]
<1>1. KafkaTopic(e) \in {"acked", "completed", "cancelled_acked"}
  BY DEF KafkaTopic
<1>2. topics \in [Command -> SUBSET {"acked", "completed", "cancelled_acked"}]
  BY DEF IInv, TypeOK
<1>3. e.cmd \in Command
  BY DEF Event
<1>4. topics[e.cmd] \cup {KafkaTopic(e)} \in SUBSET {"acked", "completed", "cancelled_acked"}
  BY <1>1, <1>2, <1>3
<1>5. QED
  BY <1>2, <1>3, <1>4

(* The bridge handles an event, with or without a failing call, or never gets it. *)
LEMMA UplinkInv == ASSUME IInv, Uplink PROVE IInv'
<1> DEFINE e == Head(up)
<1>1. /\ up # <<>> /\ up' = Tail(up)
      /\ UNCHANGED <<feed, down, msgs, stage, report, left, fed, repeats>>
  BY DEF Uplink, HandleMqttEvent, HandleMqttEventFails, LoseEvent, deviceVars
<1>2. /\ e \in Event /\ e.cmd \in Command /\ LevelsOf(e)
      /\ up' \in Seq(Event) /\ \A j \in DOMAIN up' : LevelsOf(up'[j])
  BY <1>1, HeadAndTail
<1>3. /\ MarkOnline(e) \/ UNCHANGED rowVars
      /\ topics' = [topics EXCEPT ![e.cmd] = @ \cup {KafkaTopic(e)}] \/ UNCHANGED topics
      /\ UNCHANGED <<lost, faults>> \/ (UNCHANGED lost /\ Fault) \/ Lose(e.cmd)
  <2>1. CASE HandleMqttEvent
    BY <2>1 DEF HandleMqttEvent, NoFault
  <2>2. CASE HandleMqttEventFails
    BY <2>2 DEF HandleMqttEventFails, rowVars
  <2>3. CASE LoseEvent
    BY <2>3 DEF LoseEvent
  <2>4. QED
    BY <2>1, <2>2, <2>3 DEF Uplink
<1> HIDE DEF e
<1>4. row' \in 0 .. FullHopper /\ told' \in BOOLEAN /\ (told' => left' <= row')
  BY <1>1, <1>2, <1>3, MarkOnlineInv
<1>5. topics' \in [Command -> SUBSET {"acked", "completed", "cancelled_acked"}]
  BY <1>2, <1>3, TopicsType
<1>6. lost' \in SUBSET Command /\ faults' \in 0 .. MaxFaults
  BY <1>2, <1>3, FaultType DEF IInv, TypeOK
<1>7. TypeOK'
  BY <1>1, <1>2, <1>4, <1>5, <1>6 DEF IInv, TypeOK
<1>8. MessageInv' /\ TopicInv' /\ CountInv'
  BY <1>1, EventInv
<1>9. LevelInv'
  <2>1. UpLevels'
    BY <1>1, <1>2 DEF UpLevels, LevelsOf, Level
  <2>2. QED
    BY <1>1, <1>4, <2>1 DEF IInv, LevelInv, Level
<1>10. QED
  BY <1>7, <1>8, <1>9 DEF IInv

(* The broker repeats an event: an old level of this feeder is still no less than
   what the hopper holds. *)
LEMMA EventAgainInv == ASSUME IInv, EventAgain PROVE IInv'
<1> DEFINE e == Head(up)
<1>1. /\ up # <<>> /\ Fault /\ up' = Append(up, e)
      /\ UNCHANGED <<feed, down, msgs, stage, report, left, fed, row, told, topics, repeats, lost>>
  BY DEF EventAgain, deviceVars, rowVars
<1>2. e \in Event /\ LevelsOf(e)
  BY <1>1, HeadAndTail
<1>3. up \in Seq(Event)
  BY DEF IInv, TypeOK
<1> HIDE DEF e
<1>4. /\ up' \in Seq(Event) /\ DOMAIN up' = DOMAIN up \cup {Len(up) + 1}
      /\ \A j \in DOMAIN up : up'[j] = up[j]
      /\ up'[Len(up) + 1] = e
  BY <1>1, <1>2, <1>3
<1>5. faults' \in 0 .. MaxFaults
  BY <1>1, FaultType
<1>6. TypeOK'
  BY <1>1, <1>4, <1>5 DEF IInv, TypeOK
<1>7. MessageInv' /\ TopicInv' /\ CountInv'
  BY <1>1, EventInv
<1>8. LevelInv'
  <2>1. \A j \in DOMAIN up' : LevelsOf(up'[j])
    BY <1>2, <1>4 DEF IInv, LevelInv, UpLevels
  <2>2. UpLevels'
    BY <1>1, <2>1 DEF UpLevels, LevelsOf, Level
  <2>3. QED
    BY <1>1, <2>2 DEF IInv, LevelInv, Level
<1>9. QED
  BY <1>6, <1>7, <1>8 DEF IInv

(* Every step of feeding-svc, the bridge, the brokers and the feeder keeps the
   invariant. *)
LEMMA NextInv == IInv /\ [Next]_vars => IInv'
<1> SUFFICES ASSUME IInv, [Next]_vars PROVE IInv'
  OBVIOUS
<1>1. ASSUME NEW c \in Command, Request(c) \/ Dispatch(c) \/ CancelFeed(c) PROVE IInv'
  BY <1>1, FeedStepInv
<1>2. ASSUME NEW topic \in Down, NEW c \in Command, Bridge(topic, c) \/ RecordAgain(topic, c)
      PROVE  IInv'
  BY <1>2, HandleKafkaCmdInv, PublishTimesOutInv, MoveToDlqInv, RecordAgainInv DEF Bridge
<1>3. ASSUME NEW i \in 1 .. MaxMessages, Goroutine(i) \/ MqttAgain(i) PROVE IInv'
  BY <1>3, DeviceReceiveInv, FeedAckInv, FeedInv, ReadRemainingInv, FeedDoneInv,
     DeviceCancelInv, MqttAgainInv DEF Goroutine
<1>4. CASE DeviceRestart
  BY <1>4, DeviceRestartInv
<1>5. CASE Uplink \/ EventAgain
  BY <1>5, UplinkInv, EventAgainInv
<1>6. CASE UNCHANGED vars
  <2>1. UNCHANGED <<feed, down, msgs, stage, report, left, fed, up, row, told, topics,
                    repeats, lost, faults>>
    BY <1>6 DEF vars
  <2>2. TypeOK'
    BY <2>1 DEF IInv, TypeOK
  <2>3. LevelInv'
    BY <2>1 DEF IInv, LevelInv, UpLevels, LevelsOf, Level
  <2>4. MessageInv' /\ TopicInv' /\ CountInv'
    BY <2>1, EventInv
  <2>5. QED
    BY <2>2, <2>3, <2>4 DEF IInv
<1>7. QED
  BY <1>1, <1>2, <1>3, <1>4, <1>5, <1>6 DEF Next

(* The invariant holds in every reachable state. *)
THEOREM BridgeInvariance == Spec => []IInv
<1>1. Init => IInv
  BY InitInv
<1>2. IInv /\ [Next]_vars => IInv'
  BY NextInv
<1>3. QED
  BY <1>1, <1>2, PTL DEF Spec

(* The state of the bridge and the feeder keeps its type: neither the hopper nor
   the row leaves 0 .. FullHopper. *)
THEOREM BridgeTypeCorrect == Spec => []TypeOK
<1>1. IInv => TypeOK
  BY DEF IInv
<1>2. QED
  BY <1>1, BridgeInvariance, PTL

(* The feeder dispenses for a command at most once for each record that asked for
   it and each repetition of a record or message of that command, although records
   and messages are repeated, lost and delayed and the feeder restarts, for any
   number of goroutines. *)
THEOREM BridgeAddsNoFeeds == Spec => []FeedsAreAskedFor
<1>1. IInv => FeedsAreAskedFor
  <2> SUFFICES ASSUME IInv, NEW c \in Command
               PROVE  fed[c] <= Cardinality({t \in {"requested", "dispatched"} :
                                                 down[<<t, c>>] # "none"}) + repeats[c]
    BY DEF FeedsAreAskedFor
  <2> DEFINE Asked == {t \in {"requested", "dispatched"} : down[<<t, c>>] # "none"}
  <2>1. IsFiniteSet(Asked)
    <3>1. IsFiniteSet({} \cup {"requested"})
      BY FS_EmptySet, FS_AddElement
    <3>2. IsFiniteSet(({} \cup {"requested"}) \cup {"dispatched"})
      BY <3>1, FS_AddElement
    <3>3. Asked \in SUBSET (({} \cup {"requested"}) \cup {"dispatched"})
      OBVIOUS
    <3>4. QED
      BY <3>2, <3>3, FS_Subset
  <2>2. Forwarded(c) \in SUBSET Asked
    BY DEF Forwarded, FeedTopics
  <2> HIDE DEF Asked
  <2>3. Cardinality(Forwarded(c)) <= Cardinality(Asked) /\ Cardinality(Asked) \in Nat
    BY <2>1, <2>2, FS_Subset, FS_CardinalityType
  <2>4. /\ Cardinality(Sent(c)) \in Nat /\ Cardinality(ActedOn(c)) \in Nat
        /\ Cardinality(ActedOn(c)) <= Cardinality(Sent(c)) /\ Cardinality(Forwarded(c)) \in Nat
    BY CountedSets DEF IInv
  <2>5. /\ fed[c] \in Nat /\ repeats[c] \in Nat /\ fed[c] <= Cardinality(ActedOn(c))
        /\ Cardinality(Sent(c)) <= Cardinality(Forwarded(c)) + repeats[c]
    BY DEF IInv, TypeOK, CountInv
  <2>6. fed[c] <= Cardinality(Asked) + repeats[c]
    BY <2>3, <2>4, <2>5
  <2>7. QED
    BY <2>6 DEF Asked
<1>2. QED
  BY <1>1, BridgeInvariance, PTL

(* Once the running feeder has written the row it never shows less food than the
   hopper holds, whatever level the feeder started with, in whatever order its
   reports arrive, are repeated or are lost. *)
THEOREM RowBoundsHopper == Spec => []RowIsUpperBound
<1>1. IInv => RowIsUpperBound
  BY DEF IInv, LevelInv, RowIsUpperBound
<1>2. QED
  BY <1>1, BridgeInvariance, PTL

-----------------------------------------------------------------------------
(* The registry of device-svc, and the rooms of room-svc kept in the same way.
   The theorems rest on CatalogueAssumption alone. *)

(* What a PATCH body may carry *)
Patchable == IF table = "devices" THEN DevicePatch ELSE RoomPatch

CatOps == {"register", "create", "bind", "unbind", "status", "firmware", "ack", "heartbeat",
           "rotate", "update", "issue", "subscribe"}
AnyRow == {None} \cup [DeviceFields -> Nat] \cup [RoomFields -> Nat]
Copies == [Stores -> AnyRow]
CatRequest ==
    [op : CatOps, sets : SUBSET (DeviceFields \cup RoomFields),
     private : BOOLEAN, guest : BOOLEAN, read : Nat, wrote : Nat,
     copy : {None} \cup Copies, on : SUBSET Stores]

CatType ==
    /\ table \in Tables
    /\ requests \in Seq(CatRequest)
    /\ clock \in Nat

(* A store has the row and what was last set in it, or neither; the memory store has
   it from the first request on *)
RowType(s) == rows[s] \in [Fields -> Nat] /\ last[s] \in [Fields -> Nat]
Missing(s) == rows[s] = None /\ last[s] = None
RowsInv ==
    /\ rows \in Copies /\ last \in Copies
    /\ \A s \in Stores : Missing(s) \/ RowType(s)
    /\ Exists \/ (Held = {} /\ requests = << >>)

(* A request reads the clock, and its write is the write that the clock counted;
   a subscription writes nothing.  The stores that serve it have the row. *)
RequestInv ==
    \A i \in DOMAIN requests :
        /\ requests[i].read <= clock
        /\ requests[i].op # "subscribe" => requests[i].wrote <= clock
        /\ requests[i].op = "update" => requests[i].sets \subseteq Patchable
        /\ requests[i].op = "subscribe" => requests[i].sets = {} /\ table = "rooms"
        /\ requests[i].op \in {"register", "create"} => requests[i].wrote > 0
        /\ requests[i].on \subseteq Held
        /\ requests[i].op # "subscribe" => "memory" \in requests[i].on

(* The copy a PATCH holds between its two accesses is a row *)
CopyType ==
    \A i \in Waiting("update") : \A s \in requests[i].on :
        /\ requests[i].copy[s] \in [Fields -> Nat]
        /\ \A f \in Fields : requests[i].copy[s][f] \in DOMAIN requests

(* The values of the rows are those of requests, and what was last set was written *)
NamesInv ==
    \A s \in Held, f \in Fields :
        /\ rows[s][f] \in DOMAIN requests
        /\ last[s][f] \in DOMAIN requests
        /\ 0 < requests[last[s][f]].wrote /\ requests[last[s][f]].wrote <= clock

CatBase == CatType /\ RowsInv /\ RequestInv /\ CopyType /\ NamesInv

-----------------------------------------------------------------------------
(* The steps, by what they do *)

Adds(r) == r \in CatRequest /\ requests' = Append(requests, r) /\ UNCHANGED table

(* POST *)
Posting(r) ==
    /\ Adds(r) /\ r.op \in {"register", "create"} /\ r.sets = Fields
    /\ r.read = clock /\ r.wrote = clock + 1 /\ r.guest = FALSE /\ "memory" \in r.on
    /\ clock' = clock + 1
    /\ rows' = [s \in Stores |-> IF s \in r.on /\ (s = "memory" \/ rows[s] = None)
                                 THEN All(New) ELSE rows[s]]
    /\ last' = [s \in Stores |-> IF s \in r.on /\ (s = "memory" \/ rows[s] = None)
                                 THEN All(New) ELSE last[s]]

(* Request n sets fields in the stores that serve it *)
Setting(n, fields, on) ==
    /\ "memory" \in on /\ on \subseteq Held /\ "visibility" \notin fields
    /\ clock' = clock + 1
    /\ rows' = [s \in Stores |-> IF s \in on THEN Put(rows[s], fields, n) ELSE rows[s]]
    /\ last' = [s \in Stores |-> IF s \in on THEN Put(last[s], fields, n) ELSE last[s]]

(* A request of one statement *)
Single1(r) ==
    /\ Adds(r) /\ r.op \notin {"register", "create", "update", "subscribe"}
    /\ r.read = clock /\ r.wrote = clock + 1
    /\ Setting(New, r.sets, r.on)

(* The first access of a request of two *)
Reading(r) ==
    /\ Adds(r) /\ Exists /\ r.read = clock /\ r.wrote = 0 /\ r.on \subseteq Held
    /\ r.op \in {"update", "issue", "subscribe"}
    /\ r.op # "subscribe" => "memory" \in r.on
    /\ r.op = "update" => r.copy = rows /\ r.sets \subseteq Patchable
    /\ r.op = "subscribe" =>
          /\ r.sets = {} /\ table = "rooms"
          /\ r.guest => \A s \in r.on : ~Private(rows[s])
    /\ UNCHANGED <<rows, clock, last>>

(* The second access of a request *)
Ending(i) ==
    /\ i \in DOMAIN requests /\ requests[i].wrote = 0
    /\ UNCHANGED table
    /\ Len(requests') = Len(requests) /\ requests' \in Seq(CatRequest)
    /\ \A j \in DOMAIN requests :
          /\ j # i => requests'[j] = requests[j]
          /\ requests'[j].op = requests[j].op /\ requests'[j].sets = requests[j].sets
          /\ requests'[j].private = requests[j].private
          /\ requests'[j].guest = requests[j].guest
          /\ requests'[j].read = requests[j].read
          /\ requests'[j].on \subseteq requests[j].on
          /\ requests[j].op # "subscribe" => "memory" \in requests'[j].on
    /\ requests'[i].wrote = clock + 1

(* The write of a PATCH *)
Patching(i) ==
    /\ Ending(i) /\ requests[i].op = "update"
    /\ clock' = clock + 1
    /\ rows' = [s \in Stores |->
                  IF s \in requests'[i].on
                  THEN [f \in Fields |->
                          IF f \in requests[i].sets THEN i
                          ELSE IF s = "memory" \/ f \in Columns THEN requests[i].copy[s][f]
                          ELSE rows[s][f]]
                  ELSE rows[s]]
    /\ last' = [s \in Stores |-> IF s \in requests'[i].on
                                 THEN Put(last[s], requests[i].sets, i) ELSE last[s]]

Issuing(i) ==
    /\ Ending(i) /\ requests[i].op = "issue" /\ Setting(i, {"credential"}, requests'[i].on)

Subscribing(i) ==
    /\ Ending(i) /\ requests[i].op = "subscribe"
    /\ UNCHANGED <<rows, clock, last>>

CatStep ==
    \/ \E r : Posting(r) \/ Single1(r) \/ Reading(r)
    \/ \E i : Patching(i) \/ Issuing(i) \/ Subscribing(i)

(* A row is not the missing row. *)
LEMMA RowIsThere ==
    /\ \A r \in [Fields -> Nat] : r # None
    /\ Fields \subseteq DeviceFields \cup RoomFields
    /\ [Fields -> Nat] \subseteq AnyRow
    /\ \A fields, n : Put(None, fields, n) = None
<1>1. \A r \in [Fields -> Nat] : r # None
  <2>1. "details" \in Fields
    BY DEF Fields, DeviceFields, RoomFields
  <2>2. DOMAIN None = {}
    BY DEF None
  <2>3. QED
    BY <2>1, <2>2
<1>2. Fields \subseteq DeviceFields \cup RoomFields
  BY DEF Fields
<1>3. [Fields -> Nat] \subseteq AnyRow
  BY DEF Fields, AnyRow
<1>4. ASSUME NEW fields, NEW n
      PROVE  Put(None, fields, n) = None
  <2>1. None \in Seq({}) /\ Len(None) = 0
    BY DEF None
  <2>2. Put(None, fields, n) = [f \in {} |-> IF f \in fields THEN n ELSE None[f]]
    BY DEF Put, None
  <2>3. [f \in {} |-> IF f \in fields THEN n ELSE None[f]] = << >>
    OBVIOUS
  <2>4. QED
    BY <2>2, <2>3 DEF None
<1>5. QED
  BY <1>1, <1>2, <1>3, <1>4

(* The stores that have the row, and what they hold. *)
LEMMA HeldRows ==
    ASSUME RowsInv
    PROVE  /\ Held \subseteq Stores
           /\ \A s \in Held : RowType(s) /\ DOMAIN rows[s] = Fields /\ DOMAIN last[s] = Fields
           /\ \A s \in Stores : s \notin Held => Missing(s)
           /\ \A s \in Stores : rows[s] = None <=> last[s] = None
           /\ \A s \in Stores : RowType(s) => s \in Held
BY RowIsThere DEF RowsInv, Held, Missing, RowType

(* The columns of each table: a PATCH body carries some of those the SQL of the
   UPDATE sets, and the SQL sets all but the reported ones. *)
LEMMA ColumnSets ==
    /\ Patchable \subseteq Columns
    /\ Columns \subseteq Fields
    /\ Fields \ Columns = Fields \cap Reported
    /\ Columns \cap Reported = {}
    /\ "visibility" \in Fields => "visibility" \in Columns
BY DEF Patchable, Columns, Fields, DeviceFields, RoomFields, DevicePatch, RoomPatch,
       sqlUpdateDevice, sqlUpdateRoom, Reported

(* The memory store refuses nothing. *)
LEMMA Served ==
    ASSUME NEW S, NEW refused \in BOOLEAN
    PROVE  /\ Serving(S, refused) \subseteq S
           /\ "memory" \in S => "memory" \in Serving(S, refused)
           /\ "pg" \in Serving(S, refused) <=> "pg" \in S /\ ~refused
           /\ S \cap {"memory"} \subseteq Serving(S, refused)
<1>1. CASE refused
  BY <1>1 DEF Serving
<1>2. CASE ~refused
  BY <1>2 DEF Serving
<1>3. QED
  BY <1>1, <1>2

(* Both POSTs make the same row in both stores, unless PostgreSQL has one or refuses. *)
LEMMA CreateStep ==
    ASSUME CatBase, Register \/ CreateRoom
    PROVE  \E r : Posting(r)
<1>0. NewDevice(New) = All(New) \/ table = "rooms"
  BY DEF NewDevice, All, Fields, CatBase, CatType, Tables
<1>1. NewRoom(New) = All(New) \/ table = "devices"
  BY DEF NewRoom, All, Fields, CatBase, CatType, Tables
<1>2. PICK op \in {"register", "create"}, p \in BOOLEAN, refused \in BOOLEAN :
         /\ Began([NewRequest(op, Fields, clock, clock + 1)
                     EXCEPT !.private = p, !.on = Serving(Stores, refused)])
         /\ rows' = [memory |-> All(New),
                     pg |-> IF rows["pg"] = None /\ ~refused THEN All(New) ELSE rows["pg"]]
         /\ last' = [memory |-> All(New),
                     pg |-> IF last["pg"] = None /\ ~refused THEN All(New) ELSE last["pg"]]
  <2>1. CASE Register
    BY <1>0, <2>1 DEF Register, Create, MemCreateDevice, PgCreateDevice
  <2>2. CASE CreateRoom
    BY <1>1, <2>2 DEF CreateRoom, Create, MemCreateRoom, PgCreateRoom
  <2>3. QED
    BY <2>1, <2>2
<1>3. PICK on \in SUBSET Stores :
         on = Serving(Stores, refused) /\ "memory" \in on /\ ("pg" \in on <=> ~refused)
  <2>1. "memory" \in Stores /\ "pg" \in Stores
    BY DEF Stores
  <2>2. QED
    BY <2>1, Served
<1>4. PICK r : r = [NewRequest(op, Fields, clock, clock + 1) EXCEPT !.private = p, !.on = on]
  OBVIOUS
<1>5. /\ r.op = op /\ r.sets = Fields /\ r.read = clock /\ r.wrote = clock + 1
      /\ r.guest = FALSE /\ r.on = on
  BY <1>4 DEF NewRequest
<1>6. r \in CatRequest
  <2>1. clock \in Nat /\ clock + 1 \in Nat /\ Fields \in SUBSET (DeviceFields \cup RoomFields)
    BY RowIsThere DEF CatBase, CatType
  <2>2. QED
    BY <1>4, <2>1 DEF NewRequest, CatRequest, CatOps
<1>7. requests' = Append(requests, r) /\ UNCHANGED table
  BY <1>2, <1>3, <1>4 DEF Began
<1>8. clock' = clock + 1
  BY DEF Register, CreateRoom, Create
<1>9. rows' = [s \in Stores |-> IF s \in r.on /\ (s = "memory" \/ rows[s] = None)
                                THEN All(New) ELSE rows[s]]
  BY <1>2, <1>3, <1>5 DEF Stores
<1>10. rows["pg"] = None <=> last["pg"] = None
  BY HeldRows DEF CatBase, Stores
<1>11. last' = [s \in Stores |-> IF s \in r.on /\ (s = "memory" \/ rows[s] = None)
                                 THEN All(New) ELSE last[s]]
  BY <1>2, <1>3, <1>5, <1>10 DEF Stores
<1>12. Posting(r)
  BY <1>3, <1>5, <1>6, <1>7, <1>8, <1>9, <1>11 DEF Posting, Adds
<1>13. QED
  BY <1>12
(* A request of one statement that both stores obey alike, where they serve it. *)
LEMMA SingleStep ==
    ASSUME CatBase, NEW op \in CatOps \ {"register", "create", "update", "subscribe"},
           NEW fields \in SUBSET (DeviceFields \cup RoomFields), "visibility" \notin fields,
           NEW refused \in BOOLEAN,
           NEW mem, mem = Put(rows["memory"], fields, New),
           NEW pg, pg = IF refused THEN rows["pg"] ELSE Put(rows["pg"], fields, New),
           Single(op, fields, refused, mem, pg)
    PROVE  \E r : Single1(r)
<1>0. PICK on : on = Serving(Held, refused)
  OBVIOUS
<1>1. PICK r : r = [NewRequest(op, fields, clock, clock + 1) EXCEPT !.on = on]
  OBVIOUS
<1>2. /\ r.op = op /\ r.sets = fields /\ r.read = clock /\ r.wrote = clock + 1
      /\ r.on = on
  BY <1>1 DEF NewRequest
<1>3. /\ Held \subseteq Stores /\ on \subseteq Held /\ "memory" \in on
      /\ "pg" \in on <=> rows["pg"] # None /\ ~refused
  <2>1. Held \subseteq Stores /\ "memory" \in Held /\ ("pg" \in Held <=> rows["pg"] # None)
    BY DEF Held, Single, Exists, Stores
  <2>2. QED
    BY <1>0, <2>1, Served
<1>4. r \in CatRequest
  <2>1. clock \in Nat /\ clock + 1 \in Nat
    BY DEF CatBase, CatType
  <2>2. QED
    BY <1>1, <1>3, <2>1 DEF NewRequest, CatRequest
<1>5. Adds(r)
  BY <1>0, <1>1, <1>4 DEF Single, Began, Adds
<1>6. /\ rows' = [memory |-> mem, pg |-> pg] /\ clock' = clock + 1
      /\ last' = [s \in Stores |-> IF s \in on THEN Put(last[s], fields, New) ELSE last[s]]
  BY <1>0 DEF Single, Wrote
<1>7. rows' = [s \in Stores |-> IF s \in on THEN Put(rows[s], fields, New) ELSE rows[s]]
  <2>1. pg = IF "pg" \in on THEN Put(rows["pg"], fields, New) ELSE rows["pg"]
    BY <1>3, RowIsThere
  <2>2. QED
    BY <1>3, <1>6, <2>1 DEF Stores
<1>8. Setting(New, r.sets, r.on)
  BY <1>2, <1>3, <1>6, <1>7 DEF Setting
<1>9. Single1(r)
  BY <1>2, <1>5, <1>8 DEF Single1
<1>10. QED
  BY <1>9

(* The single-column writers of both services. *)
LEMMA SingleSteps ==
    ASSUME CatBase,
           \/ BindRoom \/ UnbindRoom \/ SetDeviceStatus \/ UpdateFirmware
           \/ DeviceMarkOnline \/ HeartbeatAt
           \/ SetRoomStatus \/ RotateStreamKey
    PROVE  \E r : Single1(r)
<1> DEFINE M(fields) == Put(rows["memory"], fields, New)
           P(fields, refused) == IF refused THEN rows["pg"] ELSE Put(rows["pg"], fields, New)
           Sets == {{"room"}, {"status"}, {"firmware"}, Seen(0), Seen(1), {"key"}}
<1>1. \E op \in CatOps \ {"register", "create", "update", "subscribe"},
         fields \in Sets, refused \in BOOLEAN :
            Single(op, fields, refused, M(fields), P(fields, refused))
  <2>1. \A op \in {"bind", "unbind", "status", "firmware", "ack", "heartbeat", "rotate"} :
           op \in CatOps \ {"register", "create", "update", "subscribe"}
    BY DEF CatOps
  <2>0. \A fields : P(fields, FALSE) = Put(rows["pg"], fields, New)
    OBVIOUS
  <2>2. CASE BindRoom
    BY <2>1, <2>2 DEF BindRoom, MemBindRoom, PgBindRoom
  <2>3. CASE UnbindRoom
    <3>1. Single("unbind", {"room"}, FALSE, M({"room"}), P({"room"}, FALSE))
      BY <2>0, <2>3 DEF UnbindRoom, MemUnbindRoom, PgUnbindRoom
    <3>2. QED
      BY <2>1, <3>1
  <2>4. CASE SetDeviceStatus
    <3>1. Single("status", {"status"}, FALSE, M({"status"}), P({"status"}, FALSE))
      BY <2>0, <2>4 DEF SetDeviceStatus, MemSetDeviceStatus, PgSetDeviceStatus
    <3>2. QED
      BY <2>1, <3>1
  <2>5. CASE UpdateFirmware
    BY <2>1, <2>5 DEF UpdateFirmware, MemSetFirmwareTarget, PgSetFirmwareTarget
  <2>6. CASE DeviceMarkOnline
    <3>1. PICK grams \in {0, 1}, refused \in BOOLEAN :
             Single("ack", Seen(grams), refused, M(Seen(grams)), P(Seen(grams), refused))
      BY <2>6 DEF DeviceMarkOnline, MemMarkOnline, PgMarkOnline
    <3>2. QED
      BY <2>1, <3>1
  <2>7. CASE HeartbeatAt
    <3>1. Single("heartbeat", Seen(0), FALSE, M(Seen(0)), P(Seen(0), FALSE))
      BY <2>0, <2>7 DEF HeartbeatAt, MemMarkOnline, PgMarkOnline
    <3>2. QED
      BY <2>1, <3>1
  <2>8. CASE SetRoomStatus
    <3>1. Single("status", {"status"}, FALSE, M({"status"}), P({"status"}, FALSE))
      BY <2>0, <2>8 DEF SetRoomStatus, MemSetRoomStatus, PgSetRoomStatus
    <3>2. QED
      BY <2>1, <3>1
  <2>9. CASE RotateStreamKey
    <3>1. Single("rotate", {"key"}, FALSE, M({"key"}), P({"key"}, FALSE))
      BY <2>0, <2>9 DEF RotateStreamKey, MemSetStreamKey, PgSetStreamKey
    <3>2. QED
      BY <2>1, <3>1
  <2>10. QED
    BY <2>2, <2>3, <2>4, <2>5, <2>6, <2>7, <2>8, <2>9
<1>2. \A fields \in Sets :
         /\ fields \in SUBSET (DeviceFields \cup RoomFields)
         /\ "visibility" \notin fields
  BY DEF Seen, DeviceFields, RoomFields
<1>3. PICK op \in CatOps \ {"register", "create", "update", "subscribe"},
           fields \in Sets, refused \in BOOLEAN :
              Single(op, fields, refused, M(fields), P(fields, refused))
  BY <1>1
<1> HIDE DEF M, P, Sets
<1>4. fields \in SUBSET (DeviceFields \cup RoomFields) /\ "visibility" \notin fields
  BY <1>2, <1>3
<1>5. /\ M(fields) = Put(rows["memory"], fields, New)
      /\ P(fields, refused) = IF refused THEN rows["pg"] ELSE Put(rows["pg"], fields, New)
  BY DEF M, P
<1>6. QED
  BY <1>3, <1>4, <1>5, SingleStep

(* The first access of a request that has two. *)
LEMMA ReadSteps ==
    ASSUME CatBase,
           PatchDevice \/ PatchRoom \/ IssueRead \/ SubscribeRead
    PROVE  \E r : Reading(r)
<1>0. clock \in Nat /\ 0 \in Nat /\ None \in {None} \cup Copies /\ Held \subseteq Stores
  BY DEF CatBase, CatType, Held
<1>1. ASSUME NEW r, r \in CatRequest, Reads(r), r.read = clock, r.wrote = 0,
             r.op \in {"update", "issue", "subscribe"}, r.on \subseteq Held,
             r.op # "subscribe" => r.on = Held,
             r.op = "update" => r.copy = rows /\ r.sets \subseteq Patchable,
             r.op = "subscribe" =>
                /\ r.sets = {} /\ table = "rooms"
                /\ r.guest => \A s \in r.on : ~Private(rows[s])
      PROVE  Reading(r)
  <2>1. Exists /\ (r.op # "subscribe" => "memory" \in r.on)
    BY <1>1 DEF Reads, Exists
  <2>2. Adds(r) /\ UNCHANGED <<rows, clock, last>>
    BY <1>1 DEF Reads, Began, Adds
  <2>3. QED
    BY <1>1, <2>1, <2>2 DEF Reading
<1>2. ASSUME PatchDevice \/ PatchRoom
      PROVE  \E r : Reading(r)
  <2>2. rows \in Copies
    BY DEF CatBase, RowsInv
  <2>3. ASSUME NEW body \in SUBSET Patchable
        PROVE  body \in SUBSET (DeviceFields \cup RoomFields)
    BY DEF Patchable, DevicePatch, RoomPatch, DeviceFields, RoomFields
  <2>4. PICK r \in CatRequest :
           /\ Reads(r) /\ r.op = "update" /\ r.sets \subseteq Patchable
           /\ r.read = clock /\ r.wrote = 0 /\ r.copy = rows /\ r.on = Held
    <3>1. CASE PatchDevice
      <4>1. PICK body \in Bodies["devices"] :
               Reads([NewRequest("update", body, clock, 0) EXCEPT !.copy = GetDevice])
        BY <3>1 DEF PatchDevice
      <4>2. PICK r : r = [NewRequest("update", body, clock, 0) EXCEPT !.copy = GetDevice]
        OBVIOUS
      <4>3. /\ r.op = "update" /\ r.sets = body /\ r.read = clock /\ r.wrote = 0
            /\ r.copy = rows /\ r.on = Held
        BY <4>2 DEF NewRequest, GetDevice
      <4>4. body \in SUBSET Patchable
        BY <3>1, <4>1, CatalogueAssumption DEF Patchable, PatchDevice
      <4>5. body \in SUBSET (DeviceFields \cup RoomFields)
        BY <2>3, <4>4
      <4>6. r \in CatRequest
        BY <1>0, <2>2, <4>2, <4>5 DEF NewRequest, CatRequest, CatOps, GetDevice
      <4>7. QED
        BY <4>1, <4>2, <4>3, <4>4, <4>6
    <3>2. CASE PatchRoom
      <4>1. PICK body \in Bodies["rooms"], p \in BOOLEAN :
               Reads([NewRequest("update", body, clock, 0)
                        EXCEPT !.private = p, !.copy = GetRoom])
        BY <3>2 DEF PatchRoom
      <4>2. PICK r : r = [NewRequest("update", body, clock, 0)
                            EXCEPT !.private = p, !.copy = GetRoom]
        OBVIOUS
      <4>3. /\ r.op = "update" /\ r.sets = body /\ r.read = clock /\ r.wrote = 0
            /\ r.copy = rows /\ r.on = Held
        BY <4>2 DEF NewRequest, GetRoom
      <4>4. body \in SUBSET Patchable
        BY <3>2, <4>1, CatalogueAssumption DEF Patchable, PatchRoom
      <4>5. body \in SUBSET (DeviceFields \cup RoomFields)
        BY <2>3, <4>4
      <4>6. r \in CatRequest
        BY <1>0, <2>2, <4>2, <4>5 DEF NewRequest, CatRequest, CatOps, GetRoom
      <4>7. QED
        BY <4>1, <4>2, <4>3, <4>4, <4>6
    <3>3. QED
      BY <1>2, <3>1, <3>2
  <2>5. Reading(r)
    BY <1>1, <2>4
  <2>6. QED
    BY <2>5
<1>3. ASSUME IssueRead
      PROVE  \E r : Reading(r)
  <2>1. PICK r : r = NewRequest("issue", {"credential"}, clock, 0)
    OBVIOUS
  <2>2. Reads(r) /\ r.op = "issue" /\ r.read = clock /\ r.wrote = 0 /\ r.on = Held
    BY <1>3, <2>1 DEF IssueRead, NewRequest
  <2>3. {"credential"} \in SUBSET (DeviceFields \cup RoomFields)
    BY DEF DeviceFields
  <2>4. r \in CatRequest
    BY <1>0, <2>1, <2>3 DEF NewRequest, CatRequest, CatOps
  <2>5. Reading(r)
    BY <1>1, <2>2, <2>4
  <2>6. QED
    BY <2>5
<1>4. ASSUME SubscribeRead
      PROVE  \E r : Reading(r)
  <2>1. PICK guest \in BOOLEAN, admits \in SUBSET Held :
           /\ admits = {s \in Held : guest => ~RefusesGuest(rows[s])}
           /\ Reads([NewRequest("subscribe", {}, clock, 0)
                       EXCEPT !.guest = guest, !.on = admits])
    BY <1>4 DEF SubscribeRead
  <2>2. PICK r : r = [NewRequest("subscribe", {}, clock, 0)
                        EXCEPT !.guest = guest, !.on = admits]
    OBVIOUS
  <2>3. admits \in SUBSET Stores /\ (guest => \A s \in admits : ~Private(rows[s]))
    BY <1>0, <2>1 DEF RefusesGuest
  <2>4. /\ r.op = "subscribe" /\ r.sets = {} /\ r.read = clock /\ r.wrote = 0
        /\ r.guest = guest /\ r.on = admits
    BY <2>2 DEF NewRequest
  <2>5. r \in CatRequest
    BY <1>0, <2>1, <2>2, <2>3 DEF NewRequest, CatRequest, CatOps
  <2>6. table = "rooms"
    BY <1>4 DEF SubscribeRead
  <2>7. Reading(r)
    BY <1>1, <2>1, <2>2, <2>3, <2>4, <2>5, <2>6
  <2>8. QED
    BY <2>7
<1>5. QED
  BY <1>2, <1>3, <1>4

(* What the second access of a request leaves of the requests. *)
LEMMA EndStep ==
    ASSUME CatBase, NEW i \in DOMAIN requests, requests[i].wrote = 0, UNCHANGED table,
           NEW on, on \subseteq requests[i].on,
           requests[i].op # "subscribe" => "memory" \in on,
           \/ requests' = [requests EXCEPT ![i].wrote = clock + 1, ![i].copy = None, ![i].on = on]
           \/ requests' = [requests EXCEPT ![i].wrote = clock + 1] /\ on = requests[i].on
    PROVE  Ending(i) /\ requests'[i].on = on
<1>1. /\ requests \in Seq(CatRequest) /\ clock + 1 \in Nat /\ requests[i] \in CatRequest
      /\ None \in {None} \cup Copies
  BY ElementOfSeq DEF CatBase, CatType
<1>0. on \in SUBSET Stores
  BY <1>1 DEF CatRequest
<1>2. PICK e : e = [requests[i] EXCEPT !.wrote = clock + 1, !.copy = None, !.on = on]
  OBVIOUS
<1>3. PICK d : d = [requests[i] EXCEPT !.wrote = clock + 1]
  OBVIOUS
<1>4. /\ e \in CatRequest /\ e.wrote = clock + 1
      /\ e.op = requests[i].op /\ e.sets = requests[i].sets
      /\ e.private = requests[i].private /\ e.guest = requests[i].guest
      /\ e.read = requests[i].read /\ e.on = on
  BY <1>0, <1>1, <1>2 DEF CatRequest
<1>5. /\ d \in CatRequest /\ d.wrote = clock + 1
      /\ d.op = requests[i].op /\ d.sets = requests[i].sets
      /\ d.private = requests[i].private /\ d.guest = requests[i].guest
      /\ d.read = requests[i].read /\ d.on = requests[i].on
  BY <1>1, <1>3 DEF CatRequest
<1>6. \/ requests' = [requests EXCEPT ![i] = e]
      \/ requests' = [requests EXCEPT ![i] = d] /\ on = requests[i].on
  BY <1>2, <1>3
<1>7. PICK x \in {e, d} : requests' = [requests EXCEPT ![i] = x] /\ x.on = on
  BY <1>4, <1>5, <1>6
<1>8. x \in CatRequest
  BY <1>4, <1>5, <1>7
<1>9. requests' \in Seq(CatRequest) /\ Len(requests') = Len(requests)
  BY <1>1, <1>7, <1>8, ExceptSeq
<1>10. requests'[i] = x /\ \A j \in DOMAIN requests : j # i => requests'[j] = requests[j]
  BY <1>1, <1>7
<1>11. \A j \in DOMAIN requests : j # i /\ requests[j].op # "subscribe"
          => "memory" \in requests'[j].on
  BY <1>10 DEF CatBase, RequestInv
<1>12. ASSUME NEW j \in DOMAIN requests
       PROVE  /\ requests'[j].op = requests[j].op /\ requests'[j].sets = requests[j].sets
              /\ requests'[j].private = requests[j].private
              /\ requests'[j].guest = requests[j].guest
              /\ requests'[j].read = requests[j].read
              /\ requests'[j].on \subseteq requests[j].on
              /\ requests[j].op # "subscribe" => "memory" \in requests'[j].on
  <2>1. CASE j = i
    BY <1>4, <1>5, <1>7, <1>10, <2>1
  <2>2. CASE j # i
    BY <1>10, <1>11, <2>2
  <2>3. QED
    BY <2>1, <2>2
<1>13. requests'[i].wrote = clock + 1
  BY <1>4, <1>5, <1>7, <1>10
<1>14. QED
  BY <1>7, <1>9, <1>10, <1>12, <1>13 DEF Ending

(* The write of a PATCH, of either table. *)
LEMMA PatchStep ==
    ASSUME CatBase, NEW i \in Waiting("update"), NEW refused \in BOOLEAN,
           NEW on, on = Serving(requests[i].on, refused), UNCHANGED table,
           NEW mem, NEW pg, Wrote(i, requests[i].sets, on, mem, pg), Finish(i, on),
           mem = [f \in Fields |-> IF f \in requests[i].sets THEN i
                                   ELSE requests[i].copy["memory"][f]],
           pg = IF "pg" \notin on THEN rows["pg"]
                ELSE [f \in Fields |-> IF f \in requests[i].sets THEN i
                                       ELSE IF f \in Columns THEN requests[i].copy["pg"][f]
                                       ELSE rows["pg"][f]]
    PROVE  Patching(i)
<1>1. /\ i \in DOMAIN requests /\ requests[i].op = "update" /\ requests[i].wrote = 0
      /\ "memory" \in requests[i].on
  BY DEF Waiting, CatBase, RequestInv
<1>2. on \subseteq requests[i].on /\ "memory" \in on
  BY <1>1, Served
<1>3. Ending(i) /\ requests'[i].on = on
  BY <1>1, <1>2, EndStep DEF Finish
<1>4. rows' = [memory |-> mem, pg |-> pg] /\ clock' = clock + 1
  BY DEF Wrote
<1>5. rows' = [s \in Stores |-> IF s = "memory" THEN mem ELSE pg]
  BY <1>4 DEF Stores
<1>6. last' = [s \in Stores |-> IF s \in requests'[i].on
                                THEN Put(last[s], requests[i].sets, i) ELSE last[s]]
  BY <1>3 DEF Wrote
<1>7. rows' = [s \in Stores |->
                 IF s \in requests'[i].on
                 THEN [f \in Fields |->
                         IF f \in requests[i].sets THEN i
                         ELSE IF s = "memory" \/ f \in Columns THEN requests[i].copy[s][f]
                         ELSE rows[s][f]]
                 ELSE rows[s]]
  <2>1. mem = [f \in Fields |-> IF f \in requests[i].sets THEN i
                                ELSE IF "memory" = "memory" \/ f \in Columns
                                     THEN requests[i].copy["memory"][f]
                                     ELSE rows["memory"][f]]
    OBVIOUS
  <2>2. pg = IF "pg" \in on
             THEN [f \in Fields |-> IF f \in requests[i].sets THEN i
                                    ELSE IF "pg" = "memory" \/ f \in Columns
                                         THEN requests[i].copy["pg"][f]
                                         ELSE rows["pg"][f]]
             ELSE rows["pg"]
    OBVIOUS
  <2>3. Stores = {"memory", "pg"}
    BY DEF Stores
  <2>4. QED
    BY <1>2, <1>3, <1>5, <2>1, <2>2, <2>3
<1>8. QED
  BY <1>1, <1>3, <1>4, <1>6, <1>7 DEF Patching

(* The second access of a request. *)
LEMMA EndSteps ==
    ASSUME CatBase, NEW i \in DOMAIN requests,
           \/ UpdateDevice(i) \/ UpdateRoom(i)
           \/ IssueMqttCredential(i) \/ IssueSubscription(i)
    PROVE  Patching(i) \/ Issuing(i) \/ Subscribing(i)
<1>1. ASSUME UpdateDevice(i)
      PROVE  Patching(i)
  <2>1. i \in Waiting("update") /\ requests[i].op = "update" /\ table = "devices"
    BY <1>1 DEF UpdateDevice, Waiting
  <2>2. requests[i].sets \subseteq Patchable
    BY <2>1 DEF CatBase, RequestInv
  <2>3. /\ Fields = DeviceFields /\ Columns = sqlUpdateDevice
        /\ requests[i].sets \cap DevicePatch = requests[i].sets
        /\ requests[i].sets \subseteq sqlUpdateDevice
    BY <2>1, <2>2 DEF Fields, Columns, Patchable, DevicePatch, sqlUpdateDevice
  <2>4. \A s : MergeDevice(requests[i].copy[s], requests[i].sets, i) =
           [f \in Fields |-> IF f \in requests[i].sets THEN i ELSE requests[i].copy[s][f]]
    BY <2>3 DEF MergeDevice
  <2>5. PICK refused \in BOOLEAN :
           /\ Wrote(i, requests[i].sets, Serving(requests[i].on, refused),
                    MergeDevice(requests[i].copy["memory"], requests[i].sets, i),
                    PgUpdateDevice(rows["pg"],
                                   MergeDevice(requests[i].copy["pg"], requests[i].sets, i),
                                   "pg" \notin Serving(requests[i].on, refused)))
           /\ Finish(i, Serving(requests[i].on, refused))
    BY <1>1 DEF UpdateDevice, MemUpdateDevice
  <2>6. PICK on : on = Serving(requests[i].on, refused)
    OBVIOUS
  <2>7. PgUpdateDevice(rows["pg"], MergeDevice(requests[i].copy["pg"], requests[i].sets, i),
                       "pg" \notin on) =
           IF "pg" \notin on THEN rows["pg"]
           ELSE [f \in Fields |-> IF f \in requests[i].sets THEN i
                                  ELSE IF f \in Columns THEN requests[i].copy["pg"][f]
                                  ELSE rows["pg"][f]]
    BY <2>3 DEF MergeDevice, PgUpdateDevice
  <2>8. UNCHANGED table
    BY <2>5 DEF Finish
  <2>9. PICK mem, pg :
           /\ mem = MergeDevice(requests[i].copy["memory"], requests[i].sets, i)
           /\ pg = PgUpdateDevice(rows["pg"],
                                  MergeDevice(requests[i].copy["pg"], requests[i].sets, i),
                                  "pg" \notin on)
    OBVIOUS
  <2>10. Wrote(i, requests[i].sets, on, mem, pg) /\ Finish(i, on)
    BY <2>5, <2>6, <2>9
  <2>11. QED
    BY <2>1, <2>4, <2>6, <2>7, <2>8, <2>9, <2>10, PatchStep
<1>2. ASSUME UpdateRoom(i)
      PROVE  Patching(i)
  <2>1. i \in Waiting("update") /\ requests[i].op = "update" /\ table = "rooms"
    BY <1>2 DEF UpdateRoom, Waiting
  <2>2. requests[i].sets \subseteq Patchable
    BY <2>1 DEF CatBase, RequestInv
  <2>3. /\ Fields = RoomFields /\ Columns = sqlUpdateRoom
        /\ requests[i].sets \cap RoomPatch = requests[i].sets
        /\ requests[i].sets \subseteq sqlUpdateRoom
    BY <2>1, <2>2 DEF Fields, Columns, Patchable, RoomPatch, sqlUpdateRoom
  <2>4. \A s : MergeRoom(requests[i].copy[s], requests[i].sets, i) =
           [f \in Fields |-> IF f \in requests[i].sets THEN i ELSE requests[i].copy[s][f]]
    BY <2>3 DEF MergeRoom
  <2>5. PICK refused \in BOOLEAN :
           /\ Wrote(i, requests[i].sets, Serving(requests[i].on, refused),
                    MergeRoom(requests[i].copy["memory"], requests[i].sets, i),
                    PgUpdateRoom(rows["pg"],
                                 MergeRoom(requests[i].copy["pg"], requests[i].sets, i),
                                 "pg" \notin Serving(requests[i].on, refused)))
           /\ Finish(i, Serving(requests[i].on, refused))
    BY <1>2 DEF UpdateRoom, MemUpdateRoom
  <2>6. PICK on : on = Serving(requests[i].on, refused)
    OBVIOUS
  <2>7. PgUpdateRoom(rows["pg"], MergeRoom(requests[i].copy["pg"], requests[i].sets, i),
                     "pg" \notin on) =
           IF "pg" \notin on THEN rows["pg"]
           ELSE [f \in Fields |-> IF f \in requests[i].sets THEN i
                                  ELSE IF f \in Columns THEN requests[i].copy["pg"][f]
                                  ELSE rows["pg"][f]]
    BY <2>3 DEF MergeRoom, PgUpdateRoom
  <2>8. UNCHANGED table
    BY <2>5 DEF Finish
  <2>9. PICK mem, pg :
           /\ mem = MergeRoom(requests[i].copy["memory"], requests[i].sets, i)
           /\ pg = PgUpdateRoom(rows["pg"],
                                MergeRoom(requests[i].copy["pg"], requests[i].sets, i),
                                "pg" \notin on)
    OBVIOUS
  <2>10. Wrote(i, requests[i].sets, on, mem, pg) /\ Finish(i, on)
    BY <2>5, <2>6, <2>9
  <2>11. QED
    BY <2>1, <2>4, <2>6, <2>7, <2>8, <2>9, <2>10, PatchStep
<1>3. ASSUME IssueMqttCredential(i)
      PROVE  Issuing(i)
  <2>1. /\ requests[i].op = "issue" /\ requests[i].wrote = 0
        /\ requests[i].on \subseteq Held /\ "memory" \in requests[i].on
    BY <1>3 DEF IssueMqttCredential, Waiting, CatBase, RequestInv
  <2>2. Ending(i) /\ requests'[i].on = requests[i].on
    BY <1>3, <2>1, EndStep DEF IssueMqttCredential, Finish
  <2>3. PICK on : on = requests[i].on
    OBVIOUS
  <2>4. /\ rows' = [memory |-> Put(rows["memory"], {"credential"}, i),
                    pg |-> IF "pg" \in on THEN Put(rows["pg"], {"credential"}, i)
                           ELSE rows["pg"]]
        /\ clock' = clock + 1
    BY <1>3, <2>3 DEF IssueMqttCredential, Wrote, MemSetMqttCredential, PgSetMqttCredential
  <2>5. rows' = [s \in Stores |-> IF s \in on THEN Put(rows[s], {"credential"}, i) ELSE rows[s]]
    BY <2>1, <2>3, <2>4 DEF Stores
  <2>6. last' = [s \in Stores |-> IF s \in on THEN Put(last[s], {"credential"}, i) ELSE last[s]]
    BY <1>3, <2>3 DEF IssueMqttCredential, Wrote
  <2>7. "visibility" \notin {"credential"}
    OBVIOUS
  <2>8. QED
    BY <2>1, <2>2, <2>3, <2>4, <2>5, <2>6, <2>7 DEF Issuing, Setting
<1>4. ASSUME IssueSubscription(i)
      PROVE  Subscribing(i)
  <2>1. requests[i].op = "subscribe" /\ requests[i].wrote = 0
    BY <1>4 DEF IssueSubscription, Waiting
  <2>2. Ending(i)
    BY <1>4, <2>1, EndStep DEF IssueSubscription
  <2>3. QED
    BY <1>4, <2>1, <2>2 DEF IssueSubscription, Subscribing
<1>5. QED
  BY <1>1, <1>2, <1>3, <1>4

(* Every step of the registry is one of the six. *)
LEMMA CatSteps ==
    ASSUME CatBase, CatalogueNext
    PROVE  CatStep
<1>1. CASE Register \/ CreateRoom
  BY <1>1, CreateStep DEF CatStep
<1>2. CASE \/ BindRoom \/ UnbindRoom \/ SetDeviceStatus \/ UpdateFirmware
           \/ DeviceMarkOnline \/ HeartbeatAt
           \/ SetRoomStatus \/ RotateStreamKey
  BY <1>2, SingleSteps DEF CatStep
<1>3. CASE PatchDevice \/ PatchRoom \/ IssueRead \/ SubscribeRead
  BY <1>3, ReadSteps DEF CatStep
<1>4. CASE \E i \in DOMAIN requests :
              \/ UpdateDevice(i) \/ UpdateRoom(i)
              \/ IssueMqttCredential(i) \/ IssueSubscription(i)
  BY <1>4, EndSteps DEF CatStep
<1>5. QED
  BY <1>1, <1>2, <1>3, <1>4 DEF CatalogueNext
-----------------------------------------------------------------------------
(* What any step may do to the requests: they stay as they were, except that one
   may be added and that one may end, refused or not *)
Grown ==
    /\ UNCHANGED table
    /\ requests' \in Seq(CatRequest)
    /\ clock' \in {clock, clock + 1}
    /\ \A j \in DOMAIN requests :
          /\ j \in DOMAIN requests'
          /\ requests'[j].op = requests[j].op /\ requests'[j].sets = requests[j].sets
          /\ requests'[j].private = requests[j].private
          /\ requests'[j].guest = requests[j].guest
          /\ requests'[j].read = requests[j].read
          /\ requests'[j].on \subseteq requests[j].on
          /\ requests[j].op # "subscribe" => "memory" \in requests'[j].on
          /\ \/ requests'[j] = requests[j]
             \/ /\ requests[j].wrote = 0 /\ requests'[j].wrote = clock + 1
                /\ requests[j].op # "subscribe" => clock' = clock + 1
    /\ \A j \in DOMAIN requests' \ DOMAIN requests :
          /\ requests'[j].read = clock
          /\ \/ requests'[j].wrote = 0
             \/ requests'[j].wrote = clock + 1 /\ clock' = clock + 1
          /\ requests'[j].op \in {"register", "create"} => requests'[j].wrote = clock + 1
          /\ requests'[j].op \notin {"register", "create"} => requests'[j].on \subseteq Held
          /\ requests'[j].op # "subscribe" => "memory" \in requests'[j].on
          /\ requests'[j].op \in {"update", "subscribe"} =>
                requests'[j].wrote = 0 /\ UNCHANGED <<rows, last, clock>>
          /\ requests'[j].op = "update" =>
                requests'[j].copy = rows /\ requests'[j].sets \subseteq Patchable
          /\ requests'[j].op = "subscribe" =>
                /\ requests'[j].sets = {} /\ table = "rooms"
                /\ requests'[j].guest => \A s \in requests'[j].on : ~Private(rows[s])

(* What it may do to a field: leave it, set it, or put an old value back *)
Kept(s, f) == s \in Held /\ rows'[s][f] = rows[s][f] /\ last'[s][f] = last[s][f]
SetBy(s, f, n) ==
    /\ rows'[s][f] = n /\ last'[s][f] = n
    /\ n \in DOMAIN requests' /\ requests'[n].wrote = clock + 1 /\ clock' = clock + 1
PutBack(s, f, i) ==
    /\ s \in Held /\ s \in requests[i].on /\ s \in requests'[i].on
    /\ i \in Waiting("update") /\ f \notin requests[i].sets
    /\ requests'[i].wrote = clock + 1 /\ clock' = clock + 1
    /\ rows'[s][f] = requests[i].copy[s][f] /\ last'[s][f] = last[s][f]
    /\ s = "pg" => f \in Columns
Cell(s, f) == Kept(s, f) \/ (\E n : SetBy(s, f, n)) \/ (\E i : PutBack(s, f, i))

(* The requests after one was added. *)
LEMMA AddedRequests ==
    ASSUME CatBase, NEW r, Adds(r)
    PROVE  /\ requests' \in Seq(CatRequest)
           /\ New \in DOMAIN requests' /\ New \notin DOMAIN requests /\ requests'[New] = r
           /\ \A j \in DOMAIN requests : j \in DOMAIN requests' /\ requests'[j] = requests[j]
           /\ \A j \in DOMAIN requests' \ DOMAIN requests : j = New
           /\ New \in Nat
BY DEF CatBase, CatType, Adds, New

(* The requests after one ended. *)
LEMMA EndedRequests ==
    ASSUME CatBase, NEW i, Ending(i)
    PROVE  DOMAIN requests' = DOMAIN requests
BY DEF CatBase, CatType, Ending

(* Every step does to the requests only that. *)
LEMMA StepGrows ==
    ASSUME CatBase, CatStep
    PROVE  Grown
<1>0. clock \in Nat
  BY DEF CatBase, CatType
<1>1. ASSUME NEW r, Posting(r) \/ Single1(r)
      PROVE  Grown
  <2>1. /\ Adds(r) /\ r.op \notin {"update", "subscribe"} /\ r.read = clock
        /\ r.wrote = clock + 1 /\ clock' = clock + 1 /\ "memory" \in r.on
        /\ r.op \notin {"register", "create"} => r.on \subseteq Held
    BY <1>1 DEF Posting, Single1, Setting
  <2>2. UNCHANGED table
    BY <2>1 DEF Adds
  <2>3. \A j \in DOMAIN requests' \ DOMAIN requests : requests'[j] = r
    BY <2>1, AddedRequests
  <2>4. \A j \in DOMAIN requests : j \in DOMAIN requests' /\ requests'[j] = requests[j]
    BY <2>1, AddedRequests
  <2>5. requests' \in Seq(CatRequest)
    BY <2>1, AddedRequests
  <2>6. \A j \in DOMAIN requests : requests[j].op # "subscribe" => "memory" \in requests[j].on
    BY DEF CatBase, RequestInv
  <2>7. QED
    BY <2>1, <2>2, <2>3, <2>4, <2>5, <2>6 DEF Grown
<1>2. ASSUME NEW r, Reading(r)
      PROVE  Grown
  <2>1. Adds(r) /\ UNCHANGED table /\ clock' = clock
    BY <1>2 DEF Reading, Adds
  <2>2. \A j \in DOMAIN requests' \ DOMAIN requests : requests'[j] = r
    BY <2>1, AddedRequests
  <2>3. \A j \in DOMAIN requests : j \in DOMAIN requests' /\ requests'[j] = requests[j]
    BY <2>1, AddedRequests
  <2>4. requests' \in Seq(CatRequest)
    BY <2>1, AddedRequests
  <2>5. \A j \in DOMAIN requests : requests[j].op # "subscribe" => "memory" \in requests[j].on
    BY DEF CatBase, RequestInv
  <2>6. QED
    BY <1>2, <2>1, <2>2, <2>3, <2>4, <2>5 DEF Reading, Grown
<1>3. ASSUME NEW i, Patching(i) \/ Issuing(i) \/ Subscribing(i)
      PROVE  Grown
  <2>1. /\ Ending(i) /\ clock' \in {clock, clock + 1}
        /\ requests[i].op # "subscribe" => clock' = clock + 1
    BY <1>3 DEF Patching, Issuing, Subscribing, Setting
  <2>2. DOMAIN requests' = DOMAIN requests
    BY <2>1, EndedRequests
  <2>3. QED
    BY <2>1, <2>2 DEF Ending, Grown
<1>4. QED
  BY <1>1, <1>2, <1>3 DEF CatStep

(* What a step that writes rows of these values leaves behind. *)
LEMMA RowsAfter ==
    ASSUME CatBase, Grown, NEW W \in SUBSET Stores, "memory" \in W \cup Held,
           requests' # << >>,
           rows' \in [Stores -> AnyRow], last' \in [Stores -> AnyRow],
           \A s \in W : rows'[s] \in [Fields -> Nat] /\ last'[s] \in [Fields -> Nat],
           \A s \in Stores \ W : rows'[s] = rows[s] /\ last'[s] = last[s]
    PROVE  RowsInv' /\ Held' = Held \cup W
<1>1. Fields' = Fields
  BY DEF Grown, Fields
<1>2. \A s \in Stores : s \in Held \cup W => RowType(s)'
  BY <1>1, HeldRows DEF RowType, CatBase
<1>3. \A s \in Stores : s \notin Held \cup W => Missing(s)'
  BY <1>1, HeldRows DEF Missing, CatBase
<1>4. Held' = Held \cup W
  <2>1. \A s \in Stores : s \in Held \cup W => rows'[s] # None
    BY <1>1, <1>2, RowIsThere DEF RowType
  <2>2. \A s \in Stores : s \notin Held \cup W => rows'[s] = None
    BY <1>3 DEF Missing
  <2>3. Held \subseteq Stores
    BY DEF Held
  <2>4. QED
    BY <2>1, <2>2, <2>3 DEF Held
<1>5. Exists'
  BY <1>4 DEF Exists
<1>6. QED
  BY <1>2, <1>3, <1>4, <1>5 DEF RowsInv, Copies

(* Every step does to each field of each row only that. *)
LEMMA StepCells ==
    ASSUME CatBase, CatStep
    PROVE  /\ RowsInv'
           /\ Held \subseteq Held'
           /\ \A j \in DOMAIN requests' \ DOMAIN requests : requests'[j].on \subseteq Held'
           /\ \A s \in Held', f \in Fields : Cell(s, f)
<1>0. /\ clock \in Nat /\ DOMAIN requests \subseteq Nat /\ Held \subseteq Stores
      /\ \A s \in Held : DOMAIN rows[s] = Fields /\ DOMAIN last[s] = Fields
      /\ \A s \in Held : rows[s] \in [Fields -> Nat] /\ last[s] \in [Fields -> Nat]
      /\ rows \in [Stores -> AnyRow] /\ last \in [Stores -> AnyRow]
      /\ [Fields -> Nat] \subseteq AnyRow
      /\ \A s \in Stores : s \notin Held => rows[s] = None
      /\ \A s \in Held : rows[s] # None
  BY HeldRows, RowIsThere DEF CatBase, CatType, RowType, RowsInv, Copies, Held
<1>1. Grown /\ Fields' = Fields
  BY StepGrows DEF Grown, Fields
<1> DEFINE Goal == /\ RowsInv'
                   /\ Held \subseteq Held'
                   /\ \A j \in DOMAIN requests' \ DOMAIN requests : requests'[j].on \subseteq Held'
                   /\ \A s \in Held', f \in Fields : Cell(s, f)
<1>2. ASSUME NEW r, Posting(r)
      PROVE  Goal
  <2>1. Adds(r) /\ r.wrote = clock + 1 /\ clock' = clock + 1 /\ "memory" \in r.on
    BY <1>2 DEF Posting
  <2>2. /\ New \in DOMAIN requests' /\ requests'[New] = r /\ New \in Nat
        /\ \A j \in DOMAIN requests' \ DOMAIN requests : j = New
    BY <2>1, AddedRequests
  <2>3. PICK W \in SUBSET Stores :
           W = {s \in Stores : s \in r.on /\ (s = "memory" \/ rows[s] = None)}
    OBVIOUS
  <2>4. /\ rows' = [s \in Stores |-> IF s \in W THEN All(New) ELSE rows[s]]
        /\ last' = [s \in Stores |-> IF s \in W THEN All(New) ELSE last[s]]
    BY <1>2, <2>3 DEF Posting
  <2>5. All(New) \in [Fields -> Nat] /\ \A f \in Fields : All(New)[f] = New
    BY <2>2 DEF All
  <2>6. rows' \in [Stores -> AnyRow] /\ last' \in [Stores -> AnyRow]
    BY <1>0, <2>4, <2>5
  <2>7. /\ \A s \in W : rows'[s] = All(New) /\ last'[s] = All(New)
        /\ \A s \in Stores \ W : rows'[s] = rows[s] /\ last'[s] = last[s]
    BY <2>4
  <2>8. "memory" \in W /\ requests' # << >> /\ r.on \subseteq Held \cup W
    <3>1. r.on \subseteq Stores /\ "memory" \in Stores
      BY <2>1 DEF Adds, CatRequest, Stores
    <3>2. r.on \subseteq Held \cup W
      BY <1>0, <2>3, <3>1
    <3>3. "memory" \in W
      BY <2>1, <2>3, <3>1
    <3>4. DOMAIN << >> = {}
      OBVIOUS
    <3>5. QED
      BY <2>2, <3>2, <3>3, <3>4
  <2>9. RowsInv' /\ Held' = Held \cup W
    BY <1>1, <2>5, <2>6, <2>7, <2>8, RowsAfter
  <2>10. \A j \in DOMAIN requests' \ DOMAIN requests : requests'[j].on \subseteq Held'
    BY <2>2, <2>8, <2>9
  <2>11. ASSUME NEW s \in Held', NEW f \in Fields
         PROVE  Cell(s, f)
    <3>1. CASE s \in W
      <4>1. SetBy(s, f, New)
        BY <2>1, <2>2, <2>5, <2>7, <3>1 DEF SetBy
      <4>2. QED
        BY <4>1 DEF Cell
    <3>2. CASE s \notin W
      BY <1>0, <2>7, <2>9, <2>11, <3>2 DEF Cell, Kept
    <3>3. QED
      BY <3>1, <3>2
  <2>12. QED
    BY <2>9, <2>10, <2>11
<1>3. ASSUME NEW n \in Nat, NEW fields, NEW on \in SUBSET Stores, Setting(n, fields, on),
             n \in DOMAIN requests', requests'[n].wrote = clock + 1,
             \A j \in DOMAIN requests' \ DOMAIN requests : requests'[j].on \subseteq on
      PROVE  Goal
  <2>1. clock' = clock + 1 /\ "memory" \in on /\ on \subseteq Held
    BY <1>3 DEF Setting
  <2>2. /\ \A s \in on : /\ rows'[s] = [f \in Fields |-> IF f \in fields THEN n ELSE rows[s][f]]
                         /\ last'[s] = [f \in Fields |-> IF f \in fields THEN n ELSE last[s][f]]
        /\ \A s \in Stores \ on : rows'[s] = rows[s] /\ last'[s] = last[s]
        /\ DOMAIN rows' = Stores /\ DOMAIN last' = Stores
        /\ rows' = [s \in Stores |-> rows'[s]] /\ last' = [s \in Stores |-> last'[s]]
    BY <1>0, <1>3, <2>1 DEF Setting, Put
  <2>0. ASSUME NEW s \in on, NEW f \in Fields
        PROVE  /\ rows'[s][f] = IF f \in fields THEN n ELSE rows[s][f]
               /\ last'[s][f] = IF f \in fields THEN n ELSE last[s][f]
               /\ rows[s][f] \in Nat /\ last[s][f] \in Nat
    <3>1. /\ rows'[s] = [g \in Fields |-> IF g \in fields THEN n ELSE rows[s][g]]
          /\ last'[s] = [g \in Fields |-> IF g \in fields THEN n ELSE last[s][g]]
      BY <2>0, <2>2
    <3>2. rows[s] \in [Fields -> Nat] /\ last[s] \in [Fields -> Nat]
      BY <1>0, <2>0, <2>1
    <3>3. QED
      BY <3>1, <3>2
  <2>3. ASSUME NEW s \in on
        PROVE  rows'[s] \in [Fields -> Nat] /\ last'[s] \in [Fields -> Nat]
    <3>1. /\ rows'[s] = [g \in Fields |-> IF g \in fields THEN n ELSE rows[s][g]]
          /\ last'[s] = [g \in Fields |-> IF g \in fields THEN n ELSE last[s][g]]
      BY <2>2, <2>3
    <3>2. rows[s] \in [Fields -> Nat] /\ last[s] \in [Fields -> Nat]
      BY <1>0, <2>1, <2>3
    <3>3. QED
      BY <3>1, <3>2
  <2>4. \A s \in Stores : rows'[s] \in AnyRow /\ last'[s] \in AnyRow
    BY <1>0, <2>2, <2>3
  <2>5. rows' \in [Stores -> AnyRow] /\ last' \in [Stores -> AnyRow]
    BY <2>2, <2>4
  <2>6. requests' # << >>
    <3>1. DOMAIN << >> = {}
      OBVIOUS
    <3>2. QED
      BY <1>3, <3>1
  <2>7. RowsInv' /\ Held' = Held \cup on
    BY <1>1, <2>1, <2>2, <2>3, <2>5, <2>6, RowsAfter
  <2>8. \A s \in Held', f \in Fields : Kept(s, f) \/ SetBy(s, f, n)
    <3>1. \A s \in on, f \in Fields : Kept(s, f) \/ SetBy(s, f, n)
      BY <1>3, <2>0, <2>1 DEF Kept, SetBy
    <3>2. \A s \in Held \ on, f \in Fields : Kept(s, f)
      BY <1>0, <2>2 DEF Kept
    <3>3. QED
      BY <2>7, <3>1, <3>2
  <2>9. QED
    BY <1>3, <2>7, <2>8 DEF Cell
<1>4. ASSUME NEW r, Single1(r)
      PROVE  Goal
  <2>1. Adds(r) /\ r.wrote = clock + 1 /\ Setting(New, r.sets, r.on)
    BY <1>4 DEF Single1
  <2>2. /\ New \in DOMAIN requests' /\ requests'[New] = r /\ New \in Nat
        /\ \A j \in DOMAIN requests' \ DOMAIN requests : j = New
    BY <2>1, AddedRequests
  <2>3. r.on \in SUBSET Stores
    BY <2>1 DEF Adds, CatRequest
  <2>4. QED
    BY <1>3, <2>1, <2>2, <2>3
<1>5. ASSUME NEW i, Issuing(i)
      PROVE  Goal
  <2>1. Ending(i) /\ Setting(i, {"credential"}, requests'[i].on)
    BY <1>5 DEF Issuing
  <2>2. /\ i \in DOMAIN requests' /\ requests'[i].wrote = clock + 1 /\ i \in Nat
        /\ DOMAIN requests' = DOMAIN requests
    BY <1>0, <2>1, EndedRequests DEF Ending
  <2>3. requests'[i].on \in SUBSET Stores
    BY <1>0, <2>1 DEF Setting
  <2>4. QED
    BY <1>3, <2>1, <2>2, <2>3
<1>6. ASSUME UNCHANGED <<rows, last>>, requests' # << >>, Exists,
             \A j \in DOMAIN requests' \ DOMAIN requests : requests'[j].on \subseteq Held
      PROVE  Goal
  <2>1. RowsInv' /\ Held' = Held
    BY <1>1, <1>6 DEF RowsInv, Held, Exists, Missing, RowType, CatBase
  <2>2. \A s \in Held, f \in Fields : Kept(s, f)
    BY <1>6 DEF Kept
  <2>3. QED
    BY <1>6, <2>1, <2>2 DEF Cell
<1>7. ASSUME NEW i, Patching(i)
      PROVE  Goal
  <2>1. /\ Ending(i) /\ requests[i].op = "update" /\ clock' = clock + 1
        /\ i \in DOMAIN requests' /\ requests'[i].wrote = clock + 1 /\ i \in Nat
        /\ i \in Waiting("update") /\ i \in DOMAIN requests
        /\ DOMAIN requests' = DOMAIN requests
    BY <1>0, <1>7, EndedRequests DEF Patching, Ending, Waiting
  <2>2. PICK on : on = requests'[i].on
    OBVIOUS
  <2>3. on \subseteq requests[i].on /\ "memory" \in on /\ requests[i].on \subseteq Held
    BY <2>1, <2>2 DEF Ending, CatBase, RequestInv
  <2>4. /\ \A s \in on :
             /\ rows'[s] = [f \in Fields |->
                      IF f \in requests[i].sets THEN i
                      ELSE IF s = "memory" \/ f \in Columns THEN requests[i].copy[s][f]
                      ELSE rows[s][f]]
             /\ last'[s] = [f \in Fields |-> IF f \in requests[i].sets THEN i ELSE last[s][f]]
        /\ \A s \in Stores \ on : rows'[s] = rows[s] /\ last'[s] = last[s]
        /\ rows' = [s \in Stores |-> rows'[s]] /\ last' = [s \in Stores |-> last'[s]]
    <3>1. on \subseteq Stores /\ \A s \in on : DOMAIN last[s] = Fields
      BY <1>0, <2>3
    <3>2. QED
      BY <1>7, <2>2, <3>1 DEF Patching, Put
  <2>5. \A s \in on : requests[i].copy[s] \in [Fields -> Nat]
    BY <2>1, <2>3 DEF CatBase, CopyType
  <2>0. ASSUME NEW s \in on, NEW f \in Fields
        PROVE  /\ rows'[s][f] = IF f \in requests[i].sets THEN i
                               ELSE IF s = "memory" \/ f \in Columns
                                    THEN requests[i].copy[s][f] ELSE rows[s][f]
               /\ last'[s][f] = IF f \in requests[i].sets THEN i ELSE last[s][f]
    <3>1. /\ rows'[s] = [g \in Fields |->
                      IF g \in requests[i].sets THEN i
                      ELSE IF s = "memory" \/ g \in Columns THEN requests[i].copy[s][g]
                      ELSE rows[s][g]]
          /\ last'[s] = [g \in Fields |-> IF g \in requests[i].sets THEN i ELSE last[s][g]]
      BY <2>0, <2>4
    <3>2. QED
      BY <3>1
  <2>6. ASSUME NEW s \in on
        PROVE  rows'[s] \in [Fields -> Nat] /\ last'[s] \in [Fields -> Nat]
    <3>1. rows[s] \in [Fields -> Nat] /\ last[s] \in [Fields -> Nat]
          /\ requests[i].copy[s] \in [Fields -> Nat]
      BY <1>0, <2>3, <2>5, <2>6
    <3>2. \A f \in Fields : rows'[s][f] \in Nat /\ last'[s][f] \in Nat
      BY <2>0, <2>1, <2>6, <3>1
    <3>3. /\ rows'[s] = [g \in Fields |->
                      IF g \in requests[i].sets THEN i
                      ELSE IF s = "memory" \/ g \in Columns THEN requests[i].copy[s][g]
                      ELSE rows[s][g]]
          /\ last'[s] = [g \in Fields |-> IF g \in requests[i].sets THEN i ELSE last[s][g]]
      BY <2>4, <2>6
    <3>4. DOMAIN rows'[s] = Fields /\ rows'[s] = [g \in Fields |-> rows'[s][g]]
      BY <3>3
    <3>5. DOMAIN last'[s] = Fields /\ last'[s] = [g \in Fields |-> last'[s][g]]
      BY <3>3
    <3>6. QED
      BY <3>2, <3>4, <3>5
  <2>7. \A s \in Stores : rows'[s] \in AnyRow /\ last'[s] \in AnyRow
    BY <1>0, <2>4, <2>6
  <2>8. rows' \in [Stores -> AnyRow] /\ last' \in [Stores -> AnyRow]
    BY <2>4, <2>7
  <2>9. RowsInv' /\ Held' = Held \cup on
    <3>1. DOMAIN << >> = {} /\ on \in SUBSET Stores
      BY <1>0, <2>3
    <3>2. requests' # << >>
      BY <2>1, <3>1
    <3>3. QED
      BY <1>1, <2>3, <2>4, <2>6, <2>8, <3>1, <3>2, RowsAfter
  <2>10. ASSUME NEW s \in Held', NEW f \in Fields
         PROVE  Cell(s, f)
    <3>1. s \in Held
      BY <2>3, <2>9, <2>10
    <3>2. CASE s \notin on
      BY <1>0, <2>4, <3>1, <3>2 DEF Cell, Kept
    <3>3. CASE s \in on /\ f \in requests[i].sets
      BY <2>0, <2>1, <3>3 DEF Cell, SetBy
    <3>4. CASE s \in on /\ f \notin requests[i].sets /\ (s = "memory" \/ f \in Columns)
      <4>1. s = "pg" => f \in Columns
        BY <3>4
      <4>2. PutBack(s, f, i)
        BY <2>0, <2>1, <2>2, <2>3, <3>1, <3>4, <4>1 DEF PutBack
      <4>3. QED
        BY <4>2 DEF Cell
    <3>5. CASE s \in on /\ f \notin requests[i].sets /\ ~(s = "memory" \/ f \in Columns)
      BY <2>0, <3>1, <3>5 DEF Cell, Kept
    <3>6. QED
      BY <3>2, <3>3, <3>4, <3>5
  <2>11. QED
    BY <2>1, <2>9, <2>10
<1>8. ASSUME NEW r, Reading(r)
      PROVE  Goal
  <2>1. Adds(r) /\ UNCHANGED <<rows, last>> /\ Exists /\ r.on \subseteq Held
    BY <1>8 DEF Reading
  <2>2. New \in DOMAIN requests' /\ \A j \in DOMAIN requests' \ DOMAIN requests : requests'[j] = r
    BY <2>1, AddedRequests
  <2>3. DOMAIN << >> = {}
    OBVIOUS
  <2>4. requests' # << >>
    BY <2>2, <2>3
  <2>5. QED
    BY <1>6, <2>1, <2>2, <2>4
<1>9. ASSUME NEW i, Subscribing(i)
      PROVE  Goal
  <2>1. Ending(i) /\ UNCHANGED <<rows, last>>
    BY <1>9 DEF Subscribing
  <2>2. i \in DOMAIN requests /\ DOMAIN requests' = DOMAIN requests
    BY <2>1, EndedRequests DEF Ending
  <2>3. DOMAIN << >> = {}
    OBVIOUS
  <2>4. requests' # << >> /\ requests # << >>
    BY <2>2, <2>3
  <2>5. Exists
    BY <2>4 DEF CatBase, RowsInv
  <2>6. QED
    BY <1>6, <2>1, <2>2, <2>4, <2>5
<1>10. Goal
  BY <1>2, <1>4, <1>5, <1>7, <1>8, <1>9 DEF CatStep
<1>11. QED
  BY <1>10

(* Requests carry numbers. *)
LEMMA RequestNumbers ==
    ASSUME requests \in Seq(CatRequest), NEW j \in DOMAIN requests
    PROVE  requests[j].read \in Nat /\ requests[j].wrote \in Nat
<1>1. requests[j] \in CatRequest
  BY ElementOfSeq
<1>2. QED
  BY <1>1 DEF CatRequest

(* The base invariant holds at first and is kept. *)
LEMMA CatBaseInit == CatalogueInit => CatBase /\ Held = {} /\ DOMAIN requests = {}
<1> SUFFICES ASSUME CatalogueInit PROVE CatBase /\ Held = {} /\ DOMAIN requests = {}
  OBVIOUS
<1>1. /\ requests = << >> /\ DOMAIN requests = {} /\ table \in Tables /\ clock \in Nat
      /\ \A s \in Stores : rows[s] = None /\ last[s] = None
  BY DEF CatalogueInit
<1>2. Held = {}
  BY <1>1 DEF Held
<1>3. requests \in Seq(CatRequest)
  BY <1>1
<1>4. rows \in Copies /\ last \in Copies
  BY DEF CatalogueInit, Copies, AnyRow
<1>5. RowsInv
  BY <1>1, <1>2, <1>4 DEF RowsInv, Missing
<1>6. QED
  BY <1>1, <1>2, <1>3, <1>5 DEF CatBase, CatType, RequestInv, CopyType, NamesInv, Waiting

(* Every step keeps it. *)
LEMMA CatBaseStep ==
    ASSUME CatBase, CatStep
    PROVE  CatBase'
<1>1. Grown
  BY StepGrows
<1>2. table \in Tables /\ clock \in Nat /\ requests \in Seq(CatRequest)
  BY DEF CatBase, CatType
<1>3. /\ Fields' = Fields /\ Patchable' = Patchable
      /\ clock' \in Nat /\ clock' >= clock /\ clock' <= clock + 1
  BY <1>1, <1>2 DEF Grown, Fields, Patchable
<1>4. CatType'
  BY <1>1, <1>2, <1>3 DEF Grown, CatType
<1>5. RowsInv' /\ Held \subseteq Held'
  BY StepCells
<1>6. RequestInv'
  <2> SUFFICES ASSUME NEW j \in DOMAIN requests'
               PROVE  RequestInv!(j)'
    BY DEF RequestInv
  <2>1. CASE j \in DOMAIN requests
    <3>1. RequestInv!(j)
      BY <2>1 DEF CatBase, RequestInv
    <3>3. requests[j].read \in Nat /\ requests[j].wrote \in Nat
      BY <1>2, <2>1, RequestNumbers
    <3>4. requests'[j].read <= clock'
      BY <1>1, <1>2, <1>3, <2>1, <3>1, <3>3 DEF Grown
    <3>5. requests'[j].op # "subscribe" => requests'[j].wrote <= clock'
      BY <1>1, <1>2, <1>3, <2>1, <3>1, <3>3 DEF Grown
    <3>6. requests'[j].op = "update" => requests'[j].sets \subseteq Patchable'
      BY <1>1, <1>3, <2>1, <3>1 DEF Grown
    <3>7. requests'[j].op = "subscribe" => requests'[j].sets = {} /\ table' = "rooms"
      BY <1>1, <2>1, <3>1 DEF Grown
    <3>8. requests'[j].op \in {"register", "create"} => requests'[j].wrote > 0
      BY <1>1, <1>2, <2>1, <3>1, <3>3 DEF Grown
    <3>9. requests'[j].on \subseteq Held'
      BY <1>1, <1>5, <2>1, <3>1 DEF Grown
    <3>10. requests'[j].op # "subscribe" => "memory" \in requests'[j].on
      BY <1>1, <2>1 DEF Grown
    <3>11. QED
      BY <3>4, <3>5, <3>6, <3>7, <3>8, <3>9, <3>10
  <2>2. CASE j \notin DOMAIN requests
    <3>1. requests'[j].on \subseteq Held'
      BY <2>2, StepCells
    <3>2. requests'[j].read <= clock' /\ requests'[j].wrote <= clock'
      BY <1>1, <1>2, <1>3, <2>2 DEF Grown
    <3>3. QED
      BY <1>1, <1>2, <1>3, <2>2, <3>1, <3>2 DEF Grown
  <2>3. QED
    BY <2>1, <2>2
<1>7. CopyType'
  <2> SUFFICES ASSUME NEW i \in Waiting("update")', NEW s \in requests'[i].on
               PROVE  /\ requests'[i].copy[s] \in [Fields -> Nat]
                      /\ \A f \in Fields : requests'[i].copy[s][f] \in DOMAIN requests'
    BY <1>3 DEF CopyType
  <2>1. i \in DOMAIN requests' /\ requests'[i].op = "update" /\ requests'[i].wrote = 0
    BY DEF Waiting
  <2>2. CASE i \in DOMAIN requests
    <3>1. requests'[i] = requests[i]
      BY <1>1, <1>2, <2>1, <2>2 DEF Grown
    <3>2. i \in Waiting("update")
      BY <2>1, <2>2, <3>1 DEF Waiting
    <3>3. /\ requests[i].copy[s] \in [Fields -> Nat]
          /\ \A f \in Fields : requests[i].copy[s][f] \in DOMAIN requests
      BY <3>1, <3>2 DEF CatBase, CopyType
    <3>4. DOMAIN requests \subseteq DOMAIN requests'
      BY <1>1 DEF Grown
    <3>5. QED
      BY <3>1, <3>3, <3>4
  <2>3. CASE i \notin DOMAIN requests
    <3>1. requests'[i].copy = rows /\ s \in Held
      BY <1>1, <2>1, <2>3 DEF Grown
    <3>2. \A f \in Fields : rows[s][f] \in DOMAIN requests
      BY <3>1 DEF CatBase, NamesInv
    <3>3. DOMAIN requests \subseteq DOMAIN requests'
      BY <1>1 DEF Grown
    <3>4. rows[s] \in [Fields -> Nat]
      BY <3>1, HeldRows DEF RowType, CatBase
    <3>5. QED
      BY <3>1, <3>2, <3>3, <3>4
  <2>4. QED
    BY <2>2, <2>3
<1>8. NamesInv'
  <2> SUFFICES ASSUME NEW s \in Held', NEW f \in Fields
               PROVE  /\ rows'[s][f] \in DOMAIN requests'
                      /\ last'[s][f] \in DOMAIN requests'
                      /\ 0 < requests'[last'[s][f]].wrote
                      /\ requests'[last'[s][f]].wrote <= clock'
    BY <1>3 DEF NamesInv
  <2>1. Cell(s, f)
    BY StepCells
  <2>2. CASE \E n : SetBy(s, f, n)
    BY <1>2, <1>3, <2>2 DEF SetBy
  <2>3. ASSUME s \in Held, Kept(s, f) \/ \E i : PutBack(s, f, i)
        PROVE  /\ rows'[s][f] \in DOMAIN requests'
               /\ last'[s][f] \in DOMAIN requests'
               /\ 0 < requests'[last'[s][f]].wrote
               /\ requests'[last'[s][f]].wrote <= clock'
    <3>2. /\ rows[s][f] \in DOMAIN requests
          /\ last[s][f] \in DOMAIN requests
          /\ 0 < requests[last[s][f]].wrote /\ requests[last[s][f]].wrote <= clock
      BY <2>3 DEF CatBase, NamesInv
    <3>3. requests'[last[s][f]].wrote = requests[last[s][f]].wrote
      BY <1>1, <3>2 DEF Grown
    <3>4. requests[last[s][f]].wrote \in Nat
      BY <1>2, <3>2, RequestNumbers
    <3>5. DOMAIN requests \subseteq DOMAIN requests'
      BY <1>1 DEF Grown
    <3>6. CASE Kept(s, f)
      BY <1>2, <1>3, <3>2, <3>3, <3>4, <3>5, <3>6 DEF Kept
    <3>8. CASE \E i : PutBack(s, f, i)
      <4>1. PICK i : PutBack(s, f, i)
        BY <3>8
      <4>2. requests[i].copy[s][f] \in DOMAIN requests
        BY <4>1 DEF PutBack, CatBase, CopyType
      <4>3. QED
        BY <1>2, <1>3, <3>2, <3>3, <3>4, <3>5, <4>1, <4>2 DEF PutBack
    <3>9. QED
      BY <2>3, <3>6, <3>8
  <2>4. QED
    BY <2>1, <2>2, <2>3 DEF Cell, Kept, PutBack
<1>9. QED
  BY <1>4, <1>5, <1>6, <1>7, <1>8 DEF CatBase

-----------------------------------------------------------------------------
(* Lost values *)

(* A PATCH that leaves the field alone went around the request that last set it *)
Explained(s, f) ==
    \E u \in Finished("update") :
        s \in requests[u].on /\ f \notin requests[u].sets /\ Overlaps(u, last[s][f])

(* A PATCH that waits with an old value has read it before the field was last set,
   or the value was put back before *)
StaleCopy ==
    \A i \in Waiting("update") : \A s \in requests[i].on, f \in Fields :
        requests[i].copy[s][f] # last[s][f] =>
            \/ requests[i].read < requests[last[s][f]].wrote
            \/ Explained(s, f)

LostInv ==
    \A s \in Held, f \in Fields :
        rows[s][f] # last[s][f] => (s = "pg" => f \notin Reported) /\ Explained(s, f)

(* An explanation stays one while the field is not set again. *)
LEMMA ExplainedStays ==
    ASSUME CatBase, Grown, NEW s \in Held, NEW f \in Fields, Explained(s, f),
           last'[s][f] = last[s][f]
    PROVE  Explained(s, f)'
<1>1. PICK u \in Finished("update") :
         s \in requests[u].on /\ f \notin requests[u].sets /\ Overlaps(u, last[s][f])
  BY DEF Explained
<1>2. /\ u \in DOMAIN requests /\ requests[u].op = "update" /\ requests[u].wrote > 0
      /\ requests[u].read < requests[last[s][f]].wrote
      /\ requests[last[s][f]].wrote < requests[u].wrote
  BY <1>1 DEF Finished, Overlaps
<1>3. last[s][f] \in DOMAIN requests /\ 0 < requests[last[s][f]].wrote
  BY DEF CatBase, NamesInv
<1>4. requests'[last[s][f]] = requests[last[s][f]]
  BY <1>3 DEF Grown
<1>5. u \in DOMAIN requests' /\ requests'[u] = requests[u]
  BY <1>2 DEF Grown
<1>6. u \in Finished("update")'
  BY <1>2, <1>5 DEF Finished
<1>7. Overlaps(u, last[s][f])'
  BY <1>2, <1>4, <1>5 DEF Overlaps
<1>8. QED
  BY <1>1, <1>5, <1>6, <1>7 DEF Explained

(* A value is lost only when a PATCH puts an older one back. *)
LEMMA LostStep ==
    ASSUME CatBase, StaleCopy, LostInv, CatStep
    PROVE  StaleCopy' /\ LostInv'
<1>1. Grown /\ CatBase'
  BY StepGrows, CatBaseStep
<1>2. /\ Fields' = Fields /\ Columns' = Columns /\ clock \in Nat
      /\ requests \in Seq(CatRequest)
  BY <1>1 DEF Grown, Fields, Columns, CatBase, CatType
<1>3. ASSUME NEW i \in Waiting("update"), NEW s \in requests[i].on
      PROVE  s \in Held
  BY <1>3 DEF Waiting, CatBase, RequestInv
<1>4. ASSUME NEW s \in Held', NEW f \in Fields,
             Cell(s, f)
      PROVE  rows'[s][f] # last'[s][f] =>
                (s = "pg" => f \notin Reported) /\ Explained(s, f)'
  <2>1. CASE Kept(s, f)
    <3>1. CASE rows[s][f] # last[s][f]
      BY <1>1, <1>4, <2>1, <3>1, ExplainedStays DEF LostInv, Kept
    <3>2. CASE rows[s][f] = last[s][f]
      BY <2>1, <3>2 DEF Kept
    <3>3. QED
      BY <3>1, <3>2
  <2>2. CASE \E n : SetBy(s, f, n)
    BY <2>2 DEF SetBy
  <2>3. CASE \E i : PutBack(s, f, i)
    <3>1. PICK i : PutBack(s, f, i)
      BY <2>3
    <3>2. /\ i \in Waiting("update") /\ f \notin requests[i].sets /\ s \in Held
          /\ requests'[i].wrote = clock + 1 /\ s \in requests[i].on /\ s \in requests'[i].on
          /\ rows'[s][f] = requests[i].copy[s][f] /\ last'[s][f] = last[s][f]
      BY <3>1 DEF PutBack
    <3>3. s = "pg" => f \notin Reported
      BY <3>1, ColumnSets DEF PutBack
    <3>4. SUFFICES ASSUME requests[i].copy[s][f] # last[s][f]
                   PROVE  Explained(s, f)'
      BY <3>2, <3>3
    <3>5. CASE requests[i].read < requests[last[s][f]].wrote
      <4>1. /\ last[s][f] \in DOMAIN requests /\ 0 < requests[last[s][f]].wrote
            /\ requests[last[s][f]].wrote <= clock
        BY <3>2 DEF CatBase, NamesInv
      <4>2. requests'[last[s][f]] = requests[last[s][f]]
        BY <1>1, <4>1 DEF Grown
      <4>3. requests[last[s][f]].wrote \in Nat
        BY <1>2, <4>1, RequestNumbers
      <4>4. /\ i \in DOMAIN requests' /\ requests'[i].op = "update"
            /\ requests'[i].read = requests[i].read /\ requests'[i].sets = requests[i].sets
        BY <1>1, <3>2 DEF Grown, Waiting
      <4>5. i \in Finished("update")'
        BY <1>2, <3>2, <4>4 DEF Finished
      <4>6. Overlaps(i, last[s][f])'
        BY <1>2, <3>2, <3>5, <4>1, <4>2, <4>3, <4>4 DEF Overlaps
      <4>7. QED
        BY <3>2, <4>4, <4>5, <4>6 DEF Explained, Overlaps
    <3>6. CASE Explained(s, f)
      BY <1>1, <1>4, <3>2, <3>6, ExplainedStays
    <3>7. QED
      BY <3>2, <3>4, <3>5, <3>6 DEF StaleCopy
  <2>4. QED
    BY <1>4, <2>1, <2>2, <2>3 DEF Cell
<1>5. LostInv'
  <2>1. ASSUME NEW s \in Held', NEW f \in Fields
        PROVE  rows'[s][f] # last'[s][f] =>
                  (s = "pg" => f \notin Reported) /\ Explained(s, f)'
    BY <1>4, <2>1, StepCells
  <2>2. QED
    BY <1>2, <2>1 DEF LostInv
<1>6. StaleCopy'
  <2> SUFFICES ASSUME NEW i \in Waiting("update")', NEW s \in requests'[i].on, NEW f \in Fields,
                      requests'[i].copy[s][f] # last'[s][f]
               PROVE  \/ requests'[i].read < requests'[last'[s][f]].wrote
                      \/ Explained(s, f)'
    BY <1>2 DEF StaleCopy
  <2>1. i \in DOMAIN requests' /\ requests'[i].op = "update" /\ requests'[i].wrote = 0
    BY DEF Waiting
  <2>2. CASE i \in DOMAIN requests
    <3>1. requests'[i] = requests[i] /\ i \in Waiting("update")
      BY <1>1, <1>2, <2>1, <2>2 DEF Grown, Waiting
    <3>0. s \in Held /\ s \in Held' /\ s \in requests[i].on
      BY <1>3, <3>1, StepCells
    <3>2. requests[i].read <= clock /\ requests[i].read \in Nat
      BY <1>2, <2>2, RequestNumbers DEF CatBase, RequestInv
    <3>3. CASE last'[s][f] = last[s][f]
      <4>1. last[s][f] \in DOMAIN requests /\ 0 < requests[last[s][f]].wrote
        BY <3>0 DEF CatBase, NamesInv
      <4>2. requests'[last[s][f]] = requests[last[s][f]]
        BY <1>1, <4>1 DEF Grown
      <4>3. CASE requests[i].read < requests[last[s][f]].wrote
        BY <3>1, <3>3, <4>2, <4>3
      <4>4. CASE Explained(s, f)
        BY <1>1, <3>0, <3>3, <4>4, ExplainedStays
      <4>5. QED
        BY <3>0, <3>1, <3>3, <4>3, <4>4 DEF StaleCopy
    <3>4. CASE \E n : SetBy(s, f, n)
      <4>1. requests'[last'[s][f]].wrote = clock + 1
        BY <3>4 DEF SetBy
      <4>2. QED
        BY <1>2, <3>1, <3>2, <4>1
    <3>5. last'[s][f] = last[s][f] \/ \E n : SetBy(s, f, n)
      BY <3>0, StepCells DEF Cell, Kept, PutBack
    <3>6. QED
      BY <3>3, <3>4, <3>5
  <2>3. CASE i \notin DOMAIN requests
    <3>1. requests'[i].copy = rows /\ UNCHANGED <<rows, last>> /\ s \in Held
      BY <1>1, <2>1, <2>3 DEF Grown
    <3>2. rows[s][f] # last[s][f]
      BY <3>1
    <3>3. Explained(s, f)
      BY <3>1, <3>2 DEF LostInv
    <3>4. QED
      BY <1>1, <3>1, <3>3, ExplainedStays
  <2>4. QED
    BY <2>2, <2>3
<1>7. QED
  BY <1>5, <1>6
-----------------------------------------------------------------------------
(* The two stores *)

TwoPosts == \E i, j \in Posted \ RefusedByPg : i # j
PatchRefused == Finished("update") \cap RefusedByPg # {}

(* As long as PostgreSQL took one POST, it has seen every request that it did not
   refuse; and as long as it refused no PATCH, the fields a PATCH can write hold the
   same in both stores, but for what it refused *)
AgreeInv ==
    /\ "pg" \in Held => Posted \ RefusedByPg # {}
    /\ \/ TwoPosts
       \/ /\ "pg" \in Held => \A f \in Fields :
                last["memory"][f] \in RefusedByPg \/ last["pg"][f] = last["memory"][f]
          /\ \/ PatchRefused
             \/ /\ "pg" \in Held => \A f \in Fields \ Reported :
                      rows["memory"][f] \in RefusedByPg \/ rows["pg"][f] = rows["memory"][f]
                /\ \A i \in Waiting("update") : "pg" \in requests[i].on =>
                      \A f \in Fields \ Reported :
                         \/ requests[i].copy["memory"][f] \in RefusedByPg
                         \/ requests[i].copy["pg"][f] = requests[i].copy["memory"][f]

(* What was refused stays refused, and what was taken stays taken. *)
LEMMA RefusalsStay ==
    ASSUME CatBase, Grown
    PROVE  /\ RefusedByPg \subseteq RefusedByPg'
           /\ Posted \ RefusedByPg \subseteq (Posted \ RefusedByPg)'
           /\ TwoPosts => TwoPosts'
           /\ PatchRefused => PatchRefused'
<1>1. ASSUME NEW j \in DOMAIN requests, requests[j].wrote > 0
      PROVE  j \in DOMAIN requests' /\ requests'[j] = requests[j]
  BY <1>1 DEF Grown
<1>2. RefusedByPg \subseteq RefusedByPg'
  BY <1>1 DEF RefusedByPg
<1>3. ASSUME NEW j \in Posted \ RefusedByPg
      PROVE  j \in (Posted \ RefusedByPg)'
  <2>1. j \in DOMAIN requests /\ requests[j].wrote > 0 /\ "pg" \in requests[j].on
        /\ requests[j].op \in {"register", "create"}
    BY <1>3 DEF Posted, RefusedByPg, CatBase, RequestInv
  <2>2. j \in DOMAIN requests' /\ requests'[j] = requests[j]
    BY <1>1, <2>1
  <2>3. j \in Posted' /\ j \notin RefusedByPg'
    BY <2>1, <2>2 DEF Posted, RefusedByPg
  <2>4. QED
    BY <2>3
<1>4. Finished("update") \subseteq Finished("update")'
  BY <1>1 DEF Finished
<1>5. QED
  BY <1>2, <1>3, <1>4 DEF TwoPosts, PatchRefused

(* Which step makes which difference between the stores. *)
AgreeCell(f) ==
    \/ /\ rows'["memory"][f] = rows["memory"][f] /\ last'["memory"][f] = last["memory"][f]
       /\ "pg" \in Held /\ rows'["pg"][f] = rows["pg"][f] /\ last'["pg"][f] = last["pg"][f]
    \/ rows'["memory"][f] = rows'["pg"][f] /\ last'["memory"][f] = last'["pg"][f]
    \/ rows'["memory"][f] \in RefusedByPg' /\ last'["memory"][f] \in RefusedByPg'
    \/ /\ last'["memory"][f] = last["memory"][f]
       /\ "pg" \in Held /\ last'["pg"][f] = last["pg"][f]
       /\ \/ f \in Reported
          \/ PatchRefused'
          \/ \E i \in Waiting("update") :
                /\ "pg" \in requests[i].on
                /\ rows'["memory"][f] = requests[i].copy["memory"][f]
                /\ rows'["pg"][f] = requests[i].copy["pg"][f]

(* Every step that leaves PostgreSQL with a row of one POST does only that. *)
LEMMA AgreeCells ==
    ASSUME CatBase, AgreeInv, CatStep, "pg" \in Held', ~TwoPosts', NEW f \in Fields
    PROVE  AgreeCell(f)
<1>0. /\ \A s \in Held : DOMAIN rows[s] = Fields /\ DOMAIN last[s] = Fields
      /\ "memory" \in Stores /\ "pg" \in Stores /\ "pg" # "memory" /\ clock \in Nat
      /\ Held \subseteq Stores
  BY HeldRows DEF CatBase, CatType, Stores
<1>1. Grown
  BY StepGrows
<1>2. ASSUME rows'["pg"] = rows["pg"]
      PROVE  "pg" \in Held
  BY <1>2 DEF Held
<1>3. ASSUME NEW r, Posting(r)
      PROVE  AgreeCell(f)
  <2>1. /\ Adds(r) /\ r.op \in {"register", "create"} /\ "memory" \in r.on
        /\ r.wrote = clock + 1
    BY <1>3 DEF Posting
  <2>2. New \in DOMAIN requests' /\ New \notin DOMAIN requests /\ requests'[New] = r
    BY <2>1, AddedRequests
  <2>3. All(New)[f] = New
    BY DEF All
  <2>4. rows'["memory"][f] = New /\ last'["memory"][f] = New
    BY <1>0, <1>3, <2>1, <2>3 DEF Posting
  <2>5. CASE "pg" \in r.on
    <3>1. New \in (Posted \ RefusedByPg)'
      BY <2>1, <2>2, <2>5 DEF Posted, RefusedByPg
    <3>2. "pg" \notin Held
      <4>1. ASSUME "pg" \in Held PROVE FALSE
        <5>1. PICK p \in Posted \ RefusedByPg : TRUE
          BY <4>1 DEF AgreeInv
        <5>2. p \in (Posted \ RefusedByPg)' /\ p # New
          BY <1>1, <2>2, <5>1, RefusalsStay DEF Posted
        <5>3. QED
          BY <3>1, <5>2 DEF TwoPosts
      <4>2. QED
        BY <4>1
    <3>3. rows["pg"] = None
      BY <1>0, <3>2 DEF Held
    <3>4. rows'["pg"][f] = New /\ last'["pg"][f] = New
      BY <1>0, <1>3, <2>3, <2>5, <3>3 DEF Posting
    <3>5. QED
      BY <2>4, <3>4 DEF AgreeCell
  <2>6. CASE "pg" \notin r.on
    <3>1. New \in RefusedByPg'
      BY <1>0, <2>1, <2>2, <2>6 DEF RefusedByPg
    <3>2. QED
      BY <2>4, <3>1 DEF AgreeCell
  <2>7. QED
    BY <2>5, <2>6
<1>4. ASSUME NEW n, NEW fields, NEW on, Setting(n, fields, on), n \in DOMAIN requests',
             requests'[n].wrote = clock + 1, requests'[n].on = on
      PROVE  AgreeCell(f)
  <2>1. "memory" \in on /\ on \subseteq Held
    BY <1>4 DEF Setting
  <2>2. ASSUME NEW s \in on
        PROVE  /\ rows'[s][f] = IF f \in fields THEN n ELSE rows[s][f]
               /\ last'[s][f] = IF f \in fields THEN n ELSE last[s][f]
    <3>1. rows'[s] = Put(rows[s], fields, n) /\ last'[s] = Put(last[s], fields, n)
      BY <1>0, <1>4, <2>1, <2>2 DEF Setting
    <3>2. DOMAIN rows[s] = Fields /\ DOMAIN last[s] = Fields
      BY <1>0, <2>1, <2>2
    <3>3. QED
      BY <3>1, <3>2 DEF Put
  <2>3. CASE "pg" \in on
    <3>1. "pg" \in Held
      BY <2>1, <2>3
    <3>2. QED
      BY <2>1, <2>2, <2>3, <3>1 DEF AgreeCell
  <2>4. CASE "pg" \notin on
    <3>1. rows'["pg"] = rows["pg"] /\ last'["pg"] = last["pg"]
      BY <1>0, <1>4, <2>4 DEF Setting
    <3>2. "pg" \in Held
      BY <1>2, <3>1
    <3>3. n \in RefusedByPg'
      BY <1>0, <1>4, <2>4 DEF RefusedByPg
    <3>4. QED
      BY <2>1, <2>2, <3>1, <3>2, <3>3 DEF AgreeCell
  <2>5. QED
    BY <2>3, <2>4
<1>5. ASSUME NEW r, Single1(r)
      PROVE  AgreeCell(f)
  <2>1. Adds(r) /\ r.wrote = clock + 1 /\ Setting(New, r.sets, r.on)
    BY <1>5 DEF Single1
  <2>2. New \in DOMAIN requests' /\ requests'[New] = r
    BY <2>1, AddedRequests
  <2>3. QED
    BY <1>4, <2>1, <2>2
<1>6. ASSUME NEW i, Issuing(i)
      PROVE  AgreeCell(f)
  <2>1. Ending(i) /\ Setting(i, {"credential"}, requests'[i].on)
    BY <1>6 DEF Issuing
  <2>2. i \in DOMAIN requests' /\ requests'[i].wrote = clock + 1
    BY <2>1, EndedRequests DEF Ending
  <2>3. QED
    BY <1>4, <2>1, <2>2
<1>7. ASSUME NEW i, Patching(i)
      PROVE  AgreeCell(f)
  <2>1. /\ i \in Waiting("update") /\ i \in DOMAIN requests' /\ requests'[i].op = "update"
        /\ requests'[i].wrote = clock + 1 /\ requests'[i].on \subseteq requests[i].on
        /\ "memory" \in requests'[i].on /\ requests[i].on \subseteq Held
    BY <1>7, EndedRequests DEF Patching, Ending, Waiting, CatBase, RequestInv
  <2>2. ASSUME NEW s \in requests'[i].on
        PROVE  /\ rows'[s][f] = IF f \in requests[i].sets THEN i
                                ELSE IF s = "memory" \/ f \in Columns
                                     THEN requests[i].copy[s][f] ELSE rows[s][f]
               /\ last'[s][f] = IF f \in requests[i].sets THEN i ELSE last[s][f]
    <3>1. s \in Stores /\ DOMAIN last[s] = Fields
      BY <1>0, <2>1, <2>2
    <3>2. rows'[s] = [g \in Fields |->
                        IF g \in requests[i].sets THEN i
                        ELSE IF s = "memory" \/ g \in Columns THEN requests[i].copy[s][g]
                        ELSE rows[s][g]]
      BY <1>7, <2>2, <3>1 DEF Patching
    <3>3. last'[s] = Put(last[s], requests[i].sets, i)
      BY <1>7, <2>2, <3>1 DEF Patching
    <3>4. QED
      BY <3>1, <3>2, <3>3 DEF Put
  <2>3. f \in Columns \/ f \in Reported
    BY ColumnSets
  <2>4. CASE "pg" \in requests'[i].on
    <3>1. "pg" \in Held /\ "pg" \in requests[i].on
      BY <2>1, <2>4
    <3>2. CASE f \in requests[i].sets
      BY <2>1, <2>2, <2>4, <3>2 DEF AgreeCell
    <3>3. CASE f \notin requests[i].sets
      <4>1. /\ last'["memory"][f] = last["memory"][f] /\ last'["pg"][f] = last["pg"][f]
            /\ rows'["memory"][f] = requests[i].copy["memory"][f]
        BY <2>1, <2>2, <2>4, <3>3
      <4>2. f \in Columns => rows'["pg"][f] = requests[i].copy["pg"][f]
        BY <2>2, <2>4, <3>3
      <4>3. QED
        BY <2>1, <2>3, <3>1, <4>1, <4>2 DEF AgreeCell
    <3>4. QED
      BY <3>2, <3>3
  <2>5. CASE "pg" \notin requests'[i].on
    <3>1. rows'["pg"] = rows["pg"] /\ last'["pg"] = last["pg"]
      BY <1>0, <1>7, <2>5 DEF Patching
    <3>2. "pg" \in Held
      BY <1>2, <3>1
    <3>3. i \in RefusedByPg' /\ i \in Finished("update")'
      BY <1>0, <2>1, <2>5 DEF RefusedByPg, Finished
    <3>4. PatchRefused'
      BY <3>3 DEF PatchRefused
    <3>5. QED
      BY <2>1, <2>2, <3>1, <3>2, <3>3, <3>4 DEF AgreeCell
  <2>6. QED
    BY <2>4, <2>5
<1>8. CASE UNCHANGED <<rows, last>>
  <2>1. "pg" \in Held
    BY <1>2, <1>8
  <2>2. QED
    BY <1>8, <2>1 DEF AgreeCell
<1>9. QED
  BY <1>3, <1>5, <1>6, <1>7, <1>8 DEF CatStep, Reading, Subscribing

(* PostgreSQL has the row because it took a POST. *)
LEMMA TookPost ==
    ASSUME CatBase, AgreeInv, CatStep, "pg" \in Held'
    PROVE  (Posted \ RefusedByPg)' # {}
<1>1. Grown
  BY StepGrows
<1>2. CASE "pg" \in Held
  BY <1>1, <1>2, RefusalsStay DEF AgreeInv
<1>3. CASE "pg" \notin Held
  <2>1. PICK f \in Fields : TRUE
    BY DEF Fields, DeviceFields, RoomFields
  <2>2. /\ "pg" \in Stores /\ rows["pg"] = None /\ rows'["pg"] # rows["pg"]
        /\ Held \subseteq Stores
    BY <1>3 DEF Held, Stores
  <2>3. PICK r : Posting(r)
    <3>1. ASSUME NEW n, NEW fields, NEW on, Setting(n, fields, on)
          PROVE  FALSE
      BY <1>3, <2>2, <3>1 DEF Setting
    <3>2. ASSUME NEW i, Patching(i)
          PROVE  FALSE
      <4>1. "pg" \notin requests'[i].on
        BY <1>3, <3>2 DEF Patching, Ending, CatBase, RequestInv
      <4>2. QED
        BY <2>2, <3>2, <4>1 DEF Patching
    <3>3. QED
      BY <2>2, <3>1, <3>2 DEF CatStep, Single1, Issuing, Reading, Subscribing
  <2>4. Adds(r) /\ r.op \in {"register", "create"}
    BY <2>3 DEF Posting
  <2>5. New \in DOMAIN requests' /\ requests'[New] = r
    BY <2>4, AddedRequests
  <2>6. "pg" \in r.on
    BY <2>2, <2>3 DEF Posting
  <2>7. New \in Posted' /\ New \notin RefusedByPg'
    BY <2>4, <2>5, <2>6 DEF Posted, RefusedByPg
  <2>8. QED
    BY <2>7
<1>4. QED
  BY <1>2, <1>3

(* Every step keeps the stores alike. *)
LEMMA AgreeStep ==
    ASSUME CatBase, AgreeInv, CatStep
    PROVE  AgreeInv'
<1>1. Grown /\ CatBase' /\ Fields' = Fields
  BY StepGrows, CatBaseStep DEF Grown, Fields
<1>2. /\ RefusedByPg \subseteq RefusedByPg' /\ (TwoPosts => TwoPosts')
      /\ (PatchRefused => PatchRefused')
  BY <1>1, RefusalsStay
<1>3. "pg" \in Held' => (Posted \ RefusedByPg)' # {}
  BY TookPost
<1>4. SUFFICES ASSUME ~TwoPosts'
               PROVE  /\ "pg" \in Held' => \A f \in Fields :
                            \/ last'["memory"][f] \in RefusedByPg'
                            \/ last'["pg"][f] = last'["memory"][f]
                      /\ \/ PatchRefused'
                         \/ /\ "pg" \in Held' => \A f \in Fields \ Reported :
                                  \/ rows'["memory"][f] \in RefusedByPg'
                                  \/ rows'["pg"][f] = rows'["memory"][f]
                            /\ \A i \in Waiting("update")' : "pg" \in requests'[i].on =>
                                  \A f \in Fields \ Reported :
                                     \/ requests'[i].copy["memory"][f] \in RefusedByPg'
                                     \/ requests'[i].copy["pg"][f] = requests'[i].copy["memory"][f]
  BY <1>1, <1>3 DEF AgreeInv
<1>5. "pg" \in Held => \A f \in Fields :
         last["memory"][f] \in RefusedByPg \/ last["pg"][f] = last["memory"][f]
  BY <1>2, <1>4 DEF AgreeInv
<1>6. ASSUME ~PatchRefused'
      PROVE  /\ "pg" \in Held => \A f \in Fields \ Reported :
                   rows["memory"][f] \in RefusedByPg \/ rows["pg"][f] = rows["memory"][f]
             /\ \A i \in Waiting("update") : "pg" \in requests[i].on =>
                   \A f \in Fields \ Reported :
                      \/ requests[i].copy["memory"][f] \in RefusedByPg
                      \/ requests[i].copy["pg"][f] = requests[i].copy["memory"][f]
  BY <1>2, <1>4, <1>6 DEF AgreeInv
<1>7. ASSUME "pg" \in Held', NEW f \in Fields
      PROVE  last'["memory"][f] \in RefusedByPg' \/ last'["pg"][f] = last'["memory"][f]
  <2>1. AgreeCell(f)
    BY <1>4, <1>7, AgreeCells
  <2>2. QED
    BY <1>2, <1>5, <1>7, <2>1 DEF AgreeCell
<1>8. ASSUME ~PatchRefused', "pg" \in Held', NEW f \in Fields \ Reported
      PROVE  rows'["memory"][f] \in RefusedByPg' \/ rows'["pg"][f] = rows'["memory"][f]
  <2>1. AgreeCell(f)
    BY <1>4, <1>8, AgreeCells
  <2>2. QED
    BY <1>2, <1>6, <1>8, <2>1 DEF AgreeCell
<1>9. ASSUME ~PatchRefused', NEW i \in Waiting("update")', "pg" \in requests'[i].on,
             NEW f \in Fields \ Reported
      PROVE  \/ requests'[i].copy["memory"][f] \in RefusedByPg'
             \/ requests'[i].copy["pg"][f] = requests'[i].copy["memory"][f]
  <2>1. i \in DOMAIN requests' /\ requests'[i].op = "update" /\ requests'[i].wrote = 0
    BY <1>9 DEF Waiting
  <2>2. CASE i \in DOMAIN requests
    <3>1. requests'[i] = requests[i] /\ i \in Waiting("update")
      BY <1>1, <2>1, <2>2 DEF Grown, Waiting, CatBase, CatType
    <3>2. QED
      BY <1>2, <1>6, <1>9, <3>1
  <2>3. CASE i \notin DOMAIN requests
    <3>1. requests'[i].copy = rows /\ "pg" \in Held
      BY <1>1, <1>9, <2>1, <2>3 DEF Grown
    <3>2. QED
      BY <1>2, <1>6, <1>9, <3>1
  <2>4. QED
    BY <2>2, <2>3
<1>10. QED
  BY <1>7, <1>8, <1>9
-----------------------------------------------------------------------------
(* Private rooms *)

(* An answered PATCH that made the room of this store private *)
Hides(p, s) ==
    /\ p \in Finished("update") /\ s \in requests[p].on
    /\ "visibility" \in requests[p].sets /\ requests[p].private

(* A later request opened the room again, or a PATCH that had read it earlier wrote
   the old visibility back *)
Reopens(q, p, s) ==
    /\ q \in DOMAIN requests /\ s \in requests[q].on
    /\ requests[p].wrote < requests[q].wrote
    /\ \/ /\ "visibility" \in requests[q].sets /\ ~requests[q].private
          /\ requests[q].op = "create" => s = "memory"
       \/ requests[q].op = "update" /\ Overlaps(q, p)

PrivateRow ==
    table = "rooms" => \A s \in Held, p \in DOMAIN requests :
        Hides(p, s) /\ ~Private(rows[s]) => \E q : Reopens(q, p, s)

PrivateCopy ==
    table = "rooms" => \A i \in Waiting("update") :
        \A s \in requests[i].on, p \in DOMAIN requests :
            Hides(p, s) /\ ~Private(requests[i].copy[s]) =>
                \/ requests[i].read < requests[p].wrote
                \/ \E q : Reopens(q, p, s)

PrivateGuest ==
    \A g \in DOMAIN requests : requests[g].op = "subscribe" /\ requests[g].guest =>
        \A s \in requests[g].on, p \in DOMAIN requests :
            Hides(p, s) /\ requests[p].wrote <= requests[g].read =>
                \E q : Reopens(q, p, s) /\ requests[q].wrote <= requests[g].read

PrivateInv == PrivateRow /\ PrivateCopy /\ PrivateGuest

(* What opened the room again stays what it was. *)
LEMMA ReopensStays ==
    ASSUME CatBase, Grown, NEW q, NEW p, NEW s, Hides(p, s), Reopens(q, p, s)
    PROVE  Reopens(q, p, s)' /\ requests'[q].wrote = requests[q].wrote
<1>1. /\ p \in DOMAIN requests /\ requests[p].wrote > 0 /\ q \in DOMAIN requests
      /\ requests[p].wrote < requests[q].wrote
  BY DEF Hides, Finished, Reopens
<1>2. /\ requests[p].wrote \in Nat /\ requests[q].wrote \in Nat
  BY <1>1, RequestNumbers DEF CatBase, CatType
<1>3. requests'[p] = requests[p] /\ requests'[q] = requests[q] /\ q \in DOMAIN requests'
  BY <1>1, <1>2 DEF Grown
<1>4. QED
  BY <1>3 DEF Reopens, Overlaps

(* A PATCH that hides the room did so before this step, or does so now. *)
LEMMA HidesNow ==
    ASSUME CatBase, Grown, NEW p \in DOMAIN requests', NEW s, Hides(p, s)'
    PROVE  \/ Hides(p, s) /\ p \in DOMAIN requests /\ requests'[p].wrote = requests[p].wrote
           \/ p \in Waiting("update") /\ requests'[p].wrote = clock + 1
              /\ s \in requests'[p].on
<1>1. /\ requests'[p].op = "update" /\ requests'[p].wrote > 0 /\ s \in requests'[p].on
      /\ "visibility" \in requests'[p].sets /\ requests'[p].private
  BY DEF Hides, Finished
<1>2. p \in DOMAIN requests
  BY <1>1 DEF Grown
<1>3. QED
  BY <1>1, <1>2 DEF Grown, Hides, Finished, Waiting

(* Who may be behind the visibility of a room after a step *)
VisibilityCell(s) ==
    \/ /\ rows'[s]["visibility"] = rows[s]["visibility"]
       /\ \A i \in Waiting("update") :
             requests'[i].wrote = clock + 1 /\ s \in requests'[i].on
                => "visibility" \notin requests[i].sets
    \/ \E n \in DOMAIN requests' :
          /\ rows'[s]["visibility"] = n /\ requests'[n].wrote = clock + 1
          /\ s \in requests'[n].on
          /\ "visibility" \in requests'[n].sets
          /\ requests'[n].op = "create" => s = "memory"
          /\ \A i \in Waiting("update") : requests'[i].wrote = clock + 1 => i = n
    \/ \E i \in Waiting("update") :
          /\ rows'[s]["visibility"] = requests[i].copy[s]["visibility"]
          /\ s \in requests[i].on /\ s \in requests'[i].on
          /\ requests'[i].wrote = clock + 1
          /\ "visibility" \notin requests[i].sets
          /\ \A j \in Waiting("update") : requests'[j].wrote = clock + 1 => j = i

(* Every step on a room does only that. *)
LEMMA VisibilityCells ==
    ASSUME CatBase, CatStep, table = "rooms", NEW s \in Held
    PROVE  VisibilityCell(s)
<1>0. /\ DOMAIN rows[s] = Fields /\ rows[s] # None /\ s \in Stores
      /\ "visibility" \in Fields /\ clock \in Nat
      /\ "visibility" \in Columns
  BY ColumnSets, HeldRows DEF Held, Fields, RoomFields, CatBase, CatType
<1>1. ASSUME NEW r, Adds(r)
      PROVE  \A i \in Waiting("update") : requests'[i].wrote # clock + 1
  BY <1>0, <1>1, AddedRequests DEF Waiting
<1>2. ASSUME NEW r, Posting(r)
      PROVE  VisibilityCell(s)
  <2>1. Adds(r) /\ r.sets = Fields /\ r.wrote = clock + 1 /\ "memory" \in r.on
    BY <1>2 DEF Posting
  <2>2. New \in DOMAIN requests' /\ requests'[New] = r
    BY <2>1, AddedRequests
  <2>3. rows'[s] = IF s = "memory" THEN All(New) ELSE rows[s]
    BY <1>0, <1>2, <2>1 DEF Posting
  <2>4. CASE s = "memory"
    <3>1. rows'[s]["visibility"] = New
      BY <1>0, <2>3, <2>4 DEF All
    <3>2. QED
      BY <1>0, <1>1, <2>1, <2>2, <2>4, <3>1 DEF VisibilityCell
  <2>5. CASE s # "memory"
    BY <1>1, <2>1, <2>3, <2>5 DEF VisibilityCell
  <2>6. QED
    BY <2>4, <2>5
<1>3. ASSUME NEW n, NEW fields, NEW on, Setting(n, fields, on)
      PROVE  rows'[s]["visibility"] = rows[s]["visibility"]
  BY <1>0, <1>3 DEF Setting, Put
<1>4. ASSUME NEW r, Single1(r)
      PROVE  VisibilityCell(s)
  BY <1>1, <1>3, <1>4 DEF Single1, VisibilityCell
<1>5. ASSUME NEW r, Reading(r)
      PROVE  VisibilityCell(s)
  BY <1>1, <1>5 DEF Reading, VisibilityCell
<1>6. ASSUME NEW i, Issuing(i) \/ Subscribing(i)
      PROVE  VisibilityCell(s)
  <2>1. Ending(i) /\ requests[i].op # "update"
    BY <1>6 DEF Issuing, Subscribing
  <2>2. \A j \in Waiting("update") : requests'[j].wrote # clock + 1
    BY <1>0, <2>1 DEF Ending, Waiting
  <2>3. rows'[s]["visibility"] = rows[s]["visibility"]
    BY <1>3, <1>6 DEF Issuing, Subscribing
  <2>4. QED
    BY <2>2, <2>3 DEF VisibilityCell
<1>7. ASSUME NEW i, Patching(i)
      PROVE  VisibilityCell(s)
  <2>1. /\ Ending(i) /\ requests[i].op = "update" /\ i \in Waiting("update")
        /\ i \in DOMAIN requests' /\ requests'[i].wrote = clock + 1
        /\ requests'[i].op = "update" /\ requests'[i].sets = requests[i].sets
    BY <1>7, EndedRequests DEF Patching, Ending, Waiting
  <2>2. \A j \in Waiting("update") : requests'[j].wrote = clock + 1 => j = i
    BY <1>0, <2>1 DEF Ending, Waiting
  <2>3. s \in requests'[i].on =>
           /\ s \in requests[i].on
           /\ rows'[s]["visibility"] = IF "visibility" \in requests[i].sets THEN i
                                      ELSE requests[i].copy[s]["visibility"]
    <3>1. SUFFICES ASSUME s \in requests'[i].on
                   PROVE  /\ s \in requests[i].on
                          /\ rows'[s]["visibility"] =
                                IF "visibility" \in requests[i].sets THEN i
                                ELSE requests[i].copy[s]["visibility"]
      OBVIOUS
    <3>2. rows'[s] = [f \in Fields |->
                        IF f \in requests[i].sets THEN i
                        ELSE IF s = "memory" \/ f \in Columns THEN requests[i].copy[s][f]
                        ELSE rows[s][f]]
      BY <1>0, <1>7, <3>1 DEF Patching
    <3>3. s \in requests[i].on
      BY <2>1, <3>1 DEF Ending
    <3>4. QED
      BY <1>0, <3>2, <3>3
  <2>4. CASE s \in requests'[i].on /\ "visibility" \in requests[i].sets
    BY <2>1, <2>2, <2>3, <2>4 DEF VisibilityCell
  <2>5. CASE s \in requests'[i].on /\ "visibility" \notin requests[i].sets
    BY <2>1, <2>2, <2>3, <2>5 DEF VisibilityCell
  <2>6. CASE s \notin requests'[i].on
    <3>1. rows'[s] = rows[s]
      BY <1>0, <1>7, <2>6 DEF Patching
    <3>2. QED
      BY <2>2, <2>6, <3>1 DEF VisibilityCell
  <2>7. QED
    BY <2>4, <2>5, <2>6
<1>8. QED
  BY <1>2, <1>4, <1>5, <1>6, <1>7 DEF CatStep
(* Every step keeps what was promised about private rooms. *)
LEMMA PrivateStep ==
    ASSUME CatBase, PrivateInv, CatStep
    PROVE  PrivateInv'
<1>1. Grown /\ CatBase'
  BY StepGrows, CatBaseStep
<1>2. /\ clock \in Nat /\ requests \in Seq(CatRequest) /\ requests' \in Seq(CatRequest)
      /\ table' = table /\ clock' \in Nat
  BY <1>1 DEF Grown, CatBase, CatType
<1>3. ASSUME NEW p \in DOMAIN requests', NEW s, Hides(p, s)'
      PROVE  s \in Held
  <2>1. p \in DOMAIN requests /\ s \in requests'[p].on
    BY <1>1, <1>3, HidesNow DEF Hides, Finished, Waiting
  <2>2. QED
    BY <1>1, <2>1 DEF Grown, CatBase, RequestInv
<1>4. PrivateRow'
  <2> SUFFICES ASSUME table = "rooms", NEW s \in Held', NEW p \in DOMAIN requests',
                      Hides(p, s)', ~Private(rows[s])'
               PROVE  \E q : Reopens(q, p, s)'
    BY <1>2 DEF PrivateRow
  <2>0. s \in Held
    BY <1>3
  <2>1. "visibility" \in Fields
    BY DEF Fields, RoomFields
  <2>2. ~requests'[rows'[s]["visibility"]].private
    BY DEF Private
  <2>3. /\ rows[s]["visibility"] \in DOMAIN requests
        /\ \A i \in Waiting("update") : s \in requests[i].on =>
              requests[i].copy[s]["visibility"] \in DOMAIN requests
    BY <2>0, <2>1 DEF CatBase, NamesInv, CopyType
  <2>4. \/ Hides(p, s) /\ p \in DOMAIN requests /\ requests'[p].wrote = requests[p].wrote
        \/ p \in Waiting("update") /\ requests'[p].wrote = clock + 1 /\ s \in requests'[p].on
    BY <1>1, HidesNow
  <2>5. "visibility" \in requests'[p].sets /\ requests'[p].private
    BY DEF Hides
  <2>6. p \in DOMAIN requests /\ requests'[p].sets = requests[p].sets
    BY <1>1, <2>4 DEF Waiting, Grown
  <2>7. ASSUME Hides(p, s)
        PROVE  requests[p].wrote <= clock /\ requests[p].wrote \in Nat
               /\ requests'[p].wrote = requests[p].wrote
    BY <1>1, <1>2, <2>6, <2>7, RequestNumbers DEF CatBase, RequestInv, Hides, Finished, Grown
  <2>8. CASE /\ rows'[s]["visibility"] = rows[s]["visibility"]
             /\ \A i \in Waiting("update") :
                   requests'[i].wrote = clock + 1 /\ s \in requests'[i].on
                => "visibility" \notin requests[i].sets
    <3>1. Hides(p, s) /\ p \in DOMAIN requests
      BY <2>4, <2>5, <2>6, <2>8
    <3>2. ~Private(rows[s])
      BY <1>1, <2>2, <2>3, <2>8 DEF Private, Grown
    <3>3. PICK q : Reopens(q, p, s)
      BY <2>0, <3>1, <3>2 DEF PrivateInv, PrivateRow
    <3>4. QED
      BY <1>1, <3>1, <3>3, ReopensStays
  <2>9. CASE \E n \in DOMAIN requests' :
                /\ rows'[s]["visibility"] = n /\ requests'[n].wrote = clock + 1
                /\ s \in requests'[n].on
                /\ "visibility" \in requests'[n].sets
                /\ requests'[n].op = "create" => s = "memory"
                /\ \A i \in Waiting("update") : requests'[i].wrote = clock + 1 => i = n
    <3>1. PICK n \in DOMAIN requests' :
             /\ rows'[s]["visibility"] = n /\ requests'[n].wrote = clock + 1
             /\ s \in requests'[n].on
             /\ "visibility" \in requests'[n].sets
             /\ requests'[n].op = "create" => s = "memory"
             /\ \A i \in Waiting("update") : requests'[i].wrote = clock + 1 => i = n
      BY <2>9
    <3>2. Hides(p, s)
      BY <2>2, <2>4, <2>5, <3>1
    <3>3. requests'[p].wrote < requests'[n].wrote
      BY <1>2, <2>7, <3>1, <3>2
    <3>4. Reopens(n, p, s)'
      BY <2>2, <3>1, <3>3 DEF Reopens
    <3>5. QED
      BY <3>4
  <2>10. CASE \E i \in Waiting("update") :
                 /\ rows'[s]["visibility"] = requests[i].copy[s]["visibility"]
                 /\ s \in requests[i].on /\ s \in requests'[i].on
                 /\ requests'[i].wrote = clock + 1
                 /\ "visibility" \notin requests[i].sets
                 /\ \A j \in Waiting("update") : requests'[j].wrote = clock + 1 => j = i
    <3>1. PICK i \in Waiting("update") :
             /\ rows'[s]["visibility"] = requests[i].copy[s]["visibility"]
             /\ s \in requests[i].on /\ s \in requests'[i].on
             /\ requests'[i].wrote = clock + 1
             /\ "visibility" \notin requests[i].sets
             /\ \A j \in Waiting("update") : requests'[j].wrote = clock + 1 => j = i
      BY <2>10
    <3>2. Hides(p, s) /\ p \in DOMAIN requests
      BY <2>4, <2>5, <2>6, <3>1
    <3>3. ~Private(requests[i].copy[s])
      BY <1>1, <2>2, <2>3, <3>1 DEF Private, Grown
    <3>4. CASE requests[i].read < requests[p].wrote
      <4>1. /\ i \in DOMAIN requests' /\ requests'[i].op = "update"
            /\ requests'[i].read = requests[i].read
        BY <1>1, <3>1 DEF Grown, Waiting
      <4>2. requests'[p].wrote < requests'[i].wrote
        BY <1>2, <2>7, <3>1, <3>2
      <4>3. Overlaps(i, p)'
        BY <2>7, <3>2, <3>4, <4>1, <4>2 DEF Overlaps
      <4>4. Reopens(i, p, s)'
        BY <3>1, <4>1, <4>2, <4>3 DEF Reopens
      <4>5. QED
        BY <4>4
    <3>5. CASE \E q : Reopens(q, p, s)
      BY <1>1, <3>2, <3>5, ReopensStays
    <3>6. QED
      BY <3>1, <3>2, <3>3, <3>4, <3>5 DEF PrivateInv, PrivateCopy
  <2>11. QED
    BY <2>0, <2>8, <2>9, <2>10, VisibilityCells DEF VisibilityCell
<1>5. PrivateCopy'
  <2> SUFFICES ASSUME table = "rooms", NEW i \in Waiting("update")', NEW s \in requests'[i].on,
                      NEW p \in DOMAIN requests', Hides(p, s)', ~Private(requests[i].copy[s])'
               PROVE  \/ requests'[i].read < requests'[p].wrote
                      \/ \E q : Reopens(q, p, s)'
    BY <1>2 DEF PrivateCopy
  <2>1. i \in DOMAIN requests' /\ requests'[i].op = "update" /\ requests'[i].wrote = 0
    BY DEF Waiting
  <2>2. \/ Hides(p, s) /\ p \in DOMAIN requests /\ requests'[p].wrote = requests[p].wrote
        \/ p \in Waiting("update") /\ requests'[p].wrote = clock + 1
    BY <1>1, HidesNow
  <2>3. requests'[i].read <= clock /\ requests'[i].read \in Nat
    <3>1. requests'[i].read \in Nat
      <4>1. requests'[i] \in CatRequest
        BY <1>2, <2>1, ElementOfSeq
      <4>2. QED
        BY <4>1 DEF CatRequest
    <3>2. CASE i \in DOMAIN requests
      BY <1>1, <3>1, <3>2 DEF Grown, CatBase, RequestInv
    <3>3. CASE i \notin DOMAIN requests
      BY <1>1, <1>2, <2>1, <3>3 DEF Grown
    <3>4. QED
      BY <3>1, <3>2, <3>3
  <2>4. CASE requests'[p].wrote = clock + 1
    BY <1>2, <2>3, <2>4
  <2>5. "visibility" \in Fields /\ s \in Held
    BY <1>3 DEF Fields, RoomFields
  <2>6. CASE Hides(p, s) /\ p \in DOMAIN requests /\ requests'[p].wrote = requests[p].wrote
    <3>1. CASE i \in DOMAIN requests
      <4>1. requests'[i] = requests[i] /\ i \in Waiting("update")
        BY <1>1, <1>2, <2>1, <3>1 DEF Grown, Waiting
      <4>2. requests[i].copy[s]["visibility"] \in DOMAIN requests
        BY <2>5, <4>1 DEF CatBase, CopyType
      <4>3. ~Private(requests[i].copy[s])
        BY <1>1, <4>1, <4>2 DEF Private, Grown
      <4>4. CASE requests[i].read < requests[p].wrote
        BY <2>6, <4>1, <4>4
      <4>5. CASE \E q : Reopens(q, p, s)
        BY <1>1, <2>6, <4>5, ReopensStays
      <4>6. QED
        BY <2>6, <4>1, <4>3, <4>4, <4>5 DEF PrivateInv, PrivateCopy
    <3>2. CASE i \notin DOMAIN requests
      <4>1. requests'[i].copy = rows
        BY <1>1, <2>1, <3>2 DEF Grown
      <4>2. rows[s]["visibility"] \in DOMAIN requests
        BY <2>5 DEF CatBase, NamesInv
      <4>3. ~Private(rows[s])
        BY <1>1, <4>1, <4>2 DEF Private, Grown
      <4>4. PICK q : Reopens(q, p, s)
        BY <2>5, <2>6, <4>3 DEF PrivateInv, PrivateRow
      <4>5. QED
        BY <1>1, <2>6, <4>4, ReopensStays
    <3>3. QED
      BY <3>1, <3>2
  <2>7. QED
    BY <2>2, <2>4, <2>6
<1>6. PrivateGuest'
  <2> SUFFICES ASSUME NEW g \in DOMAIN requests', NEW p \in DOMAIN requests',
                      requests'[g].op = "subscribe", requests'[g].guest,
                      NEW s \in requests'[g].on,
                      Hides(p, s)', requests'[p].wrote <= requests'[g].read
               PROVE  \E q : Reopens(q, p, s)' /\ requests'[q].wrote <= requests'[g].read
    BY DEF PrivateGuest
  <2>1. requests'[g].read <= clock /\ requests'[g].read \in Nat /\ s \in Held
    <3>1. requests'[g] \in CatRequest
      BY <1>2, ElementOfSeq
    <3>2. requests'[g].read \in Nat /\ s \in Held
      BY <1>3, <3>1 DEF CatRequest
    <3>3. CASE g \in DOMAIN requests
      BY <1>1, <3>2, <3>3 DEF Grown, CatBase, RequestInv
    <3>4. CASE g \notin DOMAIN requests
      BY <1>1, <1>2, <3>2, <3>4 DEF Grown
    <3>5. QED
      BY <3>2, <3>3, <3>4
  <2>2. Hides(p, s) /\ p \in DOMAIN requests /\ requests'[p].wrote = requests[p].wrote
    BY <1>1, <1>2, <2>1, HidesNow
  <2>3. CASE g \in DOMAIN requests
    <3>1. /\ requests[g].op = "subscribe" /\ requests[g].guest /\ s \in requests[g].on
          /\ requests[g].read = requests'[g].read
      BY <1>1, <2>3 DEF Grown
    <3>2. PICK q : Reopens(q, p, s) /\ requests[q].wrote <= requests[g].read
      BY <2>2, <2>3, <3>1 DEF PrivateInv, PrivateGuest
    <3>3. Reopens(q, p, s)' /\ requests'[q].wrote = requests[q].wrote
      BY <1>1, <2>2, <3>2, ReopensStays
    <3>4. QED
      BY <3>1, <3>2, <3>3
  <2>4. CASE g \notin DOMAIN requests
    <3>1. /\ requests'[g].read = clock /\ table = "rooms" /\ ~Private(rows[s])
      BY <1>1, <2>4 DEF Grown
    <3>2. PICK q : Reopens(q, p, s)
      BY <2>1, <2>2, <3>1 DEF PrivateInv, PrivateRow
    <3>3. q \in DOMAIN requests /\ requests[q].op # "subscribe"
      BY <3>2 DEF Reopens, CatBase, RequestInv
    <3>4. requests[q].wrote <= clock
      BY <3>3 DEF CatBase, RequestInv
    <3>5. Reopens(q, p, s)' /\ requests'[q].wrote = requests[q].wrote
      BY <1>1, <2>2, <3>2, ReopensStays
    <3>6. QED
      BY <3>1, <3>4, <3>5
  <2>5. QED
    BY <2>3, <2>4
<1>7. QED
  BY <1>4, <1>5, <1>6 DEF PrivateInv

-----------------------------------------------------------------------------
CatInv == CatBase /\ StaleCopy /\ LostInv /\ AgreeInv /\ PrivateInv

(* A behaviour starts with no row and no request. *)
LEMMA CatInit == CatalogueInit => CatInv
<1> SUFFICES ASSUME CatalogueInit PROVE CatInv
  OBVIOUS
<1>1. CatBase /\ Held = {} /\ DOMAIN requests = {}
  BY CatBaseInit
<1>2. Waiting("update") = {}
  BY <1>1 DEF Waiting
<1>3. QED
  BY <1>1, <1>2 DEF CatInv, StaleCopy, LostInv, AgreeInv, PrivateInv, PrivateRow,
                    PrivateCopy, PrivateGuest

(* Every step keeps the invariant. *)
LEMMA CatNextInv ==
    ASSUME CatInv, [CatalogueNext]_catalogueVars
    PROVE  CatInv'
<1>1. CASE CatalogueNext
  <2>1. CatStep
    BY <1>1, CatSteps DEF CatInv
  <2>2. QED
    BY <2>1, CatBaseStep, LostStep, AgreeStep, PrivateStep DEF CatInv
<1>2. CASE UNCHANGED catalogueVars
  <2>1. UNCHANGED <<table, rows, requests, clock, last>>
    BY <1>2 DEF catalogueVars
  <2>2. CatBase'
    BY <2>1 DEF CatInv, CatBase, CatType, RowsInv, Missing, RowType, Held, Exists, RequestInv,
                CopyType, NamesInv, Fields, Patchable, Waiting
  <2>3. StaleCopy' /\ LostInv'
    BY <2>1 DEF CatInv, StaleCopy, LostInv, Held, Explained, Fields, Waiting, Finished, Overlaps
  <2>4. AgreeInv'
    BY <2>1 DEF CatInv, AgreeInv, Held, Posted, RefusedByPg, TwoPosts, PatchRefused,
                Finished, Fields, Waiting
  <2>5. PrivateInv'
    BY <2>1 DEF CatInv, PrivateInv, PrivateRow, PrivateCopy, PrivateGuest, Held, Hides, Reopens,
                Fields, Waiting, Finished, Overlaps, Private
  <2>6. QED
    BY <2>2, <2>3, <2>4, <2>5 DEF CatInv
<1>3. QED
  BY <1>1, <1>2

(* The invariant of the registry holds throughout, for any bodies of PATCH requests
   and any number of requests. *)
THEOREM CatalogueInvariance == CatalogueSpec => []CatInv
<1>1. CatInv /\ [CatalogueNext]_catalogueVars => CatInv'
  BY CatNextInv
<1>2. QED
  BY <1>1, CatInit, PTL DEF CatalogueSpec

(* Update of device-svc and room-svc loses a value only by a read-merge-write that
   went around the request that set it, and on PostgreSQL never what a device
   reported, its credential or a room's stream key. *)
THEOREM ValuesAreLostOnlyByOverlap == CatalogueSpec => []LostOnlyByOverlap
<1>1. ASSUME CatInv
      PROVE  LostOnlyByOverlap
  <2> SUFFICES ASSUME NEW s \in Stores, NEW f \in DOMAIN rows[s], rows[s][f] # last[s][f]
               PROVE  /\ s = "pg" => f \notin Reported
                      /\ \E u \in Finished("update") :
                            /\ s \in requests[u].on /\ f \notin requests[u].sets
                            /\ Overlaps(u, last[s][f])
    BY DEF LostOnlyByOverlap
  <2>1. DOMAIN None = {}
    BY DEF None
  <2>2. s \in Held /\ f \in Fields
    BY <1>1, <2>1, HeldRows DEF CatInv, CatBase, Held
  <2>3. QED
    BY <1>1, <2>2 DEF CatInv, LostInv, Explained
<1>2. CatInv => LostOnlyByOverlap
  BY <1>1
<1>3. QED
  BY <1>2, CatalogueInvariance, PTL

(* Where PostgreSQL took one POST of a row, the memory store holds another value than
   PostgreSQL only where PostgreSQL refused the request that wrote it, or where a PATCH
   went around the last write of the column, and this is a column its SQL does not set
   or PostgreSQL refused some PATCH. *)
THEOREM MemoryAndPgAgree == CatalogueSpec => []StoresAgree
<1>1. ASSUME CatInv
      PROVE  StoresAgree
  <2> SUFFICES ASSUME ~TwoPosts, NEW f \in DOMAIN rows["pg"],
                      rows["memory"][f] # rows["pg"][f], rows["memory"][f] \notin RefusedByPg
               PROVE  /\ \E u \in Finished("update") :
                            f \notin requests[u].sets /\ Overlaps(u, last["memory"][f])
                      /\ f \in Reported \/ PatchRefused
    BY DEF StoresAgree, TwoPosts, PatchRefused
  <2>1. DOMAIN None = {} /\ "memory" \in Stores /\ "pg" \in Stores
    BY DEF None, Stores
  <2>2. "pg" \in Held /\ f \in Fields
    BY <1>1, <2>1, HeldRows DEF CatInv, CatBase, Held
  <2>3. "memory" \in Held
    BY <1>1, <2>2 DEF CatInv, CatBase, RowsInv, Exists
  <2>4. last["memory"][f] \in RefusedByPg \/ last["pg"][f] = last["memory"][f]
    BY <1>1, <2>2 DEF CatInv, AgreeInv
  <2>5. f \in Reported \/ PatchRefused
    BY <1>1, <2>2 DEF CatInv, AgreeInv
  <2>6. CASE rows["memory"][f] # last["memory"][f]
    <3>1. Explained("memory", f)
      BY <1>1, <2>2, <2>3, <2>6 DEF CatInv, LostInv
    <3>2. QED
      BY <2>5, <3>1 DEF Explained
  <2>7. CASE rows["memory"][f] = last["memory"][f]
    <3>1. last["pg"][f] = last["memory"][f] /\ rows["pg"][f] # last["pg"][f]
      BY <2>4, <2>7
    <3>2. Explained("pg", f)
      BY <1>1, <2>2, <3>1 DEF CatInv, LostInv
    <3>3. QED
      BY <2>5, <3>1, <3>2 DEF Explained
  <2>8. QED
    BY <2>6, <2>7
<1>2. CatInv => StoresAgree
  BY <1>1
<1>3. QED
  BY <1>2, CatalogueInvariance, PTL

(* On either store, IssueSubscription lets a guest into a room that a PATCH made
   private only after a later request opened it, or a PATCH with an older copy wrote the old
   visibility back. *)
THEOREM GuestsAreRefused == CatalogueSpec => []PrivateIsHonoured
<1>1. ASSUME CatInv
      PROVE  PrivateIsHonoured
  <2> SUFFICES ASSUME NEW g \in Finished("subscribe"), NEW p \in Finished("update"),
                      requests[g].guest,
                      "visibility" \in requests[p].sets, requests[p].private,
                      requests[p].wrote <= requests[g].read,
                      NEW s \in requests[g].on \cap requests[p].on
               PROVE  \E q \in DOMAIN requests :
                        /\ s \in requests[q].on
                        /\ requests[p].wrote < requests[q].wrote
                        /\ requests[q].wrote <= requests[g].read
                        /\ \/ /\ "visibility" \in requests[q].sets /\ ~requests[q].private
                              /\ requests[q].op = "create" => s = "memory"
                           \/ requests[q].op = "update" /\ Overlaps(q, p)
    BY DEF PrivateIsHonoured
  <2>1. /\ g \in DOMAIN requests /\ requests[g].op = "subscribe"
        /\ p \in DOMAIN requests /\ Hides(p, s) /\ s \in requests[g].on
    BY DEF Finished, Hides
  <2>2. PICK q : Reopens(q, p, s) /\ requests[q].wrote <= requests[g].read
    BY <1>1, <2>1 DEF CatInv, PrivateInv, PrivateGuest
  <2>3. QED
    BY <2>2 DEF Reopens
<1>2. CatInv => PrivateIsHonoured
  BY <1>1
<1>3. QED
  BY <1>2, CatalogueInvariance, PTL
=============================================================================

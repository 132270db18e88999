--------------------------- MODULE KafkaConsumer ---------------------------
(***************************************************************************)
(* pkg/yunmao/eventbus: KafkaBus.Subscribe, the consuming side of the bus.  *)
(*                                                                          *)
(* One partition and the members of one consumer group.  A member fetches   *)
(* a message, runs the handler up to MaxAttempts times, sends the message   *)
(* to the dead-letter topic if the handler never succeeded, and commits the *)
(* offset.  Members crash, and the group gives the partition to another     *)
(* one, which starts at the committed offset, or at the end of the log when *)
(* the group has not committed yet (StartOffset: LastOffset).               *)
(***************************************************************************)
EXTENDS Naturals

CONSTANTS
    N,               \* bound: messages ever published
    Member,          \* subscribers of the group
    MaxAttempts,     \* defaultRetry.MaxAttempts
    MaxFaults        \* bound: crashes, rebalances, failed commits and failed writes to the DLQ

ASSUME ConsumerAssumption ==
    /\ N \in Nat
    /\ MaxAttempts \in Nat \ {0}
    /\ MaxFaults \in Nat
    /\ "nobody" \notin Member

Message == 1 .. N

VARIABLES
    end,        \* messages 1 .. end have been published
    committed,  \* the group's next message, 0 while it has committed nothing
    owner,      \* the member that is assigned the partition
    member,     \* what each subscriber goroutine is doing
    handled,    \* how often the handler succeeded with each message
    dead,       \* messages in the dead-letter topic
    joined,     \* history: the first message the group is responsible for
    lost,       \* history: messages given up, by a failed write to the dead-letter
                \* topic or a second start at the end of the log
    faults      \* number of faults so far

vars == <<end, committed, owner, member, handled, dead, joined, lost, faults>>

Idle == [at |-> "idle", next |-> 0, msg |-> 0, attempt |-> 0]

TypeOK ==
    /\ end \in 0 .. N
    /\ committed \in 0 .. N + 1
    /\ owner \in Member \cup {"nobody"}
    /\ member \in [Member -> [at : {"idle", "fetch", "handle", "dlq", "commit"},
                              next : 0 .. N + 1, msg : 0 .. N, attempt : 0 .. MaxAttempts]]
    /\ handled \in [Message -> Nat]
    /\ dead \subseteq Message
    /\ joined \in 0 .. N + 1
    /\ lost \subseteq Message
    /\ faults \in 0 .. MaxFaults

Init ==
    /\ end = 0
    /\ committed \in {0, 1}   \* a new group, or one that has committed before
    /\ joined = committed
    /\ lost = {}
    /\ owner = "nobody"
    /\ member = [c \in Member |-> Idle]
    /\ handled = [m \in Message |-> 0]
    /\ dead = {}
    /\ faults = 0

-----------------------------------------------------------------------------
Publish ==
    /\ end < N
    /\ end' = end + 1
    /\ UNCHANGED <<committed, owner, member, handled, dead, joined, lost, faults>>

StartAt == IF committed = 0 THEN end + 1 ELSE committed

(* The group assigns the partition to a member; taking it from a live member is
   a rebalance *)
Join(c) ==
    /\ member[c].at = "idle"
    /\ \/ /\ owner = "nobody"
          /\ UNCHANGED faults
       \/ /\ owner # "nobody"
          /\ faults < MaxFaults
          /\ faults' = faults + 1
    /\ owner' = c
    /\ member' = [member EXCEPT ![c] = [Idle EXCEPT !.at = "fetch", !.next = StartAt]]
    /\ joined' = IF joined = 0 THEN StartAt ELSE joined
    /\ lost' = IF joined = 0 THEN lost ELSE lost \cup {m \in Message : joined <= m /\ m < StartAt /\ committed = 0}
    /\ UNCHANGED <<end, committed, handled, dead>>

(* CommitInterval 0: fetching commits nothing *)
CommitOnFetch(m) == committed

FetchMessage(c) ==
    /\ owner = c
    /\ member[c].at = "fetch"
    /\ member[c].next <= end
    /\ member' = [member EXCEPT ![c] = [at |-> "handle", next |-> @.next + 1,
                                        msg |-> @.next, attempt |-> 1]]
    /\ committed' = CommitOnFetch(member[c].next)
    /\ UNCHANGED <<end, owner, handled, dead, joined, lost, faults>>

(* dispatch: the handler returns nil *)
HandlerOk(c) ==
    /\ member[c].at = "handle"
    /\ handled' = [handled EXCEPT ![member[c].msg] = @ + 1]
    /\ member' = [member EXCEPT ![c].at = "commit"]
    /\ UNCHANGED <<end, committed, owner, dead, joined, lost, faults>>

(* Mutant: starts over after the last attempt *)
Retried_Forever(s) == [s EXCEPT !.attempt = IF @ < MaxAttempts THEN @ + 1 ELSE 1]

Retried(s) ==
    IF s.attempt < MaxAttempts THEN [s EXCEPT !.attempt = @ + 1] ELSE [s EXCEPT !.at = "dlq"]

(* dispatch: the handler returns an error *)
HandlerFails(c) ==
    /\ member[c].at = "handle"
    /\ member' = [member EXCEPT ![c] = Retried(@)]
    /\ UNCHANGED <<end, committed, owner, handled, dead, joined, lost, faults>>

(* sendDLQ, whose error is dropped *)
SendDLQ(c) ==
    /\ member[c].at = "dlq"
    /\ \/ /\ dead' = dead \cup {member[c].msg}
          /\ UNCHANGED <<lost, faults>>
       \/ /\ faults < MaxFaults
          /\ faults' = faults + 1
          /\ lost' = lost \cup {member[c].msg}
          /\ UNCHANGED dead
    /\ member' = [member EXCEPT ![c].at = "commit"]
    /\ UNCHANGED <<end, committed, owner, handled, joined>>

Committed(s) == [s EXCEPT !.at = "fetch"]

(* CommitMessages; after an error the reader goes on with the next message, and a
   later commit covers this one.  A member that has lost the partition is refused
   and rejoins. *)
CommitMessages(c) ==
    /\ member[c].at = "commit"
    /\ \/ /\ owner = c
          /\ committed' = member[c].msg + 1
          /\ member' = [member EXCEPT ![c] = Committed(@)]
          /\ UNCHANGED faults
       \/ /\ owner = c
          /\ faults < MaxFaults
          /\ faults' = faults + 1
          /\ member' = [member EXCEPT ![c] = Committed(@)]
          /\ UNCHANGED committed
       \/ /\ owner # c
          /\ member' = [member EXCEPT ![c] = Idle]
          /\ UNCHANGED <<committed, faults>>
    /\ UNCHANGED <<end, owner, handled, dead, joined, lost>>

(* A member without work learns that it has lost the partition *)
Revoked(c) ==
    /\ owner # c
    /\ member[c].at = "fetch"
    /\ member' = [member EXCEPT ![c] = Idle]
    /\ UNCHANGED <<end, committed, owner, handled, dead, joined, lost, faults>>

(* The process dies, or its context is cancelled: dispatch, sendDLQ and
   CommitMessages all fail and the goroutine returns *)
Crash(c) ==
    /\ member[c].at # "idle"
    /\ faults < MaxFaults
    /\ faults' = faults + 1
    /\ member' = [member EXCEPT ![c] = Idle]
    /\ owner' = IF owner = c THEN "nobody" ELSE owner
    /\ UNCHANGED <<end, committed, handled, dead, joined, lost>>

MemberStep(c) ==
    \/ FetchMessage(c)
    \/ HandlerOk(c)
    \/ HandlerFails(c)
    \/ SendDLQ(c)
    \/ CommitMessages(c)
    \/ Revoked(c)

Next ==
    \/ Publish
    \/ \E c \in Member : Join(c) \/ MemberStep(c) \/ Crash(c)

(* A subscriber loops until its context ends; the group always has a member *)
Fairness ==
    /\ \A c \in Member : WF_vars(MemberStep(c))
    /\ WF_vars(\E c \in Member : owner = "nobody" /\ Join(c))

Spec == Init /\ [][Next]_vars /\ Fairness

-----------------------------------------------------------------------------
Settled(m) == handled[m] > 0 \/ m \in dead

(* kafka.go:88 "给我们 at-least-once 语义": every message published after the group
   first joined is handled or sent to the dead-letter topic, whatever crashes.
   The two ways out are a failed write to that topic and a group that restarts
   at the end of the log because it had committed nothing yet. *)
AtLeastOnce ==
    \A m \in Message : (joined # 0 /\ joined <= m /\ m <= end) ~> (Settled(m) \/ m \in lost)
=============================================================================

-------------------------------- MODULE Chat --------------------------------
(***************************************************************************)
(* chat-svc: sending a message to a room and moderating it.  Send counts   *)
(* the message against the sender's rate, has its text judged, stores it   *)
(* and publishes chat.message; Moderate changes the stored status and      *)
(* publishes chat.moderation.  Requests run concurrently in one or more    *)
(* instances.  The rate key is in each process's memory or in Redis, the   *)
(* messages in memory or in PostgreSQL.                                    *)
(*                                                                         *)
(* One sender and one room: the rate key and the client_msg_id index are   *)
(* per sender, and nothing relates two rooms.  A text is the set of marks  *)
(* that the judges look for in it: "listed", "review", "block".             *)
(***************************************************************************)
EXTENDS Naturals, Sequences, FiniteSets

CONSTANTS
    RateMax, RateWin,    \* messages per window, and its length
    Bounds               \* deployment, texts and bounds of a behaviour

ASSUME ChatAssumption ==
    /\ RateMax \in Nat \ {0} /\ RateWin \in Nat \ {0}
    /\ \A b \in Bounds : b.instances \in Nat /\ b.clients \in Nat

VARIABLES
    now,
    rate,      \* rate key -> [count, expires]
    lock,      \* instance -> the request that holds ChatService.mu, or 0
    life,      \* instance -> how often it was started again
    jobs,      \* requests so far, by number
    rows,      \* stored messages, by the number of their Send
    bus,       \* events in the order published: <<message, status>>
    passed,    \* history: the counter and the time of every message let through
    raced,     \* history: two rate checks overlapped on one key
    crossed,   \* history: messages written twice before either was announced
    unheard,   \* history: messages with a write nobody announced
    faults,
    max

vars == <<now, rate, lock, life, jobs, rows, bus, passed, raced, crossed, unheard, faults, max>>

None == << >>
With(f, k, v) == [x \in DOMAIN f \cup {k} |-> IF x = k THEN v ELSE f[x]]
Instances == 1 .. max.instances
Costs(n) == faults + n <= max.faults /\ faults' = faults + n

Init ==
    /\ max \in Bounds
    /\ now = 0 /\ faults = 0
    /\ rate = None
    /\ lock = [i \in Instances |-> 0]
    /\ life = [i \in Instances |-> 0]
    /\ jobs = None
    /\ rows = None
    /\ bus = << >>
    /\ passed = {} /\ raced = FALSE
    /\ crossed = {} /\ unheard = {}

-----------------------------------------------------------------------------
(* Requests *)

Job(kind, i, pc) ==
    [kind |-> kind, inst |-> i, pc |-> pc, msg |-> 0, client |-> 0, text |-> {},
     status |-> "none", count |-> 0]

NewJob(j) ==
    /\ Cardinality(DOMAIN jobs) < max.jobs
    /\ jobs' = With(jobs, Cardinality(DOMAIN jobs) + 1, j)

(* client: the client_msg_id, 0 when there is none *)
Send(i, client, text) ==
    /\ NewJob([Job("send", i, "rate") EXCEPT
                  !.client = client, !.text = text, !.msg = Cardinality(DOMAIN jobs) + 1])
    /\ UNCHANGED <<now, rate, lock, life, rows, bus, passed, raced, crossed, unheard, faults, max>>

ModerationStatus == {"published", "hidden", "recall"}

(* m: a stored message, or 0 for an id that is none *)
Moderate(i, m, status) ==
    /\ max.moderate
    /\ NewJob([Job("moderate", i, "update") EXCEPT !.msg = m, !.status = status])
    /\ UNCHANGED <<now, rate, lock, life, rows, bus, passed, raced, crossed, unheard, faults, max>>

Goto(n, pc) == jobs' = [jobs EXCEPT ![n].pc = pc]
Become(n, j) == jobs' = [jobs EXCEPT ![n] = j]

-----------------------------------------------------------------------------
(* allowed, under the mutex of the instance *)

(* The counter of the sender that an instance uses: the key in Redis, or the key
   in the memory of the process, which a restart begins again *)
RateKey(i) == IF max.redis THEN <<0, 0>> ELSE <<i, life[i]>>
Count(k) == IF k \in DOMAIN rate /\ now < rate[k].expires THEN rate[k].count ELSE 0
Checking(k) == {n \in DOMAIN jobs : jobs[n].pc = "set" /\ RateKey(jobs[n].inst) = k}

RateGet(n) ==
    LET j == jobs[n] k == RateKey(j.inst)
    IN /\ j.pc = "rate" /\ lock[j.inst] = 0
       /\ \/ /\ Count(k) < RateMax
             /\ lock' = [lock EXCEPT ![j.inst] = n]
             /\ Become(n, [j EXCEPT !.pc = "set", !.count = Count(k) + 1])
             /\ raced' = (raced \/ Checking(k) # {})
             /\ UNCHANGED faults
          \/ /\ Count(k) >= RateMax
             /\ Goto(n, "failed")
             /\ UNCHANGED <<lock, raced, faults>>
          \/ /\ max.redis /\ Costs(1)
             /\ Goto(n, "failed")
             /\ UNCHANGED <<lock, raced>>
       /\ UNCHANGED <<now, rate, life, rows, bus, passed, crossed, unheard, max>>

(* Set starts the window again at every message *)
Expiry_Fixed(k) == IF Count(k) > 0 THEN rate[k].expires ELSE now + RateWin
Expiry(k) == now + RateWin

RateSet(n) ==
    LET j == jobs[n] k == RateKey(j.inst)
    IN /\ j.pc = "set"
       /\ lock' = [lock EXCEPT ![j.inst] = 0]
       /\ \/ /\ rate' = With(rate, k, [count |-> j.count, expires |-> Expiry(k)])
             /\ passed' = passed \cup {[key |-> k, at |-> now, by |-> n]}
             /\ Goto(n, "judge")
             /\ UNCHANGED faults
          \/ /\ max.redis /\ Costs(1)
             /\ Goto(n, "failed")
             /\ UNCHANGED <<rate, passed>>
       /\ UNCHANGED <<now, life, rows, bus, raced, crossed, unheard, max>>

-----------------------------------------------------------------------------
(* The judges: the local word list, and the moderation service whose worst
   suggestion counts *)

Local(text) == IF "listed" \in text THEN "hide" ELSE "pass"
Green(text) ==
    IF "block" \in text THEN "block" ELSE IF "review" \in text THEN "warn" ELSE "pass"

Flagged(action) == action \in {"block", "hide", "recall", "warn"}
Judged(j, action) ==
    [j EXCEPT !.pc = "insert",
              !.status = IF Flagged(action) THEN "flagged" ELSE "published"]

(* Manager.Inspect when the primary judge fails or is late *)
Fallback(j) == Judged(j, Local(j.text))

Inspect(n) ==
    LET j == jobs[n]
    IN /\ j.pc = "judge"
       /\ Become(n, Judged(j, IF max.primary = "local" THEN Local(j.text) ELSE Green(j.text)))
       /\ UNCHANGED <<now, rate, lock, life, rows, bus, passed, raced, crossed, unheard, faults, max>>

(* The moderation service cannot be reached, is late, or answers with an error *)
GreenFails(n) ==
    /\ jobs[n].pc = "judge" /\ max.primary = "green"
    /\ Costs(1)
    /\ Become(n, Fallback(jobs[n]))
    /\ UNCHANGED <<now, rate, lock, life, rows, bus, passed, raced, crossed, unheard, max>>

-----------------------------------------------------------------------------
(* The store and the bus *)

(* Writers of message m that have not announced what they wrote *)
Announcing(m) ==
    {n \in DOMAIN jobs : jobs[n].msg = m /\ jobs[n].pc \in {"get", "publish"}}
Cross(m) == crossed' = IF Announcing(m) = {} THEN crossed ELSE crossed \cup {m}

(* uq_chat_messages_user_client_msg; the memory store has no such index *)
Duplicate(c) == max.pg /\ c # 0 /\ \E m \in DOMAIN rows : rows[m].client = c

(* A duplicate is an error, and its Send announces nothing *)
OnDuplicate_Announce == "publish"
OnDuplicate == "failed"

Insert(n) ==
    LET j == jobs[n]
    IN /\ j.pc = "insert"
       /\ \/ /\ ~Duplicate(j.client)
             /\ rows' = With(rows, n, [client |-> j.client, status |-> j.status])
             /\ Cross(n)
             /\ Goto(n, "publish")
             /\ UNCHANGED faults
          \/ /\ Duplicate(j.client)
             /\ Goto(n, OnDuplicate)
             /\ UNCHANGED <<rows, crossed, faults>>
          \/ /\ max.pg /\ Costs(1)
             /\ Goto(n, "failed")
             /\ UNCHANGED <<rows, crossed>>
       /\ UNCHANGED <<now, rate, lock, life, bus, passed, raced, unheard, max>>

(* The CHECK of chat_messages.moderation_status knows neither recall nor warn
   nor mute, which validModerationStatus lets through *)
Refused(status) == max.pg /\ status = "recall"

(* A refused or unknown message announces nothing *)
OnRefusal_Announce == "publish"
OnRefusal == "failed"

(* Store.Moderate: PostgreSQL updates, and reads the row in a second statement *)
UpdateStatus(n) ==
    LET j == jobs[n]
    IN /\ j.pc = "update"
       /\ \/ /\ j.msg \in DOMAIN rows /\ ~Refused(j.status)
             /\ rows' = [rows EXCEPT ![j.msg].status = j.status]
             /\ Cross(j.msg)
             /\ Goto(n, IF max.pg THEN "get" ELSE "publish")
             /\ UNCHANGED faults
          \/ /\ j.msg \notin DOMAIN rows
             /\ Goto(n, IF max.pg THEN "get" ELSE OnRefusal)
             /\ UNCHANGED <<rows, crossed, faults>>
          \/ /\ j.msg \in DOMAIN rows /\ Refused(j.status)
             /\ Goto(n, OnRefusal)
             /\ UNCHANGED <<rows, crossed, faults>>
          \/ /\ max.pg /\ Costs(1)
             /\ Goto(n, "failed")
             /\ UNCHANGED <<rows, crossed>>
       /\ UNCHANGED <<now, rate, lock, life, bus, passed, raced, unheard, max>>

GetUpdated(n) ==
    LET j == jobs[n]
    IN /\ j.pc = "get"
       /\ \/ /\ j.msg \in DOMAIN rows
             /\ Goto(n, "publish")
             /\ UNCHANGED <<unheard, faults>>
          \/ /\ j.msg \notin DOMAIN rows
             /\ Goto(n, "failed")
             /\ UNCHANGED <<unheard, faults>>
          \/ /\ Costs(1)
             /\ Goto(n, "failed")
             /\ unheard' = unheard \cup {j.msg}
       /\ UNCHANGED <<now, rate, lock, life, rows, bus, passed, raced, crossed, max>>

(* An error of Publish is ignored *)
Publish(n) ==
    LET j == jobs[n]
    IN /\ j.pc = "publish"
       /\ Goto(n, "done")
       /\ \/ bus' = Append(bus, <<j.msg, j.status>>) /\ UNCHANGED <<unheard, faults>>
          \/ Costs(1) /\ unheard' = unheard \cup {j.msg} /\ UNCHANGED bus
       /\ UNCHANGED <<now, rate, lock, life, rows, passed, raced, crossed, max>>

-----------------------------------------------------------------------------
(* An instance is stopped and started again: its requests end where they are, and
   what it kept in memory is gone.  The messages it let through were sent. *)
Crash(i) ==
    LET mine == {n \in DOMAIN jobs : jobs[n].inst = i /\ jobs[n].pc \notin {"failed", "done"}}
    IN /\ Costs(1)
       /\ jobs' = [n \in DOMAIN jobs |-> IF n \in mine THEN [jobs[n] EXCEPT !.pc = "failed"] ELSE jobs[n]]
       /\ lock' = [lock EXCEPT ![i] = 0]
       /\ life' = [life EXCEPT ![i] = @ + 1]
       /\ unheard' = unheard \cup {jobs[n].msg : n \in {x \in mine : jobs[x].pc \in {"get", "publish"}}}
       /\ rows' = IF max.pg THEN rows ELSE None
       /\ rate' = IF max.redis THEN rate ELSE [k \in DOMAIN rate \ {RateKey(i)} |-> rate[k]]
       /\ UNCHANGED <<now, bus, passed, raced, crossed, max>>

Tick ==
    /\ now < max.time
    /\ now' = now + 1
    /\ UNCHANGED <<rate, lock, life, jobs, rows, bus, passed, raced, crossed, unheard, faults, max>>

Step(n) ==
    \/ RateGet(n) \/ RateSet(n) \/ Inspect(n) \/ GreenFails(n) \/ Insert(n)
    \/ UpdateStatus(n) \/ GetUpdated(n) \/ Publish(n)

Next ==
    \/ Tick
    \/ \E i \in Instances, c \in 0 .. max.clients, t \in max.texts : Send(i, c, t)
    \/ \E i \in Instances, m \in DOMAIN rows \cup {0}, s \in ModerationStatus : Moderate(i, m, s)
    \/ \E n \in DOMAIN jobs : Step(n)
    \/ \E i \in Instances : Crash(i)

Spec == Init /\ [][Next]_vars

-----------------------------------------------------------------------------
(* The sender's messages let through within the window that begins with p, by
   whatever instance, and the counters they were counted in *)
Window(S, p) == {q \in S : p.at <= q.at /\ q.at < p.at + RateWin}
Counters(S) == {q.key : q \in S}

(* service.go:234 "用户 1 房间 1 时刻只能 N 条 / RateLimitWin", as far as the code keeps
   it: a window of RateWin, at any alignment, lets no more than RateMax messages of
   the sender through for each counter that took part in it.  That is RateMax with
   the key in Redis, unless instances checked it at the same time.  With the key in
   memory each instance has a counter of its own and a new one after a restart
   within the window. *)
RateHolds ==
    raced \/ \A p \in passed :
        LET W == Window(passed, p)
        IN Cardinality(W) <= RateMax * Cardinality(Counters(W))

(* What the gateway was told last about a message is its stored status, once
   its writers have finished, unless two of them overlapped (each stores, then
   publishes, and the order of the two may differ) or an announcement was lost;
   a refused moderation is never announced (service.go:160-210). *)
LastEventTellsModeration ==
    \A m \in DOMAIN rows :
        Announcing(m) = {} /\ m \notin crossed \cup unheard =>
            \E i \in DOMAIN bus :
                /\ bus[i] = <<m, rows[m].status>>
                /\ \A k \in DOMAIN bus : k > i => bus[k][1] # m

(* On PostgreSQL a Send that is retried with its client_msg_id is stored once
   and shown to the room once, however the two overlap (store.go:86-103). *)
RetryIsShownOnce ==
    max.pg => \A i, k \in DOMAIN bus :
        LET m == bus[i][1] n == bus[k][1]
        IN jobs[m].client # 0 /\ jobs[m].client = jobs[n].client => m = n
=============================================================================

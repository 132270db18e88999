----------------------------- MODULE ChatProofs -----------------------------
(***************************************************************************)
(* Proofs about sending and moderating messages in chat-svc, for any       *)
(* number of instances, requests and faults, and for every deployment.     *)
(***************************************************************************)
EXTENDS Chat, FiniteSetTheorems, WellFoundedInduction, TLAPS

Pcs == {"rate", "set", "judge", "insert", "update", "get", "publish", "failed", "done"}
Statuses == {"none", "flagged", "published", "hidden", "recall"}
Texts == max.texts \cup {{}}
JobRec == [kind : {"send", "moderate"}, inst : Instances, pc : Pcs, msg : Nat, client : Nat,
           text : Texts, status : Statuses, count : Nat]
PassRec == [key : Nat \X Nat, at : Nat, by : Nat]

(* Requests are numbered from 1 *)
Numbered(f) == \E k \in Nat : DOMAIN f = 1 .. k
NextNumber(f) == Cardinality(DOMAIN f) + 1
AddJob(f, x) == With(f, NextNumber(f), x)

JobTypeOK ==
    /\ max \in Bounds
    /\ Numbered(jobs)
    /\ \A n \in DOMAIN jobs : jobs[n] \in JobRec

RateTypeOK ==
    /\ now \in Nat /\ faults \in Nat
    /\ \A k \in DOMAIN rate : rate[k] \in [count : Nat, expires : Nat]
    /\ lock \in [Instances -> Nat]
    /\ life \in [Instances -> Nat]
    /\ IsFiniteSet(passed)
    /\ \A p \in passed : p \in PassRec
    /\ raced \in BOOLEAN

StoreTypeOK ==
    /\ DOMAIN rows \subseteq DOMAIN jobs
    /\ \A m \in DOMAIN rows : rows[m] \in [client : Nat, status : Statuses]
    /\ bus \in Seq(Nat \X Statuses)

(* A request between the Get and the Set of its rate holds its instance's mutex *)
LockInv ==
    \A n \in DOMAIN jobs : jobs[n].pc = "set" => lock[jobs[n].inst] = n

(* Rate keys that each process keeps are never checked twice at a time *)
NoRaceInMemory == ~max.redis => ~raced

(* The messages that p's counter let through in the window that p begins *)
Counted(S, p) == {q \in S : q.key = p.key /\ p.at <= q.at /\ q.at < p.at + RateWin}
CountsHold == ~raced => \A p \in passed : Cardinality(Counted(passed, p)) <= RateMax

(* A counter that some instance uses, and that no restart has left behind *)
Live(k) == \E i \in Instances : RateKey(i) = k

(* A message was counted in Redis, or by a life that its instance has reached *)
KeyInv ==
    \A p \in passed :
        IF max.redis THEN p.key = <<0, 0>>
        ELSE p.key[1] \in Instances /\ p.key[2] <= life[p.key[1]]

(* While a window that a message began is open, the count of its counter covers
   the messages in it; a request that has read the count will cover one more *)
Open(p) == now < p.at + RateWin
RateInv ==
    /\ \A p \in passed : p.at <= now
    /\ \A n \in DOMAIN jobs : jobs[n].pc = "set" => jobs[n].count \in 1 .. RateMax
    /\ ~raced =>
          /\ \A p \in passed : Live(p.key) =>
                /\ p.key \in DOMAIN rate
                /\ rate[p.key].expires >= p.at + RateWin
                /\ Open(p) => Cardinality(Counted(passed, p)) <= rate[p.key].count
          /\ \A n \in DOMAIN jobs : jobs[n].pc = "set" =>
                /\ \A p \in passed :
                      p.key = RateKey(jobs[n].inst) /\ Open(p) =>
                          Cardinality(Counted(passed, p)) < jobs[n].count
                /\ \A m \in DOMAIN jobs :
                      /\ jobs[m].pc = "set"
                      /\ RateKey(jobs[m].inst) = RateKey(jobs[n].inst)
                      => m = n

(* n has written message m and not announced it *)
Wrote(n, m) == jobs[n].msg = m /\ jobs[n].pc \in {"get", "publish"}

(* The bus's last event about m tells its status *)
Told(m) ==
    \E i \in DOMAIN bus :
        /\ bus[i] = <<m, rows[m].status>>
        /\ \A k \in DOMAIN bus : k > i => bus[k][1] # m

(* A message has at most one writer that has yet to announce it, and that one
   wrote what is stored; without one, the last event tells it *)
EventOf(m) ==
    /\ \A n \in DOMAIN jobs : Wrote(n, m) => jobs[n].status = rows[m].status
    /\ \A n, k \in DOMAIN jobs : Wrote(n, m) /\ Wrote(k, m) => n = k
    /\ (\A n \in DOMAIN jobs : ~Wrote(n, m)) => Told(m)
EventInv == \A m \in DOMAIN rows : m \notin crossed \cup unheard => EventOf(m)

(* The unique index of client_msg_id; what is announced was stored *)
StoreInv ==
    /\ \A n \in DOMAIN jobs :
          jobs[n].pc \in {"rate", "set", "judge", "insert"} => jobs[n].msg = n
    /\ \A m \in DOMAIN rows : rows[m].client = jobs[m].client
    /\ max.pg =>
          /\ \A m, n \in DOMAIN rows : rows[m].client # 0 /\ rows[m].client = rows[n].client => m = n
          /\ \A n \in DOMAIN jobs : jobs[n].pc = "publish" => jobs[n].msg \in DOMAIN rows
          /\ \A i \in DOMAIN bus : bus[i][1] \in DOMAIN rows

IInv ==
    /\ JobTypeOK
    /\ RateTypeOK
    /\ StoreTypeOK
    /\ LockInv
    /\ NoRaceInMemory
    /\ KeyInv
    /\ RateInv
    /\ CountsHold
    /\ EventInv
    /\ StoreInv

----------------------------------------------------------------------------
(***************************************************************************)
(* What the operators of the model do to the state.                        *)
(***************************************************************************)

(* A request gets a number that no request had *)
LEMMA AddNumber ==
    ASSUME NEW f, NEW g, NEW x, Numbered(f), g = AddJob(f, x)
    PROVE  /\ NextNumber(f) \notin DOMAIN f
           /\ DOMAIN g = DOMAIN f \cup {NextNumber(f)}
           /\ g[NextNumber(f)] = x
           /\ \A n \in DOMAIN f : g[n] = f[n]
           /\ Numbered(g)
<1>1. PICK k \in Nat : DOMAIN f = 1 .. k
  BY DEF Numbered
<1>2. Cardinality(1 .. k) = k
  BY FS_Interval
<1>3. NextNumber(f) = k + 1
  BY <1>1, <1>2 DEF NextNumber
<1>4. g = [n \in DOMAIN f \cup {k + 1} |-> IF n = k + 1 THEN x ELSE f[n]]
  BY <1>3 DEF AddJob, With
<1>5. k + 1 \in Nat /\ k + 1 \notin DOMAIN f
  BY <1>1
<1>6. DOMAIN g = 1 .. k + 1
  BY <1>1, <1>4
<1>7. Numbered(g)
  BY <1>5, <1>6 DEF Numbered
<1>. QED BY <1>3, <1>4, <1>5, <1>7

LEMMA NumberType ==
    ASSUME NEW f, Numbered(f)
    PROVE  NextNumber(f) \in Nat
BY FS_Interval DEF Numbered, NextNumber

(* A message that opens a window, and one more in it *)
LEMMA WindowFinite ==
    ASSUME NEW S, IsFiniteSet(S), NEW p
    PROVE  IsFiniteSet(Counted(S, p)) /\ Cardinality(Counted(S, p)) \in Nat
<1>1. Counted(S, p) \subseteq S
  BY DEF Counted
<1>. QED BY <1>1, FS_Subset, FS_CardinalityType

LEMMA WindowGrows ==
    ASSUME NEW S, IsFiniteSet(S), NEW p, NEW q
    PROVE  Cardinality(Counted(S \cup {q}, p)) <= Cardinality(Counted(S, p)) + 1
<1>1. IsFiniteSet(Counted(S, p)) /\ Cardinality(Counted(S, p)) \in Nat
  BY WindowFinite
<1>2. Counted(S \cup {q}, p) \subseteq Counted(S, p) \cup {q}
  BY DEF Counted
<1>3. /\ IsFiniteSet(Counted(S, p) \cup {q})
      /\ Cardinality(Counted(S, p) \cup {q}) =
            IF q \in Counted(S, p) THEN Cardinality(Counted(S, p)) ELSE Cardinality(Counted(S, p)) + 1
  BY <1>1, FS_AddElement
<1>4. Cardinality(Counted(S \cup {q}, p)) <= Cardinality(Counted(S, p) \cup {q})
  BY <1>2, <1>3, FS_Subset
<1>5. IsFiniteSet(Counted(S \cup {q}, p))
  BY <1>2, <1>3, FS_Subset
<1>6. Cardinality(Counted(S \cup {q}, p)) \in Nat
  BY <1>5, FS_CardinalityType
<1>. QED BY <1>1, <1>3, <1>4, <1>6

(* A message outside of the window changes nothing *)
LEMMA WindowStays ==
    ASSUME NEW S, NEW p, NEW q,
           ~(q.key = p.key /\ p.at <= q.at /\ q.at < p.at + RateWin)
    PROVE  Counted(S \cup {q}, p) = Counted(S, p)
BY DEF Counted

LEMMA WindowOf ==
    ASSUME NEW S, NEW p, NEW q, p.key = q.key, p.at = q.at
    PROVE  Counted(S, p) = Counted(S, q)
BY DEF Counted

(* The first message of its time *)
LEMMA WindowOpens ==
    ASSUME NEW S, NEW q, q.at \in Nat,
           \A p \in S : p.at \in Nat /\ p.at <= q.at /\ ~(p.key = q.key /\ p.at = q.at)
    PROVE  Cardinality(Counted(S \cup {q}, q)) = 1
<1>1. \A p \in Counted(S \cup {q}, q) : p = q
  BY DEF Counted
<1>2. q \in Counted(S \cup {q}, q)
  BY ChatAssumption DEF Counted
<1>3. Counted(S \cup {q}, q) = {q}
  BY <1>1, <1>2
<1>. QED BY <1>3, FS_Singleton

(* One request goes on *)
LEMMA JobMoves ==
    ASSUME JobTypeOK, UNCHANGED max, NEW n \in DOMAIN jobs, NEW x \in JobRec, Become(n, x)
    PROVE  /\ JobTypeOK'
           /\ DOMAIN jobs' = DOMAIN jobs
           /\ jobs'[n] = x
           /\ \A m \in DOMAIN jobs : m # n => jobs'[m] = jobs[m]
<1>1. JobRec' = JobRec
  BY DEF JobRec, Texts, Instances
<1>2. /\ DOMAIN jobs' = DOMAIN jobs
      /\ jobs'[n] = x
      /\ \A m \in DOMAIN jobs : m # n => jobs'[m] = jobs[m]
  BY DEF Become
<1>3. JobTypeOK'
  BY <1>1, <1>2 DEF JobTypeOK, Numbered
<1>. QED BY <1>2, <1>3

LEMMA JobGoes ==
    ASSUME JobTypeOK, UNCHANGED max, NEW n \in DOMAIN jobs, NEW pc \in Pcs, Goto(n, pc)
    PROVE  /\ JobTypeOK'
           /\ DOMAIN jobs' = DOMAIN jobs
           /\ \A m \in DOMAIN jobs : m # n => jobs'[m] = jobs[m]
           /\ jobs'[n].pc = pc
           /\ jobs'[n].inst = jobs[n].inst /\ jobs'[n].msg = jobs[n].msg
           /\ jobs'[n].client = jobs[n].client /\ jobs'[n].status = jobs[n].status
<1>1. PICK x : x = [jobs[n] EXCEPT !.pc = pc]
  OBVIOUS
<1>2. jobs[n] \in JobRec
  BY DEF JobTypeOK
<1>3. /\ x \in JobRec /\ x.pc = pc /\ x.inst = jobs[n].inst /\ x.msg = jobs[n].msg
      /\ x.client = jobs[n].client /\ x.status = jobs[n].status
  BY <1>1, <1>2 DEF JobRec
<1>4. Become(n, x)
  BY <1>1 DEF Become, Goto
<1>. QED BY <1>3, <1>4, JobMoves

(* A request begins *)
LEMMA JobStarts ==
    ASSUME JobTypeOK, UNCHANGED max, NEW x \in JobRec, NewJob(x)
    PROVE  /\ JobTypeOK'
           /\ NextNumber(jobs) \in Nat
           /\ NextNumber(jobs) \notin DOMAIN jobs
           /\ DOMAIN jobs' = DOMAIN jobs \cup {NextNumber(jobs)}
           /\ jobs'[NextNumber(jobs)] = x
           /\ \A n \in DOMAIN jobs : jobs'[n] = jobs[n]
<1>1. jobs' = AddJob(jobs, x) /\ Numbered(jobs)
  BY DEF NewJob, AddJob, NextNumber, JobTypeOK
<1>2. PICK k : k = NextNumber(jobs)
  OBVIOUS
<1>3. /\ k \in Nat /\ k \notin DOMAIN jobs
      /\ DOMAIN jobs' = DOMAIN jobs \cup {k}
      /\ jobs'[k] = x
      /\ \A n \in DOMAIN jobs : jobs'[n] = jobs[n]
      /\ Numbered(jobs')
  <2>1. /\ NextNumber(jobs) \notin DOMAIN jobs
        /\ DOMAIN jobs' = DOMAIN jobs \cup {NextNumber(jobs)}
        /\ jobs'[NextNumber(jobs)] = x
        /\ \A n \in DOMAIN jobs : jobs'[n] = jobs[n]
        /\ Numbered(jobs')
    BY <1>1, AddNumber
  <2>2. NextNumber(jobs) \in Nat
    BY <1>1, NumberType
  <2>. QED BY <1>2, <2>1, <2>2
<1>4. JobRec' = JobRec
  BY DEF JobRec, Texts, Instances
<1>5. \A n \in DOMAIN jobs' : jobs'[n] \in JobRec'
  BY <1>3, <1>4 DEF JobTypeOK
<1>6. max' \in Bounds
  BY DEF JobTypeOK
<1>7. JobTypeOK'
  BY <1>3, <1>5, <1>6 DEF JobTypeOK
<1>. QED BY <1>2, <1>3, <1>7

(* A step that leaves the rate keys alone *)
LEMMA RateInvFrame ==
    ASSUME IInv, UNCHANGED <<now, rate, life, passed, raced, max>>,
           \A n \in DOMAIN jobs' : jobs'[n].pc = "set" => n \in DOMAIN jobs /\ jobs'[n] = jobs[n]
    PROVE  NoRaceInMemory' /\ KeyInv' /\ RateInv' /\ CountsHold'
<1>1. NoRaceInMemory' /\ KeyInv' /\ CountsHold'
  BY DEF IInv, NoRaceInMemory, KeyInv, CountsHold, Instances
<1>2. \A p : Open(p)' <=> Open(p)
  BY DEF Open
<1>3. \A i : RateKey(i)' = RateKey(i)
  BY DEF RateKey
<1>4. \A k : Live(k)' <=> Live(k)
  BY <1>3 DEF Live, Instances
<1>5. RateInv'
  BY <1>2, <1>3, <1>4 DEF IInv, RateInv
<1>. QED BY <1>1, <1>5

LEMMA RateFrame ==
    ASSUME IInv, UNCHANGED <<now, rate, lock, life, passed, raced, max>>, faults' \in Nat,
           \A n \in DOMAIN jobs' : jobs'[n].pc = "set" => n \in DOMAIN jobs /\ jobs'[n] = jobs[n]
    PROVE  RateTypeOK' /\ LockInv' /\ NoRaceInMemory' /\ KeyInv' /\ RateInv' /\ CountsHold'
<1>1. RateTypeOK'
  BY DEF IInv, RateTypeOK, Instances
<1>2. LockInv'
  BY DEF IInv, LockInv
<1>. QED BY <1>1, <1>2, RateInvFrame

(* A step that leaves the messages, the bus and their writers alone *)
LEMMA StoreFrame ==
    ASSUME IInv, UNCHANGED <<rows, bus, crossed, unheard, max>>,
           DOMAIN jobs \subseteq DOMAIN jobs',
           \A n \in DOMAIN jobs : jobs'[n].client = jobs[n].client,
           \A n \in DOMAIN jobs : jobs[n].pc \in {"get", "publish"} => jobs'[n] = jobs[n],
           \A n \in DOMAIN jobs' :
               jobs'[n].pc \in {"get", "publish"} => n \in DOMAIN jobs /\ jobs'[n] = jobs[n],
           \A n \in DOMAIN jobs' :
               jobs'[n].pc \in {"rate", "set", "judge", "insert"} => jobs'[n].msg = n
    PROVE  StoreTypeOK' /\ EventInv' /\ StoreInv'
<1>1. StoreTypeOK'
  BY DEF IInv, StoreTypeOK
<1>2. \A n, m : (n \in DOMAIN jobs' /\ Wrote(n, m)') <=> (n \in DOMAIN jobs /\ Wrote(n, m))
  BY DEF Wrote
<1>3. \A n \in DOMAIN jobs : \A m : Wrote(n, m) => jobs'[n] = jobs[n]
  BY DEF Wrote
<1>4. \A m : Told(m)' <=> Told(m)
  BY DEF Told
<1>5. EventInv'
  BY <1>2, <1>3, <1>4 DEF IInv, EventInv, EventOf
<1>6. StoreInv'
  BY DEF IInv, StoreInv, StoreTypeOK
<1>. QED BY <1>1, <1>5, <1>6

----------------------------------------------------------------------------
(***************************************************************************)
(* Requests and the rate.                                                  *)
(***************************************************************************)
LEMMA TickInv ==
    ASSUME IInv, Tick
    PROVE  IInv'
<1>1. /\ now' = now + 1
      /\ UNCHANGED <<rate, lock, life, jobs, rows, bus, passed, raced, crossed, unheard, faults, max>>
  BY DEF Tick
<1>2. now \in Nat /\ \A p \in passed : p.at \in Nat
  BY DEF IInv, RateTypeOK, PassRec
<1>3. RateTypeOK'
  BY <1>1, <1>2 DEF IInv, RateTypeOK, Instances
<1>4. JobRec' = JobRec
  BY <1>1 DEF JobRec, Texts, Instances
<1>5. JobTypeOK' /\ LockInv' /\ NoRaceInMemory' /\ KeyInv' /\ CountsHold'
  BY <1>1, <1>4 DEF IInv, JobTypeOK, LockInv, NoRaceInMemory, KeyInv, CountsHold, Instances
<1>6. \A p \in passed : Open(p)' => Open(p)
  BY <1>1, <1>2, ChatAssumption DEF Open
<1>7. \A i : RateKey(i)' = RateKey(i)
  BY <1>1 DEF RateKey
<1>8. \A p \in passed : p.at <= now'
  BY <1>1, <1>2 DEF IInv, RateInv
<1>12. \A k : Live(k)' <=> Live(k)
  BY <1>1, <1>7 DEF Live, Instances
<1>9. RateInv'
  BY <1>1, <1>6, <1>7, <1>8, <1>12 DEF IInv, RateInv
<1>10. \A n \in DOMAIN jobs :
          jobs[n].pc \in {"rate", "set", "judge", "insert"} => jobs[n].msg = n
  BY DEF IInv, StoreInv
<1>11. StoreTypeOK' /\ EventInv' /\ StoreInv'
  BY <1>1, <1>10, StoreFrame DEF Tick
<1>. QED BY <1>3, <1>5, <1>9, <1>11 DEF IInv

LEMMA SendInv ==
    ASSUME IInv, NEW i \in Instances, NEW c \in 0 .. max.clients, NEW t \in max.texts, Send(i, c, t)
    PROVE  IInv'
<1>1. PICK k : k = NextNumber(jobs)
  OBVIOUS
<1>2. UNCHANGED <<now, rate, lock, life, rows, bus, passed, raced, crossed, unheard, faults, max>>
  BY DEF Send
<1>3. PICK x : x = [Job("send", i, "rate") EXCEPT !.client = c, !.text = t, !.msg = k]
  OBVIOUS
<1>4. NewJob(x)
  BY <1>1, <1>3 DEF Send, NextNumber
<1>5. k \in Nat /\ c \in Nat
  <2>1. k \in Nat
    BY <1>1, NumberType DEF IInv, JobTypeOK
  <2>2. c \in Nat
    BY ChatAssumption DEF IInv, JobTypeOK
  <2>. QED BY <2>1, <2>2
<1>6. x \in JobRec /\ x.pc = "rate" /\ x.msg = k
  BY <1>3, <1>5 DEF Job, JobRec, Pcs, Statuses, Texts
<1>7. /\ JobTypeOK'
      /\ k \notin DOMAIN jobs
      /\ DOMAIN jobs' = DOMAIN jobs \cup {k}
      /\ jobs'[k] = x
      /\ \A n \in DOMAIN jobs : jobs'[n] = jobs[n]
  BY <1>1, <1>2, <1>4, <1>6, JobStarts DEF IInv
<1>8. \A n \in DOMAIN jobs' : jobs'[n].pc = "set" => n \in DOMAIN jobs /\ jobs'[n] = jobs[n]
  BY <1>6, <1>7
<1>9. RateTypeOK' /\ LockInv' /\ NoRaceInMemory' /\ KeyInv' /\ RateInv' /\ CountsHold'
  BY <1>2, <1>8, RateFrame DEF IInv, RateTypeOK
<1>10. \A n \in DOMAIN jobs' :
           jobs'[n].pc \in {"rate", "set", "judge", "insert"} => jobs'[n].msg = n
  BY <1>6, <1>7 DEF IInv, StoreInv
<1>11. StoreTypeOK' /\ EventInv' /\ StoreInv'
  BY <1>2, <1>6, <1>7, <1>10, StoreFrame
<1>. QED BY <1>7, <1>9, <1>11 DEF IInv

LEMMA ModerateInv ==
    ASSUME IInv, NEW i \in Instances, NEW m \in DOMAIN rows \cup {0}, NEW s \in ModerationStatus,
           Moderate(i, m, s)
    PROVE  IInv'
<1>1. PICK k : k = NextNumber(jobs)
  OBVIOUS
<1>2. UNCHANGED <<now, rate, lock, life, rows, bus, passed, raced, crossed, unheard, faults, max>>
  BY DEF Moderate
<1>3. PICK x : x = [Job("moderate", i, "update") EXCEPT !.msg = m, !.status = s]
  OBVIOUS
<1>4. NewJob(x)
  BY <1>3 DEF Moderate
<1>5. m \in Nat
  BY DEF IInv, StoreTypeOK, JobTypeOK, Numbered
<1>6. x \in JobRec /\ x.pc = "update"
  BY <1>3, <1>5 DEF Job, JobRec, Pcs, Statuses, Texts, ModerationStatus
<1>7. /\ JobTypeOK'
      /\ k \notin DOMAIN jobs
      /\ DOMAIN jobs' = DOMAIN jobs \cup {k}
      /\ jobs'[k] = x
      /\ \A n \in DOMAIN jobs : jobs'[n] = jobs[n]
  BY <1>1, <1>2, <1>4, <1>6, JobStarts DEF IInv
<1>8. \A n \in DOMAIN jobs' : jobs'[n].pc = "set" => n \in DOMAIN jobs /\ jobs'[n] = jobs[n]
  BY <1>6, <1>7
<1>9. RateTypeOK' /\ LockInv' /\ NoRaceInMemory' /\ KeyInv' /\ RateInv' /\ CountsHold'
  BY <1>2, <1>8, RateFrame DEF IInv, RateTypeOK
<1>10. \A n \in DOMAIN jobs' :
           jobs'[n].pc \in {"rate", "set", "judge", "insert"} => jobs'[n].msg = n
  BY <1>6, <1>7 DEF IInv, StoreInv
<1>11. StoreTypeOK' /\ EventInv' /\ StoreInv'
  BY <1>2, <1>6, <1>7, <1>10, StoreFrame
<1>. QED BY <1>7, <1>9, <1>11 DEF IInv

(* What the rate key of an instance is *)
LEMMA RateKeyType ==
    ASSUME IInv, NEW i \in Instances
    PROVE  /\ i \in Nat /\ life[i] \in Nat
           /\ RateKey(i) \in Nat \X Nat
           /\ IF max.redis THEN RateKey(i) = <<0, 0>>
              ELSE RateKey(i)[1] = i /\ RateKey(i)[2] = life[i]
<1>1. i \in Nat
  BY ChatAssumption DEF IInv, JobTypeOK, Instances
<1>2. life[i] \in Nat
  BY DEF IInv, RateTypeOK
<1>. QED BY <1>1, <1>2 DEF RateKey

(* allowed: the count read covers every open window of the key *)
LEMMA RateGetInv ==
    ASSUME IInv, NEW n \in DOMAIN jobs, RateGet(n)
    PROVE  IInv'
<1>1. PICK j, k : j = jobs[n] /\ k = RateKey(j.inst)
  OBVIOUS
<1>2. /\ j.pc = "rate" /\ lock[j.inst] = 0 /\ j \in JobRec /\ j.inst \in Instances /\ j.msg = n
      /\ UNCHANGED <<now, rate, life, rows, bus, passed, crossed, unheard, max>>
      /\ faults \in Nat /\ JobTypeOK
  BY <1>1 DEF RateGet, IInv, JobTypeOK, JobRec, RateTypeOK, StoreInv
<1>3. \A m \in DOMAIN jobs : m \in Nat \ {0}
  BY DEF IInv, JobTypeOK, Numbered
<1>4. ASSUME Goto(n, "failed"), UNCHANGED <<lock, raced>>, faults' \in Nat
      PROVE  IInv'
  <2>1. /\ JobTypeOK'
        /\ DOMAIN jobs' = DOMAIN jobs
        /\ \A m \in DOMAIN jobs : m # n => jobs'[m] = jobs[m]
        /\ jobs'[n].pc = "failed" /\ jobs'[n].client = jobs[n].client
    BY <1>2, <1>4, JobGoes DEF Pcs
  <2>2. \A m \in DOMAIN jobs' : jobs'[m].pc = "set" => m \in DOMAIN jobs /\ jobs'[m] = jobs[m]
    BY <2>1
  <2>3. RateTypeOK' /\ LockInv' /\ NoRaceInMemory' /\ KeyInv' /\ RateInv' /\ CountsHold'
    BY <1>2, <1>4, <2>2, RateFrame
  <2>4. \A m \in DOMAIN jobs' :
           jobs'[m].pc \in {"rate", "set", "judge", "insert"} => jobs'[m].msg = m
    BY <2>1 DEF IInv, StoreInv
  <2>5. StoreTypeOK' /\ EventInv' /\ StoreInv'
    BY <1>1, <1>2, <2>1, <2>4, StoreFrame
  <2>. QED BY <2>1, <2>3, <2>5 DEF IInv
<1>5. ASSUME Count(k) < RateMax, lock' = [lock EXCEPT ![j.inst] = n],
             Become(n, [j EXCEPT !.pc = "set", !.count = Count(k) + 1]),
             raced' = (raced \/ Checking(k) # {}), UNCHANGED faults
      PROVE  IInv'
  <2>1. PICK c : c = Count(k)
    OBVIOUS
  <2>2. c \in Nat /\ c < RateMax
    BY <1>5, <2>1 DEF Count, IInv, RateTypeOK
  <2>3. PICK x, d : d = c + 1 /\ x = [j EXCEPT !.pc = "set", !.count = d]
    OBVIOUS
  <2>4. /\ x \in JobRec /\ x.pc = "set" /\ x.inst = j.inst /\ x.msg = n /\ x.client = j.client
        /\ x.count = c + 1
    <3>1. d \in Nat
      BY <2>2, <2>3
    <3>. QED BY <1>2, <2>3, <3>1 DEF JobRec, Pcs
  <2>5. Become(n, x)
    BY <1>5, <2>1, <2>3
  <2>6. /\ JobTypeOK'
        /\ DOMAIN jobs' = DOMAIN jobs
        /\ jobs'[n] = x
        /\ \A m \in DOMAIN jobs : m # n => jobs'[m] = jobs[m]
    BY <1>2, <2>4, <2>5, JobMoves
  <2>7. RateTypeOK'
    BY <1>2, <1>3, <1>5 DEF IInv, RateTypeOK, Instances
  <2>8. \A m \in DOMAIN jobs : jobs[m].pc = "set" => jobs[m].inst # j.inst
    BY <1>2, <1>3 DEF IInv, LockInv
  <2>9. LockInv'
    BY <1>2, <1>5, <2>4, <2>6, <2>8 DEF IInv, LockInv, RateTypeOK, JobTypeOK, JobRec
  <2>10. ~raced' => ~raced /\ \A m \in DOMAIN jobs : jobs[m].pc = "set" => RateKey(jobs[m].inst) # k
    BY <1>5 DEF Checking
  <2>11. NoRaceInMemory'
    <3>1. ~max.redis => \A m \in DOMAIN jobs : jobs[m].pc = "set" => RateKey(jobs[m].inst) # k
      <4>1. \A m \in DOMAIN jobs : jobs[m].inst \in Instances
        BY DEF IInv, JobTypeOK, JobRec
      <4>. QED BY <1>1, <1>2, <2>8, <4>1, RateKeyType
    <3>2. ~max.redis => Checking(k) = {}
      BY <3>1 DEF Checking
    <3>. QED BY <1>2, <1>5, <3>2 DEF IInv, NoRaceInMemory
  <2>12. RateInv'
    <3>1. /\ \A p : Open(p)' <=> Open(p)
          /\ \A i : RateKey(i)' = RateKey(i)
      BY <1>2 DEF Open, RateKey
    <3>5. \A x1 : Live(x1)' <=> Live(x1)
      BY <1>2, <3>1 DEF Live, Instances
    <3>2. \A m \in DOMAIN jobs' : jobs'[m].pc = "set" => jobs'[m].count \in 1 .. RateMax
      BY <2>2, <2>4, <2>6, ChatAssumption DEF IInv, RateInv
    <3>3. ASSUME ~raced', NEW p \in passed, p.key = k, Open(p)
          PROVE  Cardinality(Counted(passed, p)) < x.count
      <4>0. Live(p.key)
        BY <1>1, <1>2, <3>3 DEF Live
      <4>1. /\ k \in DOMAIN rate /\ rate[k].expires >= p.at + RateWin
            /\ Cardinality(Counted(passed, p)) <= rate[k].count
        BY <2>10, <3>3, <4>0 DEF IInv, RateInv
      <4>2. rate[k].count \in Nat /\ rate[k].expires \in Nat /\ p.at \in Nat /\ now \in Nat
        BY <3>3, <4>1 DEF IInv, RateTypeOK, PassRec
      <4>3. now < rate[k].expires
        BY <3>3, <4>1, <4>2, ChatAssumption DEF Open
      <4>4. c = rate[k].count
        BY <2>1, <4>1, <4>3 DEF Count
      <4>5. Cardinality(Counted(passed, p)) \in Nat
        BY WindowFinite DEF IInv, RateTypeOK
      <4>. QED BY <2>4, <4>1, <4>2, <4>4, <4>5
    <3>4. ASSUME ~raced', NEW m \in DOMAIN jobs', jobs'[m].pc = "set"
          PROVE  /\ \A p \in passed :
                       p.key = RateKey(jobs'[m].inst) /\ Open(p) =>
                           Cardinality(Counted(passed, p)) < jobs'[m].count
                 /\ \A l \in DOMAIN jobs' :
                       jobs'[l].pc = "set" /\ RateKey(jobs'[l].inst) = RateKey(jobs'[m].inst) => l = m
      <4>1. CASE m = n
        BY <1>1, <2>4, <2>6, <2>10, <3>3, <3>4, <4>1
      <4>2. CASE m # n
        <5>1. jobs'[m] = jobs[m] /\ m \in DOMAIN jobs
          BY <2>6, <4>2
        <5>2. RateKey(jobs[m].inst) # k /\ RateKey(x.inst) = k
          BY <1>1, <2>4, <2>10, <3>4, <5>1
        <5>. QED BY <2>6, <2>10, <3>4, <5>1, <5>2 DEF IInv, RateInv
      <4>. QED BY <4>1, <4>2
    <3>. QED BY <1>2, <2>10, <3>1, <3>2, <3>4, <3>5 DEF IInv, RateInv
  <2>13. CountsHold' /\ KeyInv'
    BY <1>2, <2>10 DEF IInv, CountsHold, KeyInv, Instances
  <2>14. \A m \in DOMAIN jobs' :
           jobs'[m].pc \in {"rate", "set", "judge", "insert"} => jobs'[m].msg = m
    BY <2>4, <2>6 DEF IInv, StoreInv
  <2>15. StoreTypeOK' /\ EventInv' /\ StoreInv'
    BY <1>1, <1>2, <2>4, <2>6, <2>14, StoreFrame
  <2>. QED BY <2>6, <2>7, <2>9, <2>11, <2>12, <2>13, <2>15 DEF IInv
<1>6. CASE Costs(1) /\ Goto(n, "failed") /\ UNCHANGED <<lock, raced>>
  BY <1>2, <1>4, <1>6 DEF Costs
<1>. QED BY <1>1, <1>2, <1>4, <1>5, <1>6 DEF RateGet

(* The message is counted: every open window of its key has one more *)
LEMMA CountedInv ==
    ASSUME IInv, NEW n \in DOMAIN jobs, jobs[n].pc = "set", NEW k, k = RateKey(jobs[n].inst),
           NEW q, q = [key |-> k, at |-> now, by |-> n],
           NEW c, c = jobs[n].count,
           rate' = With(rate, k, [count |-> c, expires |-> now + RateWin]),
           passed' = passed \cup {q},
           UNCHANGED <<now, life, raced, max>>,
           DOMAIN jobs' = DOMAIN jobs, jobs'[n].pc = "judge",
           \A m \in DOMAIN jobs : m # n => jobs'[m] = jobs[m]
    PROVE  RateInv' /\ CountsHold'
<1>1. /\ now \in Nat /\ n \in Nat /\ IsFiniteSet(passed) /\ RateWin \in Nat \ {0} /\ RateMax \in Nat
      /\ \A p \in passed : p.at \in Nat /\ p.at <= now
  BY ChatAssumption DEF IInv, RateTypeOK, JobTypeOK, Numbered, PassRec, RateInv
<1>2. c \in Nat /\ 1 <= c /\ c <= RateMax
  BY <1>1 DEF IInv, RateInv
<1>3. q.key = k /\ q.at = now
  OBVIOUS
<1>4. PICK e : e = [count |-> c, expires |-> now + RateWin]
  OBVIOUS
<1>5. e.count = c /\ e.expires = now + RateWin
  BY <1>4
<1>6. /\ DOMAIN rate' = DOMAIN rate \cup {k}
      /\ rate'[k] = e
      /\ \A x \in DOMAIN rate : x # k => rate'[x] = rate[x]
  BY <1>4 DEF With
<1>7. /\ \A p : Open(p)' <=> Open(p)
      /\ \A i : RateKey(i)' = RateKey(i)
  BY DEF Open, RateKey
<1>18. \A x : Live(x)' <=> Live(x)
  BY <1>7 DEF Live, Instances
<1>8. \A p \in passed \cup {q} : Cardinality(Counted(passed', p)) \in Nat
  <2>1. IsFiniteSet(passed')
    BY <1>1, FS_AddElement
  <2>. QED BY <2>1, WindowFinite
<1>9. ASSUME ~raced, NEW p \in passed, p.key = k, Open(p)
      PROVE  Cardinality(Counted(passed', p)) <= c
  <2>1. Cardinality(Counted(passed, p)) < c
    BY <1>9 DEF IInv, RateInv
  <2>2. Cardinality(Counted(passed, p)) \in Nat
    BY <1>1, WindowFinite
  <2>3. Cardinality(Counted(passed', p)) <= Cardinality(Counted(passed, p)) + 1
    BY <1>1, WindowGrows
  <2>. QED BY <1>2, <1>8, <2>1, <2>2, <2>3
<1>10. ASSUME NEW p \in passed, p.key # k \/ ~Open(p)
       PROVE  Counted(passed', p) = Counted(passed, p)
  <2>1. ~(q.key = p.key /\ p.at <= q.at /\ q.at < p.at + RateWin)
    BY <1>3, <1>10 DEF Open
  <2>. QED BY <2>1, WindowStays
<1>11. ASSUME ~raced
       PROVE  Cardinality(Counted(passed', q)) <= c
  <2>1. CASE \E p \in passed : p.key = k /\ p.at = now
    <3>1. PICK p \in passed : p.key = k /\ p.at = now
      BY <2>1
    <3>2. Counted(passed', p) = Counted(passed', q)
      BY <1>3, <3>1, WindowOf
    <3>3. Open(p)
      BY <1>1, <3>1 DEF Open
    <3>. QED BY <1>9, <1>11, <3>1, <3>2, <3>3
  <2>2. CASE \A p \in passed : ~(p.key = k /\ p.at = now)
    <3>1. q.at \in Nat /\ \A p \in passed : p.at \in Nat /\ p.at <= q.at
                                            /\ ~(p.key = q.key /\ p.at = q.at)
      BY <1>1, <1>3, <2>2
    <3>2. Cardinality(Counted(passed', q)) = 1
      BY <3>1, WindowOpens
    <3>. QED BY <1>2, <3>2
  <2>. QED BY <2>1, <2>2
<1>12. CountsHold'
  <2>1. ASSUME ~raced, NEW p \in passed
        PROVE  Cardinality(Counted(passed', p)) <= RateMax
    <3>1. Cardinality(Counted(passed, p)) <= RateMax
      BY <2>1 DEF IInv, CountsHold
    <3>2. CASE p.key = k /\ Open(p)
      <4>1. Cardinality(Counted(passed', p)) <= c
        BY <1>9, <2>1, <3>2
      <4>2. Cardinality(Counted(passed', p)) \in Nat
        BY <1>8
      <4>. QED BY <1>1, <1>2, <4>1, <4>2
    <3>. QED BY <1>10, <3>1, <3>2
  <2>2. ASSUME ~raced
        PROVE  Cardinality(Counted(passed', q)) <= RateMax
    <3>1. PICK w : w = Cardinality(Counted(passed', q))
      OBVIOUS
    <3>2. w <= c /\ w \in Nat
      BY <1>8, <1>11, <2>2, <3>1
    <3>. QED BY <1>1, <1>2, <3>1, <3>2
  <2>. QED BY <2>1, <2>2 DEF CountsHold
<1>13. ASSUME ~raced, NEW p \in passed', Live(p.key)
       PROVE  /\ p.key \in DOMAIN rate'
              /\ rate'[p.key].expires >= p.at + RateWin
              /\ Open(p) => Cardinality(Counted(passed', p)) <= rate'[p.key].count
  <2>1. CASE p = q
    BY <1>1, <1>3, <1>5, <1>6, <1>11, <1>13, <2>1
  <2>2. CASE p \in passed /\ p.key = k
    <3>1. p.at + RateWin <= now + RateWin
      BY <1>1, <2>2
    <3>. QED BY <1>1, <1>5, <1>6, <1>9, <1>13, <2>2, <3>1
  <2>3. CASE p \in passed /\ p.key # k
    <3>1. /\ p.key \in DOMAIN rate
          /\ rate[p.key].expires >= p.at + RateWin
          /\ Open(p) => Cardinality(Counted(passed, p)) <= rate[p.key].count
      BY <1>13, <2>3 DEF IInv, RateInv
    <3>. QED BY <1>6, <1>10, <2>3, <3>1
  <2>. QED BY <1>13, <2>1, <2>2, <2>3
<1>14. ASSUME ~raced, NEW m \in DOMAIN jobs', jobs'[m].pc = "set"
       PROVE  /\ \A p \in passed' :
                    p.key = RateKey(jobs'[m].inst) /\ Open(p) =>
                        Cardinality(Counted(passed', p)) < jobs'[m].count
              /\ \A l \in DOMAIN jobs' :
                    jobs'[l].pc = "set" /\ RateKey(jobs'[l].inst) = RateKey(jobs'[m].inst) => l = m
  <2>1. m # n /\ m \in DOMAIN jobs /\ jobs'[m] = jobs[m]
    BY <1>14
  <2>2. RateKey(jobs[m].inst) # k
    BY <1>14, <2>1 DEF IInv, RateInv
  <2>3. \A l \in DOMAIN jobs' : jobs'[l].pc = "set" => l \in DOMAIN jobs /\ jobs'[l] = jobs[l]
    OBVIOUS
  <2>4. \A p \in passed : p.key = RateKey(jobs[m].inst) => Counted(passed', p) = Counted(passed, p)
    BY <1>10, <2>2
  <2>. QED BY <1>3, <1>14, <2>1, <2>2, <2>3, <2>4 DEF IInv, RateInv
<1>15. \A p \in passed' : p.at <= now
  BY <1>1, <1>3
<1>16. \A m \in DOMAIN jobs' : jobs'[m].pc = "set" => jobs'[m].count \in 1 .. RateMax
  BY DEF IInv, RateInv
<1>17. RateInv'
  BY <1>7, <1>13, <1>14, <1>15, <1>16, <1>18 DEF RateInv
<1>. QED BY <1>12, <1>17

LEMMA RateSetInv ==
    ASSUME IInv, NEW n \in DOMAIN jobs, RateSet(n)
    PROVE  IInv'
<1>1. PICK j, k : j = jobs[n] /\ k = RateKey(j.inst)
  OBVIOUS
<1>2. /\ j.pc = "set" /\ j \in JobRec /\ j.inst \in Instances /\ j.msg = n
      /\ lock' = [lock EXCEPT ![j.inst] = 0]
      /\ UNCHANGED <<now, life, rows, bus, raced, crossed, unheard, max>>
      /\ faults \in Nat /\ JobTypeOK
  BY <1>1 DEF RateSet, IInv, JobTypeOK, JobRec, RateTypeOK, StoreInv
<1>3. PICK pc \in {"judge", "failed"} : Goto(n, pc) /\
          \/ /\ pc = "judge"
             /\ rate' = With(rate, k, [count |-> j.count, expires |-> now + RateWin])
             /\ passed' = passed \cup {[key |-> k, at |-> now, by |-> n]}
             /\ UNCHANGED faults
          \/ UNCHANGED <<rate, passed>> /\ Costs(1)
  BY <1>1 DEF RateSet, Expiry
<1>4. /\ JobTypeOK'
      /\ DOMAIN jobs' = DOMAIN jobs
      /\ \A m \in DOMAIN jobs : m # n => jobs'[m] = jobs[m]
      /\ jobs'[n].pc = pc /\ jobs'[n].client = jobs[n].client /\ jobs'[n].msg = n
  BY <1>1, <1>2, <1>3, JobGoes DEF Pcs
<1>5. \A m \in DOMAIN jobs' : jobs'[m].pc = "set" => m # n /\ m \in DOMAIN jobs /\ jobs'[m] = jobs[m]
  BY <1>4
<1>6. lock[j.inst] = n
  BY <1>1, <1>2 DEF IInv, LockInv
<1>7. LockInv'
  BY <1>2, <1>4, <1>5, <1>6 DEF IInv, LockInv, RateTypeOK, JobTypeOK, JobRec
<1>8. faults' \in Nat
  BY <1>2, <1>3 DEF Costs
<1>9. ASSUME UNCHANGED <<rate, passed>>
      PROVE  RateTypeOK' /\ LockInv' /\ NoRaceInMemory' /\ KeyInv' /\ RateInv' /\ CountsHold'
  <2>1. RateTypeOK'
    BY <1>2, <1>8, <1>9 DEF IInv, RateTypeOK, Instances
  <2>2. NoRaceInMemory' /\ KeyInv' /\ RateInv' /\ CountsHold'
    BY <1>2, <1>5, <1>9, RateInvFrame
  <2>. QED BY <1>7, <2>1, <2>2
<1>10. ASSUME pc = "judge",
              rate' = With(rate, k, [count |-> j.count, expires |-> now + RateWin]),
              passed' = passed \cup {[key |-> k, at |-> now, by |-> n]}
       PROVE  RateTypeOK' /\ LockInv' /\ NoRaceInMemory' /\ KeyInv' /\ RateInv' /\ CountsHold'
  <2>1. PICK q, c : q = [key |-> k, at |-> now, by |-> n] /\ c = j.count
    OBVIOUS
  <2>2. passed' = passed \cup {q} /\ rate' = With(rate, k, [count |-> c, expires |-> now + RateWin])
    BY <1>10, <2>1
  <2>3. k \in Nat \X Nat /\ n \in Nat /\ now \in Nat /\ c \in Nat /\ RateWin \in Nat
    BY <1>1, <1>2, <2>1, RateKeyType, ChatAssumption DEF IInv, JobTypeOK, Numbered, RateTypeOK, JobRec
  <2>4. q \in PassRec
    BY <2>1, <2>3 DEF PassRec
  <2>5. IsFiniteSet(passed')
    BY <2>2, FS_AddElement DEF IInv, RateTypeOK
  <2>6. [count |-> c, expires |-> now + RateWin] \in [count : Nat, expires : Nat]
    BY <2>3
  <2>7. \A x \in DOMAIN rate' : rate'[x] \in [count : Nat, expires : Nat]
    BY <2>2, <2>6 DEF With, IInv, RateTypeOK
  <2>8. RateTypeOK'
    BY <1>2, <1>8, <2>2, <2>4, <2>5, <2>7 DEF IInv, RateTypeOK, Instances
  <2>9. RateInv' /\ CountsHold'
    BY <1>1, <1>2, <1>4, <1>10, <2>1, <2>2, CountedInv
  <2>10. NoRaceInMemory'
    BY <1>2 DEF IInv, NoRaceInMemory
  <2>11. q.key = k /\ IF max.redis THEN k = <<0, 0>> ELSE k[1] = j.inst /\ k[2] = life[j.inst]
    BY <1>1, <1>2, <2>1, RateKeyType
  <2>12. life[j.inst] \in Nat
    BY <1>2, RateKeyType
  <2>13. KeyInv'
    BY <1>2, <2>2, <2>11, <2>12 DEF IInv, KeyInv, Instances
  <2>. QED BY <1>7, <2>8, <2>9, <2>10, <2>13
<1>11. RateTypeOK' /\ LockInv' /\ NoRaceInMemory' /\ KeyInv' /\ RateInv' /\ CountsHold'
  BY <1>3, <1>9, <1>10
<1>12. \A m \in DOMAIN jobs' :
           jobs'[m].pc \in {"rate", "set", "judge", "insert"} => jobs'[m].msg = m
  BY <1>4 DEF IInv, StoreInv
<1>13. StoreTypeOK' /\ EventInv' /\ StoreInv'
  BY <1>1, <1>2, <1>4, <1>12, StoreFrame
<1>. QED BY <1>4, <1>11, <1>13 DEF IInv

----------------------------------------------------------------------------
(***************************************************************************)
(* The judges, the store and the bus.                                      *)
(***************************************************************************)
LEMMA JudgedInv ==
    ASSUME IInv, NEW n \in DOMAIN jobs, jobs[n].pc = "judge", NEW a,
           Become(n, Judged(jobs[n], a)), faults' \in Nat,
           UNCHANGED <<now, rate, lock, life, rows, bus, passed, raced, crossed, unheard, max>>
    PROVE  IInv'
<1>s. PICK s : s = IF Flagged(a) THEN "flagged" ELSE "published"
  OBVIOUS
<1>x. PICK x : x = [jobs[n] EXCEPT !.pc = "insert", !.status = s]
  OBVIOUS
<1>1. s \in {"flagged", "published"} /\ Become(n, x)
  BY <1>s, <1>x DEF Judged
<1>2. jobs[n] \in JobRec /\ JobTypeOK /\ jobs[n].msg = n
  BY DEF IInv, JobTypeOK, StoreInv
<1>3. x \in JobRec /\ x.pc = "insert" /\ x.msg = n /\ x.client = jobs[n].client
  BY <1>1, <1>2, <1>x DEF JobRec, Pcs, Statuses
<1>4. /\ JobTypeOK'
      /\ DOMAIN jobs' = DOMAIN jobs
      /\ jobs'[n] = x
      /\ \A m \in DOMAIN jobs : m # n => jobs'[m] = jobs[m]
  BY <1>1, <1>2, <1>3, JobMoves
<1>5. \A m \in DOMAIN jobs' : jobs'[m].pc = "set" => m \in DOMAIN jobs /\ jobs'[m] = jobs[m]
  BY <1>3, <1>4
<1>6. RateTypeOK' /\ LockInv' /\ NoRaceInMemory' /\ KeyInv' /\ RateInv' /\ CountsHold'
  BY <1>5, RateFrame
<1>7. \A m \in DOMAIN jobs' :
           jobs'[m].pc \in {"rate", "set", "judge", "insert"} => jobs'[m].msg = m
  BY <1>3, <1>4 DEF IInv, StoreInv
<1>8. StoreTypeOK' /\ EventInv' /\ StoreInv'
  BY <1>3, <1>4, <1>7, StoreFrame
<1>. QED BY <1>4, <1>6, <1>8 DEF IInv

LEMMA InspectInv ==
    ASSUME IInv, NEW n \in DOMAIN jobs, Inspect(n) \/ GreenFails(n)
    PROVE  IInv'
<1>1. /\ jobs[n].pc = "judge" /\ faults \in Nat
      /\ UNCHANGED <<now, rate, lock, life, rows, bus, passed, raced, crossed, unheard, max>>
  BY DEF Inspect, GreenFails, IInv, RateTypeOK
<1>2. faults' \in Nat
  BY <1>1 DEF Inspect, GreenFails, Costs
<1>3. \E a : Become(n, Judged(jobs[n], a))
  BY DEF Inspect, GreenFails, Fallback
<1>. QED BY <1>1, <1>2, <1>3, JudgedInv

(* A writer goes on: what it does to the messages and the bus is all that matters *)
WriterStep(n, pc) ==
    /\ jobs[n].pc \in {"insert", "update", "get", "publish"}
    /\ Goto(n, pc)
    /\ faults' \in Nat
    /\ UNCHANGED <<now, rate, lock, life, passed, raced, max>>

LEMMA WriterMoves ==
    ASSUME IInv, NEW n \in DOMAIN jobs, NEW pc \in {"get", "publish", "failed", "done"},
           WriterStep(n, pc)
    PROVE  /\ StoreTypeOK' /\ EventInv' /\ StoreInv' => IInv'
           /\ DOMAIN jobs' = DOMAIN jobs
           /\ \A m \in DOMAIN jobs : m # n => jobs'[m] = jobs[m]
           /\ jobs'[n].pc = pc /\ jobs'[n].msg = jobs[n].msg
           /\ jobs'[n].client = jobs[n].client /\ jobs'[n].status = jobs[n].status
           /\ jobs[n].msg \in Nat /\ jobs[n].status \in Statuses /\ jobs[n].client \in Nat
<1>1. /\ JobTypeOK'
      /\ DOMAIN jobs' = DOMAIN jobs
      /\ \A m \in DOMAIN jobs : m # n => jobs'[m] = jobs[m]
      /\ jobs'[n].pc = pc /\ jobs'[n].msg = jobs[n].msg
      /\ jobs'[n].client = jobs[n].client /\ jobs'[n].status = jobs[n].status
  BY JobGoes DEF WriterStep, Pcs, IInv
<1>2. \A m \in DOMAIN jobs' : jobs'[m].pc = "set" => m \in DOMAIN jobs /\ jobs'[m] = jobs[m]
  BY <1>1
<1>3. RateTypeOK' /\ LockInv' /\ NoRaceInMemory' /\ KeyInv' /\ RateInv' /\ CountsHold'
  BY <1>2, RateFrame DEF WriterStep
<1>4. jobs[n].msg \in Nat /\ jobs[n].status \in Statuses /\ jobs[n].client \in Nat
  BY DEF IInv, JobTypeOK, JobRec
<1>. QED BY <1>1, <1>3, <1>4 DEF IInv

(* Messages that the step is not about *)
LEMMA OtherMessages ==
    ASSUME IInv, NEW n \in DOMAIN jobs, NEW pc \in {"get", "publish", "failed", "done"},
           WriterStep(n, pc), NEW m \in DOMAIN rows, m # jobs[n].msg,
           rows'[m].status = rows[m].status, m \notin crossed \cup unheard, Told(m) => Told(m)'
    PROVE  EventOf(m)'
<1>1. /\ DOMAIN jobs' = DOMAIN jobs
      /\ \A k \in DOMAIN jobs : k # n => jobs'[k] = jobs[k]
      /\ jobs'[n].msg = jobs[n].msg
  BY WriterMoves
<1>2. \A k \in DOMAIN jobs : /\ Wrote(k, m)' <=> Wrote(k, m)
                             /\ Wrote(k, m) => jobs'[k] = jobs[k]
  BY <1>1 DEF Wrote
<1>3. EventOf(m)
  BY DEF IInv, EventInv
<1>. QED BY <1>1, <1>2, <1>3 DEF EventOf

(* A message that n is the only one to have written *)
LEMMA OnlyWriter ==
    ASSUME IInv, NEW n \in DOMAIN jobs, NEW pc \in {"get", "publish"}, WriterStep(n, pc),
           NEW m, m = jobs[n].msg, m \notin crossed', Cross(m),
           jobs[n].status = rows'[m].status
    PROVE  EventOf(m)'
<1>1. /\ DOMAIN jobs' = DOMAIN jobs
      /\ \A k \in DOMAIN jobs : k # n => jobs'[k] = jobs[k]
      /\ jobs'[n].msg = jobs[n].msg /\ jobs'[n].pc = pc /\ jobs'[n].status = jobs[n].status
  BY WriterMoves
<1>2. Announcing(m) = {}
  BY DEF Cross
<1>3. \A k \in DOMAIN jobs : ~Wrote(k, m)
  BY <1>2 DEF Announcing, Wrote
<1>4. \A k \in DOMAIN jobs' : Wrote(k, m)' <=> k = n
  BY <1>1, <1>3 DEF Wrote
<1>. QED BY <1>1, <1>4 DEF EventOf

(* A step that writes and announces nothing *)
LEMMA QuietWriter ==
    ASSUME IInv, NEW n \in DOMAIN jobs, NEW pc \in {"get", "publish", "failed", "done"},
           WriterStep(n, pc), UNCHANGED <<rows, bus, crossed, unheard>>,
           \/ jobs[n].msg \notin DOMAIN rows /\ pc # "publish"
           \/ jobs[n].pc \in {"insert", "update"} /\ pc = "failed"
           \/ jobs[n].pc = "get" /\ pc = "publish" /\ jobs[n].msg \in DOMAIN rows
    PROVE  IInv'
<1>1. /\ StoreTypeOK' /\ EventInv' /\ StoreInv' => IInv'
      /\ DOMAIN jobs' = DOMAIN jobs
      /\ \A m \in DOMAIN jobs : m # n => jobs'[m] = jobs[m]
      /\ jobs'[n].pc = pc /\ jobs'[n].msg = jobs[n].msg
      /\ jobs'[n].client = jobs[n].client /\ jobs'[n].status = jobs[n].status
  BY WriterMoves
<1>2. StoreTypeOK'
  BY <1>1 DEF IInv, StoreTypeOK
<1>3. \A m \in DOMAIN rows : \A k \in DOMAIN jobs : Wrote(k, m)' <=> Wrote(k, m)
  BY <1>1 DEF Wrote
<1>4. \A m : Told(m)' <=> Told(m)
  BY DEF Told
<1>5. \A k \in DOMAIN jobs : jobs'[k].status = jobs[k].status
  BY <1>1
<1>6. \A m \in DOMAIN rows : EventOf(m) => EventOf(m)'
  BY <1>1, <1>3, <1>4, <1>5 DEF EventOf
<1>7. EventInv'
  BY <1>6 DEF IInv, EventInv
<1>8. max' = max
  BY DEF WriterStep
<1>9. StoreInv'
  BY <1>1, <1>8 DEF IInv, StoreInv, StoreTypeOK
<1>. QED BY <1>1, <1>2, <1>7, <1>9

(* Store.Insert: a client_msg_id that is stored is refused *)
LEMMA InsertInv ==
    ASSUME IInv, NEW n \in DOMAIN jobs, Insert(n)
    PROVE  IInv'
<1>1. PICK j : j = jobs[n]
  OBVIOUS
<1>2. /\ j.pc = "insert" /\ j.msg = n /\ faults \in Nat
      /\ UNCHANGED <<now, rate, lock, life, bus, passed, raced, unheard, max>>
  BY <1>1 DEF Insert, IInv, StoreInv, RateTypeOK
<1>3. ASSUME Goto(n, "failed"), faults' \in Nat, UNCHANGED <<rows, crossed>>
      PROVE  IInv'
  <2>1. WriterStep(n, "failed")
    BY <1>1, <1>2, <1>3 DEF WriterStep
  <2>. QED BY <1>1, <1>2, <1>3, <2>1, QuietWriter
<1>4. ASSUME ~Duplicate(j.client), rows' = With(rows, n, [client |-> j.client, status |-> j.status]),
             Cross(n), Goto(n, "publish"), UNCHANGED faults
      PROVE  IInv'
  <2>1. WriterStep(n, "publish")
    BY <1>1, <1>2, <1>4 DEF WriterStep
  <2>2. /\ StoreTypeOK' /\ EventInv' /\ StoreInv' => IInv'
        /\ DOMAIN jobs' = DOMAIN jobs
        /\ \A m \in DOMAIN jobs : m # n => jobs'[m] = jobs[m]
        /\ jobs'[n].pc = "publish" /\ jobs'[n].msg = jobs[n].msg
        /\ jobs'[n].client = jobs[n].client /\ jobs'[n].status = jobs[n].status
        /\ jobs[n].msg \in Nat /\ jobs[n].status \in Statuses /\ jobs[n].client \in Nat
    BY <2>1, WriterMoves
  <2>3. PICK r : r = [client |-> j.client, status |-> j.status]
    OBVIOUS
  <2>4. r \in [client : Nat, status : Statuses] /\ r.client = j.client /\ r.status = j.status
    BY <1>1, <2>2, <2>3
  <2>5. /\ DOMAIN rows' = DOMAIN rows \cup {n}
        /\ rows'[n] = r
        /\ \A m \in DOMAIN rows : m # n => rows'[m] = rows[m]
    BY <1>4, <2>3 DEF With
  <2>6. StoreTypeOK'
    BY <1>2, <2>2, <2>4, <2>5 DEF IInv, StoreTypeOK
  <2>7. crossed \subseteq crossed'
    BY <1>4 DEF Cross
  <2>8. EventInv'
    <3>1. SUFFICES ASSUME NEW m \in DOMAIN rows', m \notin crossed' \cup unheard'
                   PROVE  EventOf(m)'
      BY DEF EventInv
    <3>2. CASE m = n
      BY <1>1, <1>2, <1>4, <2>1, <2>4, <2>5, <3>1, <3>2, OnlyWriter
    <3>3. CASE m # n
      <4>1. m \in DOMAIN rows /\ rows'[m] = rows[m] /\ m \notin crossed \cup unheard
        BY <1>2, <2>5, <2>7, <3>1, <3>3
      <4>2. Told(m) => Told(m)'
        BY <1>2, <4>1 DEF Told
      <4>. QED BY <1>1, <1>2, <2>1, <3>3, <4>1, <4>2, OtherMessages
    <3>. QED BY <3>2, <3>3
  <2>9. StoreInv'
    <3>1. \A m \in DOMAIN jobs' :
             jobs'[m].pc \in {"rate", "set", "judge", "insert"} => jobs'[m].msg = m
      BY <2>2 DEF IInv, StoreInv
    <3>2. \A m \in DOMAIN rows' : rows'[m].client = jobs'[m].client
      BY <1>1, <2>2, <2>4, <2>5 DEF IInv, StoreInv, StoreTypeOK
    <3>3. ASSUME max.pg
          PROVE  /\ \A m, k \in DOMAIN rows' :
                       rows'[m].client # 0 /\ rows'[m].client = rows'[k].client => m = k
                 /\ \A m \in DOMAIN jobs' : jobs'[m].pc = "publish" => jobs'[m].msg \in DOMAIN rows'
                 /\ \A i \in DOMAIN bus' : bus'[i][1] \in DOMAIN rows'
      <4>1. j.client # 0 => \A m \in DOMAIN rows : rows[m].client # j.client
        BY <1>4, <3>3 DEF Duplicate
      <4>2. \A m, k \in DOMAIN rows' :
               rows'[m].client # 0 /\ rows'[m].client = rows'[k].client => m = k
        BY <2>4, <2>5, <3>3, <4>1 DEF IInv, StoreInv
      <4>. QED BY <1>1, <1>2, <2>2, <2>5, <3>3, <4>2 DEF IInv, StoreInv
    <3>. QED BY <1>2, <3>1, <3>2, <3>3 DEF StoreInv
  <2>. QED BY <2>2, <2>6, <2>8, <2>9
<1>5. CASE Costs(1) /\ Goto(n, "failed") /\ UNCHANGED <<rows, crossed>>
  BY <1>2, <1>3, <1>5 DEF Costs
<1>6. CASE Goto(n, OnDuplicate) /\ UNCHANGED <<rows, crossed, faults>>
  BY <1>2, <1>3, <1>6 DEF OnDuplicate
<1>. QED BY <1>1, <1>4, <1>5, <1>6 DEF Insert

(* Store.Moderate: the statement that writes the status *)
LEMMA UpdateStatusInv ==
    ASSUME IInv, NEW n \in DOMAIN jobs, UpdateStatus(n)
    PROVE  IInv'
<1>1. PICK j : j = jobs[n]
  OBVIOUS
<1>2. /\ j.pc = "update" /\ faults \in Nat
      /\ UNCHANGED <<now, rate, lock, life, bus, passed, raced, unheard, max>>
  BY <1>1 DEF UpdateStatus, IInv, RateTypeOK
<1>3. ASSUME Goto(n, "failed"), faults' \in Nat, UNCHANGED <<rows, crossed>>
      PROVE  IInv'
  <2>1. WriterStep(n, "failed")
    BY <1>1, <1>2, <1>3 DEF WriterStep
  <2>. QED BY <1>1, <1>2, <1>3, <2>1, QuietWriter
<1>4. ASSUME j.msg \notin DOMAIN rows, Goto(n, "get"), UNCHANGED <<rows, crossed, faults>>
      PROVE  IInv'
  <2>1. WriterStep(n, "get")
    BY <1>1, <1>2, <1>4 DEF WriterStep
  <2>. QED BY <1>1, <1>2, <1>4, <2>1, QuietWriter
<1>5. ASSUME j.msg \in DOMAIN rows, rows' = [rows EXCEPT ![j.msg].status = j.status], Cross(j.msg),
             NEW pc \in {"get", "publish"}, max.pg => pc = "get", Goto(n, pc), UNCHANGED faults
      PROVE  IInv'
  <2>1. WriterStep(n, pc)
    BY <1>1, <1>2, <1>5 DEF WriterStep
  <2>2. /\ StoreTypeOK' /\ EventInv' /\ StoreInv' => IInv'
        /\ DOMAIN jobs' = DOMAIN jobs
        /\ \A m \in DOMAIN jobs : m # n => jobs'[m] = jobs[m]
        /\ jobs'[n].pc = pc /\ jobs'[n].msg = jobs[n].msg
        /\ jobs'[n].client = jobs[n].client /\ jobs'[n].status = jobs[n].status
        /\ jobs[n].msg \in Nat /\ jobs[n].status \in Statuses /\ jobs[n].client \in Nat
    BY <2>1, WriterMoves
  <2>3. PICK r : r = [rows[j.msg] EXCEPT !.status = j.status]
    OBVIOUS
  <2>4. rows[j.msg] \in [client : Nat, status : Statuses]
    BY <1>5 DEF IInv, StoreTypeOK
  <2>5. r \in [client : Nat, status : Statuses] /\ r.client = rows[j.msg].client /\ r.status = j.status
    BY <1>1, <2>2, <2>3, <2>4
  <2>6. /\ DOMAIN rows' = DOMAIN rows
        /\ rows'[j.msg] = r
        /\ \A m \in DOMAIN rows : m # j.msg => rows'[m] = rows[m]
    BY <1>5, <2>3
  <2>7. StoreTypeOK'
    BY <1>2, <2>2, <2>5, <2>6 DEF IInv, StoreTypeOK
  <2>8. crossed \subseteq crossed'
    BY <1>5 DEF Cross
  <2>9. EventInv'
    <3>1. SUFFICES ASSUME NEW m \in DOMAIN rows', m \notin crossed' \cup unheard'
                   PROVE  EventOf(m)'
      BY DEF EventInv
    <3>2. CASE m = j.msg
      BY <1>1, <1>2, <1>5, <2>1, <2>5, <2>6, <3>1, <3>2, OnlyWriter
    <3>3. CASE m # j.msg
      <4>1. m \in DOMAIN rows /\ rows'[m] = rows[m] /\ m \notin crossed \cup unheard
        BY <1>2, <2>6, <2>8, <3>1, <3>3
      <4>2. Told(m) => Told(m)'
        BY <1>2, <4>1 DEF Told
      <4>. QED BY <1>1, <2>1, <3>3, <4>1, <4>2, OtherMessages
    <3>. QED BY <3>2, <3>3
  <2>10. \A m \in DOMAIN rows : rows'[m].client = rows[m].client
    BY <2>5, <2>6
  <2>11. StoreInv'
    <3>1. \A m \in DOMAIN jobs' :
             jobs'[m].pc \in {"rate", "set", "judge", "insert"} => jobs'[m].msg = m
      BY <2>2 DEF IInv, StoreInv
    <3>2. \A m \in DOMAIN jobs : jobs'[m].client = jobs[m].client
      BY <2>2
    <3>3. \A m \in DOMAIN rows' : rows'[m].client = jobs'[m].client
      BY <2>6, <2>10, <3>2 DEF IInv, StoreInv, StoreTypeOK
    <3>4. ASSUME max.pg
          PROVE  /\ \A m, k \in DOMAIN rows' :
                       rows'[m].client # 0 /\ rows'[m].client = rows'[k].client => m = k
                 /\ \A m \in DOMAIN jobs' : jobs'[m].pc = "publish" => jobs'[m].msg \in DOMAIN rows'
                 /\ \A i \in DOMAIN bus' : bus'[i][1] \in DOMAIN rows'
      <4>1. \A m \in DOMAIN jobs' : jobs'[m].pc = "publish" => jobs'[m].msg \in DOMAIN rows'
        BY <1>5, <2>2, <2>6, <3>4 DEF IInv, StoreInv
      <4>. QED BY <1>2, <2>6, <2>10, <3>4, <4>1 DEF IInv, StoreInv
    <3>. QED BY <1>2, <3>1, <3>3, <3>4 DEF StoreInv
  <2>. QED BY <2>2, <2>7, <2>9, <2>11
<1>6. CASE j.msg \in DOMAIN rows /\ rows' = [rows EXCEPT ![j.msg].status = j.status] /\ Cross(j.msg)
           /\ Goto(n, IF max.pg THEN "get" ELSE "publish") /\ UNCHANGED faults
  BY <1>5, <1>6
<1>7. CASE j.msg \notin DOMAIN rows /\ Goto(n, IF max.pg THEN "get" ELSE OnRefusal)
           /\ UNCHANGED <<rows, crossed, faults>>
  BY <1>2, <1>3, <1>4, <1>7 DEF OnRefusal
<1>8. CASE Goto(n, OnRefusal) /\ UNCHANGED <<rows, crossed, faults>>
  BY <1>2, <1>3, <1>8 DEF OnRefusal
<1>9. CASE Costs(1) /\ Goto(n, "failed") /\ UNCHANGED <<rows, crossed>>
  BY <1>2, <1>3, <1>9 DEF Costs
<1>. QED BY <1>1, <1>6, <1>7, <1>8, <1>9 DEF UpdateStatus

(* A writer ends without an announcement, and this is known *)
LEMMA Unannounced ==
    ASSUME IInv, NEW n \in DOMAIN jobs, NEW pc \in {"failed", "done"}, WriterStep(n, pc),
           unheard' = unheard \cup {jobs[n].msg}, UNCHANGED <<rows, bus, crossed>>
    PROVE  IInv'
<1>1. /\ StoreTypeOK' /\ EventInv' /\ StoreInv' => IInv'
      /\ DOMAIN jobs' = DOMAIN jobs
      /\ \A m \in DOMAIN jobs : m # n => jobs'[m] = jobs[m]
      /\ jobs'[n].pc = pc /\ jobs'[n].msg = jobs[n].msg
      /\ jobs'[n].client = jobs[n].client /\ jobs'[n].status = jobs[n].status
  BY WriterMoves
<1>2. StoreTypeOK'
  BY <1>1 DEF IInv, StoreTypeOK
<1>3. EventInv'
  <2>1. SUFFICES ASSUME NEW m \in DOMAIN rows', m \notin crossed' \cup unheard'
                 PROVE  EventOf(m)'
    BY DEF EventInv
  <2>2. m \in DOMAIN rows /\ m # jobs[n].msg /\ m \notin crossed \cup unheard
        /\ rows'[m].status = rows[m].status
    BY <2>1
  <2>3. Told(m) => Told(m)'
    BY DEF Told
  <2>. QED BY <2>2, <2>3, OtherMessages
<1>4. max' = max
  BY DEF WriterStep
<1>5. StoreInv'
  BY <1>1, <1>4 DEF IInv, StoreInv, StoreTypeOK
<1>. QED BY <1>1, <1>2, <1>3, <1>5

(* Store.Moderate on PostgreSQL: the statement that reads the row back *)
LEMMA GetUpdatedInv ==
    ASSUME IInv, NEW n \in DOMAIN jobs, GetUpdated(n)
    PROVE  IInv'
<1>1. /\ jobs[n].pc = "get" /\ faults \in Nat
      /\ UNCHANGED <<now, rate, lock, life, rows, bus, passed, raced, crossed, max>>
  BY DEF GetUpdated, IInv, RateTypeOK
<1>2. CASE jobs[n].msg \in DOMAIN rows /\ Goto(n, "publish") /\ UNCHANGED <<unheard, faults>>
  <2>1. WriterStep(n, "publish")
    BY <1>1, <1>2 DEF WriterStep
  <2>. QED BY <1>1, <1>2, <2>1, QuietWriter
<1>3. CASE jobs[n].msg \notin DOMAIN rows /\ Goto(n, "failed") /\ UNCHANGED <<unheard, faults>>
  <2>1. WriterStep(n, "failed")
    BY <1>1, <1>3 DEF WriterStep
  <2>. QED BY <1>1, <1>3, <2>1, QuietWriter
<1>4. CASE Costs(1) /\ Goto(n, "failed") /\ unheard' = unheard \cup {jobs[n].msg}
  <2>1. WriterStep(n, "failed")
    BY <1>1, <1>4 DEF WriterStep, Costs
  <2>. QED BY <1>1, <1>4, <2>1, Unannounced
<1>. QED BY <1>2, <1>3, <1>4 DEF GetUpdated

(* The announcement, or its loss *)
LEMMA PublishInv ==
    ASSUME IInv, NEW n \in DOMAIN jobs, Publish(n)
    PROVE  IInv'
<1>1. /\ jobs[n].pc = "publish" /\ faults \in Nat /\ Goto(n, "done")
      /\ UNCHANGED <<now, rate, lock, life, rows, passed, raced, crossed, max>>
  BY DEF Publish, IInv, RateTypeOK
<1>2. CASE Costs(1) /\ unheard' = unheard \cup {jobs[n].msg} /\ UNCHANGED bus
  <2>1. WriterStep(n, "done")
    BY <1>1, <1>2 DEF WriterStep, Costs
  <2>. QED BY <1>1, <1>2, <2>1, Unannounced
<1>3. CASE bus' = Append(bus, <<jobs[n].msg, jobs[n].status>>) /\ UNCHANGED <<unheard, faults>>
  <2>1. WriterStep(n, "done")
    BY <1>1, <1>3 DEF WriterStep
  <2>2. /\ StoreTypeOK' /\ EventInv' /\ StoreInv' => IInv'
        /\ DOMAIN jobs' = DOMAIN jobs
        /\ \A m \in DOMAIN jobs : m # n => jobs'[m] = jobs[m]
        /\ jobs'[n].pc = "done" /\ jobs'[n].msg = jobs[n].msg
        /\ jobs'[n].client = jobs[n].client /\ jobs'[n].status = jobs[n].status
        /\ jobs[n].msg \in Nat /\ jobs[n].status \in Statuses /\ jobs[n].client \in Nat
    BY <2>1, WriterMoves
  <2>3. PICK m0, s0 : m0 = jobs[n].msg /\ s0 = jobs[n].status
    OBVIOUS
  <2>4. <<m0, s0>> \in Nat \X Statuses /\ bus \in Seq(Nat \X Statuses)
    BY <2>2, <2>3 DEF IInv, StoreTypeOK
  <2>5. /\ bus' \in Seq(Nat \X Statuses)
        /\ Len(bus) \in Nat
        /\ DOMAIN bus = 1 .. Len(bus)
        /\ DOMAIN bus' = 1 .. Len(bus) + 1
        /\ bus'[Len(bus) + 1] = <<m0, s0>>
        /\ \A i \in DOMAIN bus : bus'[i] = bus[i]
    BY <1>3, <2>3, <2>4
  <2>6. StoreTypeOK'
    BY <1>1, <2>2, <2>5 DEF IInv, StoreTypeOK
  <2>7. ASSUME NEW m \in DOMAIN rows, m # m0, Told(m)
        PROVE  Told(m)'
    <3>1. PICK i \in DOMAIN bus :
              /\ bus[i] = <<m, rows[m].status>>
              /\ \A k \in DOMAIN bus : k > i => bus[k][1] # m
      BY <2>7 DEF Told
    <3>2. i \in DOMAIN bus' /\ bus'[i] = <<m, rows[m].status>>
      BY <2>5, <3>1
    <3>3. \A k \in DOMAIN bus' : k \in DOMAIN bus \/ k = Len(bus) + 1
      BY <2>5
    <3>4. bus'[Len(bus) + 1][1] # m
      BY <2>5, <2>7
    <3>5. \A k \in DOMAIN bus' : k > i => bus'[k][1] # m
      BY <2>5, <3>1, <3>3, <3>4
    <3>. QED BY <1>1, <3>2, <3>5 DEF Told
  <2>8. ASSUME m0 \in DOMAIN rows, m0 \notin crossed \cup unheard
        PROVE  EventOf(m0)'
    <3>1. Wrote(n, m0) /\ EventOf(m0)
      BY <1>1, <2>3, <2>8 DEF Wrote, IInv, EventInv
    <3>2. s0 = rows[m0].status /\ \A k \in DOMAIN jobs : Wrote(k, m0) => k = n
      BY <2>3, <3>1 DEF EventOf
    <3>3. \A k \in DOMAIN jobs' : ~Wrote(k, m0)'
      BY <2>2, <3>2 DEF Wrote
    <3>4. \A k \in DOMAIN bus' : ~(k > Len(bus) + 1)
      BY <2>5
    <3>5. Len(bus) + 1 \in DOMAIN bus'
      BY <2>5
    <3>6. Told(m0)'
      BY <1>1, <2>5, <3>2, <3>4, <3>5 DEF Told
    <3>. QED BY <3>3, <3>6 DEF EventOf
  <2>9. EventInv'
    <3>1. SUFFICES ASSUME NEW m \in DOMAIN rows', m \notin crossed' \cup unheard'
                   PROVE  EventOf(m)'
      BY DEF EventInv
    <3>2. m \in DOMAIN rows /\ m \notin crossed \cup unheard /\ rows'[m].status = rows[m].status
      BY <1>1, <1>3, <3>1
    <3>3. CASE m # m0
      BY <2>1, <2>3, <2>7, <3>2, <3>3, OtherMessages
    <3>. QED BY <2>8, <3>2, <3>3
  <2>10. max.pg => m0 \in DOMAIN rows
    BY <1>1, <2>3 DEF IInv, StoreInv
  <2>11. max.pg => \A i \in DOMAIN bus' : bus'[i][1] \in DOMAIN rows'
    <3>1. \A i \in DOMAIN bus' : i \in DOMAIN bus \/ i = Len(bus) + 1
      BY <2>5
    <3>2. <<m0, s0>>[1] = m0
      OBVIOUS
    <3>. QED BY <1>1, <2>5, <2>10, <3>1, <3>2 DEF IInv, StoreInv
  <2>12. StoreInv'
    <3>1. \A m \in DOMAIN jobs' :
             jobs'[m].pc \in {"rate", "set", "judge", "insert"} => jobs'[m].msg = m
      BY <2>2 DEF IInv, StoreInv
    <3>2. \A m \in DOMAIN jobs : jobs'[m].client = jobs[m].client
      BY <2>2
    <3>3. \A m \in DOMAIN rows' : rows'[m].client = jobs'[m].client
      BY <1>1, <3>2 DEF IInv, StoreInv, StoreTypeOK
    <3>4. max.pg => \A m \in DOMAIN jobs' : jobs'[m].pc = "publish" => jobs'[m].msg \in DOMAIN rows'
      BY <1>1, <2>2 DEF IInv, StoreInv
    <3>5. max.pg => \A m, k \in DOMAIN rows' :
                       rows'[m].client # 0 /\ rows'[m].client = rows'[k].client => m = k
      BY <1>1 DEF IInv, StoreInv
    <3>6. max' = max
      BY <1>1
    <3>. QED BY <2>11, <3>1, <3>3, <3>4, <3>5, <3>6 DEF StoreInv
  <2>. QED BY <2>2, <2>6, <2>9, <2>12
<1>. QED BY <1>2, <1>3 DEF Publish

----------------------------------------------------------------------------
(***************************************************************************)
(* A crash, and the invariance of IInv.                                    *)
(***************************************************************************)

(* The requests of the instance end; the others go on *)
LEMMA CrashEnds ==
    ASSUME IInv, NEW i \in Instances, Crash(i)
    PROVE  /\ JobTypeOK'
           /\ DOMAIN jobs' = DOMAIN jobs
           /\ \A n \in DOMAIN jobs :
                 \/ jobs'[n] = jobs[n]
                 \/ jobs[n].inst = i /\ jobs'[n].pc = "failed"
           /\ \A n \in DOMAIN jobs :
                 /\ jobs'[n].msg = jobs[n].msg
                 /\ jobs'[n].client = jobs[n].client
                 /\ jobs'[n].status = jobs[n].status
                 /\ jobs'[n].pc # "failed" => jobs'[n] = jobs[n]
                 /\ jobs'[n] # jobs[n] /\ jobs[n].pc \in {"get", "publish"} => jobs[n].msg \in unheard'
           /\ \A n \in DOMAIN jobs :
                 jobs[n].inst = i => jobs'[n].pc \in {"failed", "done"}
<1>1. PICK mine : mine = {n \in DOMAIN jobs : jobs[n].inst = i /\ jobs[n].pc \notin {"failed", "done"}}
  OBVIOUS
<1>2. /\ jobs' = [n \in DOMAIN jobs |-> IF n \in mine THEN [jobs[n] EXCEPT !.pc = "failed"] ELSE jobs[n]]
      /\ unheard' = unheard \cup {jobs[n].msg : n \in {x \in mine : jobs[x].pc \in {"get", "publish"}}}
      /\ max' = max
  BY <1>1 DEF Crash
<1>3. \A n \in DOMAIN jobs : jobs[n] \in JobRec
  BY DEF IInv, JobTypeOK
<1>4. ASSUME NEW n \in DOMAIN jobs
      PROVE  /\ jobs'[n] \in JobRec
             /\ jobs'[n].msg = jobs[n].msg
             /\ jobs'[n].client = jobs[n].client
             /\ jobs'[n].status = jobs[n].status
             /\ n \in mine => jobs'[n].pc = "failed"
             /\ n \notin mine => jobs'[n] = jobs[n]
  <2>1. CASE n \notin mine
    BY <1>2, <1>3, <2>1
  <2>2. CASE n \in mine
    <3>1. PICK x : x = [jobs[n] EXCEPT !.pc = "failed"]
      OBVIOUS
    <3>2. jobs'[n] = x
      BY <1>2, <2>2, <3>1
    <3>3. /\ x \in JobRec /\ x.pc = "failed" /\ x.msg = jobs[n].msg
          /\ x.client = jobs[n].client /\ x.status = jobs[n].status
      BY <1>3, <3>1 DEF JobRec, Pcs
    <3>. QED BY <2>2, <3>2, <3>3
  <2>. QED BY <2>1, <2>2
<1>5. DOMAIN jobs' = DOMAIN jobs
  BY <1>2
<1>6. JobRec' = JobRec
  BY <1>2 DEF JobRec, Texts, Instances
<1>7. JobTypeOK'
  BY <1>2, <1>4, <1>5, <1>6 DEF IInv, JobTypeOK, Numbered
<1>8. \A n \in DOMAIN jobs :
         n \in mine /\ jobs[n].pc \in {"get", "publish"} => jobs[n].msg \in unheard'
  BY <1>2
<1>9. \A n \in DOMAIN jobs : n \in mine <=> jobs[n].inst = i /\ jobs[n].pc \notin {"failed", "done"}
  BY <1>1
<1>10. \A n \in DOMAIN jobs :
          \/ jobs'[n] = jobs[n]
          \/ jobs[n].inst = i /\ jobs'[n].pc = "failed"
  BY <1>4, <1>9
<1>11. \A n \in DOMAIN jobs : jobs[n].inst = i => jobs'[n].pc \in {"failed", "done"}
  BY <1>4, <1>9
<1>12. \A n \in DOMAIN jobs :
          /\ jobs'[n].pc # "failed" => jobs'[n] = jobs[n]
          /\ jobs'[n] # jobs[n] /\ jobs[n].pc \in {"get", "publish"} => jobs[n].msg \in unheard'
  BY <1>4, <1>8
<1>. QED BY <1>4, <1>5, <1>7, <1>10, <1>11, <1>12

(* The rate: in Redis nothing is lost; in memory the counter of the instance is
   gone, and no message was counted in the one that takes its place *)
LEMMA CrashRate ==
    ASSUME IInv, NEW i \in Instances, Crash(i)
    PROVE  RateTypeOK' /\ LockInv' /\ NoRaceInMemory' /\ KeyInv' /\ RateInv' /\ CountsHold'
<1>1. /\ DOMAIN jobs' = DOMAIN jobs
      /\ \A n \in DOMAIN jobs : jobs'[n].pc # "failed" => jobs'[n] = jobs[n]
      /\ \A n \in DOMAIN jobs : jobs[n].inst = i => jobs'[n].pc \in {"failed", "done"}
  BY CrashEnds
<1>2. /\ UNCHANGED <<now, passed, raced, max>> /\ faults' \in Nat
      /\ lock' = [lock EXCEPT ![i] = 0]
      /\ life' = [life EXCEPT ![i] = life[i] + 1]
      /\ life \in [Instances -> Nat] /\ Instances' = Instances
  BY DEF Crash, Costs, IInv, RateTypeOK, Instances
<1>3. \A n \in DOMAIN jobs' :
         jobs'[n].pc = "set" => n \in DOMAIN jobs /\ jobs'[n] = jobs[n] /\ jobs[n].inst # i
  BY <1>1
<1>4. LockInv'
  <2>1. \A n \in DOMAIN jobs : jobs[n].inst \in Instances
    BY DEF IInv, JobTypeOK, JobRec
  <2>. QED BY <1>2, <1>3, <2>1 DEF IInv, LockInv, RateTypeOK
<1>5. /\ life' \in [Instances -> Nat]
      /\ life'[i] = life[i] + 1 /\ life[i] \in Nat
      /\ \A x \in Instances : x # i => life'[x] = life[x]
  BY <1>2
<1>6. IF max.redis THEN rate' = rate
      ELSE rate' = [k \in DOMAIN rate \ {RateKey(i)} |-> rate[k]]
  BY DEF Crash
<1>7. \A k \in DOMAIN rate' : k \in DOMAIN rate /\ rate'[k] = rate[k]
  BY <1>6
<1>8. RateTypeOK'
  <2>1. lock' \in [Instances -> Nat]
    BY <1>2 DEF IInv, RateTypeOK
  <2>2. \A k \in DOMAIN rate' : rate'[k] \in [count : Nat, expires : Nat]
    BY <1>7 DEF IInv, RateTypeOK
  <2>. QED BY <1>2, <1>5, <2>1, <2>2 DEF IInv, RateTypeOK
<1>9. NoRaceInMemory' /\ CountsHold'
  BY <1>2 DEF IInv, NoRaceInMemory, CountsHold
<1>10. KeyInv'
  <2>1. SUFFICES ASSUME NEW p \in passed
                 PROVE  IF max.redis THEN p.key = <<0, 0>>
                        ELSE p.key[1] \in Instances /\ p.key[2] <= life'[p.key[1]]
    BY <1>2 DEF KeyInv
  <2>2. IF max.redis THEN p.key = <<0, 0>>
        ELSE p.key[1] \in Instances /\ p.key[2] <= life[p.key[1]]
    BY DEF IInv, KeyInv
  <2>3. p.key[2] \in Nat
    BY DEF IInv, RateTypeOK, PassRec
  <2>. QED BY <1>5, <2>2, <2>3
<1>11. \A x \in Instances : max.redis \/ x # i => RateKey(x)' = RateKey(x)
  BY <1>2, <1>5 DEF RateKey
<1>12. ASSUME NEW p \in passed, Live(p.key)'
       PROVE  Live(p.key) /\ (~max.redis => p.key # RateKey(i))
  <2>1. PICK x \in Instances : RateKey(x)' = p.key
    BY <1>2, <1>12 DEF Live
  <2>2. CASE max.redis
    BY <1>11, <2>1, <2>2 DEF Live
  <2>3. CASE ~max.redis
    <3>1. p.key[1] \in Instances /\ p.key[2] <= life[p.key[1]] /\ p.key[2] \in Nat
      BY <2>3 DEF IInv, KeyInv, RateTypeOK, PassRec
    <3>2. p.key = <<x, life'[x]>>
      BY <1>2, <2>1, <2>3 DEF RateKey
    <3>3. p.key[1] = x /\ p.key[2] = life'[x]
      BY <3>2
    <3>4. x # i
      BY <1>5, <3>1, <3>3
    <3>5. RateKey(x) = p.key
      BY <1>11, <2>1, <3>4
    <3>6. RateKey(i)[1] = i
      BY <2>3, RateKeyType
    <3>. QED BY <3>3, <3>4, <3>5, <3>6 DEF Live
  <2>. QED BY <2>2, <2>3
<1>13. ~raced => \A p \in passed : Live(p.key)' =>
          /\ p.key \in DOMAIN rate'
          /\ rate'[p.key].expires >= p.at + RateWin
          /\ Open(p) => Cardinality(Counted(passed, p)) <= rate'[p.key].count
  <2>1. SUFFICES ASSUME ~raced, NEW p \in passed, Live(p.key)'
                 PROVE  /\ p.key \in DOMAIN rate'
                        /\ rate'[p.key].expires >= p.at + RateWin
                        /\ Open(p) => Cardinality(Counted(passed, p)) <= rate'[p.key].count
    OBVIOUS
  <2>2. Live(p.key) /\ (~max.redis => p.key # RateKey(i))
    BY <1>12, <2>1
  <2>3. /\ p.key \in DOMAIN rate
        /\ rate[p.key].expires >= p.at + RateWin
        /\ Open(p) => Cardinality(Counted(passed, p)) <= rate[p.key].count
    BY <2>1, <2>2 DEF IInv, RateInv
  <2>4. p.key \in DOMAIN rate'
    BY <1>6, <2>2, <2>3
  <2>. QED BY <1>7, <2>3, <2>4
<1>14. \A n \in DOMAIN jobs' : jobs'[n].pc = "set" => RateKey(jobs[n].inst)' = RateKey(jobs[n].inst)
  <2>1. \A n \in DOMAIN jobs : jobs[n].inst \in Instances
    BY DEF IInv, JobTypeOK, JobRec
  <2>. QED BY <1>2, <1>3, <1>5, <2>1 DEF RateKey
<1>15. \A p : Open(p)' <=> Open(p)
  BY <1>2 DEF Open
<1>16. /\ \A p \in passed' : p.at <= now'
       /\ \A n \in DOMAIN jobs' : jobs'[n].pc = "set" => jobs'[n].count \in 1 .. RateMax
  BY <1>2, <1>3 DEF IInv, RateInv
<1>17. ~raced => \A n \in DOMAIN jobs' : jobs'[n].pc = "set" =>
          /\ \A p \in passed :
                p.key = RateKey(jobs[n].inst) /\ Open(p) =>
                    Cardinality(Counted(passed, p)) < jobs'[n].count
          /\ \A m \in DOMAIN jobs' :
                /\ jobs'[m].pc = "set"
                /\ RateKey(jobs[m].inst) = RateKey(jobs[n].inst)
                => m = n
  BY <1>3 DEF IInv, RateInv
<1>18. RateInv'
  BY <1>2, <1>13, <1>14, <1>15, <1>16, <1>17 DEF RateInv
<1>. QED BY <1>4, <1>8, <1>9, <1>10, <1>18

(* The messages: what a request of the instance wrote and did not announce is
   known to be unannounced *)
LEMMA CrashStore ==
    ASSUME IInv, NEW i \in Instances, Crash(i)
    PROVE  StoreTypeOK' /\ EventInv' /\ StoreInv'
<1>1. /\ DOMAIN jobs' = DOMAIN jobs
      /\ \A n \in DOMAIN jobs :
            /\ jobs'[n].msg = jobs[n].msg
            /\ jobs'[n].client = jobs[n].client
            /\ jobs'[n].status = jobs[n].status
            /\ jobs'[n].pc # "failed" => jobs'[n] = jobs[n]
            /\ jobs'[n] # jobs[n] /\ jobs[n].pc \in {"get", "publish"} => jobs[n].msg \in unheard'
  BY CrashEnds
<1>2. /\ UNCHANGED <<bus, crossed, max>> /\ unheard \subseteq unheard'
      /\ rows' = IF max.pg THEN rows ELSE None
  BY DEF Crash
<1>3. DOMAIN None = {}
  BY DEF None
<1>4. \A m \in DOMAIN rows' : max.pg /\ m \in DOMAIN rows /\ rows'[m] = rows[m]
  BY <1>2, <1>3
<1>5. StoreTypeOK'
  BY <1>1, <1>2, <1>4 DEF IInv, StoreTypeOK
<1>6. EventInv'
  <2>1. SUFFICES ASSUME NEW m \in DOMAIN rows', m \notin crossed' \cup unheard'
                 PROVE  EventOf(m)'
    BY DEF EventInv
  <2>2. m \in DOMAIN rows /\ rows'[m] = rows[m] /\ EventOf(m)
    BY <1>2, <1>4, <2>1 DEF IInv, EventInv
  <2>3. \A n \in DOMAIN jobs : Wrote(n, m)' <=> Wrote(n, m)
    BY <1>1, <2>1 DEF Wrote
  <2>4. Told(m) => Told(m)'
    BY <1>2, <2>2 DEF Told
  <2>. QED BY <1>1, <2>2, <2>3, <2>4 DEF EventOf
<1>7. \A n \in DOMAIN jobs' :
         jobs'[n].pc \in {"rate", "set", "judge", "insert"} => jobs'[n].msg = n
  BY <1>1 DEF IInv, StoreInv
<1>8. \A m \in DOMAIN rows' : rows'[m].client = jobs'[m].client
  BY <1>1, <1>4 DEF IInv, StoreInv, StoreTypeOK
<1>9. ASSUME max.pg
      PROVE  /\ \A m, n \in DOMAIN rows' :
                   rows'[m].client # 0 /\ rows'[m].client = rows'[n].client => m = n
             /\ \A n \in DOMAIN jobs' : jobs'[n].pc = "publish" => jobs'[n].msg \in DOMAIN rows'
             /\ \A k \in DOMAIN bus' : bus'[k][1] \in DOMAIN rows'
  <2>1. rows' = rows /\ bus' = bus
    BY <1>2, <1>9
  <2>2. \A n \in DOMAIN jobs' : jobs'[n].pc = "publish" => jobs'[n].msg \in DOMAIN rows'
    BY <1>1, <1>9, <2>1 DEF IInv, StoreInv
  <2>. QED BY <1>9, <2>1, <2>2 DEF IInv, StoreInv
<1>10. StoreInv'
  BY <1>2, <1>7, <1>8, <1>9 DEF StoreInv
<1>. QED BY <1>5, <1>6, <1>10

LEMMA CrashInv ==
    ASSUME IInv, NEW i \in Instances, Crash(i)
    PROVE  IInv'
BY CrashEnds, CrashRate, CrashStore DEF IInv

LEMMA InitInv == Init => IInv
<1>. SUFFICES ASSUME Init PROVE IInv
  OBVIOUS
<1>1. DOMAIN None = {} /\ 1 .. 0 = {}
  BY DEF None
<1>2. /\ max \in Bounds /\ now = 0 /\ faults = 0 /\ rate = None
      /\ lock = [k \in Instances |-> 0] /\ life = [k \in Instances |-> 0] /\ jobs = None /\ rows = None /\ bus = << >>
      /\ passed = {} /\ raced = FALSE
  BY DEF Init
<1>3. JobTypeOK
  BY <1>1, <1>2 DEF JobTypeOK, Numbered
<1>4. IsFiniteSet(passed)
  BY <1>2, FS_EmptySet
<1>5. RateTypeOK
  BY <1>1, <1>2, <1>4 DEF RateTypeOK
<1>6. bus \in Seq(Nat \X Statuses) /\ DOMAIN bus = {}
  BY <1>2
<1>7. StoreTypeOK
  BY <1>1, <1>2, <1>6 DEF StoreTypeOK
<1>8. LockInv /\ NoRaceInMemory /\ KeyInv /\ RateInv /\ CountsHold
  BY <1>1, <1>2 DEF LockInv, NoRaceInMemory, KeyInv, RateInv, CountsHold
<1>9. EventInv /\ StoreInv
  BY <1>1, <1>2, <1>6 DEF EventInv, StoreInv
<1>. QED BY <1>3, <1>5, <1>7, <1>8, <1>9 DEF IInv

(* A stuttering step *)
LEMMA StutterInv ==
    ASSUME IInv, UNCHANGED vars
    PROVE  IInv'
<1>1. UNCHANGED <<now, rate, lock, life, jobs, rows, bus, passed, raced, crossed, unheard, faults, max>>
  BY DEF vars
<1>2. JobTypeOK'
  BY <1>1 DEF IInv, JobTypeOK, JobRec, Texts, Instances
<1>3. \A n \in DOMAIN jobs' : jobs'[n].pc = "set" => n \in DOMAIN jobs /\ jobs'[n] = jobs[n]
  BY <1>1
<1>4. RateTypeOK' /\ LockInv' /\ NoRaceInMemory' /\ KeyInv' /\ RateInv' /\ CountsHold'
  BY <1>1, <1>3, RateFrame DEF IInv, RateTypeOK
<1>5. \A n \in DOMAIN jobs :
         jobs[n].pc \in {"rate", "set", "judge", "insert"} => jobs[n].msg = n
  BY DEF IInv, StoreInv
<1>6. StoreTypeOK' /\ EventInv' /\ StoreInv'
  BY <1>1, <1>5, StoreFrame
<1>. QED BY <1>2, <1>4, <1>6 DEF IInv

LEMMA NextInv ==
    ASSUME IInv, [Next]_vars
    PROVE  IInv'
<1>1. CASE Tick
  BY <1>1, TickInv
<1>2. ASSUME NEW i \in Instances, NEW c \in 0 .. max.clients, NEW t \in max.texts, Send(i, c, t)
      PROVE  IInv'
  BY <1>2, SendInv
<1>3. ASSUME NEW i \in Instances, NEW m \in DOMAIN rows \cup {0}, NEW s \in ModerationStatus,
             Moderate(i, m, s)
      PROVE  IInv'
  BY <1>3, ModerateInv
<1>4. ASSUME NEW n \in DOMAIN jobs, Step(n)
      PROVE  IInv'
  <2>1. CASE RateGet(n)
    BY <2>1, RateGetInv
  <2>2. CASE RateSet(n)
    BY <2>2, RateSetInv
  <2>3. CASE Inspect(n) \/ GreenFails(n)
    BY <2>3, InspectInv
  <2>4. CASE Insert(n)
    BY <2>4, InsertInv
  <2>5. CASE UpdateStatus(n)
    BY <2>5, UpdateStatusInv
  <2>6. CASE GetUpdated(n)
    BY <2>6, GetUpdatedInv
  <2>7. CASE Publish(n)
    BY <2>7, PublishInv
  <2>. QED BY <1>4, <2>1, <2>2, <2>3, <2>4, <2>5, <2>6, <2>7 DEF Step
<1>5. ASSUME NEW i \in Instances, Crash(i)
      PROVE  IInv'
  BY <1>5, CrashInv
<1>6. CASE UNCHANGED vars
  BY <1>6, StutterInv
<1>. QED BY <1>1, <1>2, <1>3, <1>4, <1>5, <1>6 DEF Next

----------------------------------------------------------------------------
(***************************************************************************)
(* What the service promises.                                              *)
(***************************************************************************)

(* IInv holds in every reachable state of Send, Moderate and their failures. *)
THEOREM ChatInvariance == Spec => []IInv
BY InitInv, NextInv, PTL DEF Spec

(* Every request, rate key, stored message and event has its type. *)
THEOREM ChatTypeCorrect == Spec => [](JobTypeOK /\ RateTypeOK /\ StoreTypeOK)
<1>1. IInv => JobTypeOK /\ RateTypeOK /\ StoreTypeOK
  BY DEF IInv
<1>. QED BY <1>1, ChatInvariance, PTL

(* The earliest of some messages *)
LEMMA Earliest ==
    ASSUME NEW T, T # {}, \A q \in T : q.at \in Nat
    PROVE  \E p \in T : \A q \in T : p.at <= q.at
<1>1. PICK A : A = {q.at : q \in T}
  OBVIOUS
<1>2. A \subseteq Nat /\ A # {}
  BY <1>1
<1>3. PICK R : R = OpToRel(<, Nat)
  OBVIOUS
<1>4. R = {ss \in Nat \X Nat : ss[1] < ss[2]}
  BY <1>3, Zenon DEF OpToRel
<1>5. IsWellFoundedOn(R, Nat)
  BY <1>3, NatLessThanWellFounded, Zenon
<1>6. PICK x \in A : \A y \in A : ~(<<y, x>> \in R)
  BY <1>2, <1>5, WFMin
<1>8. ASSUME NEW y \in A PROVE x <= y
  <2>1. x \in Nat /\ y \in Nat
    BY <1>2
  <2>2. PICK z : z = <<y, x>>
    OBVIOUS
  <2>3. z \in Nat \X Nat /\ z[1] = y /\ z[2] = x
    BY <2>1, <2>2
  <2>4. ~(z[1] < z[2])
    BY <1>4, <1>6, <2>2, <2>3
  <2>. QED BY <2>1, <2>3, <2>4
<1>7. PICK p \in T : p.at = x
  BY <1>1
<1>. QED BY <1>1, <1>7, <1>8

(* One counter within a window that a message of any counter begins *)
LEMMA CounterBound ==
    ASSUME IInv, ~raced, NEW p \in passed, NEW k,
           NEW V, V = {q \in Window(passed, p) : q.key = k}
    PROVE  IsFiniteSet(V) /\ Cardinality(V) \in Nat /\ Cardinality(V) <= RateMax
<1>1. V \subseteq passed /\ IsFiniteSet(passed) /\ RateMax \in Nat /\ RateWin \in Nat
  BY ChatAssumption DEF Window, IInv, RateTypeOK
<1>2. IsFiniteSet(V) /\ Cardinality(V) \in Nat
  BY <1>1, FS_Subset, FS_CardinalityType
<1>3. CASE V = {}
  BY <1>1, <1>2, <1>3, FS_EmptySet
<1>4. CASE V # {}
  <2>1. \A q \in passed : q.at \in Nat
    BY DEF IInv, RateTypeOK, PassRec
  <2>2. PICK r \in V : \A q \in V : r.at <= q.at
    BY <1>1, <1>4, <2>1, Earliest
  <2>3. \A q \in V : q \in passed /\ q.key = k /\ p.at <= q.at /\ q.at < p.at + RateWin
    BY DEF Window
  <2>4. V \subseteq Counted(passed, r)
    BY <1>1, <2>1, <2>2, <2>3 DEF Counted
  <2>5. IsFiniteSet(Counted(passed, r)) /\ Cardinality(Counted(passed, r)) \in Nat
    BY <1>1, WindowFinite
  <2>6. Cardinality(V) <= Cardinality(Counted(passed, r))
    BY <2>4, <2>5, FS_Subset
  <2>7. Cardinality(Counted(passed, r)) <= RateMax
    BY <1>1, <2>2 DEF IInv, CountsHold
  <2>. QED BY <1>1, <1>2, <2>5, <2>6, <2>7
<1>. QED BY <1>3, <1>4

LEMMA CountersFinite ==
    ASSUME NEW W, IsFiniteSet(W)
    PROVE  IsFiniteSet(Counters(W)) /\ Cardinality(Counters(W)) \in Nat
<1>1. PICK f : f = [q \in W |-> q.key]
  OBVIOUS
<1>2. f \in Surjection(W, Counters(W))
  BY <1>1 DEF Surjection, Counters
<1>. QED BY <1>2, FS_Surjection, FS_CardinalityType

(* Messages of at most c for each of their counters *)
LEMMA SumOverCounters ==
    ASSUME NEW W, IsFiniteSet(W), NEW c \in Nat,
           \A k \in Counters(W) :
               /\ IsFiniteSet({q \in W : q.key = k})
               /\ Cardinality({q \in W : q.key = k}) \in Nat
               /\ Cardinality({q \in W : q.key = k}) <= c
    PROVE  Cardinality(W) <= c * Cardinality(Counters(W))
<1>1. PICK K, P : K = Counters(W) /\ P = [k \in K |-> {q \in W : q.key = k}]
  OBVIOUS
<1>2. \A k \in K : \E g \in Injection(P[k], 1 .. c) : TRUE
  <2>1. SUFFICES ASSUME NEW k \in K PROVE \E g \in Injection(P[k], 1 .. c) : TRUE
    OBVIOUS
  <2>2. PICK d : d = Cardinality(P[k])
    OBVIOUS
  <2>3. IsFiniteSet(P[k]) /\ d \in Nat /\ d <= c
    BY <1>1, <2>2
  <2>4. IsFiniteSet(1 .. d) /\ Cardinality(1 .. d) = d
    BY <2>3, FS_Interval
  <2>5. ExistsBijection(P[k], 1 .. d)
    BY <2>2, <2>3, <2>4, FS_SameCardinalityBij
  <2>6. PICK g : g \in Bijection(P[k], 1 .. d)
    BY <2>5 DEF ExistsBijection
  <2>7. 1 .. d \subseteq 1 .. c
    BY <2>3
  <2>8. g \in [P[k] -> 1 .. d] /\ \A a, b \in P[k] : g[a] = g[b] => a = b
    BY <2>6 DEF Bijection, Injection, IsInjective
  <2>9. g \in [P[k] -> 1 .. c]
    BY <2>7, <2>8
  <2>10. g \in Injection(P[k], 1 .. c)
    BY <2>8, <2>9 DEF Injection, IsInjective
  <2>. QED BY <2>10
<1>3. PICK h : h = [k \in K |-> CHOOSE g : g \in Injection(P[k], 1 .. c)]
  OBVIOUS
<1>4. \A k \in K : h[k] \in Injection(P[k], 1 .. c)
  BY <1>2, <1>3
<1>5. PICK f : f = [q \in W |-> <<q.key, h[q.key][q]>>]
  OBVIOUS
<1>6. ASSUME NEW q \in W
      PROVE  q.key \in K /\ q \in P[q.key] /\ h[q.key][q] \in 1 .. c
  <2>1. q.key \in K
    BY <1>1 DEF Counters
  <2>2. q \in P[q.key]
    BY <1>1, <2>1
  <2>3. h[q.key] \in [P[q.key] -> 1 .. c]
    BY <1>4, <2>1 DEF Injection
  <2>. QED BY <2>1, <2>2, <2>3
<1>7. f \in [W -> K \X (1 .. c)]
  BY <1>5, <1>6
<1>8. ASSUME NEW a \in W, NEW b \in W, f[a] = f[b]
      PROVE  a = b
  <2>1. a.key = b.key /\ h[a.key][a] = h[b.key][b]
    BY <1>5, <1>8
  <2>2. \A x, y \in P[a.key] : h[a.key][x] = h[a.key][y] => x = y
    BY <1>4, <1>6 DEF Injection, IsInjective
  <2>. QED BY <1>6, <2>1, <2>2
<1>9. f \in Injection(W, K \X (1 .. c))
  BY <1>7, <1>8 DEF Injection, IsInjective
<1>10. IsFiniteSet(K) /\ Cardinality(K) \in Nat
  BY <1>1, CountersFinite
<1>11. IsFiniteSet(1 .. c) /\ Cardinality(1 .. c) = c
  BY FS_Interval
<1>12. IsFiniteSet(K \X (1 .. c)) /\ Cardinality(K \X (1 .. c)) = Cardinality(K) * c
  BY <1>10, <1>11, FS_Product
<1>13. Cardinality(W) <= Cardinality(K \X (1 .. c))
  BY <1>9, <1>12, FS_Injection
<1>14. Cardinality(K) * c = c * Cardinality(K)
  BY <1>10
<1>. QED BY <1>1, <1>12, <1>13, <1>14

(* service.go:234, as far as the code keeps it: a window of RateWin, at any alignment,
   lets no more than RateMax messages of the sender through for each counter (the key
   in Redis, or the memory of one life of one instance), unless two instances
   overlapped on the Redis key. *)
THEOREM RateIsKept == Spec => []RateHolds
<1>1. IInv => RateHolds
  <2>1. SUFFICES ASSUME IInv, ~raced, NEW p \in passed
                 PROVE  Cardinality(Window(passed, p)) <=
                            RateMax * Cardinality(Counters(Window(passed, p)))
    BY DEF RateHolds
  <2>2. PICK W : W = Window(passed, p)
    OBVIOUS
  <2>3. W \subseteq passed /\ IsFiniteSet(passed) /\ RateMax \in Nat
    BY <2>1, <2>2, ChatAssumption DEF Window, IInv, RateTypeOK
  <2>4. IsFiniteSet(W)
    BY <2>3, FS_Subset
  <2>5. ASSUME NEW k \in Counters(W)
        PROVE  /\ IsFiniteSet({q \in W : q.key = k})
               /\ Cardinality({q \in W : q.key = k}) \in Nat
               /\ Cardinality({q \in W : q.key = k}) <= RateMax
    BY <2>1, <2>2, CounterBound
  <2>6. Cardinality(W) <= RateMax * Cardinality(Counters(W))
    BY <2>3, <2>4, <2>5, SumOverCounters
  <2>. QED BY <2>2, <2>6
<1>. QED BY <1>1, ChatInvariance, PTL

(* With the counter in the process the mutex that allowed holds from Get to Set
   (service.go:240-257) leaves no exception for overlaps: a sender's window that one
   life of one instance served holds at most RateMax messages, so the limit is exact
   for an instance that runs alone and has not been started again. *)
THEOREM RateIsExactInOneLife ==
    Spec => [](~max.redis => \A p \in passed :
                   \/ \A q \in Window(passed, p) : q.key = p.key
                   \/ max.instances = 1 /\ life[1] = 0
                   => Cardinality(Window(passed, p)) <= RateMax)
<1>1. ASSUME IInv, ~max.redis, NEW p \in passed,
             \A q \in Window(passed, p) : q.key = p.key
      PROVE  Cardinality(Window(passed, p)) <= RateMax
  <2>1. ~raced
    BY <1>1 DEF IInv, NoRaceInMemory
  <2>2. Window(passed, p) = {q \in Window(passed, p) : q.key = p.key}
    BY <1>1
  <2>. QED BY <1>1, <2>1, <2>2, CounterBound
<1>2. ASSUME IInv, ~max.redis, NEW p \in passed, max.instances = 1, life[1] = 0
      PROVE  \A q \in Window(passed, p) : q.key = p.key
  <2>1. ASSUME NEW q \in passed PROVE q.key = <<1, 0>>
    <3>1. q.key \in Nat \X Nat
      BY <1>2 DEF IInv, RateTypeOK, PassRec
    <3>2. q.key[1] \in Instances /\ q.key[2] <= life[q.key[1]]
      BY <1>2 DEF IInv, KeyInv
    <3>3. q.key[1] = 1
      BY <1>2, <3>2 DEF Instances
    <3>4. q.key[2] = 0
      BY <1>2, <3>1, <3>2, <3>3
    <3>. QED BY <3>1, <3>3, <3>4
  <2>. QED BY <2>1 DEF Window
<1>3. IInv => (~max.redis => \A p \in passed :
                   \/ \A q \in Window(passed, p) : q.key = p.key
                   \/ max.instances = 1 /\ life[1] = 0
                   => Cardinality(Window(passed, p)) <= RateMax)
  BY <1>1, <1>2
<1>. QED BY <1>3, ChatInvariance, PTL

(* The last event about a message tells its stored status once its writers have
   finished, unless two of them overlapped or an announcement was lost; a refused
   moderation is never announced (service.go:160-210). *)
THEOREM EventsTellModeration == Spec => []LastEventTellsModeration
<1>1. IInv => LastEventTellsModeration
  <2>1. SUFFICES ASSUME IInv, NEW m \in DOMAIN rows,
                        Announcing(m) = {}, m \notin crossed \cup unheard
                 PROVE  Told(m)
    BY DEF LastEventTellsModeration, Told
  <2>2. \A n \in DOMAIN jobs : ~Wrote(n, m)
    BY <2>1 DEF Announcing, Wrote
  <2>. QED BY <2>1, <2>2 DEF IInv, EventInv, EventOf
<1>. QED BY <1>1, ChatInvariance, PTL

(* On PostgreSQL a client_msg_id is stored, and shown to the room, for one Send
   only, however its retries overlap (store.go:86-103). *)
THEOREM RetryShownOnce == Spec => []RetryIsShownOnce
<1>1. IInv => RetryIsShownOnce
  <2>1. SUFFICES ASSUME IInv, max.pg, NEW i \in DOMAIN bus, NEW k \in DOMAIN bus,
                        jobs[bus[i][1]].client # 0,
                        jobs[bus[i][1]].client = jobs[bus[k][1]].client
                 PROVE  bus[i][1] = bus[k][1]
    BY DEF RetryIsShownOnce
  <2>2. bus[i][1] \in DOMAIN rows /\ bus[k][1] \in DOMAIN rows
    BY <2>1 DEF IInv, StoreInv
  <2>3. /\ rows[bus[i][1]].client = jobs[bus[i][1]].client
        /\ rows[bus[k][1]].client = jobs[bus[k][1]].client
    BY <2>1, <2>2 DEF IInv, StoreInv
  <2>. QED BY <2>1, <2>2, <2>3 DEF IInv, StoreInv
<1>. QED BY <1>1, ChatInvariance, PTL
=============================================================================

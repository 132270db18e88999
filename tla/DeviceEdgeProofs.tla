-------------------------- MODULE DeviceEdgeProofs --------------------------
(***************************************************************************)
(* What DeviceEdge guarantees for every set of deliveries, every capacity    *)
(* and every queue size.  The inductive invariant says which worker a        *)
(* handler, a queued and a running command belong to, and that an accepted   *)
(* command is still remembered or has been forgotten.                        *)
(***************************************************************************)
EXTENDS DeviceEdge, TLAPS

(* A command past the send belongs to the worker that serves its device *)
SenderInv ==
    \A d \in Delivery :
        pc[d] \in {"send", "queued"} \cup Working =>
            sender[d] \in Delivery /\ queues[Dev(d)] = sender[d]

(* What a worker finds in its channel was sent to it, and only once *)
ChanInv ==
    \A w \in Delivery :
        /\ \A i \in DOMAIN chan[w] : pc[chan[w][i]] = "queued" /\ sender[chan[w][i]] = w
        /\ \A i, j \in DOMAIN chan[w] : chan[w][i] = chan[w][j] => i = j

(* A worker runs one command at a time *)
WorkerInv ==
    \A d, e \in Delivery :
        pc[d] \in Working /\ pc[e] \in Working /\ sender[d] = sender[e] => d = e

(* What was accepted is remembered until it is forgotten *)
MemoryInv ==
    \A d \in Delivery : pc[d] \in Accepted => CommandOf[d] \in Remembered \cup forgotten

IInv == TypeOK /\ SenderInv /\ ChanInv /\ WorkerInv /\ MemoryInv /\ OnceUnlessForgotten

USE EdgeAssumption

-----------------------------------------------------------------------------
(* What appending to and taking from a channel or the set does to its elements *)
LEMMA AppendElements ==
    ASSUME NEW S, NEW s \in Seq(S), NEW x \in S
    PROVE  /\ Append(s, x) \in Seq(S)
           /\ Len(Append(s, x)) = Len(s) + 1
           /\ DOMAIN s = 1 .. Len(s)
           /\ DOMAIN Append(s, x) = 1 .. Len(s) + 1
           /\ \A i \in 1 .. Len(s) : Append(s, x)[i] = s[i]
           /\ Append(s, x)[Len(s) + 1] = x
OBVIOUS

LEMMA TailElements ==
    ASSUME NEW S, NEW s \in Seq(S), s # <<>>
    PROVE  /\ Head(s) \in S /\ Tail(s) \in Seq(S)
           /\ Head(s) = s[1]
           /\ Len(s) \in Nat \ {0}
           /\ Len(Tail(s)) = Len(s) - 1
           /\ DOMAIN s = 1 .. Len(s)
           /\ DOMAIN Tail(s) = 1 .. Len(s) - 1
           /\ \A i \in 1 .. Len(s) - 1 : Tail(s)[i] = s[i + 1]
OBVIOUS

LEMMA DevType == ASSUME NEW d \in Delivery PROVE Dev(d) \in Device
BY DEF Dev

-----------------------------------------------------------------------------
LEMMA InitIInv == Init => IInv
BY DEF Init, IInv, TypeOK, SenderInv, ChanInv, WorkerInv, MemoryInv, OnceUnlessForgotten,
       Accepted, Handling, Working

LEMMA ReceiveIInv == ASSUME IInv, NEW d \in Delivery, Receive(d) PROVE IInv'
BY DEF Receive, Goto, IInv, TypeOK, SenderInv, ChanInv, WorkerInv, MemoryInv,
       OnceUnlessForgotten, Accepted, Handling, Working, Dev, Remembered

(* The steps that leave the set alone keep what it says about accepted deliveries *)
LEMMA SetUnchanged ==
    ASSUME IInv, UNCHANGED <<processed, forgotten>>,
           \A d \in Delivery : pc'[d] \in Accepted => pc[d] \in Accepted
    PROVE  MemoryInv' /\ OnceUnlessForgotten'
BY DEF IInv, MemoryInv, OnceUnlessForgotten, Remembered, Accepted, Handling, Working

(* A step that leaves the channels and what is queued alone keeps ChanInv *)
LEMMA ChanUnchanged ==
    ASSUME IInv, chan' = chan,
           \A e \in Delivery : pc[e] = "queued" => pc'[e] = "queued" /\ sender'[e] = sender[e]
    PROVE  ChanInv'
<1> SUFFICES ASSUME NEW w \in Delivery
             PROVE  /\ \A i \in DOMAIN chan[w] : pc'[chan[w][i]] = "queued" /\ sender'[chan[w][i]] = w
                    /\ \A i, j \in DOMAIN chan[w] : chan[w][i] = chan[w][j] => i = j
  BY DEF ChanInv
<1>1. \A i \in DOMAIN chan[w] : chan[w][i] \in Delivery
  BY DEF IInv, TypeOK
<1>2. /\ \A i \in DOMAIN chan[w] : pc[chan[w][i]] = "queued" /\ sender[chan[w][i]] = w
      /\ \A i, j \in DOMAIN chan[w] : chan[w][i] = chan[w][j] => i = j
  BY DEF IInv, ChanInv
<1> QED
  BY <1>1, <1>2

LEMMA InsertIInv == ASSUME IInv, NEW d \in Delivery, Insert(d) PROVE IInv'
<1> DEFINE c == CommandOf[d]
           s == Append(processed, c)
<1>0. /\ c \in Command /\ pc[d] = "insert" /\ TypeOK /\ MemoryInv /\ OnceUnlessForgotten
      /\ UNCHANGED <<queues, sender, chan, food, status, faults>>
  BY DEF Insert, IInv, TypeOK
<1>1. CASE IsDuplicate(c)
  <2>1. pc' = [pc EXCEPT ![d] = "dropped"] /\ UNCHANGED <<processed, forgotten>>
    BY <1>1 DEF Insert, Goto
  <2>2. MemoryInv' /\ OnceUnlessForgotten'
    BY <1>0, <2>1, SetUnchanged DEF TypeOK, Accepted, Handling, Working
  <2>3. TypeOK' /\ SenderInv' /\ WorkerInv'
    BY <1>0, <2>1 DEF IInv, TypeOK, SenderInv, WorkerInv, Working, Dev
  <2>4. ChanInv'
    BY <1>0, <2>1, ChanUnchanged DEF TypeOK
  <2> QED
    BY <2>2, <2>3, <2>4 DEF IInv
<1>2. CASE ~IsDuplicate(c)
  <2>1. /\ pc' = [pc EXCEPT ![d] = "lookup"]
        /\ processed' = IF Overflows(s) THEN Tail(s) ELSE s
        /\ forgotten' = IF Overflows(s) THEN forgotten \cup {Head(s)} ELSE forgotten
    BY <1>2 DEF Insert, Goto
  <2>2. s \in Seq(Command) /\ Len(s) = Len(processed) + 1 /\ s # <<>>
    <3>1. processed \in Seq(Command)
      BY <1>0 DEF TypeOK
    <3>2. s \in Seq(Command) /\ Len(s) = Len(processed) + 1
      BY <3>1, <1>0, AppendElements
    <3>3. Len(processed) \in Nat
      BY <3>1
    <3> HIDE DEF s
    <3> QED
      BY <3>2, <3>3
  <2>3. {s[i] : i \in DOMAIN s} = Remembered \cup {c}
    <3>1. processed \in Seq(Command)
      BY <1>0 DEF TypeOK
    <3>2. /\ DOMAIN processed = 1 .. Len(processed) /\ DOMAIN s = 1 .. Len(processed) + 1
          /\ \A i \in 1 .. Len(processed) : s[i] = processed[i]
          /\ s[Len(processed) + 1] = c /\ Len(processed) \in Nat
      BY <3>1, <1>0, AppendElements
    <3> HIDE DEF s, c
    <3>3. \A i \in DOMAIN s : s[i] \in Remembered \cup {c}
      BY <3>2 DEF Remembered
    <3>4. \A i \in DOMAIN processed : i \in DOMAIN s /\ processed[i] = s[i]
      BY <3>2
    <3>5. Len(processed) + 1 \in DOMAIN s
      BY <3>2
    <3>6. Remembered \subseteq {s[i] : i \in DOMAIN s}
      BY <3>4 DEF Remembered
    <3>7. c \in {s[i] : i \in DOMAIN s}
      BY <3>2, <3>5
    <3> QED
      BY <3>3, <3>6, <3>7
  <2>4. /\ Remembered' \cup forgotten' = Remembered \cup {c} \cup forgotten
        /\ forgotten \subseteq forgotten' /\ forgotten' \in SUBSET Command
        /\ processed' \in Seq(Command) /\ Len(processed') <= Capacity
    <3>1. CASE Overflows(s)
      <4>1. /\ Head(s) = s[1] /\ Head(s) \in Command /\ Len(s) \in Nat \ {0}
            /\ Tail(s) \in Seq(Command) /\ Len(Tail(s)) = Len(s) - 1
            /\ DOMAIN s = 1 .. Len(s) /\ DOMAIN Tail(s) = 1 .. Len(s) - 1
            /\ \A i \in 1 .. Len(s) - 1 : Tail(s)[i] = s[i + 1]
        BY <2>2, TailElements
      <4>2. {s[i] : i \in DOMAIN s} = {Tail(s)[i] : i \in DOMAIN Tail(s)} \cup {Head(s)}
        <5> HIDE DEF s
        <5>1. \A i \in DOMAIN s : i = 1 \/ (i - 1 \in DOMAIN Tail(s) /\ Tail(s)[i - 1] = s[i])
          BY <4>1
        <5>2. \A i \in DOMAIN Tail(s) : i + 1 \in DOMAIN s /\ Tail(s)[i] = s[i + 1]
          BY <4>1
        <5>3. {s[i] : i \in DOMAIN s} \subseteq {Tail(s)[i] : i \in DOMAIN Tail(s)} \cup {Head(s)}
          <6> SUFFICES ASSUME NEW i \in DOMAIN s
                       PROVE  s[i] \in {Tail(s)[j] : j \in DOMAIN Tail(s)} \cup {Head(s)}
            OBVIOUS
          <6>1. CASE i = 1
            BY <6>1, <4>1
          <6>2. CASE i # 1
            BY <6>2, <5>1
          <6> QED
            BY <6>1, <6>2
        <5>4. {Tail(s)[i] : i \in DOMAIN Tail(s)} \subseteq {s[i] : i \in DOMAIN s}
          BY <5>2
        <5>5. Head(s) \in {s[i] : i \in DOMAIN s}
          <6>1. 1 \in DOMAIN s
            BY <4>1
          <6> QED
            BY <6>1, <4>1
        <5> QED
          BY <5>3, <5>4, <5>5
      <4>3. Remembered' = {Tail(s)[i] : i \in DOMAIN Tail(s)} /\ forgotten' = forgotten \cup {Head(s)}
        BY <2>1, <3>1 DEF Remembered
      <4>4. processed' = Tail(s) /\ Len(s) - 1 <= Capacity
        BY <2>1, <2>2, <3>1, <1>0 DEF TypeOK
      <4> HIDE DEF s, c
      <4> QED
        BY <2>3, <4>1, <4>2, <4>3, <4>4, <1>0 DEF TypeOK
    <3>2. CASE ~Overflows(s)
      <4>1. processed' = s /\ forgotten' = forgotten /\ Len(s) <= Capacity
        BY <2>1, <3>2, <2>2 DEF Overflows
      <4>2. Remembered' = {s[i] : i \in DOMAIN s}
        BY <4>1 DEF Remembered
      <4> HIDE DEF s, c
      <4> QED
        BY <4>1, <4>2, <2>2, <2>3, <1>0 DEF TypeOK
    <3> QED
      BY <3>1, <3>2
  <2>5. MemoryInv'
    BY <1>0, <2>1, <2>4 DEF MemoryInv, TypeOK, Accepted, Handling, Working
  <2>6. OnceUnlessForgotten'
    <3>1. \A e \in Delivery : pc[e] \in Accepted /\ CommandOf[e] = c => c \in forgotten
      BY <1>0, <1>2 DEF MemoryInv, IsDuplicate
    <3> QED
      BY <1>0, <3>1, <2>1, <2>4 DEF OnceUnlessForgotten, TypeOK, Accepted, Handling, Working
  <2>7. TypeOK' /\ SenderInv' /\ ChanInv' /\ WorkerInv'
    <3> HIDE DEF s, c
    <3>1. TypeOK'
      BY <1>0, <2>1, <2>4 DEF TypeOK, Accepted, Handling, Working
    <3>2. SenderInv' /\ WorkerInv'
      BY <1>0, <2>1 DEF IInv, TypeOK, SenderInv, WorkerInv, Working, Dev
    <3>3. ChanInv'
      BY <1>0, <2>1, ChanUnchanged DEF TypeOK
    <3> QED
      BY <3>1, <3>2, <3>3
  <2> QED
    BY <2>5, <2>6, <2>7 DEF IInv
<1> QED
  BY <1>1, <1>2

LEMMA LookupIInv == ASSUME IInv, NEW d \in Delivery, Lookup(d) PROVE IInv'
<1>1. MemoryInv' /\ OnceUnlessForgotten'
  BY SetUnchanged DEF Lookup, Goto, IInv, TypeOK, Accepted, Handling, Working
<1>2. TypeOK' /\ WorkerInv' /\ SenderInv'
  BY DevType DEF Lookup, Goto, IInv, TypeOK, SenderInv, WorkerInv, Working, Accepted, Handling, Working, Dev
<1>3. ChanInv'
  <2>1. \A e \in Delivery : pc[e] = "queued" => pc'[e] = "queued" /\ sender'[e] = sender[e]
    BY DEF Lookup, Goto, IInv, TypeOK
  <2> QED
    BY <2>1, ChanUnchanged DEF Lookup
<1> QED
  BY <1>1, <1>2, <1>3 DEF IInv

LEMMA CreateIInv == ASSUME IInv, NEW d \in Delivery, Create(d) PROVE IInv'
<1>1. MemoryInv' /\ OnceUnlessForgotten'
  BY SetUnchanged DEF Create, Goto, IInv, TypeOK, Accepted, Handling, Working
<1>2. TypeOK'
  BY DevType DEF Create, Goto, IInv, TypeOK, Accepted, Handling, Working
<1>3. SenderInv'
  BY DevType DEF Create, Served, Goto, IInv, TypeOK, SenderInv, Accepted, Handling, Working
<1>4. WorkerInv'
  BY DEF Create, Goto, IInv, TypeOK, WorkerInv, Working
<1>5. ChanInv'
  <2>1. \A e \in Delivery : pc[e] = "queued" => pc'[e] = "queued" /\ sender'[e] = sender[e]
    BY DEF Create, Goto, IInv, TypeOK
  <2> QED
    BY <2>1, ChanUnchanged DEF Create
<1> QED
  BY <1>1, <1>2, <1>3, <1>4, <1>5 DEF IInv

LEMMA SendIInv == ASSUME IInv, NEW d \in Delivery, Send(d) PROVE IInv'
<1> DEFINE w == sender[d]
<1>0. /\ w \in Delivery /\ pc[d] = "send" /\ chan[w] \in Seq(Delivery) /\ Len(chan[w]) < QueueSize
      /\ pc' = [pc EXCEPT ![d] = "queued"]
      /\ chan' = [chan EXCEPT ![w] = Append(@, d)]
  BY DEF Send, HasRoom, Goto, IInv, TypeOK, SenderInv
<1>1. MemoryInv' /\ OnceUnlessForgotten'
  BY SetUnchanged DEF Send, Goto, IInv, TypeOK, Accepted, Handling, Working
<1>2. TypeOK'
  BY <1>0, AppendElements DEF Send, IInv, TypeOK, Accepted, Handling, Working
<1>3. SenderInv' /\ WorkerInv'
  BY <1>0 DEF Send, IInv, TypeOK, SenderInv, WorkerInv, Working, Dev
<1>4. ChanInv'
  <2>1. \A i \in DOMAIN chan[w] : chan[w][i] # d
    BY <1>0 DEF IInv, ChanInv
  <2>2. /\ DOMAIN chan[w] = 1 .. Len(chan[w]) /\ DOMAIN chan'[w] = 1 .. Len(chan[w]) + 1
        /\ \A i \in 1 .. Len(chan[w]) : chan'[w][i] = chan[w][i]
        /\ chan'[w][Len(chan[w]) + 1] = d /\ Len(chan[w]) \in Nat
    <3>1. chan'[w] = Append(chan[w], d)
      BY <1>0 DEF IInv, TypeOK
    <3> QED
      BY <1>0, <3>1, AppendElements
  <2>3. \A v \in Delivery : v # w => chan'[v] = chan[v]
    BY <1>0 DEF IInv, TypeOK
  <2>4. sender' = sender /\ pc'[d] = "queued" /\ \A e \in Delivery : e # d => pc'[e] = pc[e]
    BY <1>0 DEF Send, IInv, TypeOK
  <2>5. ASSUME NEW v \in Delivery
        PROVE  /\ \A i \in DOMAIN chan'[v] : pc'[chan'[v][i]] = "queued" /\ sender'[chan'[v][i]] = v
               /\ \A i, j \in DOMAIN chan'[v] : chan'[v][i] = chan'[v][j] => i = j
    <3>1. \A i \in DOMAIN chan[v] : chan[v][i] \in Delivery \ {d} /\ pc[chan[v][i]] = "queued" /\ sender[chan[v][i]] = v
      <4>1. \A i \in DOMAIN chan[v] : chan[v][i] \in Delivery
        BY DEF IInv, TypeOK
      <4>2. \A i \in DOMAIN chan[v] : pc[chan[v][i]] = "queued" /\ sender[chan[v][i]] = v
        BY DEF IInv, ChanInv
      <4> QED
        BY <4>1, <4>2, <1>0
    <3>2. \A i, j \in DOMAIN chan[v] : chan[v][i] = chan[v][j] => i = j
      BY DEF IInv, ChanInv
    <3>3. CASE v # w
      BY <2>3, <2>4, <3>1, <3>2, <3>3
    <3>4. CASE v = w
      <4>1. \A i \in DOMAIN chan'[w] : i \in DOMAIN chan[w] \/ i = Len(chan[w]) + 1
        BY <2>2
      <4>2. \A i \in DOMAIN chan'[w] : pc'[chan'[w][i]] = "queued" /\ sender'[chan'[w][i]] = w
        <5> SUFFICES ASSUME NEW i \in DOMAIN chan'[w]
                     PROVE  pc'[chan'[w][i]] = "queued" /\ sender'[chan'[w][i]] = w
          OBVIOUS
        <5>1. CASE i \in DOMAIN chan[w]
          <6>1. chan'[w][i] = chan[w][i]
            BY <2>2, <5>1
          <6> QED
            BY <6>1, <5>1, <2>4, <3>1, <3>4
        <5>2. CASE i = Len(chan[w]) + 1
          BY <5>2, <2>2, <2>4
        <5> QED
          BY <4>1, <5>1, <5>2
      <4>3. \A i, j \in DOMAIN chan'[w] : chan'[w][i] = chan'[w][j] => i = j
        <5>1. \A i \in DOMAIN chan[w] : chan'[w][i] = chan[w][i]
          BY <2>2
        <5>2. chan'[w][Len(chan[w]) + 1] = d
          BY <2>2
        <5> SUFFICES ASSUME NEW i \in DOMAIN chan'[w], NEW j \in DOMAIN chan'[w],
                            chan'[w][i] = chan'[w][j]
                     PROVE  i = j
          OBVIOUS
        <5>3. CASE i \in DOMAIN chan[w] /\ j \in DOMAIN chan[w]
          BY <5>1, <5>3, <3>2, <3>4
        <5>4. CASE i \notin DOMAIN chan[w] \/ j \notin DOMAIN chan[w]
          BY <4>1, <5>1, <5>2, <5>4, <2>1
        <5> QED
          BY <5>3, <5>4
      <4> QED
        BY <3>4, <4>2, <4>3
    <3> QED
      BY <3>3, <3>4
  <2> QED
    BY <2>5 DEF ChanInv
<1> QED
  BY <1>1, <1>2, <1>3, <1>4 DEF IInv

LEMMA AbortIInv == ASSUME IInv, NEW d \in Delivery, Abort(d) PROVE IInv'
<1>1. MemoryInv' /\ OnceUnlessForgotten'
  BY SetUnchanged DEF Abort, Goto, IInv, TypeOK, Accepted, Handling, Working
<1>2. TypeOK'
  BY DEF Abort, Goto, IInv, TypeOK, Accepted, Handling, Working
<1>3. SenderInv' /\ WorkerInv'
  BY DEF Abort, Goto, IInv, TypeOK, SenderInv, WorkerInv, Working, Handling, Dev
<1>4. ChanInv'
  <2>1. \A e \in Delivery : pc[e] = "queued" => pc'[e] = "queued" /\ sender'[e] = sender[e]
    BY DEF Abort, Goto, IInv, TypeOK, Handling
  <2> QED
    BY <2>1, ChanUnchanged DEF Abort
<1> QED
  BY <1>1, <1>2, <1>3, <1>4 DEF IInv

LEMMA TakeType == ASSUME NEW a \in Nat, NEW b \in Nat PROVE Take(a, b) \in Nat
BY DEF Take

LEMMA StartIInv == ASSUME IInv, NEW w \in Delivery, Start(w) PROVE IInv'
<1> DEFINE d == Head(chan[w])
<1>0. /\ chan[w] \in Seq(Delivery) /\ chan[w] # <<>> /\ d \in Delivery /\ d = chan[w][1]
      /\ 1 \in DOMAIN chan[w] /\ pc[d] = "queued" /\ sender[d] = w
      /\ pc' = [pc EXCEPT ![d] = "running"]
      /\ chan' = [chan EXCEPT ![w] = Tail(@)]
      /\ UNCHANGED <<processed, queues, sender, forgotten, faults>>
  <2>1. chan[w] \in Seq(Delivery) /\ chan[w] # <<>>
    BY DEF Start, IInv, TypeOK
  <2>2. d \in Delivery /\ d = chan[w][1] /\ 1 \in DOMAIN chan[w]
    BY <2>1, TailElements
  <2> QED
    BY <2>1, <2>2 DEF Start, Goto, IInv, ChanInv
<1>1. MemoryInv' /\ OnceUnlessForgotten'
  BY <1>0, SetUnchanged DEF IInv, TypeOK, Accepted, Handling, Working
<1>2. TypeOK'
  <2>1. Tail(chan[w]) \in Seq(Delivery) /\ Len(Tail(chan[w])) = Len(chan[w]) - 1 /\ Len(chan[w]) \in Nat
    BY <1>0, TailElements
  <2>2. chan' \in [Delivery -> Seq(Delivery)] /\ \A v \in Delivery : Len(chan'[v]) <= QueueSize
    BY <1>0, <2>1 DEF IInv, TypeOK
  <2>3. food' \in [Delivery -> Nat]
    BY <1>0, TakeType DEF Start, IInv, TypeOK
  <2>4. status' \in [Delivery -> {"None", "Succeeded", "Failed", "InsufficientFood"}]
    BY <1>0 DEF Start, IInv, TypeOK, Decide
  <2>5. pc' \in [Delivery -> Accepted \cup {"absent", "insert", "dropped"}]
    BY <1>0 DEF IInv, TypeOK, Accepted, Working
  <2> QED
    BY <1>0, <2>2, <2>3, <2>4, <2>5 DEF IInv, TypeOK
<1>3. SenderInv'
  BY <1>0 DEF IInv, TypeOK, SenderInv, Dev
<1>4. WorkerInv'
  <2>1. \A e \in Delivery : ~(pc[e] \in Working /\ sender[e] = w)
    BY DEF Start, Idle
  <2>2. sender' = sender /\ \A e \in Delivery : pc'[e] \in Working => pc[e] \in Working \/ e = d
    BY <1>0 DEF IInv, TypeOK
  <2> QED
    BY <1>0, <2>1, <2>2 DEF IInv, WorkerInv
<1>5. ChanInv'
  <2>1. /\ Len(chan[w]) \in Nat /\ DOMAIN chan[w] = 1 .. Len(chan[w])
        /\ DOMAIN chan'[w] = 1 .. Len(chan[w]) - 1
        /\ \A i \in 1 .. Len(chan[w]) - 1 : chan'[w][i] = chan[w][i + 1]
    <3>1. chan'[w] = Tail(chan[w])
      BY <1>0 DEF IInv, TypeOK
    <3> QED
      BY <1>0, <3>1, TailElements
  <2>2. \A v \in Delivery : v # w => chan'[v] = chan[v]
    BY <1>0 DEF IInv, TypeOK
  <2>3. \A e \in Delivery : e # d => pc'[e] = pc[e]
    BY <1>0 DEF IInv, TypeOK
  <2>4. ASSUME NEW v \in Delivery
        PROVE  /\ \A i \in DOMAIN chan'[v] : pc'[chan'[v][i]] = "queued" /\ sender'[chan'[v][i]] = v
               /\ \A i, j \in DOMAIN chan'[v] : chan'[v][i] = chan'[v][j] => i = j
    <3>1. /\ \A i \in DOMAIN chan[v] : chan[v][i] \in Delivery /\ pc[chan[v][i]] = "queued" /\ sender[chan[v][i]] = v
          /\ \A i, j \in DOMAIN chan[v] : chan[v][i] = chan[v][j] => i = j
      <4>1. \A i \in DOMAIN chan[v] : chan[v][i] \in Delivery
        BY DEF IInv, TypeOK
      <4> QED
        BY <4>1 DEF IInv, ChanInv
    <3>2. CASE v = w
      <4>1. \A i \in DOMAIN chan'[w] :
              i \in Nat \ {0} /\ i + 1 \in DOMAIN chan[w] /\ chan'[w][i] = chan[w][i + 1]
        <5> SUFFICES ASSUME NEW i \in DOMAIN chan'[w]
                     PROVE  i \in Nat \ {0} /\ i + 1 \in DOMAIN chan[w] /\ chan'[w][i] = chan[w][i + 1]
          OBVIOUS
        <5>1. i \in 1 .. Len(chan[w]) - 1
          BY <2>1
        <5>2. i \in Nat \ {0} /\ i + 1 \in 1 .. Len(chan[w])
          BY <5>1, <2>1
        <5> QED
          BY <5>1, <5>2, <2>1
      <4>2. \A i \in DOMAIN chan'[w] : chan'[w][i] # d
        <5> SUFFICES ASSUME NEW i \in DOMAIN chan'[w], chan'[w][i] = d PROVE FALSE
          OBVIOUS
        <5>1. i + 1 = 1
          BY <4>1, <1>0, <3>1, <3>2
        <5> QED
          BY <4>1, <5>1
      <4>3. \A i \in DOMAIN chan'[w] : pc'[chan'[w][i]] = "queued" /\ sender'[chan'[w][i]] = w
        BY <4>1, <4>2, <1>0, <2>3, <3>1, <3>2
      <4>4. \A i, j \in DOMAIN chan'[w] : chan'[w][i] = chan'[w][j] => i = j
        <5> SUFFICES ASSUME NEW i \in DOMAIN chan'[w], NEW j \in DOMAIN chan'[w],
                            chan'[w][i] = chan'[w][j]
                     PROVE  i = j
          OBVIOUS
        <5>1. i + 1 = j + 1
          BY <4>1, <3>1, <3>2
        <5> QED
          BY <4>1, <5>1
      <4> QED
        BY <3>2, <4>3, <4>4
    <3>3. CASE v # w
      BY <1>0, <2>2, <2>3, <3>1, <3>3
    <3> QED
      BY <3>2, <3>3
  <2> QED
    BY <2>4 DEF ChanInv
<1> QED
  BY <1>1, <1>2, <1>3, <1>4, <1>5 DEF IInv

(* A worker between the start of a command and the end of its delivery *)
LEMMA WorkerIInv ==
    ASSUME IInv, NEW d \in Delivery, Execute(d) \/ Deliver(d) \/ Answer(d)
    PROVE  IInv'
<1>0. PICK l \in {"delivering", "hung", "acked", "unacked"} : Goto(d, l)
  BY DEF Execute, Deliver, Finish, FinishUnacked, Hang, Answer
<1>1. /\ pc[d] \in Working /\ pc' = [pc EXCEPT ![d] = l]
      /\ faults' \in 0 .. MaxFaults
      /\ UNCHANGED <<processed, queues, sender, chan, food, status, forgotten>>
  BY <1>0 DEF Goto, Execute, Deliver, Finish, FinishUnacked, Hang, Answer, Working, IInv, TypeOK
<1>2. MemoryInv' /\ OnceUnlessForgotten'
  BY <1>1, SetUnchanged DEF IInv, TypeOK, Accepted, Handling, Working
<1>3. TypeOK'
  BY <1>1 DEF IInv, TypeOK, Accepted, Handling, Working
<1>4. SenderInv' /\ WorkerInv'
  BY <1>1 DEF IInv, TypeOK, SenderInv, WorkerInv, Working, Dev
<1>5. ChanInv'
  <2>1. \A e \in Delivery : pc[e] = "queued" => pc'[e] = "queued" /\ sender'[e] = sender[e]
    BY <1>1 DEF IInv, TypeOK, Working
  <2> QED
    BY <1>1, <2>1, ChanUnchanged
<1> QED
  BY <1>2, <1>3, <1>4, <1>5 DEF IInv

LEMMA RestartIInv == ASSUME IInv, Restart PROVE IInv'
<1>1. \A d \in Delivery : pc'[d] \in Accepted => pc[d] \in Accepted
  BY DEF Restart, IInv, TypeOK, Accepted, Handling, Working
<1>2. MemoryInv' /\ OnceUnlessForgotten'
  BY <1>1 DEF Restart, IInv, MemoryInv, OnceUnlessForgotten
<1>3. Remembered \subseteq Command
  BY DEF Remembered, IInv, TypeOK
<1>4. TypeOK'
  <2>1. pc' \in [Delivery -> Accepted \cup {"absent", "insert", "dropped"}]
    BY DEF Restart, IInv, TypeOK, Accepted, Handling, Working
  <2>2. chan' \in [Delivery -> Seq(Delivery)] /\ \A v \in Delivery : Len(chan'[v]) <= QueueSize
    BY DEF Restart
  <2> QED
    BY <1>3, <2>1, <2>2 DEF Restart, IInv, TypeOK
<1>5. SenderInv' /\ WorkerInv'
  BY DEF Restart, SenderInv, WorkerInv, Working, Handling
<1>6. ChanInv'
  BY DEF Restart, ChanInv
<1> QED
  BY <1>2, <1>4, <1>5, <1>6 DEF IInv

LEMMA StutterIInv == ASSUME IInv, UNCHANGED vars PROVE IInv'
BY DEF vars, IInv, TypeOK, SenderInv, ChanInv, WorkerInv, MemoryInv,
       OnceUnlessForgotten, Accepted, Handling, Working, Dev, Remembered
-----------------------------------------------------------------------------
(* Every step of submit, run_worker and the process keeps the invariant *)
THEOREM EdgeInvariance == Spec => []IInv
<1>1. IInv /\ [Next]_vars => IInv'
  <2> SUFFICES ASSUME IInv, [Next]_vars PROVE IInv'
    OBVIOUS
  <2>1. ASSUME NEW d \in Delivery, Receive(d) \/ Handler(d) \/ Abort(d) PROVE IInv'
    BY <2>1, ReceiveIInv, InsertIInv, LookupIInv, CreateIInv, SendIInv, AbortIInv DEF Handler
  <2>2. ASSUME NEW d \in Delivery, Start(d) \/ Execute(d) \/ Deliver(d) \/ Answer(d)
        PROVE  IInv'
    BY <2>2, StartIInv, WorkerIInv
  <2> QED
    BY <2>1, <2>2, RestartIInv, StutterIInv DEF Next
<1> QED
  BY <1>1, InitIInv, PTL DEF Spec

(* The set and the channels of the scheduler never exceed their capacity *)
THEOREM EdgeTypeCorrect == Spec => []TypeOK
<1>1. IInv => TypeOK
  BY DEF IInv
<1> QED
  BY <1>1, EdgeInvariance, PTL

(* A command passes the idempotency check of submit twice only if it was forgotten *)
THEOREM DuplicatesAreDropped == Spec => []OnceUnlessForgotten
<1>1. IInv => OnceUnlessForgotten
  BY DEF IInv
<1> QED
  BY <1>1, EdgeInvariance, PTL

(* A device never executes two commands at the same time *)
THEOREM DevicesAreSerial == Spec => []SerialPerDevice
<1>1. IInv => SerialPerDevice
  BY DEF IInv, SenderInv, WorkerInv, Working, SerialPerDevice
<1> QED
  BY <1>1, EdgeInvariance, PTL
=============================================================================

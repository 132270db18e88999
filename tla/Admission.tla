------------------------------ MODULE Admission ------------------------------
(***************************************************************************)
(* The part of FeedingService.Create between the handler and the billing   *)
(* reservation: feature flags, idempotency key, safety limits, cooldowns   *)
(* and the daily limit of a cat, run by concurrent requests against a      *)
(* cache store shared with other requests, while admin-svc changes the     *)
(* limits and the flags in PostgreSQL.  There is one process of each of    *)
(* the two services; either may stop and start again.                      *)
(*                                                                         *)
(* A feed is a request in Create; a step is one access to shared state.    *)
(* Time is counted in seconds.  The store removes an entry when its time   *)
(* is over (gc, or Redis itself); an expired entry is never read, so the   *)
(* model removes it as the clock advances.                                 *)
(***************************************************************************)
EXTENDS SafetyPolicy, Sequences, FiniteSetsExt

CONSTANTS
    Users, Amounts,
    Cat, Device,        \* rooms -> their cat and their feeder
    DayLength, IdemTTL, PolicyTTL, DefaultQps, QpsKeep,
    Puts,               \* limits an operator may write
    DemoRoom, DemoLimits,  \* "room_demo" and the policy it is seeded with
    FlagWrites,         \* [flag, value] an operator may write
    Bounds              \* the store used, and how many requests, operations,
                        \* seconds, faults and restarts there may be

Rooms == Scopes \ {Global}
Day(t) == t \div DayLength
Midnight(t) == (Day(t) + 1) * DayLength

VARIABLES
    now,        \* the clock
    backend,    \* "memory" or "redis"
    kv,         \* the cache store: key -> [val, expire], expire 0 for never
    rows,       \* feeding_safety_policies
    was,        \* <<t, scope, row>>: history of rows, for the properties
    cache,      \* PgStore.cache of feeding-svc and of admin-svc
    flagRows,   \* feature_flags
    flagCache,  \* Manager.cache of feeding-svc
    bucket,     \* regionQpsBucket
    feeds,      \* requests in Create, in the order they arrived
    ops,        \* requests in admin-svc
    policies,   \* AdminService.policies, as limits
    lock,       \* the operation that holds AdminService.mu
    wrote,      \* history: the operation an entry of policies is from, 0 for none
    faults, restarts,
    max         \* the bounds of this behaviour

admissionVars == <<now, backend, kv, rows, was, cache, flagRows, flagCache,
                   bucket, feeds, ops, policies, lock, wrote, faults, restarts, max>>

store == <<backend, kv>>
tables == <<rows, was, flagRows>>
admin == <<ops, policies, lock, wrote>>
budget == <<faults, restarts, max>>

Services == {"feeding", "admin"}
Fresh == [limits |-> None, expires |-> 0]
ASSUME AdmissionAssumption ==
    /\ DayLength \in Nat \ {0}
    /\ IdemTTL \in Nat /\ PolicyTTL \in Nat
    /\ Amounts \subseteq 1 .. Modulus - 1
    /\ Puts \subseteq Limits
    /\ DemoLimits \in Limits

(* server.New of feeding-svc: NewManager lists the flags once *)
InitFeeding ==
    /\ kv = << >>
    /\ flagCache = flagRows
    /\ bucket = << >>
    /\ feeds = << >>

(* service.New of admin-svc seeds one policy in memory; the table has no row of
   it, and the policies that were in memory before are not loaded *)
Seeded == [r \in Rooms |-> IF r = DemoRoom THEN DemoLimits ELSE None]

(* server.New of admin-svc, on a migrated database *)
InitAdmin ==
    /\ rows = [s \in Scopes |-> None]
    /\ was = {<<0, s, None>> : s \in Scopes}
    /\ flagRows = [allow |-> TRUE, maintenance |-> {}, qps |-> DefaultQps]
    /\ policies = Seeded
    /\ ops = << >>
    /\ lock = 0
    /\ wrote = [r \in Rooms |-> 0]

AdmissionInit ==
    /\ InitAdmin /\ InitFeeding
    /\ cache = [p \in Services |-> [s \in Scopes |-> Fresh]]
    /\ now = 0
    /\ faults = 0 /\ restarts = 0
    /\ max \in Bounds
    /\ backend = max.backend

-----------------------------------------------------------------------------
(* The store *)

RoomKey(f) == <<"room", f.room>>
UserKey(f) == <<"ur", f.user, f.room>>
CatKey(f) == <<"cat", Cat[f.room], Day(f.at)>>
IdemKey(k) == <<"idem", k>>

Put(m, k, e) == [x \in DOMAIN m \cup {k} |-> IF x = k THEN e ELSE m[x]]
Has(k) == k \in DOMAIN kv
Val(k) == IF Has(k) THEN kv[k].val ELSE 0

(* SetNX writes only a key that is not there *)
FirstSeen(k) == ~Has(IdemKey(k))

Set(k, v, ttl) == kv' = Put(kv, k, [val |-> v, expire |-> now + ttl])

(* IncrBy.  Redis sets the time to live again at every call, the memory store
   only when it makes the entry; neither sets one that is not positive. *)
Expiry(k, ttl) ==
    IF ttl > 0 /\ (backend = "redis" \/ ~Has(k)) THEN now + ttl
    ELSE IF Has(k) THEN kv[k].expire ELSE 0
IncrBy(k, d, ttl) ==
    kv' = Put(kv, k, [val |-> Val(k) + d, expire |-> Expiry(k, ttl)])

(* One second passes; entries whose time is over are gone *)
Tick ==
    /\ now < max.time
    /\ now' = now + 1
    /\ kv' = [k \in {x \in DOMAIN kv : kv[x].expire = 0 \/ now' <= kv[x].expire}
                |-> kv[k]]
    /\ was' = was \cup {<<now', s, rows[s]>> : s \in Scopes}
    /\ UNCHANGED <<backend, rows, cache, flagRows, flagCache, bucket, feeds, admin,
                   budget>>

-----------------------------------------------------------------------------
(* A request goes through Create *)

At(i, pc) == i \in DOMAIN feeds /\ feeds[i].pc = pc
To(i, pc) == feeds' = [feeds EXCEPT ![i].pc = pc]
Ended == {"accepted", "rejected", "error", "lost"}
Over == {i \in DOMAIN feeds : feeds[i].pc \in Ended}
onlyFeeds == <<now, backend, rows, was, cache, flagRows, flagCache, bucket,
               admin, budget>>

(* allowRegionQps: buckets older than QpsKeep seconds are dropped *)
Kept(b) == [t \in {x \in DOMAIN b : x + QpsKeep >= now} |-> b[t]]
Count(b, t) == IF t \in DOMAIN b THEN b[t] ELSE 0
Limited == PerRegion(flagCache, DefaultQps) > 0
AllowRegionQps == Count(bucket, now) < PerRegion(flagCache, DefaultQps)

Admits(r) == AllowNewRooms(flagCache) /\ ~InMaintenance(flagCache, Device[r])
Passes(r) == Admits(r) /\ (Limited => AllowRegionQps)
Counted(r) == Admits(r) /\ Limited

(* A request arrives; before holds the requests that were over by then *)
Request(u, r, g, pc) ==
    [user |-> u, room |-> r, amount |-> g, pc |-> pc, at |-> 0,
     row |-> None, global |-> None, limits |-> None, before |-> Over,
     epoch |-> restarts]

(* The flags and idem.Insert("feed", key), as one step.  Only a request that a
   flag refuses leaves its key unused. *)
Arrive(u, r, g, k) ==
    /\ Len(feeds) < max.feeds
    /\ LET first == Passes(r) /\ FirstSeen(k)
       IN /\ feeds' = Append(feeds, Request(u, r, g, IF first THEN "global"
                                                        ELSE "rejected"))
          /\ IF first THEN Set(IdemKey(k), 1, IdemTTL) ELSE UNCHANGED kv
    /\ bucket' = IF ~Counted(r) THEN bucket
                 ELSE IF AllowRegionQps
                      THEN Put(Kept(bucket), now, Count(bucket, now) + 1)
                      ELSE Kept(bucket)
    /\ UNCHANGED <<now, backend, tables, cache, flagCache, admin, budget>>

(* PgStore.Get answers from the cache while the entry is fresh *)
Hit(p, s) == now < cache[p][s].expires
Cached(row) == [limits |-> row, expires |-> now + PolicyTTL]

(* The row a Get of feeding-svc returned is kept by the request *)
Got(i, pc, row) ==
    feeds' = IF pc = "global"
             THEN [feeds EXCEPT ![i].pc = "room", ![i].row = None, ![i].global = row]
             ELSE [feeds EXCEPT ![i].pc = "check", ![i].row = None,
                                ![i].global = None, ![i].at = now,
                                ![i].limits = Resolve(feeds[i].global, row)]

ScopeAt(i) == IF feeds[i].pc = "global" THEN Global ELSE feeds[i].room

(* Resolve, one Get at a time: from the cache, or from the table and then into
   the cache.  Check's reading of the clock belongs to the second Get's step. *)
ResolveHit(i) ==
    /\ At(i, "global") \/ At(i, "room")
    /\ feeds[i].row = None /\ Hit("feeding", ScopeAt(i))
    /\ Got(i, feeds[i].pc, cache["feeding"][ScopeAt(i)].limits)
    /\ UNCHANGED <<onlyFeeds, kv>>

ResolveQuery(i) ==
    /\ At(i, "global") \/ At(i, "room")
    /\ feeds[i].row = None /\ ~Hit("feeding", ScopeAt(i))
    /\ feeds' = [feeds EXCEPT ![i].row = Cached(rows[ScopeAt(i)])]
    /\ UNCHANGED <<onlyFeeds, kv>>

ResolveStore(i) ==
    /\ At(i, "global") \/ At(i, "room")
    /\ feeds[i].row # None
    /\ cache' = [cache EXCEPT !["feeding"][ScopeAt(i)] = feeds[i].row]
    /\ Got(i, feeds[i].pc, feeds[i].row.limits)
    /\ UNCHANGED <<now, store, tables, flagCache, bucket, admin, budget>>

Busy(k, t) == Has(k) /\ t < kv[k].val

(* Check looks at the daily total only when there is one *)
CheckBlocks(f) ==
    \/ Busy(RoomKey(f), f.at)
    \/ Busy(UserKey(f), f.at)
    \/ Has(CatKey(f)) /\ OverDaily(f.limits, Val(CatKey(f)), f.amount)

(* Check changes nothing; Consume reads the same keys again, one by one *)
Check(i) ==
    /\ At(i, "check")
    /\ feeds' = [feeds EXCEPT ![i].pc = IF CheckBlocks(feeds[i]) THEN "rejected"
                                        ELSE "consume",
                              ![i].at = now]
    /\ UNCHANGED <<onlyFeeds, kv>>

Read(i, pc, next, blocked) ==
    /\ At(i, pc)
    /\ To(i, IF blocked THEN "rejected" ELSE next)
    /\ UNCHANGED <<onlyFeeds, kv>>

ReadRoom(i) == Read(i, "consume", "readUser", Busy(RoomKey(feeds[i]), feeds[i].at))
ReadUser(i) == Read(i, "readUser", "readDaily", Busy(UserKey(feeds[i]), feeds[i].at))
ReadDaily(i) ==
    Read(i, "readDaily", "setRoom",
         OverDaily(feeds[i].limits, Val(CatKey(feeds[i])), feeds[i].amount))

(* The writes of Consume: both cooldowns end relative to the clock read at its
   start, and the daily key lives until that day is over *)
SetRoom(i) ==
    /\ At(i, "setRoom")
    /\ Set(RoomKey(feeds[i]), feeds[i].at + feeds[i].limits.room,
           feeds[i].limits.room + 1)
    /\ To(i, "setUser")
    /\ UNCHANGED onlyFeeds

SetUser_Room(i) ==
    /\ At(i, "setUser")
    /\ Set(UserKey(feeds[i]), feeds[i].at + feeds[i].limits.room,
           feeds[i].limits.room + 1)
    /\ To(i, "addDaily")
    /\ UNCHANGED onlyFeeds

SetUser(i) ==
    /\ At(i, "setUser")
    /\ Set(UserKey(feeds[i]), feeds[i].at + feeds[i].limits.user,
           feeds[i].limits.user + 1)
    /\ To(i, "addDaily")
    /\ UNCHANGED onlyFeeds

AddDaily_Set(i) ==
    /\ At(i, "addDaily")
    /\ LET end == Midnight(feeds[i].at)
       IN Set(CatKey(feeds[i]), feeds[i].amount, IF end > now THEN end - now ELSE 0)
    /\ To(i, "reserve")
    /\ UNCHANGED onlyFeeds

AddDaily(i) ==
    /\ At(i, "addDaily")
    /\ LET end == Midnight(feeds[i].at)
       IN IncrBy(CatKey(feeds[i]), feeds[i].amount, IF end > now THEN end - now ELSE 0)
    /\ To(i, "reserve")
    /\ UNCHANGED onlyFeeds

(* billing.Reserve answers; a refusal gives back neither cooldown nor grams *)
Reserve(i) ==
    /\ At(i, "reserve")
    /\ \E pc \in {"accepted", "rejected"} : To(i, pc)
    /\ UNCHANGED <<onlyFeeds, kv>>

(* The store or PostgreSQL does not answer: Create returns an error, what it
   wrote so far stays *)
DependencyFails(i) ==
    /\ i \in DOMAIN feeds /\ feeds[i].pc \notin Ended \cup {"reserve"}
    /\ faults < max.faults
    /\ faults' = faults + 1
    /\ To(i, "error")
    /\ UNCHANGED <<now, store, tables, cache, flagCache, bucket, admin, restarts, max>>

(* feeding-svc starts again.  The memory store is part of the process; the
   first refresh of the flags may fail, which leaves the defaults in force. *)
Restart ==
    /\ restarts < max.restarts
    /\ restarts' = restarts + 1
    /\ feeds' = [i \in DOMAIN feeds |-> IF feeds[i].pc \in Ended THEN feeds[i]
                                        ELSE [feeds[i] EXCEPT !.pc = "lost"]]
    /\ kv' = IF backend = "memory" THEN << >> ELSE kv
    /\ cache' = [cache EXCEPT !["feeding"] = [s \in Scopes |-> Fresh]]
    /\ \/ flagCache' = flagRows /\ UNCHANGED faults
       \/ faults < max.faults /\ flagCache' = None /\ faults' = faults + 1
    /\ bucket' = << >>
    /\ UNCHANGED <<now, backend, tables, admin, max>>

-----------------------------------------------------------------------------
(* Manager.refresh, called by the ticker: the table is listed and the cache
   replaced.  A List that fails leaves the cache as it is.  One goroutine calls
   it, so that it is a single step. *)
Refresh_Once ==
    /\ flagCache = None
    /\ flagCache' = flagRows
    /\ UNCHANGED <<now, store, tables, cache, bucket, feeds, admin, budget>>

List == flagRows

Refresh ==
    /\ flagCache # List
    /\ flagCache' = List
    /\ UNCHANGED <<now, store, tables, cache, bucket, feeds, admin, budget>>

-----------------------------------------------------------------------------
(* admin-svc *)

OpAt(o, pc) == o \in DOMAIN ops /\ ops[o].pc = pc
OpTo(o, pc) == ops' = [ops EXCEPT ![o].pc = pc]
notAdmin == <<now, store, flagRows, flagCache, bucket, feeds>>

(* PATCH .../feeding-policy, PUT or GET /feeding-safety, PUT /feature-flags *)
Ask(kind, s, l) ==
    /\ Len(ops) < max.ops
    /\ ops' = Append(ops, [scope |-> s, limits |-> l,
                           pc |-> CASE kind = "write" /\ s # Global -> "lock"
                                    [] kind = "write" /\ s = Global -> "put"
                                    [] kind = "read" -> "get"])
    /\ UNCHANGED <<notAdmin, rows, was, cache, policies, lock, wrote, budget>>

(* UpdatePolicy: the policy is kept in memory, and the mutex until it returns *)
UpdatePolicy_Unlocked(o) ==
    /\ OpAt(o, "lock") /\ lock = 0
    /\ lock' = 0
    /\ policies' = [policies EXCEPT ![ops[o].scope] = ops[o].limits]
    /\ wrote' = [wrote EXCEPT ![ops[o].scope] = o]
    /\ OpTo(o, "put")
    /\ UNCHANGED <<notAdmin, rows, was, cache, budget>>

UpdatePolicy(o) ==
    /\ OpAt(o, "lock") /\ lock = 0
    /\ lock' = o
    /\ policies' = [policies EXCEPT ![ops[o].scope] = ops[o].limits]
    /\ wrote' = [wrote EXCEPT ![ops[o].scope] = o]
    /\ OpTo(o, "put")
    /\ UNCHANGED <<notAdmin, rows, was, cache, budget>>

(* PgStore.Put: the upsert, then Invalidate *)
Upsert(o) ==
    /\ OpAt(o, "put")
    /\ rows' = [rows EXCEPT ![ops[o].scope] = ops[o].limits]
    /\ was' = was \cup {<<now, ops[o].scope, ops[o].limits>>}
    /\ OpTo(o, "invalidate")
    /\ UNCHANGED <<notAdmin, cache, policies, lock, wrote, budget>>

Unlock(o) == lock' = IF lock = o THEN 0 ELSE lock

UpsertFails(o) ==
    /\ OpAt(o, "put")
    /\ faults < max.faults
    /\ faults' = faults + 1
    /\ Unlock(o)
    /\ OpTo(o, "failed")
    /\ UNCHANGED <<notAdmin, rows, was, cache, policies, wrote, restarts, max>>

Invalidate(o) ==
    /\ OpAt(o, "invalidate")
    /\ cache' = [cache EXCEPT !["admin"][ops[o].scope] = Fresh]
    /\ Unlock(o)
    /\ OpTo(o, "done")
    /\ UNCHANGED <<notAdmin, rows, was, policies, wrote, budget>>

(* GetGlobalSafety on a cache that is not fresh: the row is read, and stored in
   the cache afterwards, with the clock read before *)
GetQuery(o) ==
    /\ OpAt(o, "get") /\ ~Hit("admin", ops[o].scope)
    /\ ops' = [ops EXCEPT ![o].pc = "store", ![o].limits = Cached(rows[ops[o].scope])]
    /\ UNCHANGED <<notAdmin, rows, was, cache, policies, lock, wrote, budget>>

GetStore_Late(o) ==
    /\ OpAt(o, "store")
    /\ cache' = [cache EXCEPT !["admin"][ops[o].scope] = Cached(ops[o].limits.limits)]
    /\ OpTo(o, "done")
    /\ UNCHANGED <<notAdmin, rows, was, policies, lock, wrote, budget>>

GetStore(o) ==
    /\ OpAt(o, "store")
    /\ cache' = [cache EXCEPT !["admin"][ops[o].scope] = ops[o].limits]
    /\ OpTo(o, "done")
    /\ UNCHANGED <<notAdmin, rows, was, policies, lock, wrote, budget>>

(* The upsert of one flag *)
WriteFlag(w) == flagRows' = [flagRows EXCEPT ![w.flag] = w.value]

(* SetFlag writes the row at once; the flag caches of other services hear of
   it at their next refresh.  It counts as an operation. *)
SetFlag(w) ==
    /\ Len(ops) < max.ops
    /\ ops' = Append(ops, [scope |-> Global, limits |-> None, pc |-> "done"])
    /\ WriteFlag(w)
    /\ UNCHANGED <<now, store, rows, was, cache, flagCache, bucket, feeds,
                   policies, lock, wrote, budget>>

(* admin-svc starts again, which counts as a fault: its requests, its cache and
   its policies are gone, the tables stay *)
OpEnded == {"done", "failed", "lost"}
AdminRestart ==
    /\ faults < max.faults
    /\ faults' = faults + 1
    /\ ops' = [o \in DOMAIN ops |-> IF ops[o].pc \in OpEnded THEN ops[o]
                                    ELSE [ops[o] EXCEPT !.pc = "lost"]]
    /\ policies' = Seeded
    /\ lock' = 0
    /\ wrote' = [r \in Rooms |-> 0]
    /\ cache' = [cache EXCEPT !["admin"] = [s \in Scopes |-> Fresh]]
    /\ UNCHANGED <<notAdmin, rows, was, restarts, max>>

-----------------------------------------------------------------------------
FeedNext ==
    \/ \E u \in Users, r \in Rooms, g \in Amounts, k \in 1 .. Len(feeds) + 1 :
          Arrive(u, r, g, k)
    \/ \E i \in DOMAIN feeds :
          \/ ResolveHit(i) \/ ResolveQuery(i) \/ ResolveStore(i) \/ Check(i)
          \/ ReadRoom(i) \/ ReadUser(i) \/ ReadDaily(i)
          \/ SetRoom(i) \/ SetUser(i) \/ AddDaily(i)
          \/ Reserve(i) \/ DependencyFails(i)

AdminNext ==
    \/ \E s \in Scopes, l \in Puts : Ask("write", s, l)
    \/ Ask("read", Global, None)
    \/ \E w \in FlagWrites : SetFlag(w)
    \/ \E o \in DOMAIN ops :
          \/ UpdatePolicy(o) \/ Upsert(o) \/ UpsertFails(o) \/ Invalidate(o)
          \/ GetQuery(o) \/ GetStore(o)

AdmissionNext == FeedNext \/ AdminNext \/ AdminRestart \/ Refresh \/ Tick \/ Restart

AdmissionSpec == AdmissionInit /\ [][AdmissionNext]_admissionVars /\ WF_admissionVars(Refresh)

-----------------------------------------------------------------------------
Consumed(f) == f.pc \in {"reserve", "accepted"}
SameLife(f, g) == backend = "redis" \/ f.epoch = g.epoch
TotalOf(S) == MapThenSumSet(LAMBDA i : feeds[i].amount, S)

(* Every other request was over before i arrived, or arrived after i was over *)
Alone(i) ==
    \A j \in DOMAIN feeds \ {i} : j \in feeds[i].before \/ i \in feeds[j].before

(* A cooldown holds against a feed that no other request ran beside: whoever
   arrives after it is not let in before the end the feed was given, in the
   same room or, for the same user, in the room.  Two requests that run beside
   each other may both pass the reads of Consume, and the one with the older
   clock may write last: neither is promised anything. *)
CooldownHolds ==
    \A i \in DOMAIN feeds : \A j \in feeds[i].before :
        (/\ Consumed(feeds[i]) /\ Consumed(feeds[j]) /\ Alone(j)
         /\ SameLife(feeds[i], feeds[j]) /\ feeds[i].room = feeds[j].room)
        => /\ feeds[i].at >= feeds[j].at + feeds[j].limits.room
           /\ feeds[i].user = feeds[j].user
              => feeds[i].at >= feeds[j].at + feeds[j].limits.user

(* The daily limit of a cat holds with respect to every feed that was over when
   the request arrived, whatever runs beside it and in whichever of the cat's
   rooms: the feeds of the day and the request itself stay within the limit the
   request was resolved to.  Claimed only while the grams of the run fit in the
   counter's width: the sum of GramsAfter wraps beyond it. *)
DailyLimitHolds ==
    TotalOf(DOMAIN feeds) < Modulus =>
    \A i \in DOMAIN feeds : Consumed(feeds[i]) =>
        TotalOf({j \in feeds[i].before \cup {i} :
                    /\ Consumed(feeds[j]) /\ SameLife(feeds[i], feeds[j])
                    /\ CatKey(feeds[j]) = CatKey(feeds[i])}) <= feeds[i].limits.daily

(* Racing requests lose no gram: today's counter of a cat holds at least what was
   accepted (and what billing refused afterwards, or an error cut off). *)
AcceptedIsCounted ==
    \A i \in DOMAIN feeds :
        (/\ Consumed(feeds[i]) /\ Day(feeds[i].at) = Day(now)
         /\ backend = "redis" \/ feeds[i].epoch = restarts)
        => Val(CatKey(feeds[i])) >=
              TotalOf({j \in DOMAIN feeds :
                         /\ Consumed(feeds[j]) /\ SameLife(feeds[i], feeds[j])
                         /\ CatKey(feeds[j]) = CatKey(feeds[i])})

(* What either service may answer from its cache was the row's value at most
   PolicyTTL seconds ago, also when a Get read the row before an operator's Put
   and stored it after the Put's Invalidate. *)
CacheIsRecent ==
    \A p \in Services, s \in Scopes : Hit(p, s) =>
        \E t \in 0 .. now : /\ t + PolicyTTL >= now
                            /\ <<t, s, cache[p][s].limits>> \in was

(* What admin-svc remembers of a room's policy and answers to GetPolicy is what
   the table holds, however its operators' writes met, if it is from an
   operator since admin-svc started and the last of these writes did not fail.
   (The seed has no row, and a restart forgets the policies, not the rows.) *)
PolicyMatchesRow ==
    \A r \in Rooms :
        (/\ lock = 0
         /\ wrote[r] # 0
         /\ ops[wrote[r]].pc # "failed")
        => policies[r] = rows[r]

(* A flag an operator writes reaches feeding-svc, unless it is written again
   first, also after a restart whose first refresh failed. *)
FlagsArrive ==
    \A w \in FlagWrites :
        (flagRows[w.flag] = w.value) ~>
            \/ flagRows[w.flag] # w.value
            \/ flagCache # None /\ flagCache[w.flag] = w.value
=============================================================================

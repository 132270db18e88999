------------------------------ MODULE Catalogue ------------------------------
(***************************************************************************)
(* The tables devices (device-svc) and rooms (room-svc).  Both services    *)
(* have single-column writers and a PATCH that reads the row, merges the   *)
(* body into the copy and writes the copy back.  A behaviour is about one  *)
(* row of one table, and runs the same requests on the memory store and on *)
(* PostgreSQL, each with its own row.                                      *)
(*                                                                         *)
(* A field of a row holds the number of the request that wrote its value,  *)
(* which is all the properties tell apart; requests are numbered in the    *)
(* order of their first access to the store.  A request that fails in both *)
(* stores writes nothing, as one that never takes its next step.           *)
(*                                                                         *)
(* PostgreSQL refuses values that the memory store takes: its tables have  *)
(* foreign keys, NOT NULL columns and 32-bit integers.  Such a request     *)
(* changes the memory store only.  The rows dev_demo and room_demo, which  *)
(* the memory stores are born with, are rows whose POST PostgreSQL refused. *)
(* A restart, which empties a memory store, is left out.                   *)
(***************************************************************************)
EXTENDS Naturals, Sequences

CONSTANTS
    Bodies,        \* fields a PATCH body carries: table -> set of sets
    MaxRequests    \* bound

Tables == {"devices", "rooms"}
Stores == {"memory", "pg"}

VARIABLES
    table,      \* the table this behaviour is about
    rows,       \* the row in each store; None while there is none
    requests,
    clock,      \* writes so far
    last        \* history: in each store, the request that last set each field

catalogueVars == <<table, rows, requests, clock, last>>

-----------------------------------------------------------------------------
(* Columns.  "details" stands for the columns only POST and PATCH write. *)

DeviceFields ==
    {"room", "owner", "details", "firmware", "status", "seen", "food", "credential"}
RoomFields == {"owner", "details", "visibility", "status", "key"}
Fields == IF table = "devices" THEN DeviceFields ELSE RoomFields

(* What a PATCH body may change *)
DevicePatch == {"room", "owner", "details", "firmware", "status"}
RoomPatch == {"owner", "details", "visibility"}

(* What else a body carries is ignored, and not counted among its fields *)
ASSUME CatalogueAssumption ==
    /\ Bodies["devices"] \subseteq SUBSET DevicePatch
    /\ Bodies["rooms"] \subseteq SUBSET RoomPatch
    /\ MaxRequests \in Nat

(* The columns of the SQL UPDATE of a PATCH *)
sqlUpdateDevice == {"room", "owner", "details", "firmware", "status"}
sqlUpdateRoom == {"owner", "details", "visibility", "status"}
Columns == IF table = "devices" THEN sqlUpdateDevice ELSE sqlUpdateRoom

None == << >>
CatalogueInit ==
    /\ table \in Tables
    /\ rows = [s \in Stores |-> None]
    /\ last = [s \in Stores |-> None]
    /\ requests = << >>
    /\ clock = 0

-----------------------------------------------------------------------------
(* The stores: the row after each call *)

All(i) == [f \in Fields |-> i]
Put(row, fields, i) == [f \in DOMAIN row |-> IF f \in fields THEN i ELSE row[f]]

(* The row a POST body becomes; no hash comes with a body *)
NewDevice(i) == [f \in DeviceFields |-> i]
NewRoom(i) == [f \in RoomFields |-> i]

(* Create: the memory store replaces the row, ON CONFLICT DO NOTHING keeps it.
   refused: PostgreSQL does not take the values; of a room or an owner or a cat
   no row has the id, a room comes without cat ids, a number is too large *)
MemCreateDevice(row, i) == NewDevice(i)
PgCreateDevice(row, i, refused) == IF row = None /\ ~refused THEN NewDevice(i) ELSE row
MemCreateRoom(row, i) == NewRoom(i)
PgCreateRoom(row, i, refused) == IF row = None /\ ~refused THEN NewRoom(i) ELSE row

(* Update: the memory store replaces the row, SQL sets the columns it names *)
MemUpdateDevice(row, merged) == merged
PgUpdateDevice(row, merged, refused) ==
    IF refused THEN row
    ELSE [f \in DeviceFields |-> IF f \in sqlUpdateDevice THEN merged[f] ELSE row[f]]
MemUpdateRoom(row, merged) == merged
PgUpdateRoom(row, merged, refused) ==
    IF refused THEN row
    ELSE [f \in RoomFields |-> IF f \in sqlUpdateRoom THEN merged[f] ELSE row[f]]

MemBindRoom(row, i) == Put(row, {"room"}, i)
PgBindRoom(row, i, refused) == IF refused THEN row ELSE Put(row, {"room"}, i)
MemUnbindRoom(row, i) == Put(row, {"room"}, i)
PgUnbindRoom(row, i) == Put(row, {"room"}, i)
MemSetDeviceStatus(row, i) == Put(row, {"status"}, i)
PgSetDeviceStatus(row, i) == Put(row, {"status"}, i)
MemSetFirmwareTarget(row, i) == Put(row, {"firmware"}, i)
PgSetFirmwareTarget(row, i, refused) == IF refused THEN row ELSE Put(row, {"firmware"}, i)
MemSetMqttCredential(row, i) == Put(row, {"credential"}, i)
PgSetMqttCredential(row, i) == Put(row, {"credential"}, i)

(* A report of 0 grams leaves the food of the row as it is *)
Seen(grams) == {"seen", "status"} \cup (IF grams > 0 THEN {"food"} ELSE {})
MemMarkOnline(row, grams, i) == Put(row, Seen(grams), i)
PgMarkOnline_Always(row, grams, i, refused) == IF refused THEN row ELSE Put(row, Seen(1), i)
PgMarkOnline(row, grams, i, refused) == IF refused THEN row ELSE Put(row, Seen(grams), i)

(* status and live_status are always written together *)
MemSetRoomStatus(row, i) == Put(row, {"status"}, i)
PgSetRoomStatus(row, i) == Put(row, {"status"}, i)
MemSetStreamKey(row, i) == Put(row, {"key"}, i)
PgSetStreamKey(row, i) == Put(row, {"key"}, i)

-----------------------------------------------------------------------------
(* Requests *)

New == Len(requests) + 1
MayBegin == Len(requests) < MaxRequests

(* The stores that have the row.  The memory store has it whenever PostgreSQL has. *)
Held == {s \in Stores : rows[s] # None}
Exists == "memory" \in Held
Serving(stores, refused) == IF refused THEN stores \ {"pg"} ELSE stores

(* private: the visibility the body asks for, where it sets one; guest: no
   login token came with the request; read, wrote: writes before its first and
   at its last access; on: the stores that serve it, where it finds the row and
   is not refused *)
NewRequest(op, sets, read, wrote) ==
    [op |-> op, sets |-> sets, private |-> FALSE, guest |-> FALSE,
     read |-> read, wrote |-> wrote, copy |-> None, on |-> Held]

Began(r) == requests' = Append(requests, r) /\ UNCHANGED table

(* The rows become mem and pg; the request means to set these fields *)
Wrote(i, sets, on, mem, pg) ==
    /\ clock' = clock + 1
    /\ rows' = [memory |-> mem, pg |-> pg]
    /\ last' = [s \in Stores |-> IF s \in on THEN Put(last[s], sets, i) ELSE last[s]]

(* POST.  A body without id gets a fresh one, so it is the first of its row. *)
Create(op, MemC(_, _), PgC(_, _, _)) ==
    /\ MayBegin
    /\ \E private \in (IF table = "rooms" THEN BOOLEAN ELSE {FALSE}), refused \in BOOLEAN :
          /\ Began([NewRequest(op, Fields, clock, clock + 1)
                      EXCEPT !.private = private, !.on = Serving(Stores, refused)])
          /\ rows' = [memory |-> MemC(rows["memory"], New),
                      pg |-> PgC(rows["pg"], New, refused)]
          /\ last' = [memory |-> All(New),
                      pg |-> IF last["pg"] = None /\ ~refused THEN All(New) ELSE last["pg"]]
    /\ clock' = clock + 1

Register == table = "devices" /\ Create("register", MemCreateDevice, PgCreateDevice)
CreateRoom == table = "rooms" /\ Create("create", MemCreateRoom, PgCreateRoom)

(* A request of one UPDATE statement; for a missing row it answers not found *)
Single(op, fields, refused, mem, pg) ==
    /\ MayBegin /\ Exists
    /\ Began([NewRequest(op, fields, clock, clock + 1) EXCEPT !.on = Serving(Held, refused)])
    /\ Wrote(New, fields, Serving(Held, refused), mem, pg)

BindRoom ==
    /\ table = "devices"
    /\ \E refused \in BOOLEAN :
          Single("bind", {"room"}, refused, MemBindRoom(rows["memory"], New),
                 PgBindRoom(rows["pg"], New, refused))
UnbindRoom ==
    /\ table = "devices"
    /\ Single("unbind", {"room"}, FALSE, MemUnbindRoom(rows["memory"], New),
              PgUnbindRoom(rows["pg"], New))
SetDeviceStatus ==
    /\ table = "devices"
    /\ Single("status", {"status"}, FALSE, MemSetDeviceStatus(rows["memory"], New),
              PgSetDeviceStatus(rows["pg"], New))
UpdateFirmware ==
    /\ table = "devices"
    /\ \E refused \in BOOLEAN :
          Single("firmware", {"firmware"}, refused,
                 MemSetFirmwareTarget(rows["memory"], New),
                 PgSetFirmwareTarget(rows["pg"], New, refused))
(* An acknowledgement of the feeder, which reports its food (0 when empty) *)
DeviceMarkOnline ==
    /\ table = "devices"
    /\ \E grams \in {0, 1}, refused \in BOOLEAN :
          /\ refused => grams > 0
          /\ Single("ack", Seen(grams), refused, MemMarkOnline(rows["memory"], grams, New),
                    PgMarkOnline(rows["pg"], grams, New, refused))
HeartbeatAt ==
    /\ table = "devices"
    /\ Single("heartbeat", Seen(0), FALSE, MemMarkOnline(rows["memory"], 0, New),
              PgMarkOnline(rows["pg"], 0, New, FALSE))
SetRoomStatus ==
    /\ table = "rooms"
    /\ Single("status", {"status"}, FALSE, MemSetRoomStatus(rows["memory"], New),
              PgSetRoomStatus(rows["pg"], New))
RotateStreamKey ==
    /\ table = "rooms"
    /\ Single("rotate", {"key"}, FALSE, MemSetStreamKey(rows["memory"], New),
              PgSetStreamKey(rows["pg"], New))

(* Requests of two accesses: the first reads the row *)
Reads(r) ==
    /\ MayBegin /\ Exists
    /\ Began(r)
    /\ UNCHANGED <<rows, clock, last>>

Finish(i, on) ==
    /\ requests' = [requests EXCEPT ![i].wrote = clock + 1, ![i].copy = None, ![i].on = on]
    /\ UNCHANGED table
Waiting(op) == {i \in DOMAIN requests : requests[i].op = op /\ requests[i].wrote = 0}

(* PATCH *)
GetDevice == rows
GetRoom == rows
PatchDevice ==
    /\ table = "devices"
    /\ \E body \in Bodies[table] :
          Reads([NewRequest("update", body, clock, 0) EXCEPT !.copy = GetDevice])
PatchRoom ==
    /\ table = "rooms"
    /\ \E body \in Bodies[table] :
       \E private \in (IF "visibility" \in body THEN BOOLEAN ELSE {FALSE}) :
          Reads([NewRequest("update", body, clock, 0)
                   EXCEPT !.private = private, !.copy = GetRoom])

(* Fields the body leaves empty keep the value of the copy *)
MergeDevice_Body(copy, body, i) == [f \in DeviceFields |-> i]
MergeDevice(copy, body, i) ==
    [f \in DeviceFields |-> IF f \in body \cap DevicePatch THEN i ELSE copy[f]]
MergeRoom(copy, body, i) ==
    [f \in RoomFields |-> IF f \in body \cap RoomPatch THEN i ELSE copy[f]]

UpdateDevice(i) ==
    /\ table = "devices"
    /\ i \in Waiting("update")
    /\ \E refused \in BOOLEAN :
       LET r == requests[i]
           on == Serving(r.on, refused)
           merged(s) == MergeDevice(r.copy[s], r.sets, i)
       IN /\ Wrote(i, r.sets, on, MemUpdateDevice(rows["memory"], merged("memory")),
                   PgUpdateDevice(rows["pg"], merged("pg"), "pg" \notin on))
          /\ Finish(i, on)

UpdateRoom(i) ==
    /\ table = "rooms"
    /\ i \in Waiting("update")
    /\ \E refused \in BOOLEAN :
       LET r == requests[i]
           on == Serving(r.on, refused)
           merged(s) == MergeRoom(r.copy[s], r.sets, i)
       IN /\ Wrote(i, r.sets, on, MemUpdateRoom(rows["memory"], merged("memory")),
                   PgUpdateRoom(rows["pg"], merged("pg"), "pg" \notin on))
          /\ Finish(i, on)

(* IssueMqttCredential looks the device up, signs a password with the active
   key and stores its hash.  randomJTI makes every password another one. *)
IssueRead ==
    /\ table = "devices"
    /\ Reads(NewRequest("issue", {"credential"}, clock, 0))
IssueMqttCredential(i) ==
    /\ i \in Waiting("issue")
    /\ Wrote(i, {"credential"}, requests[i].on, MemSetMqttCredential(rows["memory"], i),
             IF "pg" \in requests[i].on THEN PgSetMqttCredential(rows["pg"], i)
             ELSE rows["pg"])
    /\ Finish(i, requests[i].on)

(* IssueSubscription refuses a guest when the room it read is private, and
   signs a token for the room.  A bad login token ends the request, and
   YUNMAO_ALLOW_GUEST is set, as it is by default. *)
Private(row) == requests[row["visibility"]].private
RefusesGuest_Never(row) == FALSE
RefusesGuest(row) == Private(row)
SubscribeRead ==
    /\ table = "rooms"
    /\ Exists
    /\ \E guest \in BOOLEAN :
       LET admits == {s \in Held : guest => ~RefusesGuest(rows[s])}
       IN /\ admits # {}
          /\ Reads([NewRequest("subscribe", {}, clock, 0)
                      EXCEPT !.guest = guest, !.on = admits])
IssueSubscription(i) ==
    /\ i \in Waiting("subscribe")
    /\ requests' = [requests EXCEPT ![i].wrote = clock + 1]
    /\ UNCHANGED <<table, rows, clock, last>>

CatalogueNext ==
    \/ Register \/ CreateRoom
    \/ BindRoom \/ UnbindRoom \/ SetDeviceStatus \/ UpdateFirmware
    \/ DeviceMarkOnline \/ HeartbeatAt
    \/ SetRoomStatus \/ RotateStreamKey
    \/ PatchDevice \/ PatchRoom \/ IssueRead \/ SubscribeRead
    \/ \E i \in DOMAIN requests :
          \/ UpdateDevice(i) \/ UpdateRoom(i)
          \/ IssueMqttCredential(i) \/ IssueSubscription(i)

CatalogueSpec == CatalogueInit /\ [][CatalogueNext]_catalogueVars

-----------------------------------------------------------------------------
Posted == {i \in DOMAIN requests : requests[i].op \in {"register", "create"}}
Finished(op) == {i \in DOMAIN requests : requests[i].op = op /\ requests[i].wrote > 0}

(* Requests that the memory store has obeyed and PostgreSQL has not *)
RefusedByPg == {i \in DOMAIN requests : requests[i].wrote > 0 /\ "pg" \notin requests[i].on}

(* The update u read the row before request w wrote it, and wrote it after *)
Overlaps(u, w) ==
    /\ requests[u].read < requests[w].wrote
    /\ requests[w].wrote < requests[u].wrote

(* What a device reports (last_seen_at, remaining food), its MQTT credential and
   a room's stream key: the columns that no PATCH can set *)
Reported == {"seen", "food", "credential", "key"}

(* A value that a request has set and answered is replaced only by a later
   request that sets this field, or by a PATCH (Update of device-svc and
   room-svc) whose read-merge-write went around that request.  On PostgreSQL
   the reported columns survive every PATCH, whatever it overlaps:
   sqlUpdateDevice and sqlUpdateRoom leave them alone. *)
LostOnlyByOverlap ==
    \A s \in Stores : \A f \in DOMAIN rows[s] :
        rows[s][f] # last[s][f] =>
            /\ s = "pg" => f \notin Reported
            /\ \E u \in Finished("update") :
                  /\ s \in requests[u].on /\ f \notin requests[u].sets
                  /\ Overlaps(u, last[s][f])

(* PostgreSQL took at most one POST of the row.  Then the memory store of a
   service holds another value than PostgreSQL only where PostgreSQL refused the
   request that wrote it (a foreign key, NOT NULL, a number too large, no row),
   or where a PATCH went around the last write of the column, and this is a
   column its SQL does not set or PostgreSQL refused some PATCH. *)
StoresAgree ==
    \/ \E i, j \in Posted \ RefusedByPg : i # j
    \/ \A f \in DOMAIN rows["pg"] :
         \/ rows["memory"][f] = rows["pg"][f]
         \/ rows["memory"][f] \in RefusedByPg
         \/ /\ \E u \in Finished("update") :
                  f \notin requests[u].sets /\ Overlaps(u, last["memory"][f])
            /\ f \in Reported \/ Finished("update") \cap RefusedByPg # {}

(* A guest gets a token of a room made private before (PATCH visibility,
   answered) only if a later request opened the room again, or a PATCH that had
   read it earlier wrote the old visibility back: IssueSubscription with
   Update.  All three are requests that the store in question served. *)
PrivateIsHonoured ==
    \A g \in Finished("subscribe"), p \in Finished("update") :
        /\ requests[g].guest
        /\ "visibility" \in requests[p].sets /\ requests[p].private
        /\ requests[p].wrote <= requests[g].read
        => \A s \in requests[g].on \cap requests[p].on : \E q \in DOMAIN requests :
              /\ s \in requests[q].on
              /\ requests[p].wrote < requests[q].wrote
              /\ requests[q].wrote <= requests[g].read
              /\ \/ /\ "visibility" \in requests[q].sets /\ ~requests[q].private
                    /\ requests[q].op = "create" => s = "memory"
                 \/ requests[q].op = "update" /\ Overlaps(q, p)
=============================================================================

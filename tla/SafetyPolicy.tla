---------------------------- MODULE SafetyPolicy ----------------------------
(***************************************************************************)
(* What feeding-svc computes with the limits and switches that admin-svc   *)
(* writes: the limits in force for a room (package feedingsafety) and the  *)
(* values read from a cached set of feature flags (package featureflags).  *)
(* A limit of 0 stands for a field that is not set.                        *)
(***************************************************************************)
EXTENDS Integers

CONSTANTS
    Scopes,         \* rows of feeding_safety_policies: the rooms and Global
    Global,         \* the row "__global__"
    DefaultGlobal,  \* limits built into the program
    RawEnv,         \* the three environment variables, as integers
    Modulus,        \* 2^32, the width of a gram count; small in a model
    None            \* no row, no table

Limits == [room : Nat, user : Nat, daily : 0 .. Modulus - 1]

ASSUME PolicyAssumption ==
    /\ Global \in Scopes
    /\ Modulus \in Nat \ {0}
    /\ None \notin Limits
    /\ DefaultGlobal \in Limits
    /\ RawEnv \in [room : Int, user : Int, daily : Int]
    \* every default is set, so that a resolved limit is never 0
    /\ \A f \in DOMAIN DefaultGlobal : DefaultGlobal[f] > 0

(* ParseEnv: a value that is not positive is not set; a daily limit is cut to
   32 bits *)
Env == [f \in DOMAIN RawEnv |->
           IF RawEnv[f] <= 0 THEN 0
           ELSE IF f = "daily" THEN RawEnv[f] % Modulus ELSE RawEnv[f]]

(* merge: the fields that are set in override replace those of base *)
Merge(base, override) ==
    [f \in DOMAIN base |-> IF override[f] > 0 THEN override[f] ELSE base[f]]

(* A row that does not exist leaves the limits as they are *)
MergeRow(base, row) == IF row = None THEN base ELSE Merge(base, row)

(* Manager.Resolve, from the rows its two Gets returned *)
Resolve(global, room) ==
    MergeRow(MergeRow(Merge(DefaultGlobal, Env), global), room)

(* uint32(cur)+amountGram, in 32 bits *)
GramsAfter(cur, amount) == ((cur % Modulus) + amount) % Modulus

OverDaily_Before(limits, cur, amount) ==
    /\ limits.daily > 0
    /\ cur % Modulus > limits.daily

(* The daily test of Check and Consume *)
OverDaily(limits, cur, amount) ==
    /\ limits.daily > 0
    /\ GramsAfter(cur, amount) > limits.daily

-----------------------------------------------------------------------------
(* The switches Create reads: feeding.allow_new_rooms, the devices listed by
   feeding.device_maintenance (its enabled field is not looked at) and the
   per_region value of feeding.region_qps_limit.  A cache that never saw the
   table is None, and every reader then falls back to its default. *)
FlagNames == {"allow", "maintenance", "qps"}

(* Manager.Bool("feeding.allow_new_rooms", true) *)
AllowNewRooms(cache) == cache = None \/ cache["allow"]

(* Manager.StringSlice("feeding.device_maintenance", "device_ids") *)
InMaintenance(cache, device) == cache # None /\ device \in cache["maintenance"]

(* Manager.Bool and Manager.Int of "feeding.region_qps_limit": 0 for a limit
   that is switched off or not positive *)
PerRegion(cache, default) == IF cache = None THEN default ELSE cache["qps"]
=============================================================================

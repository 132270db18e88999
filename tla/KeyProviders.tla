---------------------------- MODULE KeyProviders ----------------------------
(***************************************************************************)
(* Where user-svc gets the key it signs tokens with: the local KMS of      *)
(* package kms with rotation and an optional table of versions, the RSA    *)
(* file or throw-away key of package authjwt, or Vault Transit.            *)
(*                                                                         *)
(* A key pair is a number.  A key identifier (kid) is the number of the    *)
(* key it was made for, or 0 when YUNMAO_JWT_RS_KID fixes it.              *)
(***************************************************************************)
EXTENDS Naturals, FiniteSets

CONSTANTS
    RotateEvery, RetirePeriod,   \* VersionPolicy
    Bounds                       \* kind of provider, and bounds, of a behaviour

ASSUME KeyAssumption == RotateEvery \in Nat /\ RetirePeriod \in Nat

VARIABLES
    now,
    versions,   \* kid -> [key, state, created] held by the process
    active,     \* the kid it signs with
    table,      \* the records of the VersionStore, on disk
    vault,      \* latest version of the key in Vault
    made,       \* keys generated so far
    ever,       \* history: <<kid, key>> any provider of the service published
    rotations, restarts, faults,
    max         \* the bounds of this behaviour

keyVars == <<versions, active, table, vault, made, ever, rotations, restarts, max>>

Record(key, state, t) == [key |-> key, state |-> state, created |-> t]
None == << >>
With(f, k, v) == [x \in DOMAIN f \cup {k} |-> IF x = k THEN v ELSE f[x]]

(* A fault, while there is one left *)
Costs(n) == faults + n <= max.faults /\ faults' = faults + n

-----------------------------------------------------------------------------
(* Package kms *)

(* The keys of the answer to GET /jwks.json *)
PublicJWKS ==
    [k \in {x \in DOMAIN versions : versions[x].state # "retired"} |-> versions[k].key]

Expired_NoRetirePeriod(r) == now - r.created > RotateEvery
Expired(r) == now - r.created > RotateEvery + RetirePeriod

(* The old active key retires, then every retiring key that is too old *)
Retiring(vs) ==
    IF active \in DOMAIN vs /\ vs[active].state = "active"
    THEN [vs EXCEPT ![active].state = "retiring"] ELSE vs
Retired(vs) ==
    [x \in DOMAIN vs |->
        IF vs[x].state = "retiring" /\ Expired(vs[x])
        THEN [vs[x] EXCEPT !.state = "retired"] ELSE vs[x]]

(* Save and UpdateState write what changed and their errors are ignored; a
   state is written only to a record that is there *)
Persist(old, new, k, spent) ==
    IF ~max.stored THEN Costs(spent) /\ UNCHANGED table
    ELSE LET writes == {x \in DOMAIN new : x \notin DOMAIN old \/ new[x] # old[x]}
         IN \E lost \in SUBSET writes :
              /\ Costs(spent + Cardinality(lost))
              /\ table' = [x \in DOMAIN table \cup ({k} \ lost) |->
                             IF x \in writes \ lost THEN new[x] ELSE table[x]]

(* The records vs become the process's, with a new key that signs *)
Rotate(old, vs, spent) ==
    LET k == made + 1
        new == Retired(With(vs, k, Record(k, "active", now)))
    IN /\ versions' = new
       /\ active' = k
       /\ made' = k
       /\ Persist(old, new, k, spent)
       /\ ever' = ever \cup {<<k, k>>}

RotateNow ==
    /\ max.kind = "kms" /\ rotations < max.rotations
    /\ Rotate(versions, Retiring(versions), 0)
    /\ rotations' = rotations + 1
    /\ UNCHANGED <<now, vault, restarts, max>>

(* NewMockKmsProvider: the records that List gives, in no order, and the last
   active one signs; when there is none, or List fails, a first key is made *)
NewMockKms(failed) ==
    LET loaded == IF max.stored /\ ~failed THEN table ELSE None
        actives == {k \in DOMAIN loaded : loaded[k].state = "active"}
    IN \/ /\ actives # {}
          /\ active' \in actives
          /\ versions' = loaded
          /\ UNCHANGED <<table, made, ever, faults>>
       \/ /\ actives = {}
          /\ Rotate(loaded, loaded, IF failed THEN 1 ELSE 0)

-----------------------------------------------------------------------------
(* Packages authjwt and keyprovider *)

(* LoadOrCreateRSKeyProvider: key 1 from a file or a new key; the kid is the
   one the environment fixes, or a new one *)
LoadOrCreateRS ==
    LET key == IF max.kind = "file" THEN 1 ELSE made + 1
        kid == IF max.envKid THEN 0 ELSE made + 1
    IN /\ versions' = With(None, kid, Record(key, "active", now))
       /\ active' = kid
       /\ made' = made + 1
       /\ ever' = ever \cup {<<kid, key>>}
       /\ UNCHANGED <<table, faults>>

(* NewVaultTransit reads the public keys once; nothing refreshes them *)
VaultRefresh ==
    /\ versions' = [v \in 1 .. vault |-> Record(v, "active", now)]
    /\ active' = vault
    /\ ever' = ever \cup {<<v, v>> : v \in 1 .. vault}
    /\ UNCHANGED <<table, made, faults>>

NewProvider(failed) ==
    \/ max.kind = "kms" /\ (failed => max.stored) /\ NewMockKms(failed)
    \/ max.kind \in {"file", "ephemeral"} /\ ~failed /\ LoadOrCreateRS
    \/ max.kind = "vault" /\ ~failed /\ VaultRefresh

(* An operator rotates the key in Vault *)
VaultRotate ==
    /\ max.kind = "vault" /\ rotations < max.rotations
    /\ vault' = vault + 1
    /\ rotations' = rotations + 1
    /\ UNCHANGED <<now, versions, active, table, made, ever, restarts, faults, max>>

(* Active: the kid and the key it stands for; Vault signs with its latest *)
Active == [kid |-> active, key |-> versions[active].key]
SigningKey(k) == IF max.kind = "vault" THEN vault ELSE k.key

KeysInit ==
    /\ now = 0
    /\ max \in Bounds
    /\ rotations = 0 /\ restarts = 0 /\ faults = 0
    /\ vault = 1
    /\ made = 1
    /\ LET kid == IF max.kind # "kms" /\ max.kind # "vault" /\ max.envKid THEN 0 ELSE 1
       IN /\ active = kid
          /\ versions = With(None, kid, Record(1, "active", 0))
          /\ table = IF max.kind = "kms" /\ max.stored THEN versions ELSE None
          /\ ever = {<<kid, 1>>}
=============================================================================

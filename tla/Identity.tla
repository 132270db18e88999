------------------------------ MODULE Identity ------------------------------
(***************************************************************************)
(* Logging in at user-svc and having the token verified at another         *)
(* service.  A login takes an SMS challenge (or is a development login),   *)
(* finds or makes the user row and signs a token with the key of           *)
(* KeyProviders.  A verifier keeps the public keys of user-svc in a        *)
(* JWKSClient that refreshes when they are old or a kid is unknown.        *)
(* Logins and verifications run concurrently; user-svc may restart.        *)
(***************************************************************************)
EXTENDS KeyProviders, Integers

CONSTANTS
    Phones,          \* telephone numbers
    NoPhone,         \* the empty string
    TokenTTL, ChallengeTTL, JwksTTL

(* The token lives no longer than a key that stopped signing is published *)
ASSUME IdentityAssumption ==
    /\ TokenTTL \in Nat /\ ChallengeTTL \in Nat /\ JwksTTL \in Nat
    /\ TokenTTL <= RetirePeriod
    /\ NoPhone \notin Phones

VARIABLES
    challenges,  \* number of the challenge -> [phone, expires]
    sent,        \* challenges sent
    byID,        \* user id -> telephone number
    byPhone,     \* the memory store's second map: number -> user id
    logins,      \* number of the login -> its state
    cache,       \* the JWKSClient: [keys, at, from]
    fetches,     \* GETs of /jwks.json
    checks       \* number of the verification -> its state

userVars == <<challenges, sent, byID, byPhone, logins>>
clientVars == <<cache, fetches, checks>>
vars == <<now, faults, keyVars, userVars, clientVars>>

Add(f, v) == With(f, Cardinality(DOMAIN f) + 1, v)
Never == [keys |-> None, at |-> 0, from |-> 0]

Init ==
    /\ KeysInit
    /\ challenges = None /\ sent = 0
    /\ byID = None /\ byPhone = None
    /\ logins = None
    /\ cache = Never /\ fetches = 0
    /\ checks = None

-----------------------------------------------------------------------------
(* user-svc: requests *)

StartSmsLogin(p) ==
    /\ sent < max.challenges
    /\ sent' = sent + 1
    /\ challenges' = With(challenges, sent', [phone |-> p, expires |-> now + ChallengeTTL])
    /\ UNCHANGED <<now, faults, keyVars, byID, byPhone, logins, clientVars>>

(* A login: the challenge it took, the user id and number it is for (0 and
   NoPhone where the request has none), and where it is.  "failed" covers every
   answer that is an error. *)
Login(id, p, pc) ==
    [id |-> id, phone |-> p, pc |-> pc, kid |-> 0, key |-> 0,
     age |-> 0, exp |-> 0, logged |-> 0]
NewLogin(j) ==
    /\ Cardinality(DOMAIN logins) < max.logins
    /\ logins' = Add(logins, j)
Drop(c) == [x \in DOMAIN challenges \ {c} |-> challenges[x]]

(* CompleteSmsLogin up to the unlock *)
TakeChallenge(c, right) ==
    \/ /\ c \notin DOMAIN challenges
       /\ NewLogin(Login(0, NoPhone, "failed"))
       /\ UNCHANGED challenges
    \/ /\ c \in DOMAIN challenges /\ now > challenges[c].expires
       /\ NewLogin(Login(0, NoPhone, "failed"))
       /\ challenges' = Drop(c)
    \/ /\ c \in DOMAIN challenges /\ now <= challenges[c].expires /\ ~right
       /\ NewLogin(Login(0, NoPhone, "failed"))
       /\ UNCHANGED challenges
    \/ /\ c \in DOMAIN challenges /\ now <= challenges[c].expires /\ right
       /\ NewLogin(Login(0, challenges[c].phone, "find"))
       /\ challenges' = Drop(c)

CompleteSmsLogin(c, right) ==
    /\ TakeChallenge(c, right)
    /\ UNCHANGED <<now, faults, keyVars, sent, byID, byPhone, clientVars>>

(* DevLogin with a number, with an id, or with both.  Ids that a client names
   are negative here, so that they never meet a generated one. *)
DevLogin(id, p) ==
    /\ max.dev /\ (id # 0 => max.ids)
    /\ id # 0 \/ p # NoPhone
    /\ NewLogin(Login(id, p, IF id # 0 THEN "getbyid" ELSE "find"))
    /\ UNCHANGED <<now, faults, keyVars, challenges, sent, byID, byPhone, clientVars>>

-----------------------------------------------------------------------------
(* user-svc: the user store.  Postgres has phone_hash UNIQUE; the memory store
   has no mutex, and a process that the Go runtime stops for a concurrent map
   access is one that restarts. *)

ByPhone(p) ==
    IF max.pg THEN {u \in DOMAIN byID : byID[u] = p}
    ELSE {byPhone[q] : q \in {p} \cap DOMAIN byPhone}

Goto(n, j) == logins' = [logins EXCEPT ![n] = j]
Keep == UNCHANGED <<now, keyVars, challenges, sent, clientVars>>

GetByID(n) ==
    LET j == logins[n]
    IN /\ j.pc = "getbyid"
       /\ Goto(n, [j EXCEPT !.pc = IF j.id \in DOMAIN byID THEN "active"
                                   ELSE IF j.phone = NoPhone THEN "upsert" ELSE "find"])
       /\ Keep /\ UNCHANGED <<byID, byPhone, faults>>

GetByPhoneHash(n) ==
    LET j == logins[n] found == ByPhone(j.phone)
    IN /\ j.pc = "find"
       /\ \/ /\ found # {}
             /\ \E u \in found : Goto(n, [j EXCEPT !.pc = "active", !.id = u])
          \/ /\ found = {}
             /\ Goto(n, [j EXCEPT !.pc = "upsert", !.id = IF @ = 0 THEN n ELSE @])
       /\ Keep /\ UNCHANGED <<byID, byPhone, faults>>

(* The row is written unless another has its number (UNIQUE in Postgres; the
   memory store lets the last one have it) *)
Conflict_None(u, p) == FALSE
Conflict(u, p) ==
    max.pg /\ p # NoPhone /\ \E v \in DOMAIN byID \ {u} : byID[v] = p

Upsert(n) ==
    LET j == logins[n]
    IN /\ j.pc = "upsert"
       /\ \/ /\ Conflict(j.id, j.phone)
             /\ Goto(n, [j EXCEPT !.pc = "failed"])
             /\ UNCHANGED <<byID, byPhone>>
          \/ /\ ~Conflict(j.id, j.phone)
             /\ byID' = With(byID, j.id, j.phone)
             /\ byPhone' = IF ~max.pg /\ j.phone # NoPhone
                           THEN With(byPhone, j.phone, j.id) ELSE byPhone
             /\ Goto(n, [j EXCEPT !.pc = "active"])
       /\ Keep /\ UNCHANGED faults

(* A read or a write of Postgres fails *)
StoreFails(n) ==
    /\ max.pg
    /\ logins[n].pc \in {"getbyid", "find", "upsert"}
    /\ Costs(1)
    /\ Goto(n, [logins[n] EXCEPT !.pc = "failed"])
    /\ Keep /\ UNCHANGED <<byID, byPhone>>

-----------------------------------------------------------------------------
(* user-svc: SignLogin and the login history *)

(* signClaims takes the active key, then signs with it *)
TakeKey(n) ==
    LET j == logins[n]
    IN /\ j.pc = "active"
       /\ Goto(n, [j EXCEPT !.pc = "sign", !.exp = now + TokenTTL,
                            !.kid = Active.kid, !.key = Active.key,
                            !.age = now - versions[active].created])
       /\ Keep /\ UNCHANGED <<byID, byPhone, faults>>

Signed_KidReadAgain(j) == [j EXCEPT !.pc = "history", !.kid = Active.kid, !.key = SigningKey(j)]
Signed(j) == [j EXCEPT !.pc = "history", !.key = SigningKey(j)]

(* Vault may not answer *)
SignClaims(n) ==
    /\ logins[n].pc = "sign"
    /\ \/ Goto(n, Signed(logins[n])) /\ UNCHANGED faults
       \/ max.kind = "vault" /\ Goto(n, [logins[n] EXCEPT !.pc = "failed"]) /\ Costs(1)
    /\ Keep /\ UNCHANGED <<byID, byPhone>>

(* AppendLogin, its error ignored, names the kid that is active by now *)
AppendLogin(n) ==
    /\ logins[n].pc = "history"
    /\ \/ Goto(n, [logins[n] EXCEPT !.pc = "done", !.logged = Active.kid]) /\ UNCHANGED faults
       \/ Goto(n, [logins[n] EXCEPT !.pc = "done"]) /\ max.pg /\ Costs(1)
    /\ Keep /\ UNCHANGED <<byID, byPhone>>

(* The process starts again: challenges, requests under way and the memory
   store are gone, the key provider is made anew *)
Restart ==
    /\ restarts < max.restarts
    /\ restarts' = restarts + 1
    /\ \E failed \in BOOLEAN : NewProvider(failed)
    /\ challenges' = None
    /\ IF max.pg THEN UNCHANGED <<byID, byPhone>> ELSE byID' = None /\ byPhone' = None
    /\ logins' = [n \in DOMAIN logins |->
                     IF logins[n].pc \in {"failed", "done"} THEN logins[n]
                     ELSE [logins[n] EXCEPT !.pc = "failed"]]
    /\ UNCHANGED <<now, vault, rotations, max, sent, clientVars>>

-----------------------------------------------------------------------------
(* The verifier *)

Tokens == {n \in DOMAIN logins : logins[n].pc = "done"}

(* ensureFresh; a client that never fetched is stale *)
Stale_Never == cache.from = 0
Stale == cache.from = 0 \/ now - cache.at > JwksTTL

Check(n, pc) ==
    [login |-> n, pc |-> pc, round |-> 1, began |-> now, got |-> None, from |-> 0,
     failed |-> FALSE, used |-> Never, res |-> "none"]
GotoCheck(v, c) == checks' = [checks EXCEPT ![v] = c]
KeepUsers == UNCHANGED <<now, keyVars, userVars>>

(* Parse -> VerifyingByKid *)
Parse(n) ==
    /\ n \in Tokens
    /\ Cardinality(DOMAIN checks) < max.checks
    /\ checks' = Add(checks, Check(n, IF Stale THEN "fetch" ELSE "look"))
    /\ KeepUsers /\ UNCHANGED <<cache, fetches, faults>>

(* Refresh: every endpoint is asked.  User-svc may not answer, and its keys
   are then missing from what was merged; or none answers, and the old keys
   stay. *)
Fetch(v) ==
    LET c == checks[v]
    IN /\ c.pc = "fetch"
       /\ fetches' = fetches + 1
       /\ \/ /\ GotoCheck(v, [c EXCEPT !.pc = "store", !.got = PublicJWKS, !.from = fetches'])
             /\ UNCHANGED faults
          \/ /\ GotoCheck(v, [c EXCEPT !.pc = "store", !.got = None, !.from = fetches',
                                       !.failed = TRUE])
             /\ Costs(1)
          \/ /\ GotoCheck(v, [c EXCEPT !.pc = IF c.round = 1 THEN "look" ELSE "done",
                                       !.res = IF c.round = 1 THEN @ ELSE "unknown",
                                       !.failed = TRUE])
             /\ Costs(1)
       /\ KeepUsers /\ UNCHANGED cache

Store(v) ==
    LET c == checks[v]
    IN /\ c.pc = "store"
       /\ cache' = [keys |-> c.got, at |-> now, from |-> c.from]
       /\ GotoCheck(v, [c EXCEPT !.pc = "look"])
       /\ KeepUsers /\ UNCHANGED <<fetches, faults>>

(* The key of the kid, or one more refresh, or the token is refused *)
OnMiss_Refuse(c) == [c EXCEPT !.pc = "done", !.used = cache, !.res = "unknown"]
OnMiss(c) ==
    IF c.round = 1 THEN [c EXCEPT !.pc = "fetch", !.round = 2]
    ELSE [c EXCEPT !.pc = "done", !.used = cache, !.res = "unknown"]

Verdict(j) ==
    IF cache.keys[j.kid] # j.key THEN "badsig"
    ELSE IF now >= j.exp THEN "expired" ELSE "accepted"

Look(v) ==
    LET c == checks[v] j == logins[c.login]
    IN /\ c.pc = "look"
       /\ \/ /\ j.kid \in DOMAIN cache.keys
             /\ GotoCheck(v, [c EXCEPT !.pc = "done", !.used = cache, !.res = Verdict(j)])
          \/ /\ j.kid \notin DOMAIN cache.keys
             /\ GotoCheck(v, OnMiss(c))
       /\ KeepUsers /\ UNCHANGED <<cache, fetches, faults>>

-----------------------------------------------------------------------------

Tick ==
    /\ now < max.time
    /\ now' = now + 1
    /\ UNCHANGED <<faults, keyVars, userVars, clientVars>>

Rotation ==
    /\ RotateNow \/ VaultRotate
    /\ UNCHANGED <<userVars, clientVars>>

UserStep(n) ==
    \/ GetByID(n) \/ GetByPhoneHash(n) \/ Upsert(n) \/ StoreFails(n)
    \/ TakeKey(n) \/ SignClaims(n) \/ AppendLogin(n)
ClientStep(v) == Fetch(v) \/ Store(v) \/ Look(v)

Next ==
    \/ Tick
    \/ Rotation
    \/ Restart
    \/ \E p \in Phones : StartSmsLogin(p)
    \/ \E c \in 1 .. sent, right \in BOOLEAN : CompleteSmsLogin(c, right)
    \/ \E id \in {0, -1}, p \in Phones \cup {NoPhone} : DevLogin(id, p)
    \/ \E n \in DOMAIN logins : UserStep(n)
    \/ \E n \in DOMAIN logins : Parse(n)
    \/ \E v \in DOMAIN checks : ClientStep(v)

Spec == Init /\ [][Next]_vars

-----------------------------------------------------------------------------

(* Racing first logins of one telephone number get one account: two tokens that
   Postgres let out for a number, by SMS or by a development login that names
   no id, are for the same user, unless a development login with an id has
   moved that user's row to another number (service.go:121-141, 180-211). *)
PhoneNamesOneUser ==
    \A m, n \in Tokens :
        /\ max.pg
        /\ logins[m].phone = logins[n].phone /\ logins[m].phone # NoPhone
        /\ logins[m].id > 0 /\ logins[n].id > 0
        => \/ logins[m].id = logins[n].id
           \/ \E u \in {logins[m].id, logins[n].id} : byID[u] # logins[m].phone

(* A token that has not expired can be verified: if its key was not overdue for
   rotation when it signed, the kid is in user-svc's JWKS until the token
   expires, through rotations, and through restarts when the versions are
   stored and no write of them was lost (kms.go:216-237). *)
UnexpiredInJwks ==
    \A n \in Tokens :
        /\ max.kind = "kms"
        /\ restarts = 0 \/ (max.stored /\ faults = 0)
        /\ now < logins[n].exp /\ logins[n].age <= RotateEvery
        => logins[n].kid \in DOMAIN PublicJWKS

(* A rotation between taking the key and signing never gives a token one key's
   kid and another key's signature.  Vault's does: it signs with its latest
   version while the kid is the one read at start (vault.go:87-99, 130-175). *)
SignedUnderItsKid ==
    \A n \in Tokens :
        \/ <<logins[n].kid, logins[n].key>> \in ever
        \/ max.kind = "vault" /\ rotations > 0

(* A kid is called unknown only after asking user-svc again: a verification
   that ends so had a fetch that failed, or a second fetch whose keys lack the
   kid, or saw its keys replaced by another verification's refresh
   (jwks_client.go:158-175). *)
UnknownOnlyIfOvertaken ==
    \A v \in DOMAIN checks :
        checks[v].res = "unknown"
            => \/ checks[v].failed
               \/ /\ checks[v].round = 2
                  /\ \/ logins[checks[v].login].kid \notin DOMAIN checks[v].got
                     \/ checks[v].used.from # checks[v].from

(* A signature is judged by keys no older than the cache's lifetime: a key
   that was replaced under the same kid (YUNMAO_JWT_RS_KID with a throw-away
   key) is used against new tokens at most JwksTTL after it was stored, unless
   the refresh failed (jwks_client.go:124-132). *)
StaleKeyBounded ==
    \A v \in DOMAIN checks :
        checks[v].res = "badsig"
            => \/ checks[v].failed
               \/ checks[v].used.at + JwksTTL >= checks[v].began
=============================================================================

--------------------------- MODULE IdentityProofs ---------------------------
(***************************************************************************)
(* Proofs about logging in at user-svc and verifying its tokens, for any   *)
(* number of logins, verifications, rotations, restarts and faults, and    *)
(* for every kind of key provider.                                         *)
(***************************************************************************)
EXTENDS Identity, FiniteSetTheorems, TLAPS

States == {"active", "retiring", "retired"}
Rec == [key : Nat, state : States, created : Nat]
KeySets == UNION {[S -> Nat] : S \in SUBSET Nat}
CacheRec == [keys : KeySets, at : Nat, from : Nat]
LoginPcs == {"getbyid", "find", "upsert", "active", "sign", "history", "done", "failed"}
LoginRec == [id : Int, phone : Phones \cup {NoPhone}, pc : LoginPcs, kid : Nat, key : Nat,
             age : Int, exp : Nat, logged : Nat]
CheckRec == [login : Nat, pc : {"fetch", "store", "look", "done"}, round : {1, 2}, began : Nat,
             got : KeySets, from : Nat, failed : BOOLEAN, used : CacheRec,
             res : {"none", "unknown", "badsig", "expired", "accepted"}]

(* Requests are numbered from 1 *)
Numbered(f) == \E k \in Nat : DOMAIN f = 1 .. k
NextNumber(f) == Cardinality(DOMAIN f) + 1

KeyTypeOK ==
    /\ now \in Nat /\ made \in Nat /\ vault \in Nat \ {0}
    /\ rotations \in Nat /\ restarts \in Nat /\ faults \in Nat
    /\ active \in DOMAIN versions

UserTypeOK ==
    /\ sent \in Nat
    /\ \A c \in DOMAIN challenges : challenges[c] \in [phone : Phones, expires : Nat]
    /\ \A u \in DOMAIN byID : u \in Int
    /\ \A p \in DOMAIN byPhone : byPhone[p] \in Int
    /\ Numbered(logins)
    /\ \A n \in DOMAIN logins : logins[n] \in LoginRec

ClientTypeOK ==
    /\ cache \in CacheRec
    /\ fetches \in Nat
    /\ Numbered(checks)
    /\ \A v \in DOMAIN checks : checks[v] \in CheckRec

(* Records of keys: each was published, and retired only when it was too old *)
Records(f) ==
    /\ DOMAIN f \subseteq Nat
    /\ max.kind = "kms" => DOMAIN f \subseteq 1 .. made
    /\ \A k \in DOMAIN f :
          /\ f[k] \in Rec
          /\ <<k, f[k].key>> \in ever
          /\ f[k].state = "retired" => Expired(f[k])

(* The process holds good records, and the table is a copy while no write is lost *)
KeyInv ==
    /\ Records(versions)
    /\ Records(table)
    /\ max.kind = "kms" => versions[active].state = "active"
    /\ max.kind = "kms" /\ max.stored /\ faults = 0 => table = versions
    /\ max.kind = "vault" /\ rotations = 0 =>
          vault = 1 /\ \A k \in DOMAIN versions : versions[k].key = 1

(* A login that is about to sign has a published kid and key; it has signed
   with them, unless Vault has rotated *)
SignInv ==
    \A n \in DOMAIN logins :
        /\ logins[n].pc = "sign" =>
              /\ <<logins[n].kid, logins[n].key>> \in ever
              /\ max.kind = "vault" /\ rotations = 0 => logins[n].key = 1
        /\ logins[n].pc \in {"history", "done"} =>
              \/ <<logins[n].kid, logins[n].key>> \in ever
              \/ max.kind = "vault" /\ rotations > 0

(* No version was forgotten *)
Whole == max.kind = "kms" /\ (restarts = 0 \/ (max.stored /\ faults = 0))

(* The record of the key a login took, which tells how old the key was *)
HeldInv ==
    Whole => \A n \in DOMAIN logins : logins[n].pc \in {"sign", "history", "done"} =>
        /\ logins[n].kid \in DOMAIN versions
        /\ versions[logins[n].kid].created = logins[n].exp - TokenTTL - logins[n].age

(* phone_hash is UNIQUE, and a login that found or wrote its user has a row *)
PhoneInv ==
    max.pg =>
        /\ \A u, v \in DOMAIN byID : byID[u] = byID[v] /\ byID[u] # NoPhone => u = v
        /\ \A n \in DOMAIN logins :
              logins[n].pc \in {"active", "sign", "history", "done"} => logins[n].id \in DOMAIN byID

(* A fetch has a number of its own; the cache holds what some fetch got; a
   verification that is not over has no verdict *)
FetchInv ==
    /\ cache.from <= fetches
    /\ \A v \in DOMAIN checks :
          /\ checks[v].login \in Tokens
          /\ checks[v].from <= fetches
          /\ checks[v].pc # "done" => checks[v].res = "none"
          /\ checks[v].pc = "store" => checks[v].from > 0
          /\ checks[v].pc = "look" /\ checks[v].round = 2 /\ ~checks[v].failed => checks[v].from > 0
          /\ cache.from = checks[v].from /\ checks[v].from > 0 => cache.keys = checks[v].got
    /\ \A v, w \in DOMAIN checks : checks[v].from = checks[w].from /\ checks[v].from > 0 => v = w

(* A verification that looks a kid up has keys that were fresh when it began *)
FreshInv ==
    /\ cache.at <= now
    /\ \A v \in DOMAIN checks :
          /\ checks[v].began <= now
          /\ checks[v].pc = "look" /\ ~checks[v].failed => cache.at + JwksTTL >= checks[v].began

IInv ==
    /\ KeyTypeOK
    /\ UserTypeOK
    /\ ClientTypeOK
    /\ KeyInv
    /\ SignInv
    /\ HeldInv
    /\ PhoneInv
    /\ FetchInv
    /\ FreshInv
    /\ UnknownOnlyIfOvertaken
    /\ StaleKeyBounded

----------------------------------------------------------------------------
(***************************************************************************)
(* What the operators of the model do to the state.                        *)
(***************************************************************************)

(* A request gets a number that no request had *)
LEMMA AddNumber ==
    ASSUME NEW f, NEW g, NEW x, Numbered(f), g = Add(f, x)
    PROVE  /\ NextNumber(f) \notin DOMAIN f
           /\ DOMAIN g = DOMAIN f \cup {NextNumber(f)}
           /\ g[NextNumber(f)] = x
           /\ \A n \in DOMAIN f : g[n] = f[n]
           /\ Numbered(g)
<1>1. PICK k \in Nat : DOMAIN f = 1 .. k
  BY DEF Numbered
<1>2. Cardinality(1 .. k) = k
  BY FS_Interval
<1>3. NextNumber(f) = k + 1
  BY <1>1, <1>2 DEF NextNumber
<1>4. g = [n \in DOMAIN f \cup {k + 1} |-> IF n = k + 1 THEN x ELSE f[n]]
  BY <1>3 DEF Add, With, NextNumber
<1>5. k + 1 \in Nat /\ k + 1 \notin DOMAIN f
  BY <1>1
<1>6. DOMAIN g = 1 .. k + 1
  BY <1>1, <1>4
<1>7. Numbered(g)
  BY <1>5, <1>6 DEF Numbered
<1>. QED BY <1>3, <1>4, <1>5, <1>7

(* The keys of the JWKS *)
LEMMA JwksKeys ==
    ASSUME Records(versions)
    PROVE  /\ PublicJWKS \in KeySets
           /\ \A k \in DOMAIN versions : versions[k].state # "retired" => k \in DOMAIN PublicJWKS
<1>1. PublicJWKS \in [DOMAIN PublicJWKS -> Nat] /\ DOMAIN PublicJWKS \subseteq Nat
  BY DEF Records, PublicJWKS, Rec
<1>2. PublicJWKS \in KeySets
  BY <1>1 DEF KeySets
<1>. QED BY <1>2 DEF PublicJWKS

LEMMA NoKeys == None \in KeySets /\ Never \in CacheRec
<1>1. None \in KeySets
  BY DEF None, KeySets
<1>. QED BY <1>1 DEF Never, CacheRec

(* What another component's step leaves alone *)
LEMMA KeyFrame ==
    ASSUME KeyTypeOK, KeyInv, faults' \in Nat, faults' >= faults, UNCHANGED <<now, keyVars>>
    PROVE  KeyTypeOK' /\ KeyInv'
<1>1. UNCHANGED <<now, versions, active, table, vault, made, ever, rotations, restarts, max>>
  BY DEF keyVars
<1>2. KeyTypeOK'
  BY <1>1 DEF KeyTypeOK
<1>3. Records(versions)' /\ Records(table)'
  BY <1>1 DEF KeyInv, Records, Expired
<1>4. faults' = 0 => faults = 0
  BY DEF KeyTypeOK
<1>. QED BY <1>1, <1>2, <1>3, <1>4 DEF KeyInv

(* Logins that are over stay as they are *)
TokensStay ==
    \A n \in DOMAIN logins : logins[n].pc = "done" => n \in DOMAIN logins' /\ logins'[n] = logins[n]

LEMMA ClientFrame ==
    ASSUME IInv, TokensStay, now' \in Nat, now' >= now, UNCHANGED clientVars
    PROVE  ClientTypeOK' /\ FetchInv' /\ FreshInv' /\ UnknownOnlyIfOvertaken' /\ StaleKeyBounded'
<1>1. UNCHANGED <<cache, fetches, checks>>
  BY DEF clientVars
<1>2. ClientTypeOK'
  BY <1>1 DEF IInv, ClientTypeOK
<1>3. \A n \in Tokens : n \in Tokens' /\ logins'[n] = logins[n]
  BY DEF TokensStay, Tokens
<1>4. FetchInv'
  BY <1>1, <1>3 DEF IInv, FetchInv
<1>5. now \in Nat /\ cache.at \in Nat /\ \A v \in DOMAIN checks : checks[v].began \in Nat
  BY DEF IInv, KeyTypeOK, ClientTypeOK, CacheRec, CheckRec
<1>6. FreshInv'
  BY <1>1, <1>5 DEF IInv, FreshInv
<1>7. UnknownOnlyIfOvertaken'
  BY <1>1, <1>3 DEF IInv, UnknownOnlyIfOvertaken, FetchInv
<1>8. StaleKeyBounded'
  BY <1>1 DEF IInv, StaleKeyBounded
<1>. QED BY <1>2, <1>4, <1>6, <1>7, <1>8

(* A login goes on: what has to hold of its new state for the invariant *)
LEMMA LoginMoves ==
    ASSUME IInv, NEW n \in DOMAIN logins, logins[n].pc # "done",
           NEW x \in LoginRec, Goto(n, x), Keep, faults' \in Nat, faults' >= faults,
           x.pc = "sign" =>
               /\ <<x.kid, x.key>> \in ever
               /\ max.kind = "vault" /\ rotations = 0 => x.key = 1,
           x.pc \in {"history", "done"} =>
               <<x.kid, x.key>> \in ever \/ (max.kind = "vault" /\ rotations > 0),
           Whole /\ x.pc \in {"sign", "history", "done"} =>
               /\ x.kid \in DOMAIN versions
               /\ versions[x.kid].created = x.exp - TokenTTL - x.age,
           \A u \in DOMAIN byID' : u \in Int,
           \A p \in DOMAIN byPhone' : byPhone'[p] \in Int,
           max.pg =>
               /\ DOMAIN byID \subseteq DOMAIN byID'
               /\ \A u, v \in DOMAIN byID' : byID'[u] = byID'[v] /\ byID'[u] # NoPhone => u = v
               /\ x.pc \in {"active", "sign", "history", "done"} => x.id \in DOMAIN byID'
    PROVE  IInv'
<1>1. /\ DOMAIN logins' = DOMAIN logins
      /\ logins'[n] = x
      /\ \A m \in DOMAIN logins : m # n => logins'[m] = logins[m]
  BY DEF Goto
<1>2. /\ UNCHANGED <<now, keyVars, challenges, sent, clientVars>>
      /\ UNCHANGED <<now, versions, active, table, vault, made, ever, rotations, restarts, max>>
  BY DEF Keep, keyVars
<1>3. KeyTypeOK' /\ KeyInv'
  BY <1>2, KeyFrame DEF IInv
<1>4. UserTypeOK'
  BY <1>1, <1>2 DEF IInv, UserTypeOK, Numbered
<1>5. TokensStay
  BY <1>1 DEF TokensStay
<1>6. ClientTypeOK' /\ FetchInv' /\ FreshInv' /\ UnknownOnlyIfOvertaken' /\ StaleKeyBounded'
  BY <1>2, <1>5, ClientFrame DEF IInv, KeyTypeOK
<1>7. SignInv'
  BY <1>1, <1>2 DEF IInv, SignInv
<1>8. Whole' => Whole
  BY <1>2 DEF Whole, IInv, KeyTypeOK
<1>9. HeldInv'
  BY <1>1, <1>2, <1>8 DEF IInv, HeldInv
<1>10. PhoneInv'
  BY <1>1, <1>2 DEF IInv, PhoneInv
<1>. QED BY <1>3, <1>4, <1>6, <1>7, <1>9, <1>10 DEF IInv

(* A login begins, or a challenge is sent *)
LEMMA LoginStarts ==
    ASSUME IInv, NEW x \in LoginRec, x.pc \in {"failed", "find", "getbyid"},
           NewLogin(x),
           sent' \in Nat,
           \A c \in DOMAIN challenges' : challenges'[c] \in [phone : Phones, expires : Nat],
           UNCHANGED <<now, faults, keyVars, byID, byPhone, clientVars>>
    PROVE  IInv'
<1>1. logins' = Add(logins, x) /\ Numbered(logins)
  BY DEF NewLogin, IInv, UserTypeOK
<1>2. PICK c : c = NextNumber(logins)
  OBVIOUS
<1>3. /\ c \notin DOMAIN logins
      /\ DOMAIN logins' = DOMAIN logins \cup {c}
      /\ logins'[c] = x
      /\ \A n \in DOMAIN logins : logins'[n] = logins[n]
      /\ Numbered(logins')
  BY <1>1, <1>2, AddNumber
<1>4. UNCHANGED <<now, versions, active, table, vault, made, ever, rotations, restarts, max>>
  BY DEF keyVars
<1>5. KeyTypeOK' /\ KeyInv'
  BY KeyFrame DEF IInv, KeyTypeOK
<1>6. UserTypeOK'
  <2>1. \A n \in DOMAIN logins' : logins'[n] \in LoginRec
    BY <1>3 DEF IInv, UserTypeOK
  <2>. QED BY <2>1, <1>3 DEF IInv, UserTypeOK
<1>7. TokensStay
  BY <1>3 DEF TokensStay
<1>8. ClientTypeOK' /\ FetchInv' /\ FreshInv' /\ UnknownOnlyIfOvertaken' /\ StaleKeyBounded'
  BY <1>7, ClientFrame DEF IInv, KeyTypeOK
<1>9. SignInv'
  BY <1>3, <1>4 DEF IInv, SignInv
<1>10. HeldInv'
  BY <1>3, <1>4 DEF IInv, HeldInv, Whole
<1>11. PhoneInv'
  BY <1>3, <1>4 DEF IInv, PhoneInv
<1>. QED BY <1>5, <1>6, <1>8, <1>9, <1>10, <1>11 DEF IInv

LEMMA LoginType ==
    ASSUME NEW id \in Int, NEW p \in Phones \cup {NoPhone}, NEW pc \in LoginPcs
    PROVE  Login(id, p, pc) \in LoginRec /\ Login(id, p, pc).pc = pc
BY DEF Login, LoginRec

----------------------------------------------------------------------------
(***************************************************************************)
(* The requests of a login.                                                *)
(***************************************************************************)
LEMMA StartSmsLoginInv ==
    ASSUME IInv, NEW p \in Phones, StartSmsLogin(p)
    PROVE  IInv'
<1>1. /\ UNCHANGED <<now, faults, keyVars, byID, byPhone, logins, clientVars>>
      /\ UNCHANGED <<now, versions, active, table, vault, made, ever, rotations, restarts, max>>
  BY DEF StartSmsLogin, keyVars
<1>2. \A c \in DOMAIN challenges' : challenges'[c] \in [phone : Phones, expires : Nat]
  BY IdentityAssumption DEF StartSmsLogin, With, IInv, UserTypeOK, KeyTypeOK
<1>3. KeyTypeOK' /\ KeyInv'
  BY <1>1, KeyFrame DEF IInv, KeyTypeOK
<1>4. UserTypeOK'
  BY <1>1, <1>2 DEF StartSmsLogin, IInv, UserTypeOK, Numbered
<1>5. ClientTypeOK' /\ FetchInv' /\ FreshInv' /\ UnknownOnlyIfOvertaken' /\ StaleKeyBounded'
  BY <1>1, ClientFrame DEF IInv, KeyTypeOK, TokensStay
<1>6. SignInv' /\ HeldInv' /\ PhoneInv'
  BY <1>1 DEF IInv, SignInv, HeldInv, Whole, PhoneInv
<1>. QED BY <1>3, <1>4, <1>5, <1>6 DEF IInv

LEMMA CompleteSmsLoginInv ==
    ASSUME IInv, NEW c \in 1 .. sent, NEW right \in BOOLEAN, CompleteSmsLogin(c, right)
    PROVE  IInv'
<1>1. UNCHANGED <<now, faults, keyVars, sent, byID, byPhone, clientVars>>
  BY DEF CompleteSmsLogin
<1>2. sent' \in Nat /\ \A d \in DOMAIN challenges' : challenges'[d] \in [phone : Phones, expires : Nat]
  BY DEF CompleteSmsLogin, TakeChallenge, Drop, IInv, UserTypeOK
<1>3. CASE NewLogin(Login(0, NoPhone, "failed"))
  <2>1. Login(0, NoPhone, "failed") \in LoginRec /\ Login(0, NoPhone, "failed").pc = "failed"
    BY LoginType DEF LoginPcs
  <2>. QED BY <1>1, <1>2, <1>3, <2>1, LoginStarts
<1>4. CASE c \in DOMAIN challenges /\ NewLogin(Login(0, challenges[c].phone, "find"))
  <2>1. challenges[c].phone \in Phones
    BY <1>4 DEF IInv, UserTypeOK
  <2>2. /\ Login(0, challenges[c].phone, "find") \in LoginRec
        /\ Login(0, challenges[c].phone, "find").pc = "find"
    BY <2>1, LoginType DEF LoginPcs
  <2>. QED BY <1>1, <1>2, <1>4, <2>2, LoginStarts
<1>. QED BY <1>3, <1>4 DEF CompleteSmsLogin, TakeChallenge

LEMMA DevLoginInv ==
    ASSUME IInv, NEW id \in {0, -1}, NEW p \in Phones \cup {NoPhone}, DevLogin(id, p)
    PROVE  IInv'
<1>1. UNCHANGED <<now, faults, keyVars, challenges, sent, byID, byPhone, clientVars>>
  BY DEF DevLogin
<1>2. PICK pc \in {"getbyid", "find"} : NewLogin(Login(id, p, pc))
  BY DEF DevLogin
<1>3. Login(id, p, pc) \in LoginRec /\ Login(id, p, pc).pc = pc
  BY LoginType DEF LoginPcs
<1>4. sent' \in Nat /\ \A d \in DOMAIN challenges' : challenges'[d] \in [phone : Phones, expires : Nat]
  BY <1>1 DEF IInv, UserTypeOK
<1>. QED BY <1>1, <1>2, <1>3, <1>4, LoginStarts

(* The store is left alone, and the login has not signed yet *)
LEMMA EarlyLoginMoves ==
    ASSUME IInv, NEW n \in DOMAIN logins, logins[n].pc # "done",
           NEW x \in LoginRec, Goto(n, x), Keep, faults' \in Nat, faults' >= faults,
           x.pc \in {"failed", "find", "upsert", "active"},
           max.pg /\ x.pc = "active" => x.id \in DOMAIN byID,
           UNCHANGED <<byID, byPhone>>
    PROVE  IInv'
<1>1. \A u \in DOMAIN byID' : u \in Int
  BY DEF IInv, UserTypeOK
<1>2. \A p \in DOMAIN byPhone' : byPhone'[p] \in Int
  BY DEF IInv, UserTypeOK
<1>3. max.pg => /\ DOMAIN byID \subseteq DOMAIN byID'
                /\ \A u, v \in DOMAIN byID' : byID'[u] = byID'[v] /\ byID'[u] # NoPhone => u = v
                /\ x.pc \in {"active", "sign", "history", "done"} => x.id \in DOMAIN byID'
  BY DEF IInv, PhoneInv
<1>4. x.pc # "sign" /\ x.pc \notin {"history", "done"} /\ x.pc \notin {"sign", "history", "done"}
  OBVIOUS
<1>. QED BY <1>1, <1>2, <1>3, <1>4, LoginMoves

LEMMA GetByIDInv ==
    ASSUME IInv, NEW n \in DOMAIN logins, GetByID(n)
    PROVE  IInv'
<1>1. PICK j : j = logins[n]
  OBVIOUS
<1>2. j \in LoginRec /\ j.pc = "getbyid" /\ faults \in Nat
  BY <1>1 DEF GetByID, IInv, UserTypeOK, KeyTypeOK
<1>3. PICK to \in {"active", "upsert", "find"} :
          /\ Goto(n, [j EXCEPT !.pc = to])
          /\ to = "active" => j.id \in DOMAIN byID
  BY <1>1 DEF GetByID
<1>4. PICK x : x = [j EXCEPT !.pc = to]
  OBVIOUS
<1>5. x \in LoginRec /\ x.pc = to /\ x.id = j.id
  BY <1>2, <1>4 DEF LoginRec, LoginPcs
<1>6. Goto(n, x) /\ Keep /\ UNCHANGED <<byID, byPhone, faults>>
  BY <1>3, <1>4 DEF GetByID
<1>. QED BY <1>1, <1>2, <1>3, <1>5, <1>6, EarlyLoginMoves

LEMMA GetByPhoneHashInv ==
    ASSUME IInv, NEW n \in DOMAIN logins, GetByPhoneHash(n)
    PROVE  IInv'
<1>1. PICK j : j = logins[n]
  OBVIOUS
<1>2. j \in LoginRec /\ j.pc = "find" /\ faults \in Nat /\ n \in Int
  <2>1. PICK k \in Nat : DOMAIN logins = 1 .. k
    BY DEF IInv, UserTypeOK, Numbered
  <2>2. n \in Int
    BY <2>1
  <2>3. j \in LoginRec /\ j.pc = "find"
    BY <1>1 DEF GetByPhoneHash, IInv, UserTypeOK
  <2>. QED BY <2>2, <2>3 DEF IInv, KeyTypeOK
<1>3. Keep /\ UNCHANGED <<byID, byPhone, faults>>
  BY DEF GetByPhoneHash
<1>4. ASSUME NEW u \in ByPhone(j.phone), Goto(n, [j EXCEPT !.pc = "active", !.id = u])
      PROVE  IInv'
  <2>1. u \in Int /\ (max.pg => u \in DOMAIN byID)
    BY DEF ByPhone, IInv, UserTypeOK
  <2>2. PICK x : x = [j EXCEPT !.pc = "active", !.id = u]
    OBVIOUS
  <2>3. x \in LoginRec /\ x.pc = "active" /\ x.id = u
    BY <1>2, <2>1, <2>2 DEF LoginRec, LoginPcs
  <2>4. Goto(n, x) /\ logins[n].pc # "done" /\ faults' \in Nat /\ faults' >= faults
    BY <1>1, <1>2, <1>3, <1>4, <2>2
  <2>. QED BY <1>3, <2>1, <2>3, <2>4, EarlyLoginMoves
<1>5. ASSUME NEW k \in Int, Goto(n, [j EXCEPT !.pc = "upsert", !.id = k])
      PROVE  IInv'
  <2>1. PICK x : x = [j EXCEPT !.pc = "upsert", !.id = k]
    OBVIOUS
  <2>2. x \in LoginRec /\ x.pc = "upsert"
    BY <1>2, <2>1 DEF LoginRec, LoginPcs
  <2>3. Goto(n, x) /\ logins[n].pc # "done" /\ faults' \in Nat /\ faults' >= faults
    BY <1>1, <1>2, <1>3, <1>5, <2>1
  <2>. QED BY <1>3, <2>2, <2>3, EarlyLoginMoves
<1>6. j.id \in Int
  BY <1>2 DEF LoginRec
<1>. QED BY <1>1, <1>2, <1>4, <1>5, <1>6 DEF GetByPhoneHash

LEMMA StoreFailsInv ==
    ASSUME IInv, NEW n \in DOMAIN logins, StoreFails(n)
    PROVE  IInv'
<1>1. PICK x : x = [logins[n] EXCEPT !.pc = "failed"]
  OBVIOUS
<1>2. logins[n] \in LoginRec /\ logins[n].pc # "done" /\ faults \in Nat
  BY DEF StoreFails, IInv, UserTypeOK, KeyTypeOK
<1>3. x \in LoginRec /\ x.pc = "failed"
  BY <1>1, <1>2 DEF LoginRec, LoginPcs
<1>4. Goto(n, x) /\ Keep /\ UNCHANGED <<byID, byPhone>> /\ faults' = faults + 1
  BY <1>1 DEF StoreFails, Costs
<1>. QED BY <1>2, <1>3, <1>4, EarlyLoginMoves

(* The UNIQUE column lets one row have a number *)
LEMMA UpsertInv ==
    ASSUME IInv, NEW n \in DOMAIN logins, Upsert(n)
    PROVE  IInv'
<1>1. PICK j : j = logins[n]
  OBVIOUS
<1>2. j \in LoginRec /\ j.pc = "upsert" /\ faults \in Nat /\ j.id \in Int
  BY <1>1 DEF Upsert, IInv, UserTypeOK, KeyTypeOK, LoginRec
<1>3. Keep /\ UNCHANGED faults
  BY DEF Upsert
<1>4. CASE Goto(n, [j EXCEPT !.pc = "failed"]) /\ UNCHANGED <<byID, byPhone>>
  <2>1. PICK x : x = [j EXCEPT !.pc = "failed"]
    OBVIOUS
  <2>2. x \in LoginRec /\ x.pc = "failed"
    BY <1>2, <2>1 DEF LoginRec, LoginPcs
  <2>3. Goto(n, x) /\ logins[n].pc # "done" /\ faults' \in Nat /\ faults' >= faults
    BY <1>1, <1>2, <1>3, <1>4, <2>1
  <2>. QED BY <1>3, <1>4, <2>2, <2>3, EarlyLoginMoves
<1>5. CASE /\ ~Conflict(j.id, j.phone)
           /\ byID' = With(byID, j.id, j.phone)
           /\ byPhone' = IF ~max.pg /\ j.phone # NoPhone
                         THEN With(byPhone, j.phone, j.id) ELSE byPhone
           /\ Goto(n, [j EXCEPT !.pc = "active"])
  <2>1. PICK x : x = [j EXCEPT !.pc = "active"]
    OBVIOUS
  <2>2. x \in LoginRec /\ x.pc = "active" /\ x.id = j.id
    BY <1>2, <2>1 DEF LoginRec, LoginPcs
  <2>3. /\ DOMAIN byID' = DOMAIN byID \cup {j.id}
        /\ byID'[j.id] = j.phone
        /\ \A u \in DOMAIN byID : u # j.id => byID'[u] = byID[u]
    BY <1>5 DEF With
  <2>4. \A u \in DOMAIN byID' : u \in Int
    BY <1>2, <2>3 DEF IInv, UserTypeOK
  <2>5. \A p \in DOMAIN byPhone' : byPhone'[p] \in Int
    BY <1>2, <1>5 DEF IInv, UserTypeOK, With
  <2>6. max.pg => /\ DOMAIN byID \subseteq DOMAIN byID'
                  /\ \A u, v \in DOMAIN byID' : byID'[u] = byID'[v] /\ byID'[u] # NoPhone => u = v
                  /\ x.pc \in {"active", "sign", "history", "done"} => x.id \in DOMAIN byID'
    BY <1>5, <2>2, <2>3 DEF IInv, PhoneInv, Conflict
  <2>7. x.pc # "sign" /\ x.pc \notin {"history", "done"} /\ x.pc \notin {"sign", "history", "done"}
    BY <2>2
  <2>8. Goto(n, x) /\ Keep /\ faults' \in Nat /\ faults' >= faults /\ logins[n].pc # "done"
    BY <1>1, <1>2, <1>3, <1>5, <2>1
  <2>. QED BY <2>2, <2>4, <2>5, <2>6, <2>7, <2>8, LoginMoves
<1>. QED BY <1>1, <1>4, <1>5 DEF Upsert

(* A login that signs or has signed: the store and the key records are left alone *)
LEMMA LateLoginMoves ==
    ASSUME IInv, NEW n \in DOMAIN logins, logins[n].pc \in {"active", "sign", "history"},
           NEW x \in LoginRec, Goto(n, x), Keep, faults' \in Nat, faults' >= faults,
           x.id = logins[n].id,
           x.pc = "sign" =>
               /\ <<x.kid, x.key>> \in ever
               /\ max.kind = "vault" /\ rotations = 0 => x.key = 1,
           x.pc \in {"history", "done"} =>
               <<x.kid, x.key>> \in ever \/ (max.kind = "vault" /\ rotations > 0),
           Whole /\ x.pc \in {"sign", "history", "done"} =>
               /\ x.kid \in DOMAIN versions
               /\ versions[x.kid].created = x.exp - TokenTTL - x.age,
           UNCHANGED <<byID, byPhone>>
    PROVE  IInv'
<1>1. \A u \in DOMAIN byID' : u \in Int
  BY DEF IInv, UserTypeOK
<1>2. \A p \in DOMAIN byPhone' : byPhone'[p] \in Int
  BY DEF IInv, UserTypeOK
<1>3. max.pg => /\ DOMAIN byID \subseteq DOMAIN byID'
                /\ \A u, v \in DOMAIN byID' : byID'[u] = byID'[v] /\ byID'[u] # NoPhone => u = v
                /\ x.pc \in {"active", "sign", "history", "done"} => x.id \in DOMAIN byID'
  BY DEF IInv, PhoneInv
<1>4. logins[n].pc # "done"
  OBVIOUS
<1>. QED BY <1>1, <1>2, <1>3, <1>4, LoginMoves

(* signClaims reads kid and key of one record *)
LEMMA TakeKeyInv ==
    ASSUME IInv, NEW n \in DOMAIN logins, TakeKey(n)
    PROVE  IInv'
<1>1. PICK j, r : j = logins[n] /\ r = versions[active]
  OBVIOUS
<1>2. j \in LoginRec /\ j.pc = "active" /\ faults \in Nat /\ now \in Nat
  BY <1>1 DEF TakeKey, IInv, UserTypeOK, KeyTypeOK
<1>3. active \in Nat /\ active \in DOMAIN versions /\ r \in Rec /\ <<active, r.key>> \in ever
  BY <1>1 DEF IInv, KeyTypeOK, KeyInv, Records
<1>4. r.key \in Nat /\ r.created \in Nat /\ TokenTTL \in Nat
  BY <1>3, IdentityAssumption DEF Rec
<1>5. PICK e \in Nat, a \in Int : e = now + TokenTTL /\ a = now - r.created
  BY <1>2, <1>4
<1>6. PICK x : x = [j EXCEPT !.pc = "sign", !.exp = e, !.kid = active, !.key = r.key, !.age = a]
  OBVIOUS
<1>7. /\ x \in LoginRec /\ x.pc = "sign" /\ x.id = j.id /\ x.kid = active /\ x.key = r.key
      /\ x.exp = e /\ x.age = a
  BY <1>2, <1>3, <1>4, <1>6 DEF LoginRec, LoginPcs
<1>8. Goto(n, x)
  BY <1>1, <1>5, <1>6 DEF TakeKey, Active
<1>9. /\ Keep /\ UNCHANGED <<byID, byPhone>> /\ faults' \in Nat /\ faults' >= faults
      /\ logins[n].pc = "active" /\ x.id = logins[n].id
  BY <1>1, <1>2, <1>7 DEF TakeKey
<1>10. <<x.kid, x.key>> \in ever /\ (max.kind = "vault" /\ rotations = 0 => x.key = 1)
  BY <1>1, <1>3, <1>7 DEF IInv, KeyInv
<1>11. x.kid \in DOMAIN versions /\ versions[x.kid].created = x.exp - TokenTTL - x.age
  BY <1>1, <1>2, <1>3, <1>4, <1>5, <1>7
<1>12. x.pc \notin {"history", "done"}
  BY <1>7
<1>. QED BY <1>7, <1>8, <1>9, <1>10, <1>11, <1>12, LateLoginMoves

(* The kid of the token is the one taken with the key *)
LEMMA SignClaimsInv ==
    ASSUME IInv, NEW n \in DOMAIN logins, SignClaims(n)
    PROVE  IInv'
<1>1. PICK j : j = logins[n]
  OBVIOUS
<1>2. j \in LoginRec /\ j.pc = "sign" /\ faults \in Nat /\ vault \in Nat
  BY <1>1 DEF SignClaims, IInv, UserTypeOK, KeyTypeOK
<1>3. Keep /\ UNCHANGED <<byID, byPhone>>
  BY DEF SignClaims
<1>4. ASSUME Goto(n, Signed(j)), UNCHANGED faults
      PROVE  IInv'
  <2>1. PICK x : x = Signed(j)
    OBVIOUS
  <2>2. SigningKey(j) \in Nat
    BY <1>2 DEF SigningKey, LoginRec
  <2>3. /\ x \in LoginRec /\ x.pc = "history" /\ x.id = j.id /\ x.kid = j.kid
        /\ x.key = SigningKey(j) /\ x.exp = j.exp /\ x.age = j.age
    BY <1>2, <2>1, <2>2 DEF Signed, LoginRec, LoginPcs
  <2>4. <<j.kid, j.key>> \in ever /\ (max.kind = "vault" /\ rotations = 0 => j.key = 1 /\ vault = 1)
    BY <1>1, <1>2 DEF IInv, SignInv, KeyInv
  <2>5. <<x.kid, x.key>> \in ever \/ (max.kind = "vault" /\ rotations > 0)
    BY <2>3, <2>4 DEF SigningKey, IInv, KeyTypeOK
  <2>6. Whole => x.kid \in DOMAIN versions /\ versions[x.kid].created = x.exp - TokenTTL - x.age
    BY <1>1, <1>2, <2>3 DEF IInv, HeldInv
  <2>7. Goto(n, x) /\ logins[n].pc = "sign" /\ faults' \in Nat /\ faults' >= faults
    BY <1>1, <1>2, <1>4, <2>1
  <2>. QED BY <1>1, <1>3, <2>3, <2>5, <2>6, <2>7, LateLoginMoves
<1>5. ASSUME Goto(n, [j EXCEPT !.pc = "failed"]), Costs(1)
      PROVE  IInv'
  <2>1. PICK x : x = [j EXCEPT !.pc = "failed"]
    OBVIOUS
  <2>2. x \in LoginRec /\ x.pc = "failed"
    BY <1>2, <2>1 DEF LoginRec, LoginPcs
  <2>3. Goto(n, x) /\ logins[n].pc # "done" /\ faults' \in Nat /\ faults' >= faults
    BY <1>1, <1>2, <1>5, <2>1 DEF Costs
  <2>. QED BY <1>3, <2>2, <2>3, EarlyLoginMoves
<1>. QED BY <1>1, <1>4, <1>5 DEF SignClaims

LEMMA AppendLoginInv ==
    ASSUME IInv, NEW n \in DOMAIN logins, AppendLogin(n)
    PROVE  IInv'
<1>1. PICK j : j = logins[n]
  OBVIOUS
<1>2. j \in LoginRec /\ j.pc = "history" /\ faults \in Nat /\ active \in Nat
  BY <1>1 DEF AppendLogin, IInv, UserTypeOK, KeyTypeOK, KeyInv, Records
<1>3. Keep /\ UNCHANGED <<byID, byPhone>> /\ faults' \in Nat /\ faults' >= faults
  BY <1>2 DEF AppendLogin, Costs
<1>4. PICK x : Goto(n, x) /\ (x = [j EXCEPT !.pc = "done", !.logged = active] \/
                              x = [j EXCEPT !.pc = "done"])
  BY <1>1 DEF AppendLogin, Active
<1>5. /\ x \in LoginRec /\ x.pc = "done" /\ x.id = j.id /\ x.kid = j.kid
      /\ x.key = j.key /\ x.exp = j.exp /\ x.age = j.age
  BY <1>2, <1>4 DEF LoginRec, LoginPcs
<1>6. <<x.kid, x.key>> \in ever \/ (max.kind = "vault" /\ rotations > 0)
  BY <1>1, <1>2, <1>5 DEF IInv, SignInv
<1>7. Whole => x.kid \in DOMAIN versions /\ versions[x.kid].created = x.exp - TokenTTL - x.age
  BY <1>1, <1>2, <1>5 DEF IInv, HeldInv
<1>. QED BY <1>1, <1>2, <1>3, <1>4, <1>5, <1>6, <1>7, LateLoginMoves

----------------------------------------------------------------------------
(***************************************************************************)
(* Rotation, restart and the clock.                                        *)
(***************************************************************************)

(* The records after a rotation: a new key that signs, the others as old as they were *)
LEMMA RetiredRecords ==
    ASSUME now \in Nat, made \in Nat, max.kind = "kms", NEW vs, Records(vs),
           NEW k, k = made + 1, NEW new, new = Retired(With(vs, k, Record(k, "active", now)))
    PROVE  /\ DOMAIN new = DOMAIN vs \cup {k}
           /\ k \notin DOMAIN vs
           /\ new[k] = Record(k, "active", now)
           /\ \A x \in DOMAIN vs : /\ new[x] \in Rec
                                   /\ new[x].key = vs[x].key
                                   /\ new[x].created = vs[x].created
                                   /\ new[x].state = "retired" => Expired(new[x])
<1>1. k \notin DOMAIN vs
  BY DEF Records
<1>2. PICK r, w : r = Record(k, "active", now) /\ w = With(vs, k, r)
  OBVIOUS
<1>3. /\ DOMAIN w = DOMAIN vs \cup {k}
      /\ w[k] = r
      /\ \A x \in DOMAIN vs : w[x] = vs[x]
  BY <1>1, <1>2 DEF With
<1>4. /\ DOMAIN new = DOMAIN w
      /\ \A x \in DOMAIN w : new[x] = IF w[x].state = "retiring" /\ Expired(w[x])
                                      THEN [w[x] EXCEPT !.state = "retired"] ELSE w[x]
  <2>1. new = Retired(w)
    BY <1>2
  <2>. QED BY <2>1 DEF Retired, Expired
<1>5. r.state = "active"
  BY <1>2 DEF Record
<1>6. new[k] = r
  BY <1>3, <1>4, <1>5
<1>7. ASSUME NEW x \in DOMAIN vs
      PROVE  /\ new[x] \in Rec
             /\ new[x].key = vs[x].key
             /\ new[x].created = vs[x].created
             /\ new[x].state = "retired" => Expired(new[x])
  <2>1. vs[x] \in Rec /\ (vs[x].state = "retired" => Expired(vs[x]))
    BY DEF Records
  <2>2. new[x] = IF vs[x].state = "retiring" /\ Expired(vs[x])
                 THEN [vs[x] EXCEPT !.state = "retired"] ELSE vs[x]
    BY <1>3, <1>4
  <2>. QED BY <2>1, <2>2 DEF Rec, States, Expired
<1>. QED BY <1>1, <1>2, <1>3, <1>4, <1>6, <1>7

(* Rotate, of the records of the process or of the ones that were loaded *)
LEMMA RotateRecords ==
    ASSUME KeyTypeOK, KeyInv, max.kind = "kms", NEW old, NEW vs, NEW spent \in Nat,
           Records(vs), DOMAIN old = DOMAIN vs, Rotate(old, vs, spent), UNCHANGED <<now, max>>
    PROVE  /\ Records(versions)' /\ Records(table)'
           /\ active' \in DOMAIN versions' /\ versions'[active'].state = "active"
           /\ made' \in Nat /\ ever \subseteq ever'
           /\ faults' \in Nat /\ faults' >= faults + spent
           /\ \A x \in DOMAIN vs : x \in DOMAIN versions' /\ versions'[x].created = vs[x].created
           /\ max.stored /\ faults' = 0 /\ table = old => table' = versions'
<1>1. PICK k, new : k = made + 1 /\ new = versions'
  OBVIOUS
<1>2. now \in Nat /\ made \in Nat /\ faults \in Nat /\ k \in Nat
  BY <1>1 DEF KeyTypeOK
<1>3. /\ new = Retired(With(vs, k, Record(k, "active", now)))
      /\ active' = k /\ made' = k /\ ever' = ever \cup {<<k, k>>}
      /\ Persist(old, new, k, spent)
  BY <1>1 DEF Rotate
<1>4. /\ DOMAIN new = DOMAIN vs \cup {k}
      /\ k \notin DOMAIN vs
      /\ new[k] = Record(k, "active", now)
      /\ \A x \in DOMAIN vs : /\ new[x] \in Rec
                              /\ new[x].key = vs[x].key
                              /\ new[x].created = vs[x].created
                              /\ new[x].state = "retired" => Expired(new[x])
  BY <1>1, <1>2, <1>3, RetiredRecords
<1>5. new[k] \in Rec /\ new[k].key = k /\ new[k].state = "active"
  BY <1>2, <1>4 DEF Record, Rec, States
<1>6. DOMAIN vs \subseteq 1 .. made /\ DOMAIN table \subseteq 1 .. made
  BY DEF Records, KeyInv
<1>7. DOMAIN new \subseteq 1 .. k
  BY <1>1, <1>2, <1>4, <1>6
<1>8. \A x \in DOMAIN new : /\ new[x] \in Rec
                            /\ <<x, new[x].key>> \in ever'
                            /\ new[x].state = "retired" => Expired(new[x])
  BY <1>3, <1>4, <1>5 DEF Records
<1>9. \A r : Expired(r)' <=> Expired(r)
  BY DEF Expired
<1>10. Records(versions)'
  BY <1>1, <1>2, <1>3, <1>7, <1>8, <1>9 DEF Records
<1>11. ASSUME ~max.stored
       PROVE  UNCHANGED table /\ faults' \in Nat /\ faults' >= faults + spent
  BY <1>2, <1>3, <1>11 DEF Persist, Costs
<1>12. ASSUME max.stored
       PROVE  /\ faults' \in Nat /\ faults' >= faults + spent
              /\ DOMAIN table' \subseteq DOMAIN table \cup {k}
              /\ \A x \in DOMAIN table' : \/ x \in DOMAIN table /\ table'[x] = table[x]
                                          \/ x \in DOMAIN new /\ table'[x] = new[x]
              /\ faults' = 0 /\ table = old => table' = new
  <2>. DEFINE writes == {x \in DOMAIN new : x \notin DOMAIN old \/ new[x] # old[x]}
  <2>2. PICK lost \in SUBSET writes :
            /\ Costs(spent + Cardinality(lost))
            /\ table' = [x \in DOMAIN table \cup ({k} \ lost) |->
                           IF x \in writes \ lost THEN new[x] ELSE table[x]]
    BY <1>3, <1>12 DEF Persist
  <2>1. \A x : x \in writes <=> x \in DOMAIN new /\ (x \notin DOMAIN old \/ new[x] # old[x])
    OBVIOUS
  <2>. HIDE DEF writes
  <2>3. IsFiniteSet(1 .. k)
    BY <1>2, FS_Interval
  <2>4. lost \subseteq 1 .. k
    BY <1>7, <2>1
  <2>5. IsFiniteSet(lost)
    BY <2>3, <2>4, FS_Subset
  <2>6. Cardinality(lost) \in Nat /\ (Cardinality(lost) = 0 => lost = {})
    BY <2>5, FS_CardinalityType, FS_EmptySet
  <2>7. faults' = faults + (spent + Cardinality(lost))
    BY <2>2 DEF Costs
  <2>8. faults' \in Nat /\ faults' >= faults + spent /\ (faults' = 0 => lost = {})
    BY <1>2, <2>6, <2>7
  <2>9. k \in writes /\ writes \subseteq DOMAIN new
    BY <1>4, <2>1
  <2>10. /\ DOMAIN table' = DOMAIN table \cup ({k} \ lost)
         /\ \A x \in DOMAIN table' :
               table'[x] = IF x \in writes \ lost THEN new[x] ELSE table[x]
    BY <2>2
  <2>11. \A x \in DOMAIN table' : \/ x \in DOMAIN table /\ table'[x] = table[x]
                                  \/ x \in DOMAIN new /\ table'[x] = new[x]
    BY <2>9, <2>10
  <2>12. ASSUME lost = {}, table = old
         PROVE  table' = new
    <3>1. DOMAIN table' = DOMAIN new
      BY <1>4, <2>10, <2>12
    <3>2. \A x \in DOMAIN new : table'[x] = new[x]
      BY <1>4, <2>1, <2>10, <2>12, <3>1
    <3>3. table' = [x \in DOMAIN table' |-> table'[x]]
      BY <2>2
    <3>4. new = [x \in DOMAIN new |-> new[x]]
      BY <1>3 DEF Retired
    <3>. QED BY <3>1, <3>2, <3>3, <3>4
  <2>. QED BY <2>8, <2>10, <2>11, <2>12
<1>13. Records(table)'
  <2>1. Records(table)
    BY DEF KeyInv
  <2>2. \A x \in DOMAIN table' : \/ x \in DOMAIN table /\ table'[x] = table[x]
                                 \/ x \in DOMAIN new /\ table'[x] = new[x]
    BY <1>11, <1>12
  <2>3. DOMAIN table' \subseteq 1 .. k
    BY <1>1, <1>2, <1>6, <1>7, <2>2
  <2>4. \A x \in DOMAIN table' : /\ table'[x] \in Rec
                                 /\ <<x, table'[x].key>> \in ever'
                                 /\ table'[x].state = "retired" => Expired(table'[x])
    BY <1>3, <1>8, <2>1, <2>2 DEF Records
  <2>. QED BY <1>2, <1>3, <1>9, <2>3, <2>4 DEF Records
<1>14. made' \in Nat /\ ever \subseteq ever' /\ active' \in DOMAIN versions'
       /\ versions'[active'].state = "active"
  BY <1>1, <1>2, <1>3, <1>4, <1>5
<1>15. \A x \in DOMAIN vs : x \in DOMAIN versions' /\ versions'[x].created = vs[x].created
  BY <1>1, <1>4
<1>. QED BY <1>1, <1>10, <1>11, <1>12, <1>13, <1>14, <1>15

(* The provider's keys change, and requests under way may be lost: what has to
   hold of the new keys for the invariant *)
LEMMA ProviderMoves ==
    ASSUME IInv, KeyTypeOK', KeyInv', UNCHANGED <<now, max, clientVars, sent>>,
           ever \subseteq ever', rotations' >= rotations,
           Whole' => /\ Whole
                     /\ \A k \in DOMAIN versions :
                           k \in DOMAIN versions' /\ versions'[k].created = versions[k].created,
           DOMAIN logins' = DOMAIN logins,
           \A n \in DOMAIN logins :
               \/ logins'[n] = logins[n]
               \/ logins[n].pc # "done" /\ logins'[n] = [logins[n] EXCEPT !.pc = "failed"],
           \A c \in DOMAIN challenges' : challenges'[c] \in [phone : Phones, expires : Nat],
           \A u \in DOMAIN byID' : u \in Int,
           \A p \in DOMAIN byPhone' : byPhone'[p] \in Int,
           max.pg => UNCHANGED byID
    PROVE  IInv'
<1>1. \A n \in DOMAIN logins : /\ logins'[n] \in LoginRec
                               /\ logins'[n] = logins[n] \/ logins'[n].pc = "failed"
  BY DEF IInv, UserTypeOK, LoginRec, LoginPcs
<1>2. UserTypeOK'
  BY <1>1 DEF IInv, UserTypeOK, Numbered
<1>3. TokensStay
  BY DEF TokensStay
<1>4. ClientTypeOK' /\ FetchInv' /\ FreshInv' /\ UnknownOnlyIfOvertaken' /\ StaleKeyBounded'
  BY <1>3, ClientFrame DEF IInv, KeyTypeOK
<1>5. rotations \in Nat /\ rotations' \in Nat
  BY DEF IInv, KeyTypeOK
<1>6. SignInv'
  BY <1>1, <1>5 DEF IInv, SignInv
<1>7. HeldInv'
  BY <1>1 DEF IInv, HeldInv
<1>8. PhoneInv'
  BY <1>1 DEF IInv, PhoneInv
<1>. QED BY <1>2, <1>4, <1>6, <1>7, <1>8 DEF IInv

(* RotateNow: the key that signed is published on, and dated as it was *)
LEMMA RotateNowInv ==
    ASSUME IInv, RotateNow, UNCHANGED <<userVars, clientVars>>
    PROVE  IInv'
<1>1. PICK vs : vs = Retiring(versions)
  OBVIOUS
<1>2. /\ max.kind = "kms" /\ Rotate(versions, vs, 0) /\ rotations' = rotations + 1
      /\ UNCHANGED <<now, vault, restarts, max>>
  BY <1>1 DEF RotateNow
<1>3. /\ KeyTypeOK /\ KeyInv /\ Records(versions) /\ active \in DOMAIN versions
      /\ versions[active].state = "active" /\ versions[active] \in Rec
  BY <1>2 DEF IInv, KeyTypeOK, KeyInv, Records
<1>4. /\ DOMAIN vs = DOMAIN versions
      /\ vs[active] = [versions[active] EXCEPT !.state = "retiring"]
      /\ \A x \in DOMAIN versions : x # active => vs[x] = versions[x]
  BY <1>1, <1>3 DEF Retiring
<1>5. /\ vs[active] \in Rec /\ vs[active].state = "retiring"
      /\ vs[active].key = versions[active].key /\ vs[active].created = versions[active].created
  BY <1>3, <1>4 DEF Rec, States
<1>6. \A x \in DOMAIN versions : vs[x].created = versions[x].created
  BY <1>4, <1>5
<1>7. Records(vs)
  BY <1>3, <1>4, <1>5 DEF Records
<1>8. /\ Records(versions)' /\ Records(table)'
      /\ active' \in DOMAIN versions' /\ versions'[active'].state = "active"
      /\ made' \in Nat /\ ever \subseteq ever'
      /\ faults' \in Nat /\ faults' >= faults + 0
      /\ \A x \in DOMAIN vs : x \in DOMAIN versions' /\ versions'[x].created = vs[x].created
      /\ max.stored /\ faults' = 0 /\ table = versions => table' = versions'
  BY <1>2, <1>3, <1>4, <1>7, RotateRecords
<1>9. faults \in Nat /\ rotations \in Nat
  BY DEF IInv, KeyTypeOK
<1>10. faults' >= faults /\ (faults' = 0 => faults = 0) /\ rotations' >= rotations
  BY <1>2, <1>8, <1>9
<1>11. KeyTypeOK'
  BY <1>2, <1>8, <1>9 DEF IInv, KeyTypeOK
<1>12. KeyInv'
  BY <1>2, <1>3, <1>8, <1>10 DEF KeyInv
<1>13. Whole' => Whole
  BY <1>2, <1>10 DEF Whole
<1>14. \A x \in DOMAIN versions :
           x \in DOMAIN versions' /\ versions'[x].created = versions[x].created
  BY <1>4, <1>6, <1>8
<1>15. UNCHANGED <<challenges, sent, byID, byPhone, logins>>
  BY DEF userVars
<1>16. /\ \A c \in DOMAIN challenges' : challenges'[c] \in [phone : Phones, expires : Nat]
       /\ \A u \in DOMAIN byID' : u \in Int
       /\ \A p \in DOMAIN byPhone' : byPhone'[p] \in Int
  BY <1>15 DEF IInv, UserTypeOK
<1>. QED BY <1>2, <1>8, <1>10, <1>11, <1>12, <1>13, <1>14, <1>15, <1>16, ProviderMoves

(* An operator rotates the key in Vault *)
LEMMA VaultRotateInv ==
    ASSUME IInv, VaultRotate, UNCHANGED <<userVars, clientVars>>
    PROVE  IInv'
<1>1. /\ max.kind = "vault" /\ vault' = vault + 1 /\ rotations' = rotations + 1
      /\ UNCHANGED <<now, versions, active, table, made, ever, restarts, faults, max>>
  BY DEF VaultRotate
<1>2. vault \in Nat /\ rotations \in Nat
  BY DEF IInv, KeyTypeOK
<1>3. KeyTypeOK'
  BY <1>1, <1>2 DEF IInv, KeyTypeOK
<1>4. Records(versions)' /\ Records(table)'
  BY <1>1 DEF IInv, KeyInv, Records, Expired
<1>5. rotations' # 0 /\ rotations' >= rotations
  BY <1>1, <1>2
<1>6. KeyInv'
  BY <1>1, <1>4, <1>5 DEF KeyInv
<1>7. ~Whole'
  BY <1>1 DEF Whole
<1>8. UNCHANGED <<challenges, sent, byID, byPhone, logins>>
  BY DEF userVars
<1>9. /\ \A c \in DOMAIN challenges' : challenges'[c] \in [phone : Phones, expires : Nat]
      /\ \A u \in DOMAIN byID' : u \in Int
      /\ \A p \in DOMAIN byPhone' : byPhone'[p] \in Int
  BY <1>8 DEF IInv, UserTypeOK
<1>. QED BY <1>1, <1>3, <1>5, <1>6, <1>7, <1>8, <1>9, ProviderMoves

(* NewProvider: a provider made from the table, a file, Vault or nothing holds
   good records; with an intact table it holds the same ones as before *)
LEMMA NewMockKmsRecords ==
    ASSUME IInv, NEW failed \in BOOLEAN, max.kind = "kms", NewMockKms(failed),
           failed => max.stored, UNCHANGED <<now, max>>
    PROVE  /\ Records(versions)' /\ Records(table)'
           /\ active' \in DOMAIN versions' /\ versions'[active'].state = "active"
           /\ made' \in Nat /\ ever \subseteq ever' /\ faults' \in Nat /\ faults' >= faults
           /\ max.stored /\ faults' = 0 => table' = versions' /\ versions' = versions
<1>1. PICK loaded : loaded = IF max.stored /\ ~failed THEN table ELSE None
  OBVIOUS
<1>. DEFINE actives == {k \in DOMAIN loaded : loaded[k].state = "active"}
<1>2. \A k : k \in actives <=> k \in DOMAIN loaded /\ loaded[k].state = "active"
  OBVIOUS
<1>3. \/ /\ actives # {}
         /\ active' \in actives
         /\ versions' = loaded
         /\ UNCHANGED <<table, made, ever, faults>>
      \/ /\ actives = {}
         /\ Rotate(loaded, loaded, IF failed THEN 1 ELSE 0)
  BY <1>1 DEF NewMockKms
<1>. HIDE DEF actives
<1>4. /\ KeyTypeOK /\ KeyInv /\ Records(table) /\ faults \in Nat /\ made \in Nat
      /\ active \in DOMAIN versions /\ versions[active].state = "active"
      /\ max.stored /\ faults = 0 => table = versions
  BY DEF IInv, KeyInv, KeyTypeOK
<1>5. DOMAIN None = {}
  BY DEF None
<1>6. Records(loaded)
  BY <1>1, <1>4, <1>5 DEF Records
<1>7. ASSUME actives # {}, active' \in actives, versions' = loaded,
             UNCHANGED <<table, made, ever, faults>>
      PROVE  /\ Records(versions)' /\ Records(table)'
             /\ active' \in DOMAIN versions' /\ versions'[active'].state = "active"
             /\ made' \in Nat /\ ever \subseteq ever' /\ faults' \in Nat /\ faults' >= faults
             /\ max.stored /\ faults' = 0 => table' = versions' /\ versions' = versions
  <2>1. loaded = table
    BY <1>1, <1>2, <1>5, <1>7
  <2>2. Records(versions)' /\ Records(table)'
    BY <1>4, <1>7, <2>1 DEF Records, Expired
  <2>. QED BY <1>2, <1>4, <1>7, <2>1, <2>2
<1>8. ASSUME actives = {}, Rotate(loaded, loaded, IF failed THEN 1 ELSE 0)
      PROVE  /\ Records(versions)' /\ Records(table)'
             /\ active' \in DOMAIN versions' /\ versions'[active'].state = "active"
             /\ made' \in Nat /\ ever \subseteq ever' /\ faults' \in Nat /\ faults' >= faults
             /\ max.stored /\ faults' = 0 => table' = versions' /\ versions' = versions
  <2>1. PICK spent \in Nat : spent = (IF failed THEN 1 ELSE 0) /\ Rotate(loaded, loaded, spent)
    BY <1>8
  <2>2. /\ Records(versions)' /\ Records(table)'
        /\ active' \in DOMAIN versions' /\ versions'[active'].state = "active"
        /\ made' \in Nat /\ ever \subseteq ever'
        /\ faults' \in Nat /\ faults' >= faults + spent
    BY <1>4, <1>6, <2>1, RotateRecords
  <2>3. ASSUME max.stored, faults' = 0
        PROVE  FALSE
    <3>1. spent = 0 /\ faults = 0
      BY <1>4, <2>2, <2>3
    <3>2. loaded = versions
      BY <1>1, <1>4, <2>1, <2>3, <3>1
    <3>. QED BY <1>2, <1>4, <1>8, <3>2
  <2>4. faults' >= faults
    BY <1>4, <2>2
  <2>. QED BY <2>2, <2>3, <2>4
<1>. QED BY <1>3, <1>7, <1>8

LEMMA NewProviderKeys ==
    ASSUME IInv, NEW failed \in BOOLEAN, NewProvider(failed), restarts' \in Nat,
           UNCHANGED <<now, vault, rotations, max>>
    PROVE  /\ KeyTypeOK' /\ KeyInv' /\ ever \subseteq ever' /\ faults' >= faults
           /\ max.kind = "kms" /\ max.stored /\ faults' = 0 => versions' = versions
<1>1. /\ KeyTypeOK /\ KeyInv /\ Records(table) /\ faults \in Nat /\ made \in Nat /\ now \in Nat
      /\ vault \in Nat \ {0}
  BY DEF IInv, KeyInv, KeyTypeOK
<1>2. \A r : Expired(r)' <=> Expired(r)
  BY DEF Expired
<1>3. CASE max.kind = "kms"
  <2>1. NewMockKms(failed) /\ (failed => max.stored)
    BY <1>3 DEF NewProvider
  <2>2. /\ Records(versions)' /\ Records(table)'
        /\ active' \in DOMAIN versions' /\ versions'[active'].state = "active"
        /\ made' \in Nat /\ ever \subseteq ever' /\ faults' \in Nat /\ faults' >= faults
        /\ max.stored /\ faults' = 0 => table' = versions' /\ versions' = versions
    BY <1>3, <2>1, NewMockKmsRecords
  <2>3. KeyTypeOK'
    BY <1>1, <2>2 DEF KeyTypeOK
  <2>4. KeyInv'
    BY <1>3, <2>2 DEF KeyInv
  <2>. QED BY <2>2, <2>3, <2>4
<1>4. CASE max.kind \in {"file", "ephemeral"}
  <2>1. LoadOrCreateRS
    BY <1>4 DEF NewProvider
  <2>2. PICK kid \in Nat, key \in Nat :
            /\ versions' = With(None, kid, Record(key, "active", now))
            /\ active' = kid
            /\ ever' = ever \cup {<<kid, key>>}
    BY <1>1, <2>1 DEF LoadOrCreateRS
  <2>3. made' \in Nat /\ UNCHANGED <<table, faults>>
    BY <1>1, <2>1 DEF LoadOrCreateRS
  <2>4. PICK r : r = Record(key, "active", now)
    OBVIOUS
  <2>5. r \in Rec /\ r.key = key /\ r.state = "active"
    BY <1>1, <2>4 DEF Record, Rec, States
  <2>6. DOMAIN versions' = {kid} /\ versions'[kid] = r
    BY <2>2, <2>4 DEF With, None
  <2>7. Records(versions)'
    BY <1>4, <2>2, <2>5, <2>6 DEF Records
  <2>8. Records(table)'
    BY <1>1, <1>2, <1>4, <2>2, <2>3 DEF Records
  <2>9. KeyTypeOK'
    BY <1>1, <2>2, <2>3, <2>6 DEF KeyTypeOK
  <2>10. KeyInv'
    BY <1>4, <2>7, <2>8 DEF KeyInv
  <2>. QED BY <1>1, <1>4, <2>2, <2>3, <2>9, <2>10
<1>5. CASE max.kind = "vault"
  <2>1. VaultRefresh
    BY <1>5 DEF NewProvider
  <2>2. /\ DOMAIN versions' = 1 .. vault
        /\ \A v \in 1 .. vault : versions'[v] = Record(v, "active", now)
        /\ active' = vault
        /\ ever \subseteq ever'
        /\ \A v \in 1 .. vault : <<v, v>> \in ever'
        /\ UNCHANGED <<table, made, faults>>
    BY <2>1 DEF VaultRefresh
  <2>3. \A v \in 1 .. vault : versions'[v] \in Rec /\ versions'[v].key = v
                              /\ versions'[v].state = "active"
    BY <1>1, <2>2 DEF Record, Rec, States
  <2>4. Records(versions)'
    BY <1>5, <2>2, <2>3 DEF Records
  <2>5. Records(table)'
    BY <1>1, <1>2, <1>5, <2>2 DEF Records
  <2>6. KeyTypeOK'
    BY <1>1, <2>2 DEF KeyTypeOK
  <2>7. rotations' = 0 => vault' = 1 /\ \A k \in DOMAIN versions' : versions'[k].key = 1
    <3>1. SUFFICES ASSUME rotations = 0
                   PROVE  vault = 1 /\ \A k \in 1 .. vault : versions'[k].key = 1
      BY <2>2
    <3>2. vault = 1
      BY <1>1, <1>5, <3>1 DEF KeyInv
    <3>. QED BY <2>3, <3>2
  <2>8. KeyInv'
    BY <1>5, <2>4, <2>5, <2>7 DEF KeyInv
  <2>. QED BY <1>1, <1>5, <2>2, <2>6, <2>8
<1>. QED BY <1>3, <1>4, <1>5 DEF NewProvider

(* user-svc starts again *)
LEMMA RestartInv ==
    ASSUME IInv, Restart
    PROVE  IInv'
<1>1. PICK failed \in BOOLEAN : NewProvider(failed)
  BY DEF Restart
<1>2. /\ restarts' = restarts + 1
      /\ UNCHANGED <<now, vault, rotations, max, sent, clientVars>>
  BY DEF Restart
<1>3. restarts \in Nat /\ rotations \in Nat /\ faults \in Nat
  BY DEF IInv, KeyTypeOK
<1>4. restarts' \in Nat /\ restarts' # 0 /\ rotations' >= rotations
  BY <1>2, <1>3
<1>5. /\ KeyTypeOK' /\ KeyInv' /\ ever \subseteq ever' /\ faults' >= faults
      /\ max.kind = "kms" /\ max.stored /\ faults' = 0 => versions' = versions
  BY <1>1, <1>2, <1>4, NewProviderKeys
<1>6. faults' = 0 => faults = 0
  BY <1>3, <1>5
<1>7. Whole' => /\ Whole
                /\ \A k \in DOMAIN versions :
                      k \in DOMAIN versions' /\ versions'[k].created = versions[k].created
  BY <1>2, <1>4, <1>5, <1>6 DEF Whole
<1>8. /\ DOMAIN logins' = DOMAIN logins
      /\ \A n \in DOMAIN logins :
            \/ logins'[n] = logins[n]
            \/ logins[n].pc # "done" /\ logins'[n] = [logins[n] EXCEPT !.pc = "failed"]
  BY DEF Restart
<1>9. DOMAIN None = {}
  BY DEF None
<1>10. \A c \in DOMAIN challenges' : challenges'[c] \in [phone : Phones, expires : Nat]
  BY <1>9 DEF Restart
<1>11. (max.pg => UNCHANGED byID) /\ \/ UNCHANGED <<byID, byPhone>>
                                     \/ byID' = None /\ byPhone' = None
  BY DEF Restart
<1>12. /\ \A u \in DOMAIN byID' : u \in Int
       /\ \A p \in DOMAIN byPhone' : byPhone'[p] \in Int
  BY <1>9, <1>11 DEF IInv, UserTypeOK
<1>. QED BY <1>2, <1>4, <1>5, <1>7, <1>8, <1>10, <1>11, <1>12, ProviderMoves

(* Keys only grow older *)
LEMMA TickInv ==
    ASSUME IInv, Tick
    PROVE  IInv'
<1>1. /\ now' = now + 1
      /\ UNCHANGED <<faults, versions, active, table, vault, made, ever, rotations, restarts, max>>
      /\ UNCHANGED <<challenges, sent, byID, byPhone, logins>>
      /\ UNCHANGED clientVars
  BY DEF Tick, keyVars, userVars
<1>2. now \in Nat /\ now' \in Nat /\ now' >= now
  BY <1>1 DEF IInv, KeyTypeOK
<1>3. KeyTypeOK'
  BY <1>1, <1>2 DEF IInv, KeyTypeOK
<1>4. \A r \in Rec : Expired(r) => Expired(r)'
  BY <1>1, <1>2, KeyAssumption DEF Expired, Rec
<1>5. Records(versions)'
  BY <1>1, <1>4 DEF IInv, KeyInv, Records
<1>6. Records(table)'
  BY <1>1, <1>4 DEF IInv, KeyInv, Records
<1>7. KeyInv'
  BY <1>1, <1>5, <1>6 DEF IInv, KeyInv
<1>8. UserTypeOK'
  BY <1>1 DEF IInv, UserTypeOK, Numbered
<1>9. SignInv' /\ HeldInv' /\ PhoneInv'
  BY <1>1 DEF IInv, SignInv, HeldInv, Whole, PhoneInv
<1>10. ClientTypeOK' /\ FetchInv' /\ FreshInv' /\ UnknownOnlyIfOvertaken' /\ StaleKeyBounded'
  BY <1>1, <1>2, ClientFrame DEF TokensStay
<1>. QED BY <1>3, <1>7, <1>8, <1>9, <1>10 DEF IInv

----------------------------------------------------------------------------
(***************************************************************************)
(* The verifier.                                                           *)
(***************************************************************************)

(* A verifier's step leaves user-svc alone *)
LEMMA UserFrame ==
    ASSUME IInv, KeepUsers, faults' \in Nat, faults' >= faults
    PROVE  KeyTypeOK' /\ KeyInv' /\ UserTypeOK' /\ SignInv' /\ HeldInv' /\ PhoneInv'
<1>1. /\ UNCHANGED <<now, keyVars>>
      /\ UNCHANGED <<now, versions, active, table, vault, made, ever, rotations, restarts, max>>
      /\ UNCHANGED <<challenges, sent, byID, byPhone, logins>>
  BY DEF KeepUsers, keyVars, userVars
<1>2. KeyTypeOK' /\ KeyInv'
  BY <1>1, KeyFrame DEF IInv
<1>3. UserTypeOK'
  BY <1>1 DEF IInv, UserTypeOK, Numbered
<1>4. Whole' => Whole
  BY <1>1 DEF Whole, IInv, KeyTypeOK
<1>5. SignInv' /\ HeldInv' /\ PhoneInv'
  BY <1>1, <1>4 DEF IInv, SignInv, HeldInv, PhoneInv
<1>. QED BY <1>2, <1>3, <1>5

(* A verification goes on: what has to hold of its new state for the invariant *)
LEMMA CheckMoves ==
    ASSUME IInv, NEW v \in DOMAIN checks, NEW x \in CheckRec, GotoCheck(v, x), KeepUsers,
           faults' \in Nat, faults' >= faults,
           cache' \in CacheRec, fetches' \in Nat, fetches' >= fetches, cache'.from <= fetches',
           x.login = checks[v].login, x.began = checks[v].began, x.from <= fetches',
           x.from = checks[v].from \/ x.from > fetches,
           x.pc # "done" => x.res = "none",
           x.pc = "store" => x.from > 0,
           x.pc = "look" /\ x.round = 2 /\ ~x.failed => x.from > 0,
           cache'.from = x.from /\ x.from > 0 => cache'.keys = x.got,
           \A w \in DOMAIN checks : w # v /\ cache'.from = checks[w].from /\ checks[w].from > 0
                                       => cache'.keys = checks[w].got,
           cache'.at = cache.at \/ cache'.at = now,
           x.pc = "look" /\ ~x.failed => cache'.at + JwksTTL >= x.began,
           x.res = "unknown" =>
               \/ x.failed
               \/ /\ x.round = 2
                  /\ logins[x.login].kid \notin DOMAIN x.got \/ x.used.from # x.from,
           x.res = "badsig" => x.failed \/ x.used.at + JwksTTL >= x.began
    PROVE  IInv'
<1>1. KeyTypeOK' /\ KeyInv' /\ UserTypeOK' /\ SignInv' /\ HeldInv' /\ PhoneInv'
  BY UserFrame
<1>2. UNCHANGED <<now, logins>> /\ Tokens' = Tokens
  BY DEF KeepUsers, userVars, Tokens
<1>3. /\ DOMAIN checks' = DOMAIN checks
      /\ checks'[v] = x
      /\ \A w \in DOMAIN checks : w # v => checks'[w] = checks[w]
  BY DEF GotoCheck
<1>4. ClientTypeOK'
  BY <1>3 DEF IInv, ClientTypeOK, Numbered
<1>5. /\ now \in Nat /\ cache.at \in Nat /\ fetches \in Nat /\ JwksTTL \in Nat
      /\ \A w \in DOMAIN checks : checks[w].began \in Nat /\ checks[w].from \in Nat
  BY IdentityAssumption DEF IInv, KeyTypeOK, ClientTypeOK, CacheRec, CheckRec
<1>6. \A w \in DOMAIN checks : w # v => x.from # checks[w].from \/ ~(x.from > 0)
  BY <1>5 DEF IInv, FetchInv
<1>7. \A w \in DOMAIN checks' : /\ checks'[w].login \in Tokens'
                                /\ checks'[w].from <= fetches'
                                /\ checks'[w].pc # "done" => checks'[w].res = "none"
                                /\ checks'[w].pc = "store" => checks'[w].from > 0
                                /\ checks'[w].pc = "look" /\ checks'[w].round = 2 /\ ~checks'[w].failed
                                      => checks'[w].from > 0
                                /\ cache'.from = checks'[w].from /\ checks'[w].from > 0
                                      => cache'.keys = checks'[w].got
  BY <1>2, <1>3, <1>5 DEF IInv, FetchInv
<1>8. FetchInv'
  BY <1>3, <1>6, <1>7 DEF IInv, FetchInv
<1>9. FreshInv'
  BY <1>2, <1>3, <1>5 DEF IInv, FreshInv
<1>10. UnknownOnlyIfOvertaken'
  BY <1>2, <1>3 DEF IInv, UnknownOnlyIfOvertaken
<1>11. StaleKeyBounded'
  BY <1>3 DEF IInv, StaleKeyBounded
<1>. QED BY <1>1, <1>4, <1>8, <1>9, <1>10, <1>11 DEF IInv

(* Parse *)
LEMMA ParseInv ==
    ASSUME IInv, NEW n \in DOMAIN logins, Parse(n)
    PROVE  IInv'
<1>1. PICK pc \in {"fetch", "look"} :
          checks' = Add(checks, Check(n, pc)) /\ (pc = "look" => ~Stale)
  BY DEF Parse
<1>2. /\ n \in Tokens /\ KeepUsers /\ UNCHANGED <<cache, fetches, faults>>
      /\ Numbered(checks) /\ faults \in Nat /\ now \in Nat /\ cache \in CacheRec /\ n \in Nat
  BY DEF Parse, IInv, ClientTypeOK, KeyTypeOK, UserTypeOK, Numbered
<1>3. PICK x : x = Check(n, pc)
  OBVIOUS
<1>4. /\ x \in CheckRec /\ x.login = n /\ x.pc = pc /\ x.round = 1 /\ x.began = now
      /\ x.from = 0 /\ x.res = "none"
  BY <1>2, <1>3, NoKeys DEF Check, CheckRec
<1>5. PICK c : c = NextNumber(checks)
  OBVIOUS
<1>6. /\ c \notin DOMAIN checks
      /\ DOMAIN checks' = DOMAIN checks \cup {c}
      /\ checks'[c] = x
      /\ \A v \in DOMAIN checks : checks'[v] = checks[v]
      /\ Numbered(checks')
  BY <1>1, <1>2, <1>3, <1>5, AddNumber
<1>7. KeyTypeOK' /\ KeyInv' /\ UserTypeOK' /\ SignInv' /\ HeldInv' /\ PhoneInv'
  BY <1>2, UserFrame
<1>8. UNCHANGED <<now, logins>> /\ Tokens' = Tokens
  BY <1>2 DEF KeepUsers, userVars, Tokens
<1>9. ClientTypeOK'
  <2>1. \A v \in DOMAIN checks' : checks'[v] \in CheckRec
    BY <1>4, <1>6 DEF IInv, ClientTypeOK
  <2>. QED BY <1>2, <1>6, <2>1 DEF IInv, ClientTypeOK
<1>10. FetchInv'
  <2>1. fetches \in Nat
    BY DEF IInv, ClientTypeOK
  <2>. QED BY <1>2, <1>4, <1>6, <1>8, <2>1 DEF IInv, FetchInv
<1>11. FreshInv'
  <2>1. pc = "look" => cache.at + JwksTTL >= now
    BY <1>1, <1>2, IdentityAssumption DEF Stale, CacheRec
  <2>. QED BY <1>2, <1>4, <1>6, <1>8, <2>1 DEF IInv, FreshInv
<1>12. UnknownOnlyIfOvertaken' /\ StaleKeyBounded'
  BY <1>4, <1>6, <1>8 DEF IInv, UnknownOnlyIfOvertaken, StaleKeyBounded
<1>. QED BY <1>7, <1>9, <1>10, <1>11, <1>12 DEF IInv

(* Refresh: the answer, an answer without user-svc, or none *)
LEMMA FetchStepInv ==
    ASSUME IInv, NEW v \in DOMAIN checks, Fetch(v)
    PROVE  IInv'
<1>1. PICK c, f : c = checks[v] /\ f = fetches + 1
  OBVIOUS
<1>2. /\ c \in CheckRec /\ c.pc = "fetch" /\ fetches' = f /\ KeepUsers /\ UNCHANGED cache
      /\ fetches \in Nat /\ faults \in Nat /\ cache \in CacheRec /\ c.res = "none"
      /\ cache.from <= fetches /\ c.from <= fetches
      /\ \A w \in DOMAIN checks : cache.from = checks[w].from /\ checks[w].from > 0
                                     => cache.keys = checks[w].got
  BY <1>1 DEF Fetch, IInv, ClientTypeOK, KeyTypeOK, FetchInv
<1>3. f \in Nat /\ f > fetches /\ f > 0 /\ cache.from \in Nat /\ c.from \in Nat
  BY <1>1, <1>2 DEF CacheRec, CheckRec
<1>4. PublicJWKS \in KeySets /\ None \in KeySets
  BY JwksKeys, NoKeys DEF IInv, KeyInv
<1>5. ASSUME NEW g \in KeySets, NEW b \in BOOLEAN, faults' \in Nat, faults' >= faults,
             GotoCheck(v, [c EXCEPT !.pc = "store", !.got = g, !.from = f, !.failed = b])
      PROVE  IInv'
  <2>1. PICK x : x = [c EXCEPT !.pc = "store", !.got = g, !.from = f, !.failed = b]
    OBVIOUS
  <2>2. /\ x \in CheckRec /\ x.pc = "store" /\ x.from = f /\ x.res = "none"
        /\ x.login = c.login /\ x.began = c.began
    BY <1>2, <1>3, <1>5, <2>1 DEF CheckRec
  <2>3. GotoCheck(v, x)
    BY <1>5, <2>1
  <2>4. cache'.from # x.from
    BY <1>2, <1>3, <2>2
  <2>5. x.login = checks[v].login /\ x.began = checks[v].began
    BY <1>1, <2>2
  <2>6. x.from > fetches /\ x.from <= fetches' /\ cache'.from <= fetches' /\ fetches' >= fetches
        /\ fetches' \in Nat /\ x.from > 0 /\ cache' \in CacheRec
    BY <1>2, <1>3, <2>2
  <2>7. \A w \in DOMAIN checks : w # v /\ cache'.from = checks[w].from /\ checks[w].from > 0
                                    => cache'.keys = checks[w].got
    BY <1>2
  <2>. QED BY <1>2, <1>5, <2>2, <2>3, <2>4, <2>5, <2>6, <2>7, CheckMoves
<1>6. ASSUME NEW p \in {"look", "done"}, NEW r \in {"none", "unknown"}, p = "look" => r = "none",
             faults' \in Nat, faults' >= faults,
             GotoCheck(v, [c EXCEPT !.pc = p, !.res = r, !.failed = TRUE])
      PROVE  IInv'
  <2>1. PICK x : x = [c EXCEPT !.pc = p, !.res = r, !.failed = TRUE]
    OBVIOUS
  <2>2. /\ x \in CheckRec /\ x.pc = p /\ x.from = c.from /\ x.res = r /\ x.got = c.got
        /\ x.login = c.login /\ x.began = c.began /\ x.failed = TRUE
    BY <1>2, <1>6, <2>1 DEF CheckRec
  <2>3. GotoCheck(v, x)
    BY <1>6, <2>1
  <2>4. x.login = checks[v].login /\ x.began = checks[v].began /\ x.from = checks[v].from
    BY <1>1, <2>2
  <2>5. x.from <= fetches' /\ cache'.from <= fetches' /\ fetches' >= fetches
        /\ fetches' \in Nat /\ cache' \in CacheRec /\ cache'.at = cache.at
    BY <1>2, <1>3, <2>2
  <2>6. \A w \in DOMAIN checks : w # v /\ cache'.from = checks[w].from /\ checks[w].from > 0
                                    => cache'.keys = checks[w].got
    BY <1>2
  <2>7. cache'.from = x.from /\ x.from > 0 => cache'.keys = x.got
    BY <1>1, <1>2, <2>2
  <2>8. x.pc # "store" /\ (x.pc # "done" => x.res = "none") /\ x.failed /\ x.res # "badsig"
    BY <1>6, <2>2
  <2>. QED BY <1>2, <1>6, <2>2, <2>3, <2>4, <2>5, <2>6, <2>7, <2>8, CheckMoves
<1>7. CASE GotoCheck(v, [c EXCEPT !.pc = "store", !.got = PublicJWKS, !.from = f])
           /\ UNCHANGED faults
  <2>1. PICK b \in BOOLEAN : b = c.failed
    BY <1>2 DEF CheckRec
  <2>2. [c EXCEPT !.pc = "store", !.got = PublicJWKS, !.from = f]
            = [c EXCEPT !.pc = "store", !.got = PublicJWKS, !.from = f, !.failed = b]
    BY <1>2, <2>1 DEF CheckRec
  <2>3. GotoCheck(v, [c EXCEPT !.pc = "store", !.got = PublicJWKS, !.from = f, !.failed = b])
    BY <1>7, <2>2
  <2>4. faults' \in Nat /\ faults' >= faults
    BY <1>2, <1>7
  <2>. QED BY <1>4, <1>5, <2>3, <2>4
<1>8. CASE GotoCheck(v, [c EXCEPT !.pc = "store", !.got = None, !.from = f, !.failed = TRUE])
           /\ Costs(1)
  <2>1. faults' \in Nat /\ faults' >= faults
    BY <1>2, <1>8 DEF Costs
  <2>. QED BY <1>4, <1>5, <1>8, <2>1
<1>9. CASE GotoCheck(v, [c EXCEPT !.pc = IF c.round = 1 THEN "look" ELSE "done",
                                  !.res = IF c.round = 1 THEN c.res ELSE "unknown",
                                  !.failed = TRUE])
           /\ Costs(1)
  <2>1. faults' \in Nat /\ faults' >= faults
    BY <1>2, <1>9 DEF Costs
  <2>2. PICK p \in {"look", "done"}, r \in {"none", "unknown"} :
            /\ p = "look" => r = "none"
            /\ p = (IF c.round = 1 THEN "look" ELSE "done")
            /\ r = (IF c.round = 1 THEN c.res ELSE "unknown")
    BY <1>2
  <2>3. GotoCheck(v, [c EXCEPT !.pc = p, !.res = r, !.failed = TRUE])
    BY <1>9, <2>2
  <2>. QED BY <1>6, <2>1, <2>2, <2>3
<1>. QED BY <1>1, <1>2, <1>7, <1>8, <1>9 DEF Fetch

LEMMA StoreStepInv ==
    ASSUME IInv, NEW v \in DOMAIN checks, Store(v)
    PROVE  IInv'
<1>1. PICK c : c = checks[v]
  OBVIOUS
<1>2. /\ c \in CheckRec /\ c.pc = "store" /\ KeepUsers /\ UNCHANGED <<fetches, faults>>
      /\ cache' = [keys |-> c.got, at |-> now, from |-> c.from]
      /\ GotoCheck(v, [c EXCEPT !.pc = "look"])
      /\ fetches \in Nat /\ faults \in Nat /\ now \in Nat
  BY <1>1 DEF Store, IInv, ClientTypeOK, KeyTypeOK
<1>3. /\ c.res = "none" /\ c.from <= fetches /\ c.from > 0 /\ c.began <= now
      /\ \A w \in DOMAIN checks : checks[v].from = checks[w].from /\ checks[v].from > 0 => v = w
  BY <1>1, <1>2 DEF IInv, FetchInv, FreshInv
<1>4. PICK x : x = [c EXCEPT !.pc = "look"]
  OBVIOUS
<1>5. /\ x \in CheckRec /\ x.pc = "look" /\ x.from = c.from /\ x.res = "none" /\ x.got = c.got
      /\ x.login = c.login /\ x.began = c.began
  BY <1>2, <1>3, <1>4 DEF CheckRec
<1>6. cache' \in CacheRec /\ cache'.from = c.from /\ cache'.keys = c.got /\ cache'.at = now
  BY <1>2 DEF CacheRec, CheckRec
<1>7. GotoCheck(v, x) /\ faults' \in Nat /\ faults' >= faults /\ fetches' \in Nat
      /\ fetches' >= fetches
  BY <1>2, <1>4
<1>8. x.login = checks[v].login /\ x.began = checks[v].began /\ x.from = checks[v].from
  BY <1>1, <1>5
<1>9. cache'.from <= fetches' /\ x.from <= fetches' /\ x.from > 0
  BY <1>2, <1>3, <1>5, <1>6
<1>10. \A w \in DOMAIN checks : w # v /\ cache'.from = checks[w].from /\ checks[w].from > 0
                                   => cache'.keys = checks[w].got
  BY <1>1, <1>3, <1>6
<1>11. cache'.keys = x.got
  BY <1>5, <1>6
<1>12. cache'.at + JwksTTL >= x.began
  BY <1>2, <1>3, <1>5, <1>6, IdentityAssumption DEF CheckRec
<1>. QED BY <1>2, <1>5, <1>6, <1>7, <1>8, <1>9, <1>10, <1>11, <1>12, CheckMoves

(* The key of the kid, one more refresh, or a refusal *)
LEMMA LookInv ==
    ASSUME IInv, NEW v \in DOMAIN checks, Look(v)
    PROVE  IInv'
<1>1. PICK c, j : c = checks[v] /\ j = logins[c.login]
  OBVIOUS
<1>2. /\ c \in CheckRec /\ c.pc = "look" /\ KeepUsers /\ UNCHANGED <<cache, fetches, faults>>
      /\ fetches \in Nat /\ faults \in Nat /\ cache \in CacheRec
  BY <1>1 DEF Look, IInv, ClientTypeOK, KeyTypeOK
<1>3. /\ c.res = "none" /\ c.from <= fetches /\ cache.from <= fetches
      /\ c.round = 2 /\ ~c.failed => c.from > 0
      /\ ~c.failed => cache.at + JwksTTL >= c.began
      /\ \A w \in DOMAIN checks : cache.from = checks[w].from /\ checks[w].from > 0
                                     => cache.keys = checks[w].got
  BY <1>1, <1>2 DEF IInv, FetchInv, FreshInv
<1>4. /\ faults' \in Nat /\ faults' >= faults /\ fetches' \in Nat /\ fetches' >= fetches
      /\ cache' \in CacheRec /\ cache'.from <= fetches' /\ cache'.at = cache.at
      /\ \A w \in DOMAIN checks : w # v /\ cache'.from = checks[w].from /\ checks[w].from > 0
                                   => cache'.keys = checks[w].got
  BY <1>2, <1>3
<1>5. ASSUME NEW x \in CheckRec, GotoCheck(v, x), x.pc \in {"fetch", "done"},
             x.from = c.from, x.got = c.got, x.login = c.login, x.began = c.began,
             x.pc = "fetch" => x.res = "none",
             x.res = "unknown" =>
               \/ x.failed
               \/ /\ x.round = 2
                  /\ logins[x.login].kid \notin DOMAIN x.got \/ x.used.from # x.from,
             x.res = "badsig" => x.failed \/ x.used.at + JwksTTL >= x.began
      PROVE  IInv'
  <2>1. x.login = checks[v].login /\ x.began = checks[v].began /\ x.from = checks[v].from
    BY <1>1, <1>5
  <2>2. x.from <= fetches'
    BY <1>2, <1>3, <1>5
  <2>3. cache'.from = x.from /\ x.from > 0 => cache'.keys = x.got
    BY <1>1, <1>2, <1>3, <1>5
  <2>4. x.pc # "look" /\ x.pc # "store" /\ (x.pc # "done" => x.res = "none")
    BY <1>5
  <2>. QED BY <1>2, <1>4, <1>5, <2>1, <2>2, <2>3, <2>4, CheckMoves
<1>6. CASE GotoCheck(v, [c EXCEPT !.pc = "done", !.used = cache, !.res = Verdict(j)])
  <2>1. PICK r : r = Verdict(j)
    OBVIOUS
  <2>2. r \in {"badsig", "expired", "accepted"}
    BY <2>1 DEF Verdict
  <2>3. PICK x : x = [c EXCEPT !.pc = "done", !.used = cache, !.res = r]
    OBVIOUS
  <2>4. /\ x \in CheckRec /\ x.pc = "done" /\ x.from = c.from /\ x.got = c.got /\ x.res = r
        /\ x.login = c.login /\ x.began = c.began /\ x.failed = c.failed /\ x.used = cache
    BY <1>2, <2>2, <2>3 DEF CheckRec
  <2>5. GotoCheck(v, x)
    BY <1>6, <2>1, <2>3
  <2>6. x.failed \/ x.used.at + JwksTTL >= x.began
    BY <1>3, <2>4
  <2>7. x.res # "unknown" /\ x.pc # "fetch"
    BY <2>2, <2>4
  <2>. QED BY <1>5, <2>4, <2>5, <2>6, <2>7
<1>7. CASE j.kid \notin DOMAIN cache.keys /\ GotoCheck(v, OnMiss(c)) /\ c.round = 1
  <2>1. PICK x : x = [c EXCEPT !.pc = "fetch", !.round = 2]
    OBVIOUS
  <2>2. /\ x \in CheckRec /\ x.pc = "fetch" /\ x.from = c.from /\ x.got = c.got /\ x.res = "none"
        /\ x.login = c.login /\ x.began = c.began
    BY <1>2, <1>3, <2>1 DEF CheckRec
  <2>3. GotoCheck(v, x)
    BY <1>7, <2>1 DEF OnMiss
  <2>4. x.res # "unknown" /\ x.res # "badsig" /\ x.pc \in {"fetch", "done"}
    BY <2>2
  <2>. QED BY <1>5, <2>2, <2>3, <2>4
<1>8. CASE j.kid \notin DOMAIN cache.keys /\ GotoCheck(v, OnMiss(c)) /\ c.round # 1
  <2>1. PICK x : x = [c EXCEPT !.pc = "done", !.used = cache, !.res = "unknown"]
    OBVIOUS
  <2>2. /\ x \in CheckRec /\ x.pc = "done" /\ x.from = c.from /\ x.got = c.got /\ x.res = "unknown"
        /\ x.login = c.login /\ x.began = c.began /\ x.failed = c.failed /\ x.used = cache
        /\ x.round = c.round
    BY <1>2, <2>1 DEF CheckRec
  <2>3. GotoCheck(v, x)
    BY <1>8, <2>1 DEF OnMiss
  <2>4. c.round = 2
    BY <1>2, <1>8 DEF CheckRec
  <2>5. ~c.failed /\ cache.from = c.from => j.kid \notin DOMAIN c.got
    BY <1>1, <1>3, <1>8, <2>4
  <2>6. \/ x.failed
        \/ /\ x.round = 2
           /\ logins[x.login].kid \notin DOMAIN x.got \/ x.used.from # x.from
    BY <1>1, <2>2, <2>4, <2>5
  <2>7. x.res # "badsig" /\ x.pc # "fetch" /\ x.pc \in {"fetch", "done"}
    BY <2>2
  <2>. QED BY <1>5, <2>2, <2>3, <2>6, <2>7
<1>. QED BY <1>1, <1>6, <1>7, <1>8 DEF Look

----------------------------------------------------------------------------
(***************************************************************************)
(* The theorems.                                                           *)
(***************************************************************************)
LEMMA InitInv == Init => IInv
<1>. SUFFICES ASSUME Init
              PROVE  IInv
  OBVIOUS
<1>1. /\ now = 0 /\ rotations = 0 /\ restarts = 0 /\ faults = 0 /\ vault = 1 /\ made = 1
      /\ sent = 0 /\ fetches = 0
      /\ challenges = None /\ byID = None /\ byPhone = None /\ logins = None /\ checks = None
      /\ cache = Never
  BY DEF Init, KeysInit
<1>2. PICK kid \in {0, 1} :
          /\ max.kind = "kms" => kid = 1
          /\ active = kid
          /\ versions = With(None, kid, Record(1, "active", 0))
          /\ table = IF max.kind = "kms" /\ max.stored THEN versions ELSE None
          /\ ever = {<<kid, 1>>}
  BY DEF Init, KeysInit
<1>3. DOMAIN None = {}
  BY DEF None
<1>4. PICK r : r = Record(1, "active", 0)
  OBVIOUS
<1>5. r \in Rec /\ r.key = 1 /\ r.state = "active"
  BY <1>4 DEF Record, Rec, States
<1>6. DOMAIN versions = {kid} /\ versions[kid] = r
  BY <1>2, <1>3, <1>4 DEF With
<1>7. Records(versions)
  BY <1>1, <1>2, <1>5, <1>6 DEF Records
<1>8. Records(table)
  BY <1>2, <1>3, <1>7 DEF Records
<1>9. KeyTypeOK
  BY <1>1, <1>2, <1>6 DEF KeyTypeOK
<1>10. KeyInv
  BY <1>1, <1>2, <1>5, <1>6, <1>7, <1>8 DEF KeyInv
<1>11. \A f : DOMAIN f = {} => Numbered(f)
  <2>1. 1 .. 0 = {}
    OBVIOUS
  <2>. QED BY <2>1 DEF Numbered
<1>12. UserTypeOK
  BY <1>1, <1>3, <1>11 DEF UserTypeOK
<1>13. ClientTypeOK
  BY <1>1, <1>3, <1>11, NoKeys DEF ClientTypeOK
<1>14. SignInv /\ HeldInv /\ PhoneInv /\ UnknownOnlyIfOvertaken /\ StaleKeyBounded
  BY <1>1, <1>3 DEF SignInv, HeldInv, PhoneInv, UnknownOnlyIfOvertaken, StaleKeyBounded
<1>15. cache.from = 0 /\ cache.at = 0
  BY <1>1 DEF Never
<1>16. FetchInv /\ FreshInv
  BY <1>1, <1>3, <1>15 DEF FetchInv, FreshInv
<1>. QED BY <1>9, <1>10, <1>12, <1>13, <1>14, <1>16 DEF IInv

LEMMA NextInv == IInv /\ [Next]_vars => IInv'
<1>. SUFFICES ASSUME IInv, [Next]_vars
              PROVE  IInv'
  OBVIOUS
<1>1. CASE Tick
  BY <1>1, TickInv
<1>2. CASE Rotation
  BY <1>2, RotateNowInv, VaultRotateInv DEF Rotation
<1>3. CASE Restart
  BY <1>3, RestartInv
<1>4. CASE \E p \in Phones : StartSmsLogin(p)
  BY <1>4, StartSmsLoginInv
<1>5. CASE \E c \in 1 .. sent, right \in BOOLEAN : CompleteSmsLogin(c, right)
  BY <1>5, CompleteSmsLoginInv
<1>6. CASE \E id \in {0, -1}, p \in Phones \cup {NoPhone} : DevLogin(id, p)
  BY <1>6, DevLoginInv
<1>7. CASE \E n \in DOMAIN logins : UserStep(n)
  BY <1>7, GetByIDInv, GetByPhoneHashInv, UpsertInv, StoreFailsInv, TakeKeyInv, SignClaimsInv,
     AppendLoginInv DEF UserStep
<1>8. CASE \E n \in DOMAIN logins : Parse(n)
  BY <1>8, ParseInv
<1>9. CASE \E v \in DOMAIN checks : ClientStep(v)
  BY <1>9, FetchStepInv, StoreStepInv, LookInv DEF ClientStep
<1>10. CASE UNCHANGED vars
  <2>1. /\ UNCHANGED <<now, faults, keyVars, userVars, clientVars>>
        /\ UNCHANGED <<versions, active, table, vault, made, ever, rotations, restarts, max>>
        /\ UNCHANGED <<challenges, sent, byID, byPhone, logins>>
    BY <1>10 DEF vars, keyVars, userVars
  <2>2. faults' \in Nat /\ faults' >= faults /\ now' \in Nat /\ now' >= now
    BY <2>1 DEF IInv, KeyTypeOK
  <2>3. KeyTypeOK' /\ KeyInv' /\ UserTypeOK' /\ SignInv' /\ HeldInv' /\ PhoneInv'
    BY <2>1, <2>2, UserFrame DEF KeepUsers
  <2>4. ClientTypeOK' /\ FetchInv' /\ FreshInv' /\ UnknownOnlyIfOvertaken' /\ StaleKeyBounded'
    BY <2>1, <2>2, ClientFrame DEF TokensStay
  <2>. QED BY <2>3, <2>4 DEF IInv
<1>. QED BY <1>1, <1>2, <1>3, <1>4, <1>5, <1>6, <1>7, <1>8, <1>9, <1>10 DEF Next

(* The inductive invariant holds in every behaviour of user-svc and its verifiers *)
THEOREM IdentityInvariance == Spec => []IInv
<1>. QED BY InitInv, NextInv, PTL DEF Spec

(* Records of keys, users, logins and verifications keep their types: the key
   that signs is one the provider holds, and requests are numbered from 1 *)
THEOREM IdentityTypeCorrect == Spec => [](KeyTypeOK /\ UserTypeOK /\ ClientTypeOK)
<1>1. IInv => KeyTypeOK /\ UserTypeOK /\ ClientTypeOK
  BY DEF IInv
<1>. QED BY IdentityInvariance, <1>1, PTL

(* Racing first logins of one telephone number get one account: the UNIQUE
   phone_hash makes the slower one fail (service.go:121-141) *)
THEOREM OnePhoneOneUser == Spec => []PhoneNamesOneUser
<1>1. IInv => PhoneNamesOneUser
  BY DEF IInv, PhoneInv, PhoneNamesOneUser, Tokens
<1>. QED BY IdentityInvariance, <1>1, PTL

(* The kid of an unexpired token is published, through rotations, and through
   restarts of a provider whose table is intact (kms.go:216-237) *)
THEOREM UnexpiredArePublished == Spec => []UnexpiredInJwks
<1>1. ASSUME IInv, NEW n \in Tokens, max.kind = "kms",
             restarts = 0 \/ (max.stored /\ faults = 0),
             now < logins[n].exp, logins[n].age <= RotateEvery
      PROVE  logins[n].kid \in DOMAIN PublicJWKS
  <2>1. PICK j, r : j = logins[n] /\ r = versions[j.kid]
    OBVIOUS
  <2>2. Whole /\ n \in DOMAIN logins /\ j.pc = "done" /\ j \in LoginRec
    BY <1>1, <2>1 DEF Whole, Tokens, IInv, UserTypeOK
  <2>3. j.kid \in DOMAIN versions /\ r.created = j.exp - TokenTTL - j.age
    BY <1>1, <2>1, <2>2 DEF IInv, HeldInv
  <2>4. Records(versions) /\ now \in Nat
    BY <1>1 DEF IInv, KeyInv, KeyTypeOK
  <2>5. r \in Rec /\ (r.state = "retired" => Expired(r))
    BY <2>1, <2>3, <2>4 DEF Records
  <2>6. now \in Nat /\ j.exp \in Nat /\ j.age \in Int /\ r.created \in Nat
        /\ TokenTTL \in Nat /\ RotateEvery \in Nat /\ RetirePeriod \in Nat /\ TokenTTL <= RetirePeriod
    BY <2>2, <2>4, <2>5, KeyAssumption, IdentityAssumption DEF LoginRec, Rec
  <2>7. now < j.exp /\ j.age <= RotateEvery
    BY <1>1, <2>1
  <2>8. now - r.created <= RotateEvery + RetirePeriod
    BY <2>3, <2>6, <2>7
  <2>9. ~Expired(r)
    BY <2>6, <2>8 DEF Expired
  <2>. QED BY <2>1, <2>3, <2>4, <2>5, <2>9, JwksKeys
<1>2. IInv => UnexpiredInJwks
  BY <1>1 DEF UnexpiredInJwks
<1>. QED BY IdentityInvariance, <1>2, PTL

(* A token carries the kid of the key that signed it, whatever rotates between
   taking the key and signing, unless it is Vault that rotated (vault.go:87-99) *)
THEOREM TokensNameTheirKey == Spec => []SignedUnderItsKid
<1>1. IInv => SignedUnderItsKid
  BY DEF IInv, SignInv, SignedUnderItsKid, Tokens
<1>. QED BY IdentityInvariance, <1>1, PTL

(* A kid is called unknown only after user-svc was asked again
   (jwks_client.go:158-175) *)
THEOREM UnknownKidWasAskedFor == Spec => []UnknownOnlyIfOvertaken
<1>1. IInv => UnknownOnlyIfOvertaken
  BY DEF IInv
<1>. QED BY IdentityInvariance, <1>1, PTL

(* A signature is judged by keys no older than the cache's lifetime, whatever
   the other verifications do to the cache (jwks_client.go:124-132) *)
THEOREM KeysAreFresh == Spec => []StaleKeyBounded
<1>1. IInv => StaleKeyBounded
  BY DEF IInv
<1>. QED BY IdentityInvariance, <1>1, PTL
=============================================================================

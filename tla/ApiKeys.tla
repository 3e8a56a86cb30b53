------------------------------ MODULE ApiKeys ------------------------------
(***************************************************************************)
(* API keys of one organisation: creating and revoking them                *)
(* (modules/api-keys/api-key.service.ts) while requests authenticate with  *)
(* them (modules/auth/strategies/api-key.strategy.ts).                     *)
(*                                                                         *)
(* A key lives in two places, its row in PostgreSQL and its entry          *)
(* apikey:valid:<hash> in Redis, and no call holds both: every await of    *)
(* the code is a place where another request can run.  One action is one   *)
(* such awaited step.  The audit log, the webhook and last_used_at, which  *)
(* nothing in the code reads back to decide anything, are left out.        *)
(***************************************************************************)
EXTENDS Integers, FiniteSets

CONSTANTS
  Keys,        \* the keys that can ever be generated; a hash is never reused
  Requests,    \* requests authenticating with a key at the same time
  Admins,      \* concurrent calls of create and remove
  MaxApiKeys,  \* plan.limits.maxApiKeys, -1 when unlimited
  MaxNow,      \* bound on the clock
  Never,       \* the expiry of a key created without expiresAt
  NoEntry,     \* what Redis answers for a key it does not hold
  NoKey        \* the key of a call that is not running

Time   == 0..MaxNow
Expiry == Time \cup {Never}

ASSUME ConstantsAssumption ==
  /\ IsFiniteSet(Keys) /\ IsFiniteSet(Admins) /\ Admins # {}
  /\ MaxApiKeys \in Nat \cup {-1}
  /\ MaxNow \in Nat
  /\ Never \notin Time
  /\ NoEntry \notin Expiry
  /\ NoKey \notin Keys

VARIABLES
  now,        \* the clock of the application and the database
  row,        \* api_keys.is_active of each key, "absent" before its INSERT
  expiresAt,  \* api_keys.expires_at
  cache,      \* the expiresAt inside the Redis entry of a key, or NoEntry
  request,    \* [pc, key, at, settled]: validate() of one request
  admin,      \* [pc, key]: one call of create or remove
  held,       \* keys whose secret a caller of create has received
  acked,      \* history: keys whose remove answered 200
  straddled   \* history: keys some fill was carrying past their revocation

vars == <<now, row, expiresAt, cache, request, admin, held, acked, straddled>>

RequestPc == {"idle", "missed", "checked", "accepted", "refused"}
AdminPc   == {"idle", "counted", "saved", "found", "revoked"}

Active == {k \in Keys : row[k] = "active"}

\* assertNotExpired throws exactly when this holds.
IsExpired(e) == e # Never /\ e < now

\* What getByHash must answer for validate to go on to the refill.
RowValidWhenRevoked(k) == row[k] # "absent" /\ ~IsExpired(expiresAt[k])
RowValid(k) == row[k] = "active" /\ ~IsExpired(expiresAt[k])

\* The part of a cached entry that validate decides on: CachedApiKey.expiresAt.
EntryWithoutExpiry(k) == Never
EntryUnparsed(k) == -1
EntryOf(k) == expiresAt[k]

\* The test create makes on the plan's limit.
BelowLimitOrAt == MaxApiKeys # -1 => Cardinality(Active) <= MaxApiKeys
BelowLimit == MaxApiKeys # -1 => Cardinality(Active) < MaxApiKeys

\* The calls that have evidence that k is valid and have yet to cache it.
Fillers(k) == {r \in Requests : request[r].pc = "checked" /\ request[r].key = k}
Creators(k) == {a \in Admins : admin[a].pc = "saved" /\ admin[a].key = k}

\* Revocations acknowledged while no fill of the same key was under way.
Settled == acked \ straddled

Init ==
  /\ now = 0
  /\ row = [k \in Keys |-> "absent"]
  /\ expiresAt = [k \in Keys |-> Never]
  /\ cache = [k \in Keys |-> NoEntry]
  /\ request = [r \in Requests |->
                  [pc |-> "idle", key |-> NoKey, at |-> 0, settled |-> FALSE]]
  /\ admin = [a \in Admins |-> [pc |-> "idle", key |-> NoKey]]
  /\ held = {} /\ acked = {} /\ straddled = {}

-----------------------------------------------------------------------------
(* ApiKeyStrategy.validate                                                 *)

\* The request arrives and Redis answers: a hit decides at once.
Lookup(r, k) ==
  /\ request[r].pc \in {"idle", "accepted", "refused"}
  /\ k \in held
  /\ request' = [request EXCEPT ![r] =
       [pc |-> IF cache[k] = NoEntry THEN "missed"
               ELSE IF IsExpired(cache[k]) THEN "refused" ELSE "accepted",
        key |-> k, at |-> now, settled |-> k \in Settled]]
  /\ UNCHANGED <<now, row, expiresAt, cache, admin, held, acked, straddled>>

\* getByHash answers: the row must be active and not expired.
ReadRow(r) ==
  /\ request[r].pc = "missed"
  /\ LET k == request[r].key
     IN  request' = [request EXCEPT ![r].pc =
           IF RowValid(k) THEN "checked" ELSE "refused"]
  /\ UNCHANGED <<now, row, expiresAt, cache, admin, held, acked, straddled>>

\* The refill; its failure is caught, and the request is accepted either way.
Refill(r) ==
  /\ request[r].pc = "checked"
  /\ request' = [request EXCEPT ![r].pc = "accepted"]
  /\ LET k == request[r].key
     IN  cache' \in {cache, [cache EXCEPT ![k] = EntryOf(k)]}
  /\ UNCHANGED <<now, row, expiresAt, admin, held, acked, straddled>>

-----------------------------------------------------------------------------
(* ApiKeyService.create                                                    *)

\* The number of active keys is read before the new row is there.
Count(a, k, e) ==
  /\ admin[a].pc = "idle"
  /\ row[k] = "absent" /\ \A b \in Admins : admin[b].key # k
  /\ e # Never => e >= now
  /\ BelowLimit
  /\ admin' = [admin EXCEPT ![a] = [pc |-> "counted", key |-> k]]
  /\ expiresAt' = [expiresAt EXCEPT ![k] = e]
  /\ UNCHANGED <<now, row, cache, request, held, acked, straddled>>

SaveRow(a) ==
  /\ admin[a].pc = "counted"
  /\ row' = [row EXCEPT ![admin[a].key] = "active"]
  /\ admin' = [admin EXCEPT ![a].pc = "saved"]
  /\ UNCHANGED <<now, expiresAt, cache, request, held, acked, straddled>>

\* The entry is written without looking at the row again, and the secret goes
\* to the caller.
CacheNew(a) ==
  /\ admin[a].pc = "saved"
  /\ LET k == admin[a].key
     IN  /\ cache' = [cache EXCEPT ![k] = EntryOf(k)]
         /\ held' = held \cup {k}
  /\ admin' = [admin EXCEPT ![a] = [pc |-> "idle", key |-> NoKey]]
  /\ UNCHANGED <<now, row, expiresAt, request, acked, straddled>>

-----------------------------------------------------------------------------
(* ApiKeyService.remove                                                    *)

Find(a, k) ==
  /\ admin[a].pc = "idle"
  /\ row[k] = "active"
  /\ admin' = [admin EXCEPT ![a] = [pc |-> "found", key |-> k]]
  /\ UNCHANGED <<now, row, expiresAt, cache, request, held, acked, straddled>>

Revoke(a) ==
  /\ admin[a].pc = "found"
  /\ row' = [row EXCEPT ![admin[a].key] = "revoked"]
  /\ admin' = [admin EXCEPT ![a].pc = "revoked"]
  /\ UNCHANGED <<now, expiresAt, cache, request, held, acked, straddled>>

\* The entry is deleted and the call answers 200.
DropEntry(a) ==
  /\ admin[a].pc = "revoked"
  /\ LET k == admin[a].key
     IN  /\ cache' = [cache EXCEPT ![k] = NoEntry]
         /\ acked' = acked \cup {k}
         /\ straddled' = IF Fillers(k) = {} /\ Creators(k) = {}
                         THEN straddled ELSE straddled \cup {k}
  /\ admin' = [admin EXCEPT ![a] = [pc |-> "idle", key |-> NoKey]]
  /\ UNCHANGED <<now, row, expiresAt, request, held>>

-----------------------------------------------------------------------------
(* Failures and time                                                       *)

\* An awaited call throws, or the process dies: nothing done so far is undone.
Abandon(a) ==
  /\ admin[a].pc # "idle"
  /\ admin' = [admin EXCEPT ![a] = [pc |-> "idle", key |-> NoKey]]
  /\ UNCHANGED <<now, row, expiresAt, cache, request, held, acked, straddled>>

AbandonRequest(r) ==
  /\ request[r].pc \in {"missed", "checked"}
  /\ request' = [request EXCEPT ![r].pc = "refused"]
  /\ UNCHANGED <<now, row, expiresAt, cache, admin, held, acked, straddled>>

\* API_KEY_EXPIRATION seconds after it was written the entry is gone.
Evict(k) ==
  /\ cache[k] # NoEntry
  /\ cache' = [cache EXCEPT ![k] = NoEntry]
  /\ UNCHANGED <<now, row, expiresAt, request, admin, held, acked, straddled>>

Tick ==
  /\ now < MaxNow
  /\ now' = now + 1
  /\ UNCHANGED <<row, expiresAt, cache, request, admin, held, acked, straddled>>

-----------------------------------------------------------------------------
RequestNext(r) ==
  (\E k \in Keys : Lookup(r, k)) \/ ReadRow(r) \/ Refill(r) \/ AbandonRequest(r)

AdminNext(a) ==
  \/ \E k \in Keys, e \in Expiry : Count(a, k, e)
  \/ \E k \in Keys : Find(a, k)
  \/ SaveRow(a) \/ CacheNew(a) \/ Revoke(a) \/ DropEntry(a) \/ Abandon(a)

Next ==
  \/ \E r \in Requests : RequestNext(r)
  \/ \E a \in Admins : AdminNext(a)
  \/ \E k \in Keys : Evict(k)
  \/ Tick

Spec == Init /\ [][Next]_vars

-----------------------------------------------------------------------------
(* Properties                                                              *)

\* Every variable has its type, and a call that runs has a key.
TypeOK ==
  /\ now \in Time
  /\ row \in [Keys -> {"absent", "active", "revoked"}]
  /\ expiresAt \in [Keys -> Expiry]
  /\ cache \in [Keys -> Expiry \cup {NoEntry}]
  /\ request \in [Requests -> [pc : RequestPc, key : Keys \cup {NoKey},
                               at : Time, settled : BOOLEAN]]
  /\ admin \in [Admins -> [pc : AdminPc, key : Keys \cup {NoKey}]]
  /\ \A r \in Requests : request[r].pc # "idle" => request[r].key \in Keys
  /\ \A a \in Admins : admin[a].pc # "idle" <=> admin[a].key \in Keys
  /\ held \subseteq Keys /\ acked \subseteq Keys /\ straddled \subseteq Keys

\* No request is accepted that arrived after its key's expiresAt, whichever of
\* the two paths decided and however old the cached copy is.
ExpiryHonoured ==
  \A r \in Requests : request[r].pc = "accepted" =>
    LET e == expiresAt[request[r].key] IN e = Never \/ request[r].at <= e

\* A request that arrives after its key's remove has answered is refused,
\* provided no create or validate of that key was between its database step and
\* its cache write when remove deleted the entry.
RevokedKeyRefused ==
  \A r \in Requests : request[r].settled => request[r].pc # "accepted"

\* Concurrent creates can exceed the plan limit, by one less than their number
\* at most: each of them counted before the others' rows were there.
OvershootBounded ==
  MaxApiKeys # -1 => Cardinality(Active) < MaxApiKeys + Cardinality(Admins)

=============================================================================

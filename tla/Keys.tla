-------------------------------- MODULE Keys --------------------------------
(***************************************************************************)
(* Provider API keys: the encrypted store (core/key_store.py), the admin   *)
(* endpoints over it (api/admin.py), the provider instances that hold the  *)
(* keys in use (core/provider_registry.py, core/router.py) and the backup  *)
(* tool (scripts/key_store_backup.py).  What follows when a provider       *)
(* refuses a stored or tested key is in KeyMonitor; testing a key changes  *)
(* nothing here.                                                           *)
(*                                                                         *)
(* A stored key is the key with the admin token that encrypts it: only     *)
(* that token reads it back.  The endpoints encrypt with the token of the  *)
(* request, ADMIN_POLICY_TOKEN; the registry and the backup tool read with *)
(* ADMIN_TOKEN.  The access log, error texts and key formats are left out. *)
(***************************************************************************)
EXTENDS Integers, FiniteSets

CONSTANTS
  Providers,       \* the ids of _PROVIDER_ENV_VARS an instance has
  Routes, Kind,    \* routes that need a key, and their provider type
  Catalog,         \* those of them that are synthesized at run time
  Envs,            \* environments a deployment may have: provider -> key
  Keys,
  Tokens, BootToken,
  Requests,        \* requests that may be in flight at once
  Burst,           \* KEY_STORE_RATE_LIMIT_BURST
  MaxStarts,       \* bound: requests, imports and restarts
  MaxFaults,       \* bound: failed database writes
  None

ASSUME KeysAssumption ==
  /\ Kind \in [Routes -> {"claude", "gemini", "openrouter"}]
  /\ Catalog \subseteq {r \in Routes : Kind[r] = "openrouter"}
  /\ Providers \subseteq {"anthropic", "google", "openai", "openrouter"}
  /\ Envs \subseteq [Providers -> Keys \cup {None}]
  /\ BootToken \in Tokens \cup {None}
  /\ Burst \in Nat \ {0}
  /\ MaxStarts \in Nat /\ MaxFaults \in Nat
  /\ None \notin Keys \cup Tokens \cup Providers

ASSUME RowsAssumption == None \notin [key : Keys, token : Tokens]

VARIABLES
  env,             \* the environment's keys
  token,           \* ADMIN_POLICY_TOKEN
  row,             \* provider_key_store
  backup,          \* the exported manifest
  live,            \* the key in each route's provider, None if it has none or
                   \* is not synthesized yet
  req,             \* the requests in flight
  bucket,          \* tokens left in the client's bucket
  drift,           \* providers something has happened to that is not passed on
  starts, faults

storeVars == <<row, backup>>
vars == <<env, token, storeVars, live, req, bucket, drift, starts, faults>>

NoReq == [op |-> "none", p |-> None, key |-> None, at |-> "none", todo |-> {}, alone |-> TRUE]

-----------------------------------------------------------------------------
(* Which key a route gets *)

\* _provider_budget_id: the provider a rotation reaches the route as
BudgetId(r) ==
  CASE Kind[r] = "claude" -> "anthropic"
    [] Kind[r] = "gemini" -> "google"
    [] Kind[r] = "openrouter" -> "openrouter"

ASSUME RoutesAssumption == \A r \in Routes : BudgetId(r) \in Providers

RoutesOf(p) == {r \in Routes : BudgetId(r) = p}

\* _decrypt: a row gives its key only to the token it was encrypted with.
Decrypt(w, t) == IF w # None /\ w.token = t THEN w.key ELSE None

\* ApiKeyStore.effective_key: the stored key, else the environment's
Effective(p) ==
  IF Decrypt(row[p], token) # None THEN Decrypt(row[p], token) ELSE env[p]

\* ProviderRegistry._get_api_key: the environment's key, else the stored one
GetApiKey(id, var) ==
  IF env[var] # None THEN env[var]
  ELSE IF id \in Providers /\ BootToken # None THEN Decrypt(row[id], BootToken) ELSE None

\* The OpenAI-compatible route of the shipped profiles names GEMINI_CLOUD_API_KEY,
\* which holds none of the three words the store's id is chosen by.
RouteFromClaude == GetApiKey("anthropic", "anthropic")
RouteFromOpenAICompatible == GetApiKey("openai", "google")
RouteFromOpenRouter == env["openrouter"]

BuildRoutes ==
  [r \in Routes |-> CASE r \in Catalog -> None
                      [] Kind[r] = "claude" -> RouteFromClaude
                      [] Kind[r] = "gemini" -> RouteFromOpenAICompatible
                      [] r \notin Catalog /\ Kind[r] = "openrouter" -> RouteFromOpenRouter]

\* _all_routes: "configured routes plus every catalog-derived route built so far"
AllRoutes == {r \in Routes : r \in Catalog => live[r] # None}

Init ==
  /\ env \in Envs
  /\ token \in Tokens
  /\ row = [p \in Providers |-> None]
  /\ backup = None
  /\ live = BuildRoutes
  /\ req = [q \in Requests |-> NoReq]
  /\ bucket = Burst
  /\ drift = {}
  /\ starts = 0 /\ faults = 0

Fault == faults < MaxFaults /\ faults' = faults + 1
Count == starts < MaxStarts /\ starts' = starts + 1
Changing(p) == {q \in Requests : req[q].p = p}
-----------------------------------------------------------------------------
(* The endpoints *)

\* TokenBucketRateLimiter.is_allowed: a request takes a token or gets a 429
IsAllowed == bucket > 0 /\ bucket' = bucket - 1

Refill ==
  /\ bucket < Burst /\ bucket' = Burst
  /\ UNCHANGED <<env, token, storeVars, live, req, drift, starts, faults>>

\* Changes of p in flight are no longer alone.
Joined(p) == [q \in Requests |-> [req[q] EXCEPT !.alone = @ /\ q \notin Changing(p)]]

Begin(q, op, p, key, at) ==
  /\ req[q] = NoReq /\ Count /\ IsAllowed
  /\ req' = [Joined(p) EXCEPT
               ![q] = [op |-> op, p |-> p, key |-> key, at |-> at, todo |-> {},
                       alone |-> Changing(p) = {}]]
  /\ drift' = IF Changing(p) # {} THEN drift \cup {p} ELSE drift
  /\ UNCHANGED <<env, token, storeVars, live, faults>>

SetProviderKey(q, p, k) == Begin(q, "set", p, k, "store")
DeleteProviderKey(q, p) == Begin(q, "delete", p, None, "erase")

\* set_key: one upsert.  A failure ends the request in a 500.
SetKey(q) ==
  /\ req[q].at = "store"
  /\ row' = [row EXCEPT ![req[q].p] = [key |-> req[q].key, token |-> token]]
  /\ req' = [req EXCEPT ![q].at = "list"]
  /\ UNCHANGED <<env, token, backup, live, bucket, drift, starts, faults>>

SetKeyFails(q) ==
  /\ req[q].at = "store"
  /\ req' = [req EXCEPT ![q] = NoReq]
  /\ Fault
  /\ UNCHANGED <<env, token, storeVars, live, bucket, drift, starts>>

\* delete_key.  The endpoint goes on to the environment's key whatever came of
\* it, and leaves the routes alone when there is none.
AfterDelete(q) ==
  LET p == req[q].p IN
  req' = [req EXCEPT ![q] = IF env[p] = None THEN NoReq
                            ELSE [@ EXCEPT !.at = "list", !.key = env[p]]]

DeleteKey(q) ==
  /\ req[q].at = "erase"
  /\ row' = [row EXCEPT ![req[q].p] = None]
  /\ AfterDelete(q)
  /\ drift' = IF env[req[q].p] = None THEN drift \cup {req[q].p} ELSE drift
  /\ UNCHANGED <<env, token, backup, live, bucket, starts, faults>>

DeleteKeyFails(q) ==
  /\ req[q].at = "erase"
  /\ AfterDelete(q)
  /\ drift' = drift \cup {req[q].p}
  /\ Fault
  /\ UNCHANGED <<env, token, storeVars, live, bucket, starts>>

\* rotate_provider_key goes through the routes there are when it starts.
ListRoutes(q) ==
  /\ req[q].at = "list"
  /\ req' = [req EXCEPT ![q].at = "rotate", ![q].todo = RoutesOf(req[q].p) \cap AllRoutes]
  /\ UNCHANGED <<env, token, storeVars, live, bucket, drift, starts, faults>>

\* mutant: the loop over the routes returns after the first provider.
RotateFirst(q) ==
  /\ req[q].at = "rotate"
  /\ \E r \in req[q].todo :
       /\ live' = [live EXCEPT ![r] = IF @ = None THEN None ELSE req[q].key]
       /\ req' = [req EXCEPT ![q].todo = {}]
  /\ UNCHANGED <<env, token, storeVars, bucket, drift, starts, faults>>

\* Each provider in turn, over an await; a route without one stays without.
Rotate(q) ==
  /\ req[q].at = "rotate"
  /\ \E r \in req[q].todo :
       /\ live' = [live EXCEPT ![r] = IF @ = None THEN None ELSE req[q].key]
       /\ req' = [req EXCEPT ![q].todo = @ \ {r}]
  /\ UNCHANGED <<env, token, storeVars, bucket, drift, starts, faults>>

\* A change that had the provider to itself has set everything right again, but
\* for a route that was built without a key and waits for the next boot.
Rotated(q) ==
  /\ req[q].at = "rotate" /\ req[q].todo = {}
  /\ req' = [req EXCEPT ![q] = NoReq]
  /\ drift' = IF \E r \in RoutesOf(req[q].p) \ Catalog : live[r] = None THEN drift \cup {req[q].p}
              ELSE IF req[q].op = "set" /\ req[q].alone THEN drift \ {req[q].p} ELSE drift
  /\ UNCHANGED <<env, token, storeVars, live, bucket, starts, faults>>

\* _synthesized_base_route: the first turn that wants a model of the catalog gets
\* a route on the environment's key, whatever the store holds, and the route
\* stays.  A rotation that has listed its routes by then passes it by.
Synthesize(r) ==
  LET p == BudgetId(r) IN
  /\ r \in Catalog /\ live[r] = None /\ env[p] # None
  /\ live' = [live EXCEPT ![r] = env[p]]
  /\ IF Effective(p) = env[p] THEN UNCHANGED <<req, drift>>
     ELSE /\ drift' = drift \cup {p}
          /\ req' = [q \in Requests |-> [req[q] EXCEPT
                       !.alone = @ /\ ~(q \in Changing(p) /\ req[q].at = "rotate")]]
  /\ UNCHANGED <<env, token, storeVars, bucket, starts, faults>>
-----------------------------------------------------------------------------
(* Backup, restore and restart *)

ExportEncrypted ==
  /\ backup # row /\ \E p \in Providers : row[p] # None
  /\ backup' = row
  /\ UNCHANGED <<env, token, row, live, req, bucket, drift, starts, faults>>

\* import_encrypted, for one key of the manifest.  A key that is there already
\* is meant to be skipped, but it is compared under a fresh salt and never is.
ImportEncrypted(p) ==
  /\ backup # None /\ backup[p] # None /\ Count
  /\ row' = [row EXCEPT ![p] = backup[p]]
  /\ req' = Joined(p)
  /\ drift' = drift \cup {p}
  /\ UNCHANGED <<env, token, backup, live, bucket, faults>>

\* The rows a boot does not find its way to: all but those of a provider that is
\* read with the right token, by its own id and without an environment key.
Misread(t) ==
  {p \in Providers : row[p] # None /\
     ~(p = "anthropic" /\ env[p] = None /\ row[p].token = BootToken /\ t = BootToken)}
  \cup {p \in Providers \cap {"google"} : "openai" \in Providers /\ row["openai"] # None}

\* The process stops, perhaps in the middle of requests, and build_app_services
\* builds the routes afresh; the deployment may have changed the policy token.
Restart ==
  /\ Count
  /\ token' \in Tokens
  /\ live' = BuildRoutes
  /\ req' = [q \in Requests |-> NoReq]
  /\ bucket' = Burst
  /\ drift' = Misread(token')
  /\ UNCHANGED <<env, storeVars, faults>>

Step(q) ==
  \/ SetKey(q) \/ SetKeyFails(q) \/ DeleteKey(q) \/ DeleteKeyFails(q)
  \/ ListRoutes(q) \/ Rotate(q) \/ Rotated(q)

Next ==
  \/ \E q \in Requests, p \in Providers :
       (\E k \in Keys : SetProviderKey(q, p, k)) \/ DeleteProviderKey(q, p)
  \/ \E q \in Requests : Step(q)
  \/ \E r \in Routes : Synthesize(r)
  \/ \E p \in Providers : ImportEncrypted(p)
  \/ Refill \/ ExportEncrypted \/ Restart

Spec == Init /\ [][Next]_vars
-----------------------------------------------------------------------------
(* Properties *)

Rows == [key : Keys, token : Tokens] \cup {None}

\* The variables have their types.
TypeOK ==
  /\ env \in Envs /\ token \in Tokens
  /\ row \in [Providers -> Rows] /\ backup \in [Providers -> Rows] \cup {None}
  /\ live \in [Routes -> Keys \cup {None}]
  /\ req \in [Requests -> [op : {"none", "set", "delete"},
                           p : Providers \cup {None}, key : Keys \cup {None},
                           at : {"none", "store", "erase", "list", "rotate"},
                           todo : SUBSET Routes, alone : BOOLEAN]]
  /\ bucket \in 0..Burst
  /\ drift \subseteq Providers
  /\ starts \in 0..MaxStarts /\ faults \in 0..MaxFaults

\* Once the changes of a provider are through, every one of its live routes uses
\* the key that effective_key names: "storing a new key immediately rotates live
\* provider instances", one by one, over awaits.  drift collects all that breaks
\* it: changes that overlapped, a deletion that failed or had no environment key
\* to go back to, a first key for a route that was built without one, a route
\* synthesized on the environment's key while the store holds another, a
\* restored backup, and rows a boot misreads.
LiveMatchesStore ==
  \A p \in Providers \ drift : Changing(p) = {} =>
    \A r \in RoutesOf(p) \cap AllRoutes : live[r] = Effective(p)
=============================================================================

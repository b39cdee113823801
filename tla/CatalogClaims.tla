---------------------------- MODULE CatalogClaims ----------------------------
(***************************************************************************)
(* Who may provision and sync a Unity Catalog of one Databricks workspace  *)
(* (catalog_claim_repository.py).                                          *)
(*                                                                         *)
(* An owner of claims is a user of the wizard (U2M) or a connection of the *)
(* portal (M2M); a connection has one catalog, a user may move between     *)
(* catalogs.  A thread is a request, its background worker included.       *)
(* Every action is one database transaction, one update of the in-memory   *)
(* in-flight set, or the remote provisioning of a catalog.                 *)
(***************************************************************************)
EXTENDS Naturals, Sequences, FiniteSets

CONSTANTS
    Users,          \* user ids
    Connections,    \* connection ids
    Catalogs,       \* catalogs of the workspace
    TargetOf,       \* the catalog of every connection
    Threads,        \* threads of the control plane
    MaxClaims,      \* bound: rows of catalog_claims
    MaxUpheavals,   \* bound: "Start over" requests, restarts and errors of claim_catalog
    Null            \* no owner, no catalog

ASSUME ConstantsAssumption ==
    /\ Users \cap Connections = {}
    /\ TargetOf \in [Connections -> Catalogs]
    /\ MaxClaims \in Nat
    /\ MaxUpheavals \in Nat
    /\ Null \notin Users \cup Connections \cup Catalogs

VARIABLES
    claims,     \* catalog_claims, by claim_id
    boot,       \* bootstrap_state and connection_bootstrap: [catalog, claim]
    status,     \* onboarding_status of a connection, "none" before its row exists
    in_flight,  \* owners marked in _bootstrap_in_flight or _in_flight
    thread,     \* local state of every thread
    upheavals   \* resets, restarts and errors of claim_catalog so far

vars == <<claims, boot, status, in_flight, thread, upheavals>>

-----------------------------------------------------------------------------
(* Types and helpers *)

Owners == Users \cup Connections
ClaimIds == 1..MaxClaims

Claim == [catalog: Catalogs, owner: Owners,
          state: {"active", "released"},    \* a deleted row counts as released
          provisioned: BOOLEAN]     \* snapshot_pipeline_id IS NOT NULL

Bootstrap == [catalog: Catalogs, claim: ClaimIds]

Provisioning == {"provision", "save", "record", "defaults"}
Claiming == {"look", "write"}
Thread == [pc: {"free", "validate", "insert", "undo", "end", "begin", "sync"}
                 \cup Claiming \cup Provisioning,
           owner: Owners \cup {Null},
           catalog: Catalogs \cup {Null},
           claim: ClaimIds \cup {0},    \* of a sync: the claims there were when it was allowed
           fresh: BOOLEAN,      \* claim_was_unprovisioned
           create: BOOLEAN,     \* create_or_resume, not a bootstrap
           reset: BOOLEAN]      \* history: the user was reset under the thread

Free == [pc |-> "free", owner |-> Null, catalog |-> Null, claim |-> 0,
         fresh |-> FALSE, create |-> FALSE, reset |-> FALSE]

Start(pc, o, c) == [Free EXCEPT !.pc = pc, !.owner = o, !.catalog = c]

Active(i) == claims[i].state = "active"
get_active_claim(c) == {i \in DOMAIN claims : Active(i) /\ claims[i].catalog = c}
ClaimsOf(o) == {i \in DOMAIN claims : Active(i) /\ claims[i].owner = o}

\* An unclaimed catalog is everybody's.
owns_catalog(c, o) == \A i \in get_active_claim(c) : claims[i].owner = o

Goto(t, pc) == thread' = [thread EXCEPT ![t].pc = pc]
Return(t) == thread' = [thread EXCEPT ![t] = Free]
At(t, pc) == thread[t].pc = pc

Init ==
    /\ claims = <<>>
    /\ boot = [o \in Owners |-> Null]
    /\ status = [k \in Connections |-> "none"]
    /\ in_flight = {}
    /\ thread = [t \in Threads |-> Free]
    /\ upheavals = 0

-----------------------------------------------------------------------------
(* Requests that claim *)

\* U2M: the wizard bootstraps a catalog of the user's choice.
bootstrap_start(t, u, c) ==
    /\ At(t, "free")
    /\ u \notin in_flight
    /\ in_flight' = in_flight \cup {u}
    /\ thread' = [thread EXCEPT ![t] = Start("look", u, c)]
    /\ UNCHANGED <<claims, boot, status, upheavals>>

\* M2M: the claim comes before the row of the connection.
create_or_resume(t, k) ==
    /\ At(t, "free")
    /\ thread' = [thread EXCEPT ![t] = [Start("look", k, TargetOf[k]) EXCEPT !.create = TRUE]]
    /\ UNCHANGED <<claims, boot, status, in_flight, upheavals>>

\* M2M: the bootstrap of a connection takes its claim again.
run_connection_bootstrap(t, k) ==
    /\ At(t, "free")
    /\ status[k] # "none" /\ k \notin in_flight
    /\ in_flight' = in_flight \cup {k}
    /\ thread' = [thread EXCEPT ![t] = Start("look", k, TargetOf[k])]
    /\ UNCHANGED <<claims, boot, status, upheavals>>

\* Seeded bug: the mark is left.
LockedMarked(t) ==
    /\ Return(t)
    /\ UNCHANGED <<claims, in_flight>>

\* CatalogLockedError: the in-flight mark of a bootstrap is cleared.
Locked(t) ==
    /\ in_flight' = IF thread[t].create THEN in_flight ELSE in_flight \ {thread[t].owner}
    /\ Return(t)
    /\ UNCHANGED claims

\* What follows claim_catalog in each of its callers.
Claimed(t, i, fresh) ==
    thread' = [thread EXCEPT
        ![t].claim = i,
        ![t].fresh = fresh,
        ![t].pc = IF thread[t].create THEN "insert"
                  ELSE IF thread[t].owner \in Users THEN "validate" ELSE "provision"]

\* claim_catalog reads outside its transaction: a SELECT takes no lock.
claim_lookup(t) ==
    LET held == get_active_claim(thread[t].catalog) IN
    /\ At(t, "look")
    /\ \/ /\ held = {}
          /\ Goto(t, "write")
          /\ UNCHANGED <<claims, in_flight>>
       \/ \E i \in held :
             IF claims[i].owner = thread[t].owner
             THEN Claimed(t, i, ~claims[i].provisioned) /\ UNCHANGED <<claims, in_flight>>
             ELSE Locked(t)
    /\ UNCHANGED <<boot, status, upheavals>>

\* The rows s with those of ids released.
Released(s, ids) ==
    [i \in DOMAIN s |-> IF i \in ids THEN [s[i] EXCEPT !.state = "released"] ELSE s[i]]

\* Seeded bug: an insert without the unique index.
ClaimWithoutIndex(t) ==
    LET o == thread[t].owner
        c == thread[t].catalog IN
    /\ At(t, "write")
    /\ Len(claims) < MaxClaims
    /\ claims' = Append(Released(claims, ClaimsOf(o)),
                        [catalog |-> c, owner |-> o, state |-> "active", provisioned |-> FALSE])
    /\ Claimed(t, Len(claims) + 1, TRUE)
    /\ UNCHANGED <<in_flight, boot, status, upheavals>>

\* Seeded bug: a claim is taken over.
ClaimTakesOver(t) ==
    LET o == thread[t].owner
        c == thread[t].catalog IN
    /\ At(t, "write")
    /\ Len(claims) < MaxClaims
    /\ claims' = Append(Released(claims, ClaimsOf(o) \cup get_active_claim(c)),
                        [catalog |-> c, owner |-> o, state |-> "active", provisioned |-> FALSE])
    /\ Claimed(t, Len(claims) + 1, TRUE)
    /\ UNCHANGED <<in_flight, boot, status, upheavals>>

\* Its transaction: the owner's claims are released and the new one inserted,
\* or the unique index refuses it and everything is rolled back.
claim_write(t) ==
    LET o == thread[t].owner
        c == thread[t].catalog IN
    /\ At(t, "write")
    /\ IF ~owns_catalog(c, o)
       THEN Locked(t)
       ELSE /\ Len(claims) < MaxClaims
            /\ claims' = Append(Released(claims, ClaimsOf(o)),
                                [catalog |-> c, owner |-> o, state |-> "active",
                                 provisioned |-> FALSE])
            /\ Claimed(t, Len(claims) + 1, TRUE)
            /\ UNCHANGED in_flight
    /\ UNCHANGED <<boot, status, upheavals>>

\* Another error than CatalogLockedError (the database is locked, say): only
\* the M2M bootstrap has a finally clause around the claim.
ClaimRaises(t) ==
    /\ upheavals < MaxUpheavals
    /\ upheavals' = upheavals + 1
    /\ thread[t].pc \in Claiming
    /\ in_flight' = IF thread[t].owner \in Connections /\ ~thread[t].create
                    THEN in_flight \ {thread[t].owner} ELSE in_flight
    /\ Return(t)
    /\ UNCHANGED <<claims, boot, status>>

\* create_or_resume: INSERT of the connection, or the row the other racer made.
InsertConnection(t) ==
    /\ At(t, "insert")
    /\ status' = [status EXCEPT ![thread[t].owner] =
                     IF status[thread[t].owner] = "none" THEN "pending_bootstrap"
                     ELSE status[thread[t].owner]]
    /\ Return(t)
    /\ UNCHANGED <<claims, boot, in_flight, upheavals>>

-----------------------------------------------------------------------------
(* A bootstrap *)

\* The U2M worker wants the claim still there and active.
run_bootstrap(t) ==
    /\ At(t, "validate")
    /\ Goto(t, IF Active(thread[t].claim) THEN "provision" ELSE "undo")
    /\ UNCHANGED <<claims, boot, status, in_flight, upheavals>>

\* bootstrap_steps.run_all: minutes of calls to Databricks.
Provision(t) ==
    /\ At(t, "provision")
    /\ Goto(t, "save")
    /\ UNCHANGED <<claims, boot, status, in_flight, upheavals>>

\* save_bootstrap_state, or save_bootstrap and set_pipeline_ids.
save_bootstrap(t) ==
    /\ At(t, "save")
    /\ boot' = [boot EXCEPT ![thread[t].owner] =
                   [catalog |-> thread[t].catalog, claim |-> thread[t].claim]]
    /\ Goto(t, "record")
    /\ UNCHANGED <<claims, status, in_flight, upheavals>>

\* By claim_id, whatever has become of the claim.
update_claim_artifacts(t) ==
    /\ At(t, "record")
    /\ claims' = [claims EXCEPT ![thread[t].claim].provisioned = TRUE]
    /\ Goto(t, "defaults")
    /\ UNCHANGED <<boot, status, in_flight, upheavals>>

\* The pipelines get the project's defaults, and a connection is marked ready.
PushDefaults(t) ==
    /\ At(t, "defaults")
    /\ status' = [k \in Connections |-> IF k = thread[t].owner THEN "ready" ELSE status[k]]
    /\ Goto(t, "end")
    /\ UNCHANGED <<claims, boot, in_flight, upheavals>>

\* A step of the bootstrap raises.  The U2M worker gives up the claim; a
\* connection whose run_all failed is put back to pending_bootstrap.
BootstrapFails(t) ==
    /\ thread[t].pc \in {"validate"} \cup Provisioning
    /\ Goto(t, IF thread[t].owner \in Users THEN "undo" ELSE "end")
    /\ status' = [k \in Connections |->
                     IF k = thread[t].owner /\ At(t, "provision") THEN "pending_bootstrap" ELSE status[k]]
    /\ UNCHANGED <<claims, boot, in_flight, upheavals>>

\* Seeded bug: a failed bootstrap gives up its claim, whoever provisioned it.
ReleaseAlways(t) ==
    /\ At(t, "undo")
    /\ claims' = IF Active(thread[t].claim) THEN Released(claims, {thread[t].claim}) ELSE claims
    /\ Goto(t, "end")
    /\ UNCHANGED <<boot, status, in_flight, upheavals>>

\* A catalog that an earlier bootstrap provisioned stays claimed.
release_claim(t) ==
    /\ At(t, "undo")
    /\ claims' = IF thread[t].fresh /\ Active(thread[t].claim)
                 THEN Released(claims, {thread[t].claim}) ELSE claims
    /\ Goto(t, "end")
    /\ UNCHANGED <<boot, status, in_flight, upheavals>>

end_bootstrap(t) ==
    /\ At(t, "end")
    /\ in_flight' = in_flight \ {thread[t].owner}
    /\ Return(t)
    /\ UNCHANGED <<claims, boot, status, upheavals>>

-----------------------------------------------------------------------------
(* Syncs *)

\* Seeded bug: whoever has saved a bootstrap may sync it.
MayStartSaved(u) == boot[u] # Null

\* What a U2M route checks before it starts a sync.  (The daily timer of a user is
\* started under the same check, and its ticks make none.)
MayStart(u) == boot[u] # Null /\ owns_catalog(boot[u].catalog, u)

start_sync(t, u) ==
    /\ At(t, "free")
    /\ MayStart(u)
    /\ thread' = [thread EXCEPT ![t] = [Start("begin", u, Null) EXCEPT !.claim = Len(claims)]]
    /\ UNCHANGED <<claims, boot, status, in_flight, upheavals>>

\* The sync's own thread reads what the last bootstrap saved.
BeginSync(t) ==
    LET saved == boot[thread[t].owner] IN
    /\ At(t, "begin")
    /\ thread' = [thread EXCEPT ![t] =
           IF saved = Null THEN Free
           ELSE [thread[t] EXCEPT !.pc = "sync", !.catalog = saved.catalog]]
    /\ UNCHANGED <<claims, boot, status, in_flight, upheavals>>

\* A connection that is ready (its guards are the subject of ConnectionSync).
run_connection_sync(t, k) ==
    /\ At(t, "free")
    /\ status[k] = "ready"
    /\ thread' = [thread EXCEPT ![t] = Start("sync", k, TargetOf[k])]
    /\ UNCHANGED <<claims, boot, status, in_flight, upheavals>>

EndSync(t) ==
    /\ At(t, "sync")
    /\ Return(t)
    /\ UNCHANGED <<claims, boot, status, in_flight, upheavals>>

-----------------------------------------------------------------------------
(* "Start over", and a restart of the process *)

\* The user's rows are deleted, claims included, whatever their threads are doing.
reset_user(u) ==
    /\ upheavals < MaxUpheavals
    /\ upheavals' = upheavals + 1
    /\ boot' = [boot EXCEPT ![u] = Null]
    /\ claims' = Released(claims, ClaimsOf(u))
    /\ thread' = [t \in Threads |-> [thread[t] EXCEPT !.reset = thread[t].reset \/ thread[t].owner = u]]
    /\ UNCHANGED <<status, in_flight>>

\* Threads and in-flight marks are lost.
Restart ==
    /\ upheavals < MaxUpheavals
    /\ upheavals' = upheavals + 1
    /\ thread' = [t \in Threads |-> Free]
    /\ in_flight' = {}
    /\ UNCHANGED <<claims, boot, status>>

-----------------------------------------------------------------------------
Step(t) ==
    \/ claim_lookup(t) \/ claim_write(t) \/ ClaimRaises(t) \/ InsertConnection(t)
    \/ run_bootstrap(t) \/ Provision(t) \/ save_bootstrap(t) \/ update_claim_artifacts(t)
    \/ PushDefaults(t) \/ BootstrapFails(t) \/ release_claim(t) \/ end_bootstrap(t)
    \/ BeginSync(t) \/ EndSync(t)

Next ==
    \/ \E t \in Threads :
          \/ \E u \in Users :
                \/ \E c \in Catalogs : bootstrap_start(t, u, c)
                \/ start_sync(t, u)
          \/ \E k \in Connections :
                create_or_resume(t, k) \/ run_connection_bootstrap(t, k) \/ run_connection_sync(t, k)
          \/ Step(t)
    \/ \E u \in Users : reset_user(u)
    \/ Restart

Spec == Init /\ [][Next]_vars

-----------------------------------------------------------------------------
(* Properties *)

\* "A claim is what authorises a user to provision and sync a catalog"
\* (catalog_claim_repository.py:3-4): as long as a thread provisions a catalog its
\* owner has the active claim, however long ago the thread got it and whatever
\* others do meanwhile, unless the user was reset under the thread.
ProvisionAuthorised ==
    \A t \in Threads : thread[t].pc \in Provisioning /\ ~thread[t].reset =>
        \E i \in get_active_claim(thread[t].catalog) : claims[i].owner = thread[t].owner

\* Two threads never provision the same catalog at the same time, however the
\* look-up, the insert and the worker of several bootstraps interleave, unless
\* the user of one of them was reset while it ran.
OneProvisionerUnlessReset ==
    \A s, t \in {t \in Threads : thread[t].pc \in Provisioning /\ ~thread[t].reset} :
        s # t => thread[s].catalog # thread[t].catalog

\* "Mark bootstrap in-flight for this user. Returns False if one is already
\* running" (bootstrap_service.py:90): an owner that is marked has a bootstrap
\* running, so no refusal, failure or lost race bars it from the next one.  A
\* user, though, stays marked when claim_catalog raises an unforeseen error.
MarkedMeansRunning ==
    \A o \in in_flight \ (IF upheavals > 0 THEN Users ELSE {}) :
        \E t \in Threads : /\ thread[t].owner = o
                           /\ thread[t].pc \notin {"free", "begin", "sync"}
                           /\ ~thread[t].create

\* An owner loses a catalog that it had provisioned only by moving to another
\* or by a reset: neither a lost race for a second catalog nor a failed
\* re-bootstrap costs it the first (bootstrap_routes.py:65, 78-79).
RetryKeepsClaim ==
    [][\A i \in DOMAIN claims :
          Active(i) /\ claims[i].provisioned /\ ~Active(i)' =>
              \/ boot'[claims[i].owner] = Null
              \/ ClaimsOf(claims[i].owner)' # {}
              \/ \E t \in Threads : thread[t].claim = i /\ thread[t].fresh]_claims

\* "Without this, that user's sync would keep driving pipelines the new owner now
\* controls" (sync_routes.py:56-58).  Ownership is checked once, when a sync is
\* asked for: by the time it runs the catalog may be somebody else's, but then
\* only by a claim made after that check.
SyncAuthorisedWhenAsked ==
    \A t \in Threads : At(t, "sync") =>
        \A i \in get_active_claim(thread[t].catalog) :
            claims[i].owner = thread[t].owner \/ i > thread[t].claim
=============================================================================

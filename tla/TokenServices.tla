----------------------------- MODULE TokenServices -----------------------------
(***************************************************************************)
(* The four ways the program gets an access token, and the operation that  *)
(* uses one and may try again with a fresh one:                            *)
(*   "acc"  a user's ACC token: auth_client.get_valid_token                *)
(*   "dbx"  a user's Databricks token: databricks_auth.get_valid_dbx_token *)
(*   "ssa"  a hub's robot: ssa_token_service.get_acc_token                 *)
(*   "sp"   a connection's service principal: dbx_token_service            *)
(* The first two exchange a refresh token that can be used once and store  *)
(* its successor; the last two mint from a stored credential and keep the  *)
(* token in the process.  One user, hub or connection.                     *)
(***************************************************************************)
EXTENDS Naturals, FiniteSets

CONSTANTS
    Threads,
    MaxGens,        \* bound: connects of the account, or changes of the credential
    MaxTicks,       \* bound: half-lives of a token that pass
    MaxFaults,      \* bound: answers that are lost, and restarts
    Null            \* SQL NULL, Python None

\* The account is connected, or has a credential, to begin with.
ASSUME TokenAssumption ==
    /\ MaxGens \in Nat \ {0} /\ MaxTicks \in Nat /\ MaxFaults \in Nat
    /\ Null \notin Threads /\ Null \notin [gen: 1..MaxGens, n: Nat, left: 0..2]

VARIABLES
    flavour,        \* which of the four, fixed at the start
    row,            \* acc_tokens, dbx_tokens; the client id or key id of a credential
    secret,         \* generation of the secret in the secret store
    cache,          \* _cache of ssa_token_service and dbx_token_service
    lock,           \* _refresh_locks of the user (Databricks only)
    thread,         \* local state of every thread that runs an operation
    change,         \* where a change of the credential is
    last,           \* the newest connect or credential
    live,           \* at the provider: the refresh token of each connect that still works
    dead,           \* at the provider: connects and credentials that were revoked
    ticks, faults,
    lost,           \* history: connects whose newest refresh token never reached the row
    broken,         \* history: a change of the credential broke off
    overtaken       \* history: a connect or reset fell into a refresh

vars == <<flavour, row, secret, cache, lock, thread, change, last, live, dead, ticks, faults,
          lost, broken, overtaken>>
provider == <<last, live, dead>>
history == <<lost, broken, overtaken>>

-----------------------------------------------------------------------------
(* Types and helpers *)

Gens == 1..MaxGens
OAuth == flavour \in {"acc", "dbx"}

\* What is left of an access token: 2 good, 1 within TOKEN_REFRESH_BUFFER_SEC or
\* TOKEN_MINT_BUFFER_SEC of its end, 0 expired.
Left == 0..2
Token == [gen: Gens, left: Left]
Accepted(token) == token.left > 0 /\ token.gen \notin dead

\* The refresh token, or the credential and its secret, a thread has read.
Record == [gen: Gens, n: Nat]
Stored == [gen: Gens, n: Nat, left: Left]

Free == [pc |-> "free", force |-> FALSE, rec |-> Null, tok |-> Null, changed |-> FALSE]
Thread == [pc: {"free", "get", "lock", "reread", "secret", "exchange", "save", "use"},
           force: BOOLEAN, rec: Record \cup {Null}, tok: Token \cup {Null}, changed: BOOLEAN]

Init ==
    /\ flavour \in {"acc", "dbx", "ssa", "sp"}
    /\ row = [gen |-> 1, n |-> 1, left |-> 2]
    /\ secret = 1 /\ cache = Null /\ lock = Null
    /\ thread = [t \in Threads |-> Free]
    /\ change = "none"
    /\ last = 1 /\ live = [g \in Gens |-> 1] /\ dead = {}
    /\ ticks = 0 /\ faults = 0
    /\ lost = {} /\ broken = FALSE /\ overtaken = FALSE

\* The operation is over, one way or the other.
End(t) ==
    /\ thread' = [thread EXCEPT ![t] = Free]
    /\ lock' = IF lock = t THEN Null ELSE lock

Use(t, token) ==
    thread' = [thread EXCEPT ![t].pc = "use", ![t].rec = Null, ![t].tok = token]

\* What the exchange will present.
Read(t, gen, n, pc) ==
    thread' = [thread EXCEPT ![t].pc = pc, ![t].rec = [gen |-> gen, n |-> n], ![t].tok = Null]

-----------------------------------------------------------------------------
(* Getting a token *)

start(t) ==
    /\ thread[t].pc = "free"
    /\ thread' = [thread EXCEPT ![t].pc = "get"]
    /\ UNCHANGED <<flavour, row, secret, cache, lock, change, provider, ticks, faults, history>>

\* One read of the row; no lock.
get_valid_token(t) ==
    /\ flavour = "acc" /\ thread[t].pc = "get" /\ row # Null
    /\ IF ~thread[t].force /\ row.left = 2 THEN Use(t, [gen |-> row.gen, left |-> row.left])
       ELSE Read(t, row.gen, row.n, "exchange")
    /\ UNCHANGED <<flavour, row, secret, cache, lock, change, provider, ticks, faults, history>>

\* Seeded bug: the token that was read before the lock was taken is exchanged.
DbxUnchecked(t) ==
    /\ flavour = "dbx" /\ (row = Null => thread[t].pc = "lock")
    /\ \/ /\ thread[t].pc = "get"
          /\ IF row.left = 2 THEN Use(t, [gen |-> row.gen, left |-> row.left])
             ELSE Read(t, row.gen, row.n, "lock")
          /\ UNCHANGED lock
       \/ /\ thread[t].pc = "lock" /\ lock = Null
          /\ lock' = t /\ thread' = [thread EXCEPT ![t].pc = "exchange"]
    /\ UNCHANGED <<flavour, row, secret, cache, change, provider, ticks, faults, history>>

\* The row is read again under the lock of the user.
get_valid_dbx_token(t) ==
    /\ flavour = "dbx" /\ (row = Null => thread[t].pc = "lock")
    /\ \/ /\ thread[t].pc = "get"
          /\ IF row.left = 2 THEN Use(t, [gen |-> row.gen, left |-> row.left])
             ELSE thread' = [thread EXCEPT ![t].pc = "lock"]
          /\ UNCHANGED lock
       \/ /\ thread[t].pc = "lock" /\ lock = Null
          /\ lock' = t /\ thread' = [thread EXCEPT ![t].pc = "reread"]
       \/ /\ thread[t].pc = "reread"
          /\ IF row.left = 2
             THEN Use(t, [gen |-> row.gen, left |-> row.left]) /\ lock' = Null
             ELSE Read(t, row.gen, row.n, "exchange") /\ UNCHANGED lock
    /\ UNCHANGED <<flavour, row, secret, cache, change, provider, ticks, faults, history>>

\* The account is not connected, or was reset meanwhile.
NotConnected(t) ==
    /\ OAuth /\ row = Null /\ thread[t].pc \in {"get", "reread"}
    /\ End(t)
    /\ UNCHANGED <<flavour, row, secret, cache, change, provider, ticks, faults, history>>

\* Seeded bug: the cache is looked at first whatever force says.
MintUnlessCached(t) ==
    /\ ~OAuth /\ thread[t].pc = "get"
    /\ IF cache # Null /\ cache.left = 2 THEN Use(t, cache) ELSE Read(t, row.gen, 0, "secret")
    /\ UNCHANGED <<flavour, row, secret, cache, lock, change, provider, ticks, faults, history>>

\* get_acc_token and get_dbx_token: the cache unless forced, else the credential's row...
get_cached_token(t) ==
    /\ ~OAuth /\ thread[t].pc = "get"
    /\ IF ~thread[t].force /\ cache # Null /\ cache.left = 2 THEN Use(t, cache)
       ELSE Read(t, row.gen, 0, "secret")
    /\ UNCHANGED <<flavour, row, secret, cache, lock, change, provider, ticks, faults, history>>

\* ... and then its secret, which is found by a name that never changes.
get_secret(t) ==
    /\ thread[t].pc = "secret"
    /\ Read(t, thread[t].rec.gen, secret, "exchange")
    /\ UNCHANGED <<flavour, row, secret, cache, lock, change, provider, ticks, faults, history>>

\* Does the provider accept what was read?
Works(rec) ==
    /\ rec.gen \notin dead
    /\ rec.n = IF OAuth THEN live[rec.gen] ELSE rec.gen

\* The refresh token is used up; the new one is in the answer.
Consumed(rec) == IF OAuth THEN [live EXCEPT ![rec.gen] = @ + 1] ELSE live

exchange(t) ==
    LET rec == thread[t].rec IN
    /\ thread[t].pc = "exchange" /\ Works(rec)
    /\ live' = Consumed(rec)
    /\ thread' = [thread EXCEPT ![t].pc = "save", ![t].tok = [gen |-> rec.gen, left |-> 2],
                                ![t].rec = [rec EXCEPT !.n = live'[rec.gen]]]
    /\ UNCHANGED <<flavour, row, secret, cache, lock, change, last, dead, ticks, faults, history>>

\* "user must re-authenticate", SsaAuthError, DbxAuthError.
exchange_refused(t) ==
    /\ thread[t].pc = "exchange" /\ ~Works(thread[t].rec)
    /\ End(t)
    /\ UNCHANGED <<flavour, row, secret, cache, change, provider, ticks, faults, history>>

\* The request failed, or it was served and the answer was lost.
exchange_lost(t) ==
    LET rec == thread[t].rec IN
    /\ thread[t].pc = "exchange" /\ faults < MaxFaults
    /\ faults' = faults + 1
    /\ live' = IF Works(rec) THEN Consumed(rec) ELSE live
    /\ lost' = IF OAuth /\ Works(rec) THEN lost \cup {rec.gen} ELSE lost
    /\ End(t)
    /\ UNCHANGED <<flavour, row, secret, cache, change, last, dead, ticks, broken, overtaken>>

Refreshed(t) == [gen |-> thread[t].rec.gen, n |-> thread[t].rec.n, left |-> thread[t].tok.left]

\* Seeded bug: the refresh token of the answer is not stored.
SaveAccessOnly(t) ==
    /\ thread[t].pc = "save"
    /\ IF OAuth THEN /\ row' = IF row = Null THEN Null ELSE [row EXCEPT !.left = thread[t].tok.left]
                     /\ UNCHANGED cache
       ELSE cache' = thread[t].tok /\ UNCHANGED row
    /\ Use(t, thread[t].tok)
    /\ lock' = IF lock = t THEN Null ELSE lock
    /\ UNCHANGED <<flavour, secret, change, provider, ticks, faults, history>>

\* Seeded bug: the ACC row is inserted when there is none.
SaveUpsert(t) ==
    /\ thread[t].pc = "save"
    /\ IF OAuth THEN row' = Refreshed(t) /\ UNCHANGED cache
       ELSE cache' = thread[t].tok /\ UNCHANGED row
    /\ Use(t, thread[t].tok)
    /\ lock' = IF lock = t THEN Null ELSE lock
    /\ UNCHANGED <<flavour, secret, change, provider, ticks, faults, history>>

\* update_acc_access_token updates the row there is; save_dbx_tokens inserts one if
\* need be, with the workspace that was read; a minted token goes into the cache.
save(t) ==
    /\ thread[t].pc = "save"
    /\ IF OAuth THEN /\ row' = IF flavour = "acc" /\ row = Null THEN Null ELSE Refreshed(t)
                     /\ UNCHANGED cache
       ELSE cache' = thread[t].tok /\ UNCHANGED row
    /\ Use(t, thread[t].tok)
    /\ lock' = IF lock = t THEN Null ELSE lock
    /\ UNCHANGED <<flavour, secret, change, provider, ticks, faults, history>>

\* _dc_get and with_auth_retry: after a refusal a fresh token is forced, once.  The
\* user's Databricks client has no such retry.
operation(t) ==
    /\ thread[t].pc = "use"
    /\ IF Accepted(thread[t].tok) \/ thread[t].force \/ flavour = "dbx" THEN End(t)
       ELSE /\ thread' = [thread EXCEPT ![t] = [Free EXCEPT !.pc = "get", !.force = TRUE]]
            /\ UNCHANGED lock
    /\ UNCHANGED <<flavour, row, secret, cache, change, provider, ticks, faults, history>>

-----------------------------------------------------------------------------
(* What happens to the account or the credential meanwhile *)

Refreshing == \E t \in Threads : thread[t].pc \in {"exchange", "save"}
Noticed == [t \in Threads |-> [thread[t] EXCEPT !.changed = thread[t].pc # "free"]]

\* An OAuth callback: a new grant, stored whole and without the lock.
connect ==
    /\ OAuth /\ last < MaxGens
    /\ last' = last + 1
    /\ row' = [gen |-> last + 1, n |-> 1, left |-> 2]
    /\ overtaken' = (overtaken \/ Refreshing)
    /\ thread' = Noticed
    /\ UNCHANGED <<flavour, secret, cache, lock, change, live, dead, ticks, faults, lost, broken>>

reset_user ==
    /\ OAuth /\ row # Null
    /\ row' = Null
    /\ overtaken' = (overtaken \/ Refreshing)
    /\ thread' = Noticed
    /\ UNCHANGED <<flavour, secret, cache, lock, change, provider, ticks, faults, lost, broken>>

\* _store_service_principal and rotate_key: the secret first, under the name it always
\* has; a change that broke off before is started again from here.
put_secret ==
    /\ ~OAuth /\ change = "none" /\ last < MaxGens
    /\ last' = last + 1
    /\ secret' = last + 1
    /\ change' = "row"
    /\ thread' = Noticed
    /\ UNCHANGED <<flavour, row, cache, lock, live, dead, ticks, faults, history>>

\* save_dbx_credentials, update_key.
save_credential ==
    /\ change = "row"
    /\ row' = [row EXCEPT !.gen = secret]
    /\ change' = "invalidate"
    /\ broken' = FALSE
    /\ thread' = Noticed
    /\ UNCHANGED <<flavour, secret, cache, lock, provider, ticks, faults, lost, overtaken>>

\* rotate_key goes on: a token is minted, and the old key is deleted last.
invalidate ==
    /\ change = "invalidate"
    /\ cache' = Null
    /\ change' = IF flavour = "ssa" THEN "mint" ELSE "none"
    /\ UNCHANGED <<flavour, row, secret, lock, thread, provider, ticks, faults, history>>

rotate_mint ==
    /\ change = "mint"
    /\ cache' = [gen |-> row.gen, left |-> 2]
    /\ change' = "delete"
    /\ UNCHANGED <<flavour, row, secret, lock, thread, provider, ticks, faults, history>>

delete_key ==
    /\ change = "delete"
    /\ dead' = 1 .. last - 1
    /\ change' = "none"
    /\ thread' = Noticed
    /\ UNCHANGED <<flavour, row, secret, cache, lock, last, live, ticks, faults, history>>

\* An exception in rotate_key or in the route.
change_fails ==
    /\ change # "none" /\ faults < MaxFaults
    /\ faults' = faults + 1
    /\ broken' = (broken \/ change = "row")
    /\ change' = "none"
    /\ UNCHANGED <<flavour, row, secret, cache, lock, thread, provider, ticks, lost, overtaken>>

\* External: a user withdraws the app's access, an administrator deletes the secret
\* that was replaced, or the answer to delete_key came late.
Revoke(g) ==
    /\ g <= last /\ g \notin dead
    /\ ~OAuth => g < row.gen /\ change = "none"
    /\ dead' = dead \cup {g}
    /\ thread' = Noticed
    /\ UNCHANGED <<flavour, row, secret, cache, lock, change, last, live, ticks, faults, history>>

Older(left) == IF left = 0 THEN 0 ELSE left - 1

Tick ==
    /\ ticks < MaxTicks /\ ticks' = ticks + 1
    /\ row' = IF OAuth /\ row # Null THEN [row EXCEPT !.left = Older(@)] ELSE row
    /\ cache' = IF cache # Null THEN [cache EXCEPT !.left = Older(@)] ELSE Null
    /\ thread' = [t \in Threads |-> IF thread[t].tok = Null THEN thread[t]
                                    ELSE [thread[t] EXCEPT !.tok.left = Older(@)]]
    /\ UNCHANGED <<flavour, secret, lock, change, provider, faults, history>>

\* The process is restarted: threads, locks and caches are gone.
Restart ==
    /\ faults < MaxFaults /\ faults' = faults + 1
    /\ lost' = IF OAuth THEN lost \cup {thread[t].rec.gen : t \in {u \in Threads : thread[u].pc = "save"}}
               ELSE lost
    /\ broken' = (broken \/ change = "row")
    /\ thread' = [t \in Threads |-> Free]
    /\ cache' = Null /\ lock' = Null /\ change' = "none"
    /\ UNCHANGED <<flavour, row, secret, provider, ticks, overtaken>>

ThreadStep(t) ==
    \/ get_valid_token(t) \/ get_valid_dbx_token(t) \/ NotConnected(t)
    \/ get_cached_token(t) \/ get_secret(t)
    \/ exchange(t) \/ exchange_refused(t) \/ save(t) \/ operation(t)

Next ==
    \/ \E t \in Threads : start(t) \/ ThreadStep(t) \/ exchange_lost(t)
    \/ connect \/ reset_user
    \/ put_secret \/ save_credential \/ invalidate \/ rotate_mint \/ delete_key \/ change_fails
    \/ \E g \in Gens : Revoke(g)
    \/ Tick \/ Restart

Spec == Init /\ [][Next]_vars

-----------------------------------------------------------------------------
(* Properties *)

\* What is stored can be exchanged, although a refresh token works once: the only
\* exceptions are a refresh between its exchange and its write, one whose answer or
\* write was lost, and a credential whose change broke off half-way.
StoredUsable ==
    IF OAuth
    THEN row # Null =>
            \/ row.n = live[row.gen] \/ row.gen \in lost
            \/ \E t \in Threads : thread[t].pc = "save" /\ thread[t].rec.gen = row.gen
    ELSE row.gen = secret \/ change = "row" \/ broken

\* The step on which thread t is told that its refresh token or credential is no good.
Refused(t) == thread[t].pc = "exchange" /\ thread'[t].pc = "free" /\ faults' = faults

\* A user is told to authenticate again only when that is so: the connect was revoked or
\* its refresh token lost, or it was replaced meanwhile; for ACC, which has no lock, also
\* when another thread refreshed at the same time.  A minted token is refused only
\* because of a change that is going on, fell into the attempt, or broke off.
ReauthMeansDead ==
    [][\A t \in Threads : Refused(t) =>
          \/ thread[t].rec.gen \in dead \cup lost
          \/ IF OAuth THEN \/ row = Null \/ row.gen # thread[t].rec.gen
                           \/ flavour = "acc" /\ thread[t].rec.n < live[row.gen]
             ELSE thread[t].changed \/ broken \/ change = "row"]_vars

\* One retry is enough: a forced token is refused only when the account or credential
\* changed again during the retry, or the retry outlasted the token.  A stale token
\* that another thread puts back into the cache does not matter.
RetryIsEnough ==
    [][\A t \in Threads :
          thread[t].pc = "use" /\ thread[t].force /\ thread'[t].pc = "free" /\ faults' = faults =>
             Accepted(thread[t].tok) \/ thread[t].changed \/ thread[t].tok.left = 0]_vars

\* A refresh brings back what a reset or a newer connect replaced only when that fell
\* into the refresh; and a row that was deleted comes back for Databricks only.
ConnectWins ==
    [][row' # Null /\ (row = Null \/ row'.gen # row.gen) /\ OAuth =>
          last' # last \/ (overtaken /\ (row = Null => flavour = "dbx"))]_vars
=============================================================================

--------------------------- MODULE SsaProvisioning ---------------------------
(***************************************************************************)
(* Provisioning of the service account ("robot") of a hub, and rotation of *)
(* its signing key (backend/services/m2m/ssa_provisioner.py).              *)
(*                                                                         *)
(* A process is one HTTP request: an administrator provisions a hub        *)
(* (ensure_ssa), verifies that the hub whitelisted the application         *)
(* (provisioning_probe.verify_app_authorised), or rotates the hub's key    *)
(* (rotate_key).  Every action is one database transaction, one call of    *)
(* the APS service-account API or one write of the secret store.           *)
(*                                                                         *)
(* APS is external: its robots are never deleted, their keys are.          *)
(***************************************************************************)
EXTENDS Naturals, Sequences, FiniteSets

CONSTANTS
    Hubs,           \* hub ids
    Processes,      \* requests in progress
    Quota,          \* max_robots of the APS application
    MaxKeys,        \* bound: keys created
    MaxRotations,   \* bound: rotations started
    MaxFaults,      \* bound: failed steps, lost responses and crashes
    LiveExpiry,     \* may a claim outlive PROVISION_CLAIM_STALE_SEC while its holder lives?
    Null            \* no hub: the process is free

ASSUME ConstantsAssumption ==
    /\ Quota \in Nat
    /\ MaxKeys \in Nat
    /\ MaxRotations \in Nat
    /\ MaxFaults \in Nat
    /\ LiveExpiry \in BOOLEAN
    /\ Null \notin Hubs

VARIABLES
    tenant,     \* tenants: [status, claim, pending]
    cred,       \* ssa_credentials: [robot, kid], robot 0 when there is no row
    vault,      \* the key at ssa_private_key_ref(hub), 0 when there is none
    robots,     \* APS: the hub each robot was created for
    keys,       \* APS: every key ever created, [robot, live]
    proc,       \* local state of a request
    rotations,  \* rotations started
    faults,     \* faults so far
    lost        \* history: robots whose creator never learnt or recorded the id

vars == <<tenant, cred, vault, robots, keys, proc, rotations, faults, lost>>

-----------------------------------------------------------------------------
(* Types *)

TENANT_STATUSES == {"pending_whitelist", "whitelist_verified", "ssa_active",
                    "ssa_provision_failed", "ssa_limit_reached"}

\* Status "none" stands for a tenant row that does not exist yet.
Tenant == [status: TENANT_STATUSES \cup {"none"},
           claim: {"free", "held", "stale"},    \* provisioning_claimed_at
           pending: Nat]                        \* pending_service_account_id, 0: NULL

Claimed == {"recheck", "adopt", "create", "record", "key", "vault", "insert",
            "winner", "clear", "reread", "restate", "failed", "limit", "release"}
Rotating == {"r_key", "r_vault", "r_update", "r_mint", "r_delete"}
Verifying == {"v_tenant", "v_status"}

Process == [pc: {"free", "app", "tenant", "claim", "await"}
                  \cup Claimed \cup Rotating \cup Verifying,
            hub: Hubs \cup {Null},
            robot: Nat, kid: Nat,       \* the robot and the key it works with
            old: Nat,                   \* the key a rotation will delete
            seen: TENANT_STATUSES \cup {"none"}]    \* the status it has read

-----------------------------------------------------------------------------
(* Helpers *)

Fresh(pc, h) == [pc |-> pc, hub |-> h, robot |-> 0, kid |-> 0, old |-> 0, seen |-> "none"]
Free == Fresh("free", Null)
Provisioned(h) == cred[h].robot # 0
has_capacity == Cardinality({h \in Hubs : Provisioned(h)}) < Quota

\* Process p moves on to pc, or leaves its request.
Goto(p, pc) == proc' = [proc EXCEPT ![p].pc = pc]
Return(p) == proc' = [proc EXCEPT ![p] = Free]
At(p, pc) == proc[p].pc = pc

\* Seeded bug: a claim never grows old.
ClaimableWhenFree(h) == tenant[h].status # "none" /\ tenant[h].claim = "free"

\* tenants rows that try_claim_provisioning's UPDATE matches.
Claimable(h) == tenant[h].status # "none" /\ tenant[h].claim # "held"

\* What rotate and mint need: the stored key is the credential's, and is live.
CanMint(h) == vault[h] = cred[h].kid /\ keys[cred[h].kid].live

Init ==
    /\ tenant = [h \in Hubs |-> [status |-> "none", claim |-> "free", pending |-> 0]]
    /\ cred = [h \in Hubs |-> [robot |-> 0, kid |-> 0]]
    /\ vault = [h \in Hubs |-> 0]
    /\ robots = <<>>
    /\ keys = <<>>
    /\ proc = [p \in Processes |-> Free]
    /\ rotations = 0
    /\ faults = 0
    /\ lost = {}

-----------------------------------------------------------------------------
(* ensure_ssa: reaching the claim *)

\* CS-01: an existing credential ends the call before anything else happens.
ensure_ssa(p, h) ==
    /\ At(p, "free")
    /\ proc' = [proc EXCEPT ![p] = IF Provisioned(h) THEN Free ELSE Fresh("app", h)]
    /\ UNCHANGED <<tenant, cred, vault, robots, keys, rotations, faults, lost>>

\* A new hub needs a free slot, counted over our own rows; then the hub-admin
\* check, whose refusal is Refused.
resolve_app(p) ==
    /\ At(p, "app")
    /\ tenant[proc[p].hub].status # "none" \/ Provisioned(proc[p].hub) \/ has_capacity
    /\ Goto(p, "tenant")
    /\ UNCHANGED <<tenant, cred, vault, robots, keys, rotations, faults, lost>>

\* The row of h, created as pending_whitelist if it is not there.
EnsuredTenant(h) ==
    IF tenant[h].status = "none" THEN [tenant[h] EXCEPT !.status = "pending_whitelist"]
    ELSE tenant[h]

ensure_tenant(p) ==
    LET h == proc[p].hub IN
    /\ At(p, "tenant")
    /\ tenant' = [tenant EXCEPT ![h] = EnsuredTenant(h)]
    /\ Goto(p, "claim")
    /\ UNCHANGED <<cred, vault, robots, keys, rotations, faults, lost>>

\* Seeded bug: the UPDATE matches the row whatever its claim says.
ClaimUnconditionally(p) ==
    /\ At(p, "claim")
    /\ tenant' = [tenant EXCEPT ![proc[p].hub].claim = "held"]
    /\ Goto(p, "recheck")
    /\ UNCHANGED <<cred, vault, robots, keys, rotations, faults, lost>>

\* The conditional UPDATE of one row that is the mutex.
try_claim_provisioning(p) ==
    LET h == proc[p].hub IN
    /\ At(p, "claim")
    /\ IF Claimable(h)
       THEN /\ tenant' = [tenant EXCEPT ![h].claim = "held"]
            /\ Goto(p, "recheck")
       ELSE /\ Goto(p, "await")
            /\ UNCHANGED tenant
    /\ UNCHANGED <<cred, vault, robots, keys, rotations, faults, lost>>

\* The loser polls for the winner's row; Refused is its giving up.
await_winner(p) ==
    /\ At(p, "await")
    /\ Provisioned(proc[p].hub)
    /\ Return(p)
    /\ UNCHANGED <<tenant, cred, vault, robots, keys, rotations, faults, lost>>

\* No capacity, not an administrator, or no winner in time.
Refused(p) ==
    /\ proc[p].pc \in {"app", "tenant", "claim", "await"} \cup Verifying
    /\ Return(p)
    /\ UNCHANGED <<tenant, cred, vault, robots, keys, rotations, faults, lost>>

-----------------------------------------------------------------------------
(* ensure_ssa: under the claim *)

\* Seeded bug: the check before the claim is trusted.
SkipRecheck(p) ==
    /\ At(p, "recheck")
    /\ Goto(p, "adopt")
    /\ UNCHANGED <<tenant, cred, vault, robots, keys, rotations, faults, lost>>

\* Double-checked locking: the credential is read again.
recheck(p) ==
    /\ At(p, "recheck")
    /\ Goto(p, IF Provisioned(proc[p].hub) THEN "release" ELSE "adopt")
    /\ UNCHANGED <<tenant, cred, vault, robots, keys, rotations, faults, lost>>

\* Seeded bug: any hub is taken to have a robot to reuse.
AdoptBlindly(p) ==
    /\ At(p, "adopt")
    /\ proc' = [proc EXCEPT ![p].robot = tenant[proc[p].hub].pending, ![p].pc = "key"]
    /\ UNCHANGED <<tenant, cred, vault, robots, keys, rotations, faults, lost>>

\* A robot a previous attempt left behind is reused.
adopt(p) ==
    LET left == tenant[proc[p].hub].pending IN
    /\ At(p, "adopt")
    /\ proc' = [proc EXCEPT ![p].robot = left,
                            ![p].pc = IF left # 0 THEN "key" ELSE "create"]
    /\ UNCHANGED <<tenant, cred, vault, robots, keys, rotations, faults, lost>>

create_service_account(p) ==
    /\ At(p, "create")
    /\ IF Len(robots) < Quota
       THEN /\ robots' = Append(robots, proc[p].hub)
            /\ proc' = [proc EXCEPT ![p].robot = Len(robots) + 1, ![p].pc = "record"]
       ELSE /\ Goto(p, "limit")     \* SsaQuotaExceeded
            /\ UNCHANGED robots
    /\ UNCHANGED <<tenant, cred, vault, keys, rotations, faults, lost>>

\* Seeded bug: the robot is not recorded.
RecordNothing(p) ==
    /\ At(p, "record")
    /\ Goto(p, "key")
    /\ UNCHANGED <<tenant, cred, vault, robots, keys, rotations, faults, lost>>

set_pending_robot(p) ==
    /\ At(p, "record")
    /\ tenant' = [tenant EXCEPT ![proc[p].hub].pending = proc[p].robot]
    /\ Goto(p, "key")
    /\ UNCHANGED <<cred, vault, robots, keys, rotations, faults, lost>>

\* POST .../keys, for a new robot or for a rotation.
create_key(p) ==
    /\ At(p, "key") \/ At(p, "r_key")
    /\ Len(keys) < MaxKeys
    /\ keys' = Append(keys, [robot |-> proc[p].robot, live |-> TRUE])
    /\ proc' = [proc EXCEPT ![p].kid = Len(keys) + 1,
                            ![p].pc = IF At(p, "key") THEN "vault" ELSE "r_vault"]
    /\ UNCHANGED <<tenant, cred, vault, robots, rotations, faults, lost>>

\* Seeded bug: a hub that has a secret keeps it.
PutSecretOnce(p) ==
    LET h == proc[p].hub IN
    /\ At(p, "vault") \/ At(p, "r_vault")
    /\ vault' = [vault EXCEPT ![h] = IF vault[h] = 0 THEN proc[p].kid ELSE vault[h]]
    /\ Goto(p, IF At(p, "vault") THEN "insert" ELSE "r_update")
    /\ UNCHANGED <<tenant, cred, robots, keys, rotations, faults, lost>>

\* One secret reference per hub: the previous key is overwritten.
put_secret(p) ==
    /\ At(p, "vault") \/ At(p, "r_vault")
    /\ vault' = [vault EXCEPT ![proc[p].hub] = proc[p].kid]
    /\ Goto(p, IF At(p, "vault") THEN "insert" ELSE "r_update")
    /\ UNCHANGED <<tenant, cred, robots, keys, rotations, faults, lost>>

\* UNIQUE(hub_id): the second insert raises, and the winner's row is read.
insert(p) ==
    LET h == proc[p].hub IN
    /\ At(p, "insert")
    /\ IF Provisioned(h)
       THEN /\ Goto(p, "winner")
            /\ UNCHANGED cred
       ELSE /\ cred' = [cred EXCEPT ![h] = [robot |-> proc[p].robot, kid |-> proc[p].kid]]
            /\ Goto(p, "clear")
    /\ UNCHANGED <<tenant, vault, robots, keys, rotations, faults, lost>>

winner(p) ==
    /\ At(p, "winner")
    /\ Goto(p, "release")
    /\ UNCHANGED <<tenant, cred, vault, robots, keys, rotations, faults, lost>>

clear_pending_robot(p) ==
    /\ At(p, "clear")
    /\ tenant' = [tenant EXCEPT ![proc[p].hub].pending = 0]
    /\ Goto(p, "reread")
    /\ UNCHANGED <<cred, vault, robots, keys, rotations, faults, lost>>

\* The status is read, then written back to clear last_error.
reread(p) ==
    /\ At(p, "reread")
    /\ proc' = [proc EXCEPT ![p].seen = tenant[proc[p].hub].status, ![p].pc = "restate"]
    /\ UNCHANGED <<tenant, cred, vault, robots, keys, rotations, faults, lost>>

restate(p) ==
    /\ At(p, "restate")
    /\ tenant' = [tenant EXCEPT ![proc[p].hub].status = proc[p].seen]
    /\ Goto(p, "release")
    /\ UNCHANGED <<cred, vault, robots, keys, rotations, faults, lost>>

\* The except clauses mark the tenant.
mark_tenant_failed(p) ==
    /\ At(p, "failed") \/ At(p, "limit")
    /\ tenant' = [tenant EXCEPT ![proc[p].hub].status =
                     IF At(p, "limit") THEN "ssa_limit_reached" ELSE "ssa_provision_failed"]
    /\ Goto(p, "release")
    /\ UNCHANGED <<cred, vault, robots, keys, rotations, faults, lost>>

\* The finally clause releases the claim, whoever holds it by now.
release_provisioning(p) ==
    /\ At(p, "release")
    /\ tenant' = [tenant EXCEPT ![proc[p].hub].claim = "free"]
    /\ Return(p)
    /\ UNCHANGED <<cred, vault, robots, keys, rotations, faults, lost>>

-----------------------------------------------------------------------------
(* verify_app_authorised, once its probe has passed *)

\* The row as read; a hub with no row and no capacity is left without one.
verify_app_authorised(p, h) ==
    /\ At(p, "free")
    /\ proc' = [proc EXCEPT ![p] =
           IF tenant[h].status = "none" THEN Fresh("v_tenant", h)
           ELSE [Fresh("v_status", h) EXCEPT !.seen = tenant[h].status]]
    /\ UNCHANGED <<tenant, cred, vault, robots, keys, rotations, faults, lost>>

PinTenant(p) ==
    LET h == proc[p].hub IN
    /\ At(p, "v_tenant")
    /\ Provisioned(h) \/ has_capacity
    /\ tenant' = [tenant EXCEPT ![h] = EnsuredTenant(h)]
    /\ proc' = [proc EXCEPT ![p].seen = EnsuredTenant(h).status, ![p].pc = "v_status"]
    /\ UNCHANGED <<cred, vault, robots, keys, rotations, faults, lost>>

mark_app_authorised(p) ==
    LET h == proc[p].hub IN
    /\ At(p, "v_status")
    /\ tenant' = [tenant EXCEPT ![h].status =
           IF proc[p].seen \in {"pending_whitelist", "ssa_provision_failed"}
           THEN "whitelist_verified" ELSE tenant[h].status]
    /\ Return(p)
    /\ UNCHANGED <<cred, vault, robots, keys, rotations, faults, lost>>

-----------------------------------------------------------------------------
(* rotate_key *)

rotate_key(p, h) ==
    /\ At(p, "free")
    /\ Provisioned(h)
    /\ rotations < MaxRotations
    /\ rotations' = rotations + 1
    /\ proc' = [proc EXCEPT ![p] = [Fresh("r_key", h) EXCEPT !.robot = cred[h].robot,
                                                            !.old = cred[h].kid]]
    /\ UNCHANGED <<tenant, cred, vault, robots, keys, faults, lost>>

update_key(p) ==
    /\ At(p, "r_update")
    /\ cred' = [cred EXCEPT ![proc[p].hub].kid = proc[p].kid]
    /\ Goto(p, "r_mint")
    /\ UNCHANGED <<tenant, vault, robots, keys, rotations, faults, lost>>

\* Seeded bug: the new key is not proved before the old one goes.
SkipProof(p) ==
    /\ At(p, "r_mint")
    /\ proc' = [proc EXCEPT ![p].pc = "r_delete", ![p].old = cred[proc[p].hub].kid]
    /\ UNCHANGED <<tenant, cred, vault, robots, keys, rotations, faults, lost>>

\* A token is minted from the row and the vault as they are now, to prove the
\* new key; a mint that fails, for this reason or any other, ends the rotation
\* before the old key is deleted.
get_acc_token(p) ==
    /\ At(p, "r_mint")
    /\ (CanMint(proc[p].hub) /\ Goto(p, "r_delete")) \/ Return(p)
    /\ UNCHANGED <<tenant, cred, vault, robots, keys, rotations, faults, lost>>

delete_key(p) ==
    /\ At(p, "r_delete")
    /\ keys' = [keys EXCEPT ![proc[p].old].live = FALSE]
    /\ Return(p)
    /\ UNCHANGED <<tenant, cred, vault, robots, rotations, faults, lost>>

-----------------------------------------------------------------------------
(* Faults *)

\* A robot whose id is in the hands of p alone.
InHand(p) == IF At(p, "record") THEN {proc[p].robot} ELSE {}

\* A step raises.  Once the claim is won the tenant is marked and the claim
\* released, unless an except clause is what raises; a rotation just ends.
Fail(p) ==
    /\ faults < MaxFaults
    /\ faults' = faults + 1
    /\ lost' = lost \cup InHand(p)
    /\ \/ /\ proc[p].pc \in Claimed \ {"release"}
          /\ Goto(p, IF proc[p].pc \in {"winner", "failed", "limit"} THEN "release" ELSE "failed")
       \/ /\ proc[p].pc \in Rotating
          /\ Return(p)
    /\ UNCHANGED <<tenant, cred, vault, robots, keys, rotations>>

\* The robot is created, but the response never arrives.
ResponseLost(p) ==
    /\ At(p, "create")
    /\ faults < MaxFaults
    /\ Len(robots) < Quota
    /\ faults' = faults + 1
    /\ robots' = Append(robots, proc[p].hub)
    /\ lost' = lost \cup {Len(robots) + 1}
    /\ Goto(p, "failed")
    /\ UNCHANGED <<tenant, cred, vault, keys, rotations>>

\* The process dies, or the release itself raises: the claim stays.
Crash(p) ==
    /\ ~At(p, "free")
    /\ faults < MaxFaults
    /\ faults' = faults + 1
    /\ lost' = lost \cup InHand(p)
    /\ Return(p)
    /\ UNCHANGED <<tenant, cred, vault, robots, keys, rotations>>

Holds(p, h) == proc[p].pc \in Claimed /\ proc[p].hub = h

\* PROVISION_CLAIM_STALE_SEC go by since the claim was taken.
ClaimExpires(h) ==
    /\ tenant[h].claim = "held"
    /\ LiveExpiry \/ \A p \in Processes : ~Holds(p, h)
    /\ tenant' = [tenant EXCEPT ![h].claim = "stale"]
    /\ UNCHANGED <<cred, vault, robots, keys, proc, rotations, faults, lost>>

-----------------------------------------------------------------------------
Step(p) ==
    \/ resolve_app(p) \/ ensure_tenant(p) \/ try_claim_provisioning(p)
    \/ await_winner(p) \/ Refused(p)
    \/ recheck(p) \/ adopt(p) \/ create_service_account(p) \/ set_pending_robot(p)
    \/ create_key(p) \/ put_secret(p) \/ insert(p) \/ winner(p)
    \/ clear_pending_robot(p) \/ reread(p) \/ restate(p)
    \/ mark_tenant_failed(p) \/ release_provisioning(p)
    \/ PinTenant(p) \/ mark_app_authorised(p)
    \/ update_key(p) \/ get_acc_token(p) \/ delete_key(p)

Next ==
    \/ \E p \in Processes :
          \/ \E h \in Hubs : ensure_ssa(p, h) \/ verify_app_authorised(p, h) \/ rotate_key(p, h)
          \/ Step(p) \/ Fail(p) \/ ResponseLost(p) \/ Crash(p)
    \/ \E h \in Hubs : ClaimExpires(h)

Spec == Init /\ [][Next]_vars

\* A request ends: every remote call has a timeout.  Nothing is assumed of the
\* requests that start.  The claim of a dead process grows old.
FairSpec ==
    /\ Spec
    /\ \A p \in Processes : WF_vars(Step(p))
    /\ \A h \in Hubs : WF_vars(ClaimExpires(h))

-----------------------------------------------------------------------------
(* Properties *)

\* The type invariant; APS has no key without a robot.
TypeOK ==
    /\ tenant \in [Hubs -> Tenant]
    /\ cred \in [Hubs -> [robot: Nat, kid: Nat]]
    /\ vault \in [Hubs -> Nat]
    /\ robots \in Seq(Hubs)
    /\ keys \in Seq([robot: 1..Len(robots), live: BOOLEAN])
    /\ proc \in [Processes -> Process]
    /\ rotations \in 0..MaxRotations
    /\ faults \in 0..MaxFaults
    /\ lost \subseteq 1..Len(robots)

\* However many administrators provision a hub, and wherever their requests
\* fail, APS holds one robot for it, apart from robots whose id a fault took
\* before set_pending_robot had recorded it (ssa_provisioner.py:6-11).
OneRobotUnlessLost ==
    \A i, j \in (1..Len(robots)) \ lost : robots[i] = robots[j] => i = j

\* Orphan adoption: a robot that is not lost is the credential of its hub, or
\* is recorded for the next attempt, or is in the hands of the request that
\* created it; no order of the calls strands it.
RobotsRecorded ==
    \A i \in (1..Len(robots)) \ lost :
        \/ cred[robots[i]].robot = i
        \/ tenant[robots[i]].pending = i
        \/ \E p \in Processes : i \in InHand(p)

\* try_claim_provisioning is a mutex: two requests are never both between the
\* claim and its release (tenant_repository.py:103 "A conditional UPDATE on one
\* row is the mutex").
OneCreator ==
    \A p, q \in Processes :
        p # q /\ proc[p].pc \in Claimed /\ proc[q].pc \in Claimed
            => proc[p].hub # proc[q].hub

\* The robots of a hub whose id is not lost.
Robots(h) == {i \in (1..Len(robots)) \ lost : robots[i] = h}

HubRobot(h) == INSTANCE HubRobot
    WITH Requests <- Processes, RobotIds <- 1..Quota,
         holder <- {p \in Processes : Holds(p, h)},
         robot <- Robots(h),
         serving <- {cred[h].robot} \ {0}

\* Provisioning keeps the promise of HubRobot (ssa_provisioner.py:1-21), however
\* the requests of several administrators interleave, fail and are repeated: only
\* the holder of the claim makes a robot, only where there is none, and the one
\* that it puts into service is the hub's robot, for good.  (This is
\* \A h \in Hubs : HubRobot(h)!Spec, in a form that TLC evaluates.)
KeepsOneRobot ==
    /\ \A h \in Hubs : HubRobot(h)!Init
    /\ [][\A h \in Hubs : UNCHANGED HubRobot(h)!vars \/ HubRobot(h)!Next]_vars

\* A hub can mint tokens, however it was provisioned: the private key in the
\* vault is the one the credential names, and APS still accepts it.  So it is
\* again after a rotation, unless a fault ended that or two of them crossed: the
\* key and its id are stored one after the other, in two systems.
MintableAtRest ==
    \A h \in Hubs :
        \/ ~Provisioned(h)
        \/ CanMint(h)
        \/ rotations > 1 \/ (rotations = 1 /\ faults > 0)
        \/ \E p \in Processes : proc[p].hub = h /\ proc[p].pc \in Rotating

\* "New key first, old key deleted last": overlapping and failing rotations
\* never delete the key the credential names, and that key is always one of the
\* hub's own robot.
SigningKeyLive ==
    \A h \in Hubs :
        Provisioned(h) => /\ robots[cred[h].robot] = h
                          /\ keys[cred[h].kid] = [robot |-> cred[h].robot, live |-> TRUE]

\* A process that dies holding the claim does not lock the hub out forever
\* (tenant_repository.py:107-108).
NotLockedOut ==
    \A h \in Hubs : [](tenant[h].status # "none" => <>Claimable(h))
=============================================================================

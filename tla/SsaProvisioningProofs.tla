----------------------- MODULE SsaProvisioningProofs -----------------------
(***************************************************************************)
(* What the claim of a hub guarantees, for any number of hubs, requests,   *)
(* rotations and faults.                                                   *)
(*                                                                         *)
(* TypeOK needs two facts to be inductive: a request that is not free has  *)
(* a hub (Busy), and every robot id in a row or in the hands of a request  *)
(* is the id of a robot that was created (Known).  OneCreator needs that   *)
(* whoever is between the claim and its release still holds it (Held),     *)
(* which is true only while no claim outlives PROVISION_CLAIM_STALE_SEC    *)
(* under a living holder.                                                  *)
(***************************************************************************)
EXTENDS SsaProvisioning, SequenceTheorems, TLAPS

\* A request at work is at work on a hub.
Busy == \A p \in Processes : proc[p].pc # "free" => proc[p].hub \in Hubs

\* Robot ids are those of robots that APS has created.
Known ==
    /\ \A h \in Hubs : tenant[h].pending <= Len(robots) /\ cred[h].robot <= Len(robots)
    /\ \A p \in Processes : proc[p].robot <= Len(robots)
    /\ \A p \in Processes : proc[p].pc \in {"record", "key", "r_key"} => proc[p].robot # 0

IInv == TypeOK /\ Busy /\ Known

\* Between the claim and its release a request holds the claim.
Held == \A p \in Processes : proc[p].pc \in Claimed => tenant[proc[p].hub].claim = "held"

Mutex == OneCreator /\ Held

-----------------------------------------------------------------------------
(* Facts about the pieces *)

Pcs == {"free", "app", "tenant", "claim", "await"} \cup Claimed \cup Rotating \cup Verifying

\* A request that moves on stays a request.
LEMMA GotoType ==
    ASSUME TypeOK, NEW p \in Processes, NEW pc \in Pcs, Goto(p, pc)
    PROVE  /\ proc' \in [Processes -> Process]
           /\ proc'[p] = [proc[p] EXCEPT !.pc = pc]
           /\ \A q \in Processes \ {p} : proc'[q] = proc[q]
BY DEF TypeOK, Goto, Process, Pcs

\* A request that returns is free.
LEMMA ReturnType ==
    ASSUME TypeOK, NEW p \in Processes, Return(p)
    PROVE  /\ proc' \in [Processes -> Process]
           /\ proc'[p] = Free
           /\ \A q \in Processes \ {p} : proc'[q] = proc[q]
BY DEF TypeOK, Return, Process, Free, Fresh, Claimed, Rotating, Verifying

\* Request p moves.  What it holds is known, and so is every row.
LEMMA Moves ==
    ASSUME IInv, NEW p \in Processes,
           proc' \in [Processes -> Process],
           \A q \in Processes \ {p} : proc'[q] = proc[q],
           proc'[p].pc # "free" => proc'[p].hub \in Hubs,
           proc'[p].robot <= Len(robots'),
           proc'[p].pc \in {"record", "key", "r_key"} => proc'[p].robot # 0,
           Len(robots') \in Nat, Len(robots) \in Nat, Len(robots) <= Len(robots'),
           \A h \in Hubs : tenant'[h].pending <= Len(robots') /\ cred'[h].robot <= Len(robots')
    PROVE  Busy' /\ Known'
<1>1. \A q \in Processes : proc[q].robot \in Nat  BY DEF IInv, TypeOK, Process
<1>2. Busy'  BY DEF IInv, Busy
<1>3. \A q \in Processes : proc'[q].robot <= Len(robots')  BY <1>1 DEF IInv, Known
<1>4. QED  BY <1>2, <1>3 DEF IInv, Known

\* The rest of the state as it was.
Rest == UNCHANGED <<tenant, cred, vault, robots, keys, rotations>>

\* A request moves on, with the robot it had.
LEMMA GotoStep ==
    ASSUME IInv, Rest, NEW p \in Processes, NEW pc \in Pcs, Goto(p, pc),
           proc[p].pc # "free",
           pc \in {"record", "key", "r_key"} => proc[p].robot # 0,
           faults' \in 0..MaxFaults, lost' \subseteq 1..Len(robots)
    PROVE  IInv'
<1>1. /\ proc' \in [Processes -> Process]
      /\ proc'[p] = [proc[p] EXCEPT !.pc = pc]
      /\ \A q \in Processes \ {p} : proc'[q] = proc[q]
  BY GotoType DEF IInv
<1>2. proc[p] \in Process  BY DEF IInv, TypeOK
<1>3. /\ proc'[p].hub = proc[p].hub /\ proc'[p].robot = proc[p].robot
      /\ proc'[p].pc = pc
  BY <1>1, <1>2 DEF Process
<1>4. Len(robots) \in Nat  BY LenProperties DEF IInv, TypeOK
<1>5. Busy' /\ Known'
  BY <1>1, <1>3, <1>4, Moves DEF Rest, IInv, Busy, Known
<1>6. TypeOK'  BY <1>1 DEF Rest, IInv, TypeOK
<1>7. QED  BY <1>5, <1>6 DEF IInv

\* A request returns.
LEMMA ReturnStep ==
    ASSUME IInv, Rest, NEW p \in Processes, Return(p),
           faults' \in 0..MaxFaults, lost' \subseteq 1..Len(robots)
    PROVE  IInv'
<1>1. /\ proc' \in [Processes -> Process]
      /\ proc'[p] = Free
      /\ \A q \in Processes \ {p} : proc'[q] = proc[q]
  BY ReturnType DEF IInv
<1>2. proc'[p].pc = "free" /\ proc'[p].robot = 0  BY <1>1 DEF Free, Fresh
<1>3. Len(robots) \in Nat  BY LenProperties DEF IInv, TypeOK
<1>4. Busy' /\ Known'
  BY <1>1, <1>2, <1>3, Moves DEF Rest, IInv, Known
<1>5. TypeOK'  BY <1>1 DEF Rest, IInv, TypeOK
<1>6. QED  BY <1>4, <1>5 DEF IInv

-----------------------------------------------------------------------------
(* The type invariant is preserved *)

\* A row after ensure_tenant is a row.
LEMMA EnsuredType ==
    ASSUME TypeOK, NEW h \in Hubs
    PROVE  /\ EnsuredTenant(h) \in Tenant
           /\ EnsuredTenant(h).pending = tenant[h].pending
           /\ EnsuredTenant(h).claim = tenant[h].claim
<1>1. tenant[h] \in Tenant  BY DEF TypeOK
<1>2. QED  BY <1>1 DEF EnsuredTenant, Tenant, TENANT_STATUSES

\* A request that only moves on, or returns: its steps of reading and checking.
LEMMA ReadStep ==
    ASSUME IInv, NEW p \in Processes,
           \/ resolve_app(p) \/ await_winner(p) \/ Refused(p) \/ recheck(p)
           \/ winner(p) \/ get_acc_token(p)
    PROVE  IInv'
<1>0. faults \in 0..MaxFaults /\ lost \subseteq 1..Len(robots)  BY DEF IInv, TypeOK
<1>1. CASE resolve_app(p)
  BY <1>0, <1>1, GotoStep DEF resolve_app, At, Rest, Pcs
<1>2. CASE await_winner(p)
  BY <1>0, <1>2, ReturnStep DEF await_winner, Rest
<1>3. CASE Refused(p)
  BY <1>0, <1>3, ReturnStep DEF Refused, Rest
<1>4. CASE recheck(p)
  <2>1. PICK pc \in {"release", "adopt"} : Goto(p, pc)
    BY <1>4 DEF recheck
  <2>2. QED  BY <1>0, <1>4, <2>1, GotoStep DEF recheck, At, Rest, Pcs, Claimed
<1>5. CASE winner(p)
  BY <1>0, <1>5, GotoStep DEF winner, At, Rest, Pcs, Claimed
<1>6. CASE get_acc_token(p)
  <2>1. CASE Goto(p, "r_delete")
    BY <1>0, <1>6, <2>1, GotoStep DEF get_acc_token, At, Rest, Pcs, Rotating
  <2>2. CASE Return(p)
    BY <1>0, <1>6, <2>2, ReturnStep DEF get_acc_token, Rest
  <2>3. QED  BY <1>6, <2>1, <2>2 DEF get_acc_token
<1>7. QED  BY <1>1, <1>2, <1>3, <1>4, <1>5, <1>6

\* A step of request p, with rows that are well formed and robots that are known.
LEMMA WriteStep ==
    ASSUME IInv, NEW p \in Processes,
           proc' \in [Processes -> Process],
           \A q \in Processes \ {p} : proc'[q] = proc[q],
           proc'[p].pc # "free" => proc'[p].hub \in Hubs,
           proc'[p].robot <= Len(robots),
           proc'[p].pc \in {"record", "key", "r_key"} => proc'[p].robot # 0,
           tenant' \in [Hubs -> Tenant],
           \A h \in Hubs : tenant'[h].pending <= Len(robots),
           cred' \in [Hubs -> [robot: Nat, kid: Nat]],
           \A h \in Hubs : cred'[h].robot <= Len(robots),
           vault' \in [Hubs -> Nat],
           keys' \in Seq([robot: 1..Len(robots), live: BOOLEAN]),
           rotations' \in 0..MaxRotations, robots' = robots,
           faults' = faults, lost' = lost
    PROVE  IInv'
<1>1. Len(robots) \in Nat  BY LenProperties DEF IInv, TypeOK
<1>2. Busy' /\ Known'  BY <1>1, Moves
<1>3. TypeOK'  BY DEF IInv, TypeOK
<1>4. QED  BY <1>2, <1>3 DEF IInv

\* What every proof below needs of the state a step starts from.
LEMMA Here ==
    ASSUME IInv, NEW p \in Processes
    PROVE  /\ Len(robots) \in Nat
           /\ proc[p] \in Process /\ proc[p].robot <= Len(robots)
           /\ proc[p].pc # "free" => proc[p].hub \in Hubs
           /\ \A h \in Hubs : /\ tenant[h] \in Tenant /\ tenant[h].pending <= Len(robots)
                              /\ cred[h] \in [robot: Nat, kid: Nat]
                              /\ cred[h].robot <= Len(robots)
BY LenProperties DEF IInv, TypeOK, Busy, Known

\* A request that starts or that takes something in hand writes nothing.
LEMMA TakeStep ==
    ASSUME IInv, NEW p \in Processes, NEW x \in Process,
           proc' = [proc EXCEPT ![p] = x],
           x.pc # "free" => x.hub \in Hubs,
           x.robot <= Len(robots),
           x.pc \in {"record", "key", "r_key"} => x.robot # 0,
           UNCHANGED <<tenant, cred, vault, robots, keys, faults, lost>>,
           rotations' \in 0..MaxRotations
    PROVE  IInv'
<1>1. /\ proc' \in [Processes -> Process] /\ proc'[p] = x
      /\ \A q \in Processes \ {p} : proc'[q] = proc[q]
  BY DEF IInv, TypeOK
<1>2. \A h \in Hubs : tenant'[h].pending <= Len(robots) /\ cred'[h].robot <= Len(robots)
  BY DEF IInv, Known
<1>3. /\ tenant' \in [Hubs -> Tenant] /\ cred' \in [Hubs -> [robot: Nat, kid: Nat]]
      /\ vault' \in [Hubs -> Nat] /\ keys' \in Seq([robot: 1..Len(robots), live: BOOLEAN])
  BY DEF IInv, TypeOK
<1>4. QED  BY <1>1, <1>2, <1>3, WriteStep

\* A request that starts is at its first step, with a hub and without a robot.
LEMMA FreshType ==
    ASSUME NEW h \in Hubs, NEW pc \in Pcs
    PROVE  /\ Fresh(pc, h) \in Process /\ Free \in Process
           /\ Fresh(pc, h).pc = pc /\ Fresh(pc, h).hub = h /\ Fresh(pc, h).robot = 0
           /\ Free.pc = "free" /\ Free.robot = 0
BY DEF Fresh, Free, Process, Pcs, Claimed, Rotating, Verifying

\* A request starts.
LEMMA StartStep ==
    ASSUME IInv, NEW p \in Processes, NEW h \in Hubs,
           ensure_ssa(p, h) \/ verify_app_authorised(p, h) \/ rotate_key(p, h)
    PROVE  IInv'
<1>0. rotations \in 0..MaxRotations  BY DEF IInv, TypeOK
<1>1. CASE ensure_ssa(p, h)
  <2>1. Fresh("app", h) \in Process /\ Free \in Process  BY FreshType DEF Pcs
  <2>2. /\ Fresh("app", h).hub = h /\ Fresh("app", h).robot = 0 /\ Fresh("app", h).pc = "app"
        /\ Free.pc = "free" /\ Free.robot = 0
    BY FreshType DEF Pcs
  <2>3. PICK x \in {Free, Fresh("app", h)} : proc' = [proc EXCEPT ![p] = x]
    BY <1>1 DEF ensure_ssa
  <2>4. /\ x \in Process /\ x.robot = 0 /\ x.pc \notin {"record", "key", "r_key"}
        /\ x.pc # "free" => x.hub \in Hubs
    BY <2>1, <2>2
  <2>5. 0 <= Len(robots)  BY Here
  <2>6. rotations' \in 0..MaxRotations /\ UNCHANGED <<tenant, cred, vault, robots, keys, faults, lost>>
    BY <1>0, <1>1 DEF ensure_ssa
  <2>7. QED  BY <2>3, <2>4, <2>5, <2>6, TakeStep
<1>2. CASE verify_app_authorised(p, h)
  <2>1. Fresh("v_tenant", h) \in Process /\ Fresh("v_status", h) \in Process
    BY FreshType DEF Pcs, Verifying
  <2>2. /\ Fresh("v_tenant", h).hub = h /\ Fresh("v_tenant", h).robot = 0
        /\ Fresh("v_tenant", h).pc = "v_tenant"
    BY DEF Fresh
  <2>3. LET y == [Fresh("v_status", h) EXCEPT !.seen = tenant[h].status]
        IN  y \in Process /\ y.hub = h /\ y.robot = 0 /\ y.pc = "v_status"
    BY <2>1, Here DEF Fresh, Process, Tenant
  <2>4. PICK x \in {Fresh("v_tenant", h),
                    [Fresh("v_status", h) EXCEPT !.seen = tenant[h].status]} :
            proc' = [proc EXCEPT ![p] = x]
    BY <1>2 DEF verify_app_authorised
  <2>5. /\ x \in Process /\ x.robot = 0 /\ x.pc \notin {"record", "key", "r_key"}
        /\ x.pc # "free" => x.hub \in Hubs
    BY <2>1, <2>2, <2>3
  <2>6. 0 <= Len(robots)  BY Here
  <2>7. rotations' \in 0..MaxRotations /\ UNCHANGED <<tenant, cred, vault, robots, keys, faults, lost>>
    BY <1>0, <1>2 DEF verify_app_authorised
  <2>8. QED  BY <2>4, <2>5, <2>6, <2>7, TakeStep
<1>3. CASE rotate_key(p, h)
  <2>1. Fresh("r_key", h) \in Process  BY FreshType DEF Pcs, Rotating
  <2>2. LET y == [Fresh("r_key", h) EXCEPT !.robot = cred[h].robot, !.old = cred[h].kid]
        IN  y \in Process /\ y.hub = h /\ y.robot = cred[h].robot /\ y.pc = "r_key"
    BY <2>1, Here DEF Fresh, Process
  <2>3. cred[h].robot # 0  BY <1>3 DEF rotate_key, Provisioned
  <2>4. rotations' \in 0..MaxRotations  BY <1>0, <1>3, ConstantsAssumption DEF rotate_key
  <2>5. QED  BY <1>3, <2>2, <2>3, <2>4, Here, TakeStep DEF rotate_key
<1>4. QED  BY <1>1, <1>2, <1>3

\* A request that moves on writes the row of a hub.
LEMMA GotoRow ==
    ASSUME IInv, NEW p \in Processes, NEW pc \in Pcs, NEW h \in Hubs, NEW x \in Tenant,
           proc[p].pc # "free",
           tenant' = [tenant EXCEPT ![h] = x],
           x.pending <= Len(robots),
           Goto(p, pc),
           pc \in {"record", "key", "r_key"} => proc[p].robot # 0,
           UNCHANGED <<cred, vault, robots, keys, rotations, faults, lost>>
    PROVE  IInv'
<1>1. /\ tenant' \in [Hubs -> Tenant]
      /\ \A g \in Hubs : tenant'[g].pending <= Len(robots)
  BY Here DEF IInv, TypeOK
<1>2. /\ cred' \in [Hubs -> [robot: Nat, kid: Nat]] /\ vault' \in [Hubs -> Nat]
      /\ keys' \in Seq([robot: 1..Len(robots), live: BOOLEAN]) /\ rotations' \in 0..MaxRotations
      /\ \A g \in Hubs : cred'[g].robot <= Len(robots)
  BY Here DEF IInv, TypeOK
<1>3. /\ proc' \in [Processes -> Process]
      /\ proc'[p] = [proc[p] EXCEPT !.pc = pc]
      /\ \A q \in Processes \ {p} : proc'[q] = proc[q]
  BY GotoType DEF IInv
<1>4. /\ proc'[p].hub = proc[p].hub /\ proc'[p].robot = proc[p].robot /\ proc'[p].pc = pc
  BY <1>3, Here DEF Process
<1>5. proc'[p].hub \in Hubs /\ proc'[p].robot <= Len(robots)  BY <1>4, Here
<1>6. QED  BY <1>1, <1>2, <1>3, <1>4, <1>5, WriteStep

\* A request that returns writes the row of a hub.
LEMMA ReturnRow ==
    ASSUME IInv, NEW p \in Processes, NEW h \in Hubs, NEW x \in Tenant,
           tenant' = [tenant EXCEPT ![h] = x],
           x.pending <= Len(robots),
           Return(p),
           UNCHANGED <<cred, vault, robots, keys, rotations, faults, lost>>
    PROVE  IInv'
<1>1. /\ tenant' \in [Hubs -> Tenant]
      /\ \A g \in Hubs : tenant'[g].pending <= Len(robots)
  BY Here DEF IInv, TypeOK
<1>2. /\ cred' \in [Hubs -> [robot: Nat, kid: Nat]] /\ vault' \in [Hubs -> Nat]
      /\ keys' \in Seq([robot: 1..Len(robots), live: BOOLEAN]) /\ rotations' \in 0..MaxRotations
      /\ \A g \in Hubs : cred'[g].robot <= Len(robots)
  BY Here DEF IInv, TypeOK
<1>3. /\ proc' \in [Processes -> Process] /\ proc'[p] = Free
      /\ \A q \in Processes \ {p} : proc'[q] = proc[q]
  BY ReturnType DEF IInv
<1>4. proc'[p].pc = "free" /\ proc'[p].robot = 0  BY <1>3 DEF Free, Fresh
<1>5. 0 <= Len(robots)  BY Here
<1>6. QED  BY <1>1, <1>2, <1>3, <1>4, <1>5, WriteStep

\* The steps that write a tenant and move on.
LEMMA TenantStep ==
    ASSUME IInv, NEW p \in Processes,
           \/ ensure_tenant(p) \/ try_claim_provisioning(p)
           \/ set_pending_robot(p) \/ clear_pending_robot(p)
           \/ restate(p) \/ mark_tenant_failed(p) \/ release_provisioning(p)
           \/ mark_app_authorised(p)
    PROVE  IInv'
<1> DEFINE h == proc[p].hub
<1>0. proc[p].pc # "free"
  BY DEF ensure_tenant, try_claim_provisioning, set_pending_robot, clear_pending_robot, restate,
         mark_tenant_failed, release_provisioning, mark_app_authorised, At
<1>1. /\ h \in Hubs /\ tenant[h] \in Tenant /\ tenant[h].pending <= Len(robots)
      /\ Len(robots) \in Nat /\ proc[p] \in Process /\ proc[p].robot <= Len(robots)
  BY <1>0, Here
<1>2. UNCHANGED <<cred, vault, robots, keys, rotations, faults, lost>>
  BY DEF ensure_tenant, try_claim_provisioning, set_pending_robot, clear_pending_robot, restate,
         mark_tenant_failed, release_provisioning, mark_app_authorised
<1>3. tenant \in [Hubs -> Tenant]  BY DEF IInv, TypeOK
<1>4. CASE ensure_tenant(p)
  <2>1. /\ EnsuredTenant(h) \in Tenant /\ EnsuredTenant(h).pending <= Len(robots)
        /\ tenant' = [tenant EXCEPT ![h] = EnsuredTenant(h)]
    BY <1>1, <1>4, EnsuredType DEF ensure_tenant, IInv
  <2>2. Goto(p, "claim")  BY <1>4 DEF ensure_tenant
  <2>3. "claim" \in Pcs /\ "claim" \notin {"record", "key", "r_key"}  BY DEF Pcs
  <2>4. QED  BY <1>0, <1>1, <1>2, <2>1, <2>2, <2>3, GotoRow
<1>5. CASE try_claim_provisioning(p)
  <2>1. PICK c \in {"free", "held", "stale"} : tenant' = [tenant EXCEPT ![h].claim = c]
    <3>1. CASE Claimable(h)
      BY <1>5, <3>1 DEF try_claim_provisioning
    <3>2. CASE ~Claimable(h)
      <4>1. tenant' = tenant  BY <1>5, <3>2 DEF try_claim_provisioning
      <4>2. tenant[h].claim \in {"free", "held", "stale"}  BY <1>1 DEF Tenant
      <4>3. tenant = [tenant EXCEPT ![h].claim = tenant[h].claim]
        BY <1>3, <1>1 DEF Tenant
      <4>4. QED  BY <4>1, <4>2, <4>3
    <3>3. QED  BY <3>1, <3>2
  <2>2. /\ [tenant[h] EXCEPT !.claim = c] \in Tenant
        /\ [tenant[h] EXCEPT !.claim = c].pending <= Len(robots)
        /\ tenant' = [tenant EXCEPT ![h] = [tenant[h] EXCEPT !.claim = c]]
    BY <1>1, <1>3, <2>1 DEF Tenant
  <2>3. PICK pc \in {"recheck", "await"} : Goto(p, pc)
    BY <1>5 DEF try_claim_provisioning
  <2>4. pc \in Pcs /\ pc \notin {"record", "key", "r_key"}  BY DEF Pcs, Claimed
  <2>5. QED  BY <1>0, <1>1, <1>2, <2>2, <2>3, <2>4, GotoRow
<1>6. CASE set_pending_robot(p)
  <2>1. /\ [tenant[h] EXCEPT !.pending = proc[p].robot] \in Tenant
        /\ [tenant[h] EXCEPT !.pending = proc[p].robot].pending <= Len(robots)
        /\ tenant' = [tenant EXCEPT ![h] = [tenant[h] EXCEPT !.pending = proc[p].robot]]
    BY <1>1, <1>6, <1>3 DEF set_pending_robot, Tenant, Process
  <2>2. proc[p].robot # 0  BY <1>6 DEF set_pending_robot, At, IInv, Known
  <2>3. Goto(p, "key")  BY <1>6 DEF set_pending_robot
  <2>4. "key" \in Pcs  BY DEF Pcs, Claimed
  <2>5. QED  BY <1>0, <1>1, <1>2, <2>1, <2>2, <2>3, <2>4, GotoRow
<1>7. CASE clear_pending_robot(p)
  <2>1. /\ [tenant[h] EXCEPT !.pending = 0] \in Tenant
        /\ [tenant[h] EXCEPT !.pending = 0].pending <= Len(robots)
        /\ tenant' = [tenant EXCEPT ![h] = [tenant[h] EXCEPT !.pending = 0]]
    BY <1>1, <1>7, <1>3 DEF clear_pending_robot, Tenant
  <2>2. Goto(p, "reread")  BY <1>7 DEF clear_pending_robot
  <2>3. "reread" \in Pcs /\ "reread" \notin {"record", "key", "r_key"}  BY DEF Pcs, Claimed
  <2>4. QED  BY <1>0, <1>1, <1>2, <2>1, <2>2, <2>3, GotoRow
<1>8. CASE restate(p)
  <2>1. /\ [tenant[h] EXCEPT !.status = proc[p].seen] \in Tenant
        /\ [tenant[h] EXCEPT !.status = proc[p].seen].pending <= Len(robots)
        /\ tenant' = [tenant EXCEPT ![h] = [tenant[h] EXCEPT !.status = proc[p].seen]]
    BY <1>1, <1>8, <1>3 DEF restate, Tenant, Process
  <2>2. Goto(p, "release")  BY <1>8 DEF restate
  <2>3. "release" \in Pcs /\ "release" \notin {"record", "key", "r_key"}  BY DEF Pcs, Claimed
  <2>4. QED  BY <1>0, <1>1, <1>2, <2>1, <2>2, <2>3, GotoRow
<1>9. CASE mark_tenant_failed(p)
  <2>1. PICK s \in {"ssa_limit_reached", "ssa_provision_failed"} :
            tenant' = [tenant EXCEPT ![h].status = s]
    BY <1>9 DEF mark_tenant_failed
  <2>2. /\ [tenant[h] EXCEPT !.status = s] \in Tenant
        /\ [tenant[h] EXCEPT !.status = s].pending <= Len(robots)
        /\ tenant' = [tenant EXCEPT ![h] = [tenant[h] EXCEPT !.status = s]]
    BY <1>1, <1>3, <2>1 DEF Tenant, TENANT_STATUSES
  <2>3. Goto(p, "release")  BY <1>9 DEF mark_tenant_failed
  <2>4. "release" \in Pcs /\ "release" \notin {"record", "key", "r_key"}  BY DEF Pcs, Claimed
  <2>5. QED  BY <1>0, <1>1, <1>2, <2>2, <2>3, <2>4, GotoRow
<1>10. CASE release_provisioning(p)
  <2>1. /\ [tenant[h] EXCEPT !.claim = "free"] \in Tenant
        /\ [tenant[h] EXCEPT !.claim = "free"].pending <= Len(robots)
        /\ tenant' = [tenant EXCEPT ![h] = [tenant[h] EXCEPT !.claim = "free"]]
    BY <1>1, <1>10, <1>3 DEF release_provisioning, Tenant
  <2>2. Return(p)  BY <1>10 DEF release_provisioning
  <2>3. QED  BY <1>1, <1>2, <2>1, <2>2, ReturnRow
<1>11. CASE mark_app_authorised(p)
  <2>1. PICK s \in TENANT_STATUSES \cup {"none"} : tenant' = [tenant EXCEPT ![h].status = s]
    BY <1>1, <1>11 DEF mark_app_authorised, Tenant, TENANT_STATUSES
  <2>2. /\ [tenant[h] EXCEPT !.status = s] \in Tenant
        /\ [tenant[h] EXCEPT !.status = s].pending <= Len(robots)
        /\ tenant' = [tenant EXCEPT ![h] = [tenant[h] EXCEPT !.status = s]]
    BY <1>1, <1>3, <2>1 DEF Tenant
  <2>3. Return(p)  BY <1>11 DEF mark_app_authorised
  <2>4. QED  BY <1>1, <1>2, <2>2, <2>3, ReturnRow
<1>12. QED  BY <1>4, <1>5, <1>6, <1>7, <1>8, <1>9, <1>10, <1>11

\* The steps that take something in hand.
LEMMA HandStep ==
    ASSUME IInv, NEW p \in Processes, adopt(p) \/ reread(p)
    PROVE  IInv'
<1> DEFINE h == proc[p].hub
<1>0. rotations \in 0..MaxRotations /\ proc \in [Processes -> Process]  BY DEF IInv, TypeOK
<1>1. proc[p].pc # "free"  BY DEF adopt, reread, At
<1>2. /\ h \in Hubs /\ tenant[h] \in Tenant /\ tenant[h].pending <= Len(robots)
      /\ proc[p] \in Process /\ proc[p].robot <= Len(robots)
  BY <1>1, Here
<1>3. UNCHANGED <<tenant, cred, vault, robots, keys, rotations, faults, lost>>
  BY DEF adopt, reread
<1>4. CASE adopt(p)
  <2> DEFINE left == tenant[h].pending
  <2>1. left \in Nat  BY <1>2 DEF Tenant
  <2>2. PICK pc \in {"key", "create"} :
            /\ proc' = [proc EXCEPT ![p] = [proc[p] EXCEPT !.robot = left, !.pc = pc]]
            /\ pc = "key" => left # 0
    BY <1>0, <1>4 DEF adopt
  <2> DEFINE x == [proc[p] EXCEPT !.robot = left, !.pc = pc]
  <2>3. x \in Process  BY <1>2, <2>1 DEF Process, Claimed
  <2>4. x.hub \in Hubs /\ x.robot = left /\ x.pc = pc  BY <1>2 DEF Process
  <2>5. x.robot <= Len(robots) /\ (x.pc \in {"record", "key", "r_key"} => x.robot # 0)
    BY <1>2, <2>2, <2>4
  <2>6. proc' = [proc EXCEPT ![p] = x]  BY <2>2
  <2> HIDE DEF x, left
  <2>7. QED  BY <1>0, <1>3, <2>3, <2>4, <2>5, <2>6, TakeStep
<1>5. CASE reread(p)
  <2> DEFINE x == [proc[p] EXCEPT !.seen = tenant[h].status, !.pc = "restate"]
  <2>1. x \in Process  BY <1>2 DEF Process, Claimed, Tenant
  <2>2. x.hub \in Hubs /\ x.robot = proc[p].robot /\ x.pc = "restate"  BY <1>2 DEF Process
  <2>3. proc' = [proc EXCEPT ![p] = x]  BY <1>0, <1>5 DEF reread
  <2> HIDE DEF x
  <2>4. x.robot <= Len(robots) /\ x.pc \notin {"record", "key", "r_key"}  BY <1>2, <2>2
  <2>5. QED  BY <1>0, <1>3, <2>1, <2>2, <2>3, <2>4, TakeStep
<1>6. QED  BY <1>4, <1>5

\* verify_app_authorised creates the row and goes on with its status.
LEMMA PinStep ==
    ASSUME IInv, NEW p \in Processes, PinTenant(p)
    PROVE  IInv'
<1> DEFINE h == proc[p].hub
           t == EnsuredTenant(h)
           x == [proc[p] EXCEPT !.seen = t.status, !.pc = "v_status"]
<1>1. proc[p].pc # "free"  BY DEF PinTenant, At
<1>2. h \in Hubs /\ proc[p] \in Process /\ proc[p].robot <= Len(robots)  BY <1>1, Here
<1>3. t \in Tenant /\ t.pending <= Len(robots)  BY <1>2, EnsuredType, Here DEF IInv
<1>4. /\ tenant' = [tenant EXCEPT ![h] = t]
      /\ UNCHANGED <<cred, vault, robots, keys, rotations, faults, lost>>
  BY DEF PinTenant
<1>5. proc' = [proc EXCEPT ![p] = x]  BY DEF PinTenant, IInv, TypeOK
<1>6. x \in Process /\ x.hub = h /\ x.robot = proc[p].robot /\ x.pc = "v_status"
  BY <1>2, <1>3 DEF Process, Verifying, Tenant
<1> HIDE DEF x, t
<1>7. /\ proc' \in [Processes -> Process] /\ proc'[p] = x
      /\ \A q \in Processes \ {p} : proc'[q] = proc[q]
  BY <1>5, <1>6 DEF IInv, TypeOK
<1>8. /\ tenant' \in [Hubs -> Tenant]
      /\ \A g \in Hubs : tenant'[g].pending <= Len(robots)
  BY <1>3, <1>4, Here DEF IInv, TypeOK
<1>9. /\ cred' \in [Hubs -> [robot: Nat, kid: Nat]] /\ vault' \in [Hubs -> Nat]
      /\ keys' \in Seq([robot: 1..Len(robots), live: BOOLEAN]) /\ rotations' \in 0..MaxRotations
      /\ \A g \in Hubs : cred'[g].robot <= Len(robots)
  BY <1>4, Here DEF IInv, TypeOK
<1>10. /\ proc'[p].hub \in Hubs /\ proc'[p].robot <= Len(robots)
       /\ proc'[p].pc \notin {"record", "key", "r_key"}
  BY <1>2, <1>6, <1>7
<1>11. robots' = robots /\ faults' = faults /\ lost' = lost  BY <1>4
<1>12. QED  BY <1>7, <1>8, <1>9, <1>10, <1>11, WriteStep

\* A credential, and a key of one of the first n robots.
Row == [robot: Nat, kid: Nat]
KeyOf(n) == [robot: 1..n, live: BOOLEAN]

\* A request moves on and writes the stores, but no tenant and no robot.
LEMMA GotoStore ==
    ASSUME IInv, NEW p \in Processes, NEW pc \in Pcs, Goto(p, pc),
           proc[p].pc # "free", pc \notin {"record", "key", "r_key"},
           cred' \in [Hubs -> Row], vault' \in [Hubs -> Nat],
           \A g \in Hubs : cred'[g].robot <= Len(robots),
           UNCHANGED <<tenant, robots, keys, rotations, faults, lost>>
    PROVE  IInv'
<1>1. /\ proc' \in [Processes -> Process]
      /\ proc'[p] = [proc[p] EXCEPT !.pc = pc]
      /\ \A q \in Processes \ {p} : proc'[q] = proc[q]
  BY GotoType DEF IInv
<1>2. /\ proc'[p].hub = proc[p].hub /\ proc'[p].robot = proc[p].robot /\ proc'[p].pc = pc
  BY <1>1, Here DEF Process
<1>3. proc'[p].hub \in Hubs /\ proc'[p].robot <= Len(robots)  BY <1>2, Here
<1>4. /\ tenant' \in [Hubs -> Tenant]
      /\ \A g \in Hubs : tenant'[g].pending <= Len(robots)
  BY Here DEF IInv, TypeOK
<1>5. keys' \in Seq([robot: 1..Len(robots), live: BOOLEAN]) /\ rotations' \in 0..MaxRotations
  BY DEF IInv, TypeOK
<1>6. cred' \in [Hubs -> [robot: Nat, kid: Nat]]  BY DEF Row
<1>7. QED  BY <1>1, <1>2, <1>3, <1>4, <1>5, <1>6, WriteStep

\* The steps that write the credential or the vault.
LEMMA StoreStep ==
    ASSUME IInv, NEW p \in Processes, put_secret(p) \/ insert(p) \/ update_key(p)
    PROVE  IInv'
<1> DEFINE h == proc[p].hub
<1>1. proc[p].pc # "free"  BY DEF put_secret, insert, update_key, At
<1>2. /\ h \in Hubs /\ proc[p] \in Process /\ proc[p].robot <= Len(robots)
  BY <1>1, Here
<1>3. proc[p].robot \in Nat /\ proc[p].kid \in Nat  BY <1>2 DEF Process
<1>4. /\ cred \in [Hubs -> Row] /\ vault \in [Hubs -> Nat]
      /\ \A g \in Hubs : cred[g].robot <= Len(robots)
  BY DEF IInv, TypeOK, Known, Row
<1>5. UNCHANGED <<tenant, robots, keys, rotations, faults, lost>>
  BY DEF put_secret, insert, update_key
<1>6. CASE put_secret(p)
  <2>1. vault' \in [Hubs -> Nat] /\ cred' = cred  BY <1>3, <1>4, <1>6 DEF put_secret
  <2>2. PICK pc \in {"insert", "r_update"} : Goto(p, pc)  BY <1>6 DEF put_secret
  <2>3. pc \in Pcs /\ pc \notin {"record", "key", "r_key"}  BY DEF Pcs, Claimed, Rotating
  <2>4. QED  BY <1>1, <1>4, <1>5, <2>1, <2>2, <2>3, GotoStore
<1>7. CASE insert(p)
  <2>1. vault' = vault  BY <1>7 DEF insert
  <2>2. cred' \in [Hubs -> Row] /\ \A g \in Hubs : cred'[g].robot <= Len(robots)
    <3>1. CASE cred' = cred  BY <1>4, <3>1
    <3>2. CASE cred' = [cred EXCEPT ![h] = [robot |-> proc[p].robot, kid |-> proc[p].kid]]
      BY <1>2, <1>3, <1>4, <3>2 DEF Row
    <3>3. QED  BY <1>7, <3>1, <3>2 DEF insert
  <2>3. PICK pc \in {"winner", "clear"} : Goto(p, pc)  BY <1>7 DEF insert
  <2>4. pc \in Pcs /\ pc \notin {"record", "key", "r_key"}  BY DEF Pcs, Claimed
  <2>5. QED  BY <1>1, <1>4, <1>5, <2>1, <2>2, <2>3, <2>4, GotoStore
<1>8. CASE update_key(p)
  <2>1. vault' = vault /\ Goto(p, "r_mint")  BY <1>8 DEF update_key
  <2>2. cred' = [cred EXCEPT ![h].kid = proc[p].kid]  BY <1>8 DEF update_key
  <2>3. cred' \in [Hubs -> Row] /\ \A g \in Hubs : cred'[g].robot = cred[g].robot
    BY <1>2, <1>3, <1>4, <2>2 DEF Row
  <2>4. \A g \in Hubs : cred'[g].robot <= Len(robots)  BY <1>4, <2>3
  <2>5. "r_mint" \in Pcs /\ "r_mint" \notin {"record", "key", "r_key"}  BY DEF Pcs, Rotating
  <2>6. QED  BY <1>1, <1>4, <1>5, <2>1, <2>3, <2>4, <2>5, GotoStore
<1>9. QED  BY <1>6, <1>7, <1>8

\* The steps that create and delete keys: only keys and the request change.
LEMMA KeyStep ==
    ASSUME IInv, NEW p \in Processes, create_key(p) \/ delete_key(p)
    PROVE  IInv'
<1>1. UNCHANGED <<tenant, cred, vault, robots, rotations, faults, lost>>
  BY DEF create_key, delete_key
<1>2. /\ tenant' \in [Hubs -> Tenant] /\ cred' \in [Hubs -> [robot: Nat, kid: Nat]]
      /\ vault' \in [Hubs -> Nat] /\ rotations' \in 0..MaxRotations
      /\ \A g \in Hubs : tenant'[g].pending <= Len(robots) /\ cred'[g].robot <= Len(robots)
  BY <1>1 DEF IInv, TypeOK, Known
<1>3. robots' = robots /\ faults' = faults /\ lost' = lost  BY <1>1
<1>4. proc[p].pc # "free"  BY DEF create_key, delete_key, At
<1>5. /\ proc[p].hub \in Hubs /\ proc[p] \in Process /\ proc[p].robot <= Len(robots)
      /\ Len(robots) \in Nat /\ proc[p].robot \in Nat
  BY <1>4, Here DEF Process
<1>6. keys \in Seq(KeyOf(Len(robots)))  BY DEF IInv, TypeOK, KeyOf
<1>7. CASE create_key(p)
  <2>1. proc[p].robot # 0  BY <1>7 DEF create_key, At, IInv, Known
  <2>2. [robot |-> proc[p].robot, live |-> TRUE] \in KeyOf(Len(robots))
    BY <1>5, <2>1 DEF KeyOf
  <2>3. keys' \in Seq(KeyOf(Len(robots))) /\ Len(keys) \in Nat
    BY <1>6, <1>7, <2>2, AppendProperties, LenProperties DEF create_key
  <2>4. PICK pc \in {"vault", "r_vault"} :
            proc' = [proc EXCEPT ![p] = [proc[p] EXCEPT !.kid = Len(keys) + 1, !.pc = pc]]
    BY <1>7 DEF create_key, IInv, TypeOK
  <2> DEFINE k == Len(keys) + 1
             x == [proc[p] EXCEPT !.kid = k, !.pc = pc]
  <2>5. k \in Nat  BY <2>3
  <2>6. pc \in Claimed \cup Rotating /\ pc \notin {"free", "record", "key", "r_key"}
    BY DEF Claimed, Rotating
  <2>7. proc' = [proc EXCEPT ![p] = x]  BY <2>4
  <2> HIDE DEF k
  <2>8. x \in Process /\ x.hub = proc[p].hub /\ x.robot = proc[p].robot /\ x.pc = pc
    BY <1>5, <2>5, <2>6 DEF Process
  <2> HIDE DEF x
  <2>9. /\ proc' \in [Processes -> Process] /\ proc'[p] = x
        /\ \A q \in Processes \ {p} : proc'[q] = proc[q]
    BY <2>8, <2>7 DEF IInv, TypeOK
  <2>10. /\ proc'[p].hub \in Hubs /\ proc'[p].robot <= Len(robots)
        /\ proc'[p].pc \notin {"record", "key", "r_key"}
    BY <1>5, <2>6, <2>8, <2>9
  <2>11. keys' \in Seq([robot: 1..Len(robots), live: BOOLEAN])  BY <2>3 DEF KeyOf
  <2>12. QED  BY <1>2, <1>3, <2>9, <2>10, <2>11, WriteStep
<1>8. CASE delete_key(p)
  <2> DEFINE k == proc[p].old
  <2>1. keys' \in Seq(KeyOf(Len(robots)))
    <3>1. keys' = [keys EXCEPT ![k] = [keys[k] EXCEPT !.live = FALSE]]
      BY <1>8 DEF delete_key
    <3>2. CASE k \in 1..Len(keys)
      <4>1. keys[k] \in KeyOf(Len(robots))  BY <1>6, <3>2, ElementOfSeq
      <4>2. [keys[k] EXCEPT !.live = FALSE] \in KeyOf(Len(robots))  BY <4>1 DEF KeyOf
      <4>3. QED  BY <1>6, <3>1, <3>2, <4>2, ExceptSeq
    <3>3. CASE k \notin 1..Len(keys)
      <4>1. DOMAIN keys = 1..Len(keys)  BY <1>6, LenProperties
      <4>2. keys = [i \in 1..Len(keys) |-> keys[i]]  BY <1>6, LenProperties
      <4>3. keys' = keys  BY <3>1, <3>3, <4>1, <4>2
      <4>4. QED  BY <1>6, <4>3
    <3>4. QED  BY <3>2, <3>3
  <2>2. Return(p)  BY <1>8 DEF delete_key
  <2>3. /\ proc' \in [Processes -> Process] /\ proc'[p] = Free
        /\ \A q \in Processes \ {p} : proc'[q] = proc[q]
    BY <2>2, ReturnType DEF IInv
  <2>4. proc'[p].pc = "free" /\ proc'[p].robot = 0  BY <2>3 DEF Free, Fresh
  <2>5. 0 <= Len(robots)  BY <1>5
  <2>6. keys' \in Seq([robot: 1..Len(robots), live: BOOLEAN])  BY <2>1 DEF KeyOf
  <2>7. QED  BY <1>2, <1>3, <2>3, <2>4, <2>5, <2>6, WriteStep
<1>9. QED  BY <1>7, <1>8

\* What is true of the first n ids is true of the first n + 1.
LEMMA MoreRobots ==
    ASSUME IInv, NEW h \in Hubs, robots' = Append(robots, h)
    PROVE  /\ robots' \in Seq(Hubs) /\ Len(robots') = Len(robots) + 1
           /\ Len(robots) \in Nat
           /\ 1..Len(robots) \subseteq 1..Len(robots')
           /\ Len(robots') \in 1..Len(robots')
           /\ Seq(KeyOf(Len(robots))) \subseteq Seq(KeyOf(Len(robots')))
<1>1. robots' \in Seq(Hubs) /\ Len(robots') = Len(robots) + 1 /\ Len(robots) \in Nat
  BY AppendProperties, LenProperties DEF IInv, TypeOK
<1>2. /\ 1..Len(robots) \subseteq 1..Len(robots')
      /\ Len(robots') \in 1..Len(robots')
  BY <1>1
<1>3. KeyOf(Len(robots)) \subseteq KeyOf(Len(robots'))  BY <1>2 DEF KeyOf
<1>4. \A s \in Seq(KeyOf(Len(robots))) : s \in Seq(KeyOf(Len(robots')))
  BY <1>3, ElementOfSeq, LenProperties
<1>5. QED  BY <1>1, <1>2, <1>4

\* A robot is created: for request p, or for nobody.
LEMMA RobotStep ==
    ASSUME IInv, NEW p \in Processes, NEW h \in Hubs, NEW x \in Process,
           robots' = Append(robots, h),
           proc' = [proc EXCEPT ![p] = x],
           x.pc # "free" => x.hub \in Hubs,
           x.robot <= Len(robots'),
           x.pc \in {"record", "key", "r_key"} => x.robot # 0,
           UNCHANGED <<tenant, cred, vault, keys, rotations>>,
           faults' \in 0..MaxFaults, lost' \subseteq 1..Len(robots')
    PROVE  IInv'
<1>1. /\ robots' \in Seq(Hubs) /\ Len(robots) \in Nat /\ Len(robots') \in Nat
      /\ Len(robots) <= Len(robots')
      /\ Seq(KeyOf(Len(robots))) \subseteq Seq(KeyOf(Len(robots')))
  BY MoreRobots
<1>2. /\ proc' \in [Processes -> Process] /\ proc'[p] = x
      /\ \A q \in Processes \ {p} : proc'[q] = proc[q]
  BY DEF IInv, TypeOK
<1>3. \A g \in Hubs : tenant[g].pending \in Nat /\ cred[g].robot \in Nat
  BY DEF IInv, TypeOK, Tenant
<1>4. \A g \in Hubs : tenant'[g].pending <= Len(robots') /\ cred'[g].robot <= Len(robots')
  BY <1>1, <1>3 DEF IInv, Known
<1>5. Busy' /\ Known'  BY <1>1, <1>2, <1>4, Moves
<1>6. keys' \in Seq([robot: 1..Len(robots'), live: BOOLEAN])
  BY <1>1 DEF IInv, TypeOK, KeyOf
<1>7. TypeOK'  BY <1>1, <1>2, <1>6 DEF IInv, TypeOK
<1>8. QED  BY <1>5, <1>7 DEF IInv

LEMMA CreateStep ==
    ASSUME IInv, NEW p \in Processes, create_service_account(p)
    PROVE  IInv'
<1>1. proc[p].pc # "free"  BY DEF create_service_account, At
<1>2. /\ proc[p].hub \in Hubs /\ proc[p] \in Process /\ Len(robots) \in Nat  BY <1>1, Here
<1>3. faults \in 0..MaxFaults /\ lost \subseteq 1..Len(robots)  BY DEF IInv, TypeOK
<1>4. CASE Len(robots) < Quota
  <2> DEFINE n == Len(robots) + 1
             x == [proc[p] EXCEPT !.robot = n, !.pc = "record"]
  <2>1. robots' = Append(robots, proc[p].hub)  BY <1>4 DEF create_service_account
  <2>2. proc' = [proc EXCEPT ![p] = x]
    BY <1>4 DEF create_service_account, IInv, TypeOK
  <2>3. Len(robots') = n /\ n \in Nat /\ n # 0 /\ n <= n  BY <1>2, <2>1, MoreRobots
  <2> HIDE DEF n
  <2>4. x \in Process /\ x.hub = proc[p].hub /\ x.robot = n /\ x.pc = "record"
    BY <1>2, <2>3 DEF Process, Claimed
  <2> HIDE DEF x
  <2>5. UNCHANGED <<tenant, cred, vault, keys, rotations, faults, lost>>
    BY DEF create_service_account
  <2>6. lost' \subseteq 1..Len(robots')  BY <1>2, <1>3, <2>1, <2>5, MoreRobots
  <2>7. x.robot <= Len(robots') /\ x.robot # 0 /\ x.hub \in Hubs  BY <1>2, <2>3, <2>4
  <2>8. faults' \in 0..MaxFaults  BY <1>3, <2>5
  <2>9. QED  BY <1>2, <2>1, <2>2, <2>4, <2>5, <2>6, <2>7, <2>8, RobotStep
<1>5. CASE ~(Len(robots) < Quota)
  <2>1. Goto(p, "limit") /\ Rest /\ faults' = faults /\ lost' = lost
    BY <1>5 DEF create_service_account, Rest
  <2>2. "limit" \in Pcs /\ "limit" \notin {"record", "key", "r_key"}  BY DEF Pcs, Claimed
  <2>3. QED  BY <1>1, <1>3, <2>1, <2>2, GotoStep
<1>6. QED  BY <1>4, <1>5

\* Failed steps, lost responses, crashes, and claims that grow old.
LEMMA FaultStep ==
    ASSUME IInv, NEW p \in Processes, Fail(p) \/ ResponseLost(p) \/ Crash(p)
    PROVE  IInv'
<1>1. faults' \in 0..MaxFaults
  BY ConstantsAssumption DEF Fail, ResponseLost, Crash, IInv, TypeOK
<1>2. proc[p].pc # "free"
  BY DEF Fail, ResponseLost, Crash, At, Claimed, Rotating
<1>3. /\ proc[p].hub \in Hubs /\ proc[p] \in Process /\ Len(robots) \in Nat
      /\ proc[p].robot <= Len(robots) /\ proc[p].robot \in Nat
  BY <1>2, Here DEF Process
<1>4. lost \subseteq 1..Len(robots)  BY DEF IInv, TypeOK
<1>5. proc[p].pc = "record" => proc[p].robot # 0  BY DEF IInv, Known
<1>6. lost \cup InHand(p) \subseteq 1..Len(robots)
  <2>1. CASE proc[p].pc = "record"
    <3>1. proc[p].robot \in 1..Len(robots)  BY <1>3, <1>5, <2>1
    <3>2. InHand(p) = {proc[p].robot}  BY <2>1 DEF InHand, At
    <3>3. QED  BY <1>4, <3>1, <3>2
  <2>2. CASE proc[p].pc # "record"
    <3>1. InHand(p) = {}  BY <2>2 DEF InHand, At
    <3>2. QED  BY <1>4, <3>1
  <2>3. QED  BY <2>1, <2>2
<1>7. CASE Fail(p)
  <2>1. Rest /\ lost' = lost \cup InHand(p)  BY <1>7 DEF Fail, Rest
  <2>2. CASE Return(p)  BY <1>1, <1>6, <2>1, <2>2, ReturnStep
  <2>3. CASE \E pc \in {"release", "failed"} : Goto(p, pc)
    <3>1. PICK pc \in {"release", "failed"} : Goto(p, pc)  BY <2>3
    <3>2. pc \in Pcs /\ pc \notin {"record", "key", "r_key"}  BY DEF Pcs, Claimed
    <3>3. QED  BY <1>1, <1>2, <1>6, <2>1, <3>1, <3>2, GotoStep
  <2>4. QED  BY <1>7, <2>2, <2>3 DEF Fail
<1>8. CASE ResponseLost(p)
  <2> DEFINE x == [proc[p] EXCEPT !.pc = "failed"]
  <2>1. /\ robots' = Append(robots, proc[p].hub)
        /\ UNCHANGED <<tenant, cred, vault, keys, rotations>>
        /\ lost' = lost \cup {Len(robots) + 1}
    BY <1>8 DEF ResponseLost
  <2>2. proc' = [proc EXCEPT ![p] = x]  BY <1>8 DEF ResponseLost, Goto, IInv, TypeOK
  <2>3. x \in Process /\ x.hub = proc[p].hub /\ x.robot = proc[p].robot /\ x.pc = "failed"
    BY <1>3 DEF Process, Claimed
  <2> HIDE DEF x
  <2>4. /\ Len(robots') = Len(robots) + 1
        /\ 1..Len(robots) \subseteq 1..Len(robots') /\ Len(robots') \in 1..Len(robots')
    BY <1>3, <2>1, MoreRobots
  <2>5. lost' \subseteq 1..Len(robots')  BY <1>4, <2>1, <2>4
  <2>6. x.robot <= Len(robots') /\ x.hub \in Hubs  BY <1>3, <2>3, <2>4
  <2>7. x.pc \notin {"record", "key", "r_key"}  BY <2>3
  <2>8. QED  BY <1>1, <1>3, <2>1, <2>2, <2>3, <2>5, <2>6, <2>7, RobotStep
<1>9. CASE Crash(p)
  <2>1. Rest /\ Return(p) /\ lost' = lost \cup InHand(p)  BY <1>9 DEF Crash, Rest
  <2>2. QED  BY <1>1, <1>6, <2>1, ReturnStep
<1>10. QED  BY <1>7, <1>8, <1>9

LEMMA ExpireStep ==
    ASSUME IInv, NEW h \in Hubs, ClaimExpires(h)
    PROVE  IInv'
<1>1. tenant[h] \in Tenant /\ tenant \in [Hubs -> Tenant]  BY DEF IInv, TypeOK
<1>2. tenant' = [tenant EXCEPT ![h] = [tenant[h] EXCEPT !.claim = "stale"]]
  BY <1>1 DEF ClaimExpires
<1>3. /\ [tenant[h] EXCEPT !.claim = "stale"] \in Tenant
      /\ [tenant[h] EXCEPT !.claim = "stale"].pending = tenant[h].pending
  BY <1>1 DEF Tenant
<1>4. tenant' \in [Hubs -> Tenant] /\ \A g \in Hubs : tenant'[g].pending = tenant[g].pending
  BY <1>1, <1>2, <1>3
<1>5. UNCHANGED <<cred, vault, robots, keys, proc, rotations, faults, lost>>
  BY DEF ClaimExpires
<1>6. TypeOK'  BY <1>4, <1>5 DEF IInv, TypeOK
<1>7. Busy' /\ Known'  BY <1>4, <1>5 DEF IInv, Busy, Known
<1>8. QED  BY <1>6, <1>7 DEF IInv

-----------------------------------------------------------------------------
(* The type invariant *)

LEMMA StutterStep ==
    ASSUME IInv, UNCHANGED vars
    PROVE  IInv'
BY DEF vars, IInv, TypeOK, Busy, Known

LEMMA InitIInv == ASSUME Init PROVE IInv
<1>1. TypeOK
  BY EmptySeq, ConstantsAssumption
     DEF Init, TypeOK, Tenant, Process, Free, Fresh
<1>2. Len(robots) = 0  BY EmptySeq DEF Init
<1>3. Busy /\ Known  BY <1>2 DEF Init, Busy, Known, Free, Fresh
<1>4. QED  BY <1>1, <1>3 DEF IInv

LEMMA StepIInv == ASSUME IInv, [Next]_vars PROVE IInv'
<1>1. CASE UNCHANGED vars  BY <1>1, StutterStep
<1>2. ASSUME NEW h \in Hubs, ClaimExpires(h) PROVE IInv'  BY <1>2, ExpireStep
<1>3. ASSUME NEW p \in Processes, NEW h \in Hubs,
             ensure_ssa(p, h) \/ verify_app_authorised(p, h) \/ rotate_key(p, h)
      PROVE  IInv'
  BY <1>3, StartStep
<1>4. ASSUME NEW p \in Processes, Step(p) PROVE IInv'
  BY <1>4, ReadStep, TenantStep, HandStep, PinStep, StoreStep, KeyStep, CreateStep DEF Step
<1>5. ASSUME NEW p \in Processes, Fail(p) \/ ResponseLost(p) \/ Crash(p) PROVE IInv'
  BY <1>5, FaultStep
<1>6. QED  BY <1>1, <1>2, <1>3, <1>4, <1>5 DEF Next

\* TypeOK, with the two facts that make it inductive: whatever the requests do
\* and wherever they fail, no row, key or request names a robot that APS did not
\* create.
THEOREM Wellformed == Spec => []IInv
<1>1. Init => IInv  BY InitIInv
<1>2. IInv /\ [Next]_vars => IInv'  BY StepIInv
<1>3. QED  BY <1>1, <1>2, PTL DEF Spec

\* The type invariant, for any number of hubs, requests, keys and faults.
THEOREM TypeCorrect == Spec => []TypeOK
<1>1. IInv => TypeOK  BY DEF IInv
<1>2. QED  BY <1>1, Wellformed, PTL

-----------------------------------------------------------------------------
(* The claim is a mutex *)

SameClaims == \A h \in Hubs : tenant'[h].claim = tenant[h].claim

\* No claim changes, and request p is claimed only where it was: nothing is lost.
LEMMA Frame ==
    ASSUME IInv, Mutex, SameClaims, NEW p \in Processes, NEW x,
           proc' = [proc EXCEPT ![p] = x],
           x.pc \in Claimed => proc[p].pc \in Claimed /\ x.hub = proc[p].hub
    PROVE  Mutex'
<1>1. /\ proc'[p] = x
      /\ \A q \in Processes \ {p} : proc'[q] = proc[q]
  BY DEF IInv, TypeOK
<1>2. \A q \in Processes : proc'[q].pc \in Claimed =>
          proc[q].pc \in Claimed /\ proc'[q].hub = proc[q].hub
  BY <1>1
<1>3. \A q \in Processes : proc[q].pc \in Claimed => proc[q].hub \in Hubs
  BY DEF IInv, Busy, Claimed
<1>4. OneCreator'  BY <1>2 DEF Mutex, OneCreator
<1>5. Held'  BY <1>2, <1>3 DEF Mutex, Held, SameClaims
<1>6. QED  BY <1>4, <1>5 DEF Mutex

LEMMA GotoFrame ==
    ASSUME IInv, Mutex, SameClaims, NEW p \in Processes, NEW pc,
           Goto(p, pc), pc \in Claimed => proc[p].pc \in Claimed
    PROVE  Mutex'
<1> DEFINE x == [proc[p] EXCEPT !.pc = pc]
<1>1. proc' = [proc EXCEPT ![p] = x]  BY DEF Goto, IInv, TypeOK
<1>2. x.pc = pc /\ x.hub = proc[p].hub  BY DEF IInv, TypeOK, Process
<1> HIDE DEF x
<1>3. QED  BY <1>1, <1>2, Frame

LEMMA ReturnFrame ==
    ASSUME IInv, Mutex, SameClaims, NEW p \in Processes, Return(p)
    PROVE  Mutex'
<1>1. proc' = [proc EXCEPT ![p] = Free]  BY DEF Return
<1>2. Free.pc \notin Claimed  BY DEF Free, Fresh, Claimed
<1>3. QED  BY <1>1, <1>2, Frame

\* The steps outside the claim.
LEMMA OutsideSteps ==
    ASSUME IInv, Mutex, NEW p \in Processes, NEW h \in Hubs,
           \/ ensure_ssa(p, h) \/ verify_app_authorised(p, h) \/ rotate_key(p, h)
           \/ resolve_app(p) \/ ensure_tenant(p) \/ await_winner(p) \/ Refused(p)
           \/ PinTenant(p) \/ mark_app_authorised(p)
           \/ update_key(p) \/ get_acc_token(p) \/ delete_key(p)
    PROVE  Mutex'
<1>0. tenant \in [Hubs -> Tenant] /\ proc \in [Processes -> Process]  BY DEF IInv, TypeOK
<1>1. CASE ensure_ssa(p, h)
  <2>1. PICK x \in {Free, Fresh("app", h)} : proc' = [proc EXCEPT ![p] = x]
    BY <1>1 DEF ensure_ssa
  <2>2. x.pc \notin Claimed  BY DEF Free, Fresh, Claimed
  <2>3. SameClaims  BY <1>1 DEF ensure_ssa, SameClaims
  <2>4. QED  BY <2>1, <2>2, <2>3, Frame
<1>2. CASE verify_app_authorised(p, h)
  <2>1. PICK x \in {Fresh("v_tenant", h),
                    [Fresh("v_status", h) EXCEPT !.seen = tenant[h].status]} :
            proc' = [proc EXCEPT ![p] = x]
    BY <1>2 DEF verify_app_authorised
  <2>2. x.pc \notin Claimed  BY DEF Fresh, Claimed
  <2>3. SameClaims  BY <1>2 DEF verify_app_authorised, SameClaims
  <2>4. QED  BY <2>1, <2>2, <2>3, Frame
<1>3. CASE rotate_key(p, h)
  <2> DEFINE x == [Fresh("r_key", h) EXCEPT !.robot = cred[h].robot, !.old = cred[h].kid]
  <2>1. proc' = [proc EXCEPT ![p] = x]  BY <1>3 DEF rotate_key
  <2>2. x.pc \notin Claimed  BY DEF Fresh, Claimed
  <2>3. SameClaims  BY <1>3 DEF rotate_key, SameClaims
  <2> HIDE DEF x
  <2>4. QED  BY <2>1, <2>2, <2>3, Frame
<1>4. CASE resolve_app(p)
  <2>1. Goto(p, "tenant") /\ SameClaims  BY <1>4 DEF resolve_app, SameClaims
  <2>2. "tenant" \notin Claimed  BY DEF Claimed
  <2>3. QED  BY <2>1, <2>2, GotoFrame
<1>5. CASE ensure_tenant(p)
  <2>1. Goto(p, "claim")  BY <1>5 DEF ensure_tenant
  <2>2. proc[p].hub \in Hubs  BY <1>5 DEF ensure_tenant, At, IInv, Busy
  <2>3. tenant' = [tenant EXCEPT ![proc[p].hub] = EnsuredTenant(proc[p].hub)]
    BY <1>5 DEF ensure_tenant
  <2>4. SameClaims  BY <1>0, <2>2, <2>3, EnsuredType DEF SameClaims, IInv
  <2>5. "claim" \notin Claimed  BY DEF Claimed
  <2>6. QED  BY <2>1, <2>4, <2>5, GotoFrame
<1>6. CASE await_winner(p)
  BY <1>6, ReturnFrame DEF await_winner, SameClaims
<1>7. CASE Refused(p)
  BY <1>7, ReturnFrame DEF Refused, SameClaims
<1>8. CASE PinTenant(p)
  <2> DEFINE t == EnsuredTenant(proc[p].hub)
             x == [proc[p] EXCEPT !.seen = t.status, !.pc = "v_status"]
  <2>1. proc[p].hub \in Hubs  BY <1>8 DEF PinTenant, At, IInv, Busy
  <2>2. tenant' = [tenant EXCEPT ![proc[p].hub] = t]  BY <1>8 DEF PinTenant
  <2>3. SameClaims  BY <1>0, <2>1, <2>2, EnsuredType DEF SameClaims, IInv
  <2>4. proc' = [proc EXCEPT ![p] = x]  BY <1>0, <1>8 DEF PinTenant
  <2>5. x.pc \notin Claimed  BY <1>0 DEF Process, Claimed
  <2> HIDE DEF x, t
  <2>6. QED  BY <2>3, <2>4, <2>5, Frame
<1>9. CASE mark_app_authorised(p)
  <2>1. PICK s : tenant' = [tenant EXCEPT ![proc[p].hub].status = s]
    BY <1>9 DEF mark_app_authorised
  <2>2. SameClaims  BY <1>0, <2>1 DEF SameClaims, Tenant
  <2>3. Return(p)  BY <1>9 DEF mark_app_authorised
  <2>4. QED  BY <2>2, <2>3, ReturnFrame
<1>10. CASE update_key(p)
  <2>1. Goto(p, "r_mint") /\ SameClaims  BY <1>10 DEF update_key, SameClaims
  <2>2. "r_mint" \notin Claimed  BY DEF Claimed
  <2>3. QED  BY <2>1, <2>2, GotoFrame
<1>11. CASE get_acc_token(p)
  <2>1. SameClaims  BY <1>11 DEF get_acc_token, SameClaims
  <2>2. CASE Goto(p, "r_delete")
    <3>1. "r_delete" \notin Claimed  BY DEF Claimed
    <3>2. QED  BY <2>1, <2>2, <3>1, GotoFrame
  <2>3. CASE Return(p)  BY <2>1, <2>3, ReturnFrame
  <2>4. QED  BY <1>11, <2>2, <2>3 DEF get_acc_token
<1>12. CASE delete_key(p)
  BY <1>12, ReturnFrame DEF delete_key, SameClaims
<1>13. QED
  BY <1>1, <1>2, <1>3, <1>4, <1>5, <1>6, <1>7, <1>8, <1>9, <1>10, <1>11, <1>12

\* The steps between the claim and its release.
LEMMA InsideSteps ==
    ASSUME IInv, Mutex, NEW p \in Processes,
           \/ recheck(p) \/ adopt(p) \/ create_service_account(p) \/ set_pending_robot(p)
           \/ insert(p) \/ winner(p) \/ clear_pending_robot(p) \/ reread(p) \/ restate(p)
           \/ mark_tenant_failed(p)
    PROVE  Mutex'
<1>0. tenant \in [Hubs -> Tenant] /\ proc \in [Processes -> Process]  BY DEF IInv, TypeOK
<1>1. proc[p].pc \in Claimed
  BY DEF recheck, adopt, create_service_account, set_pending_robot, insert, winner,
         clear_pending_robot, reread, restate, mark_tenant_failed, At, Claimed
<1>2. \/ UNCHANGED tenant
      \/ \E h \in Hubs : \E v : tenant' = [tenant EXCEPT ![h].pending = v]
      \/ \E h \in Hubs : \E v : tenant' = [tenant EXCEPT ![h].status = v]
  <2>1. proc[p].hub \in Hubs  BY <1>1 DEF IInv, Busy, Claimed
  <2>2. CASE recheck(p) \/ adopt(p) \/ create_service_account(p) \/ insert(p) \/ winner(p)
                \/ reread(p)
    BY <2>2 DEF recheck, adopt, create_service_account, insert, winner, reread
  <2>3. CASE set_pending_robot(p) \/ clear_pending_robot(p)
    BY <2>1, <2>3 DEF set_pending_robot, clear_pending_robot
  <2>4. CASE restate(p) \/ mark_tenant_failed(p)
    BY <2>1, <2>4 DEF restate, mark_tenant_failed
  <2>5. QED  BY <2>2, <2>3, <2>4
<1>3. SameClaims  BY <1>0, <1>2 DEF SameClaims, Tenant
<1>4. \/ \E pc : Goto(p, pc)
      \/ \E x : proc' = [proc EXCEPT ![p] = x] /\ x.hub = proc[p].hub
  <2>1. CASE recheck(p) \/ set_pending_robot(p) \/ insert(p) \/ winner(p)
                \/ clear_pending_robot(p) \/ restate(p) \/ mark_tenant_failed(p)
    BY <2>1 DEF recheck, set_pending_robot, insert, winner, clear_pending_robot, restate,
                mark_tenant_failed
  <2>2. CASE create_service_account(p)
    <3>1. CASE Len(robots) < Quota
      <4> DEFINE x == [proc[p] EXCEPT !.robot = Len(robots) + 1, !.pc = "record"]
      <4>1. proc' = [proc EXCEPT ![p] = x]  BY <1>0, <2>2, <3>1 DEF create_service_account
      <4>2. x.hub = proc[p].hub  BY <1>0 DEF Process
      <4> HIDE DEF x
      <4>3. QED  BY <4>1, <4>2
    <3>2. CASE ~(Len(robots) < Quota)
      BY <2>2, <3>2 DEF create_service_account
    <3>3. QED  BY <3>1, <3>2
  <2>3. CASE adopt(p)
    <3> DEFINE left == tenant[proc[p].hub].pending
               x == [proc[p] EXCEPT !.robot = left,
                                    !.pc = IF left # 0 THEN "key" ELSE "create"]
    <3>1. proc' = [proc EXCEPT ![p] = x]  BY <1>0, <2>3 DEF adopt
    <3>2. x.hub = proc[p].hub  BY <1>0 DEF Process
    <3> HIDE DEF x
    <3>3. QED  BY <3>1, <3>2
  <2>4. CASE reread(p)
    <3> DEFINE x == [proc[p] EXCEPT !.seen = tenant[proc[p].hub].status, !.pc = "restate"]
    <3>1. proc' = [proc EXCEPT ![p] = x]  BY <1>0, <2>4 DEF reread
    <3>2. x.hub = proc[p].hub  BY <1>0 DEF Process
    <3> HIDE DEF x
    <3>3. QED  BY <3>1, <3>2
  <2>5. QED  BY <2>1, <2>2, <2>3, <2>4
<1>5. QED  BY <1>1, <1>3, <1>4, GotoFrame, Frame

\* create_key and put_secret serve both: they leave a claim as they find it.
LEMMA SharedSteps ==
    ASSUME IInv, Mutex, NEW p \in Processes, create_key(p) \/ put_secret(p)
    PROVE  Mutex'
<1>0. proc \in [Processes -> Process]  BY DEF IInv, TypeOK
<1>1. SameClaims  BY DEF create_key, put_secret, SameClaims
<1>2. CASE create_key(p)
  <2>1. PICK pc \in {"vault", "r_vault"} :
            /\ proc' = [proc EXCEPT ![p] = [proc[p] EXCEPT !.kid = Len(keys) + 1, !.pc = pc]]
            /\ pc = "vault" => At(p, "key")
    BY <1>0, <1>2 DEF create_key
  <2> DEFINE x == [proc[p] EXCEPT !.kid = Len(keys) + 1, !.pc = pc]
  <2>2. proc' = [proc EXCEPT ![p] = x]  BY <2>1
  <2>3. x.hub = proc[p].hub /\ x.pc = pc  BY <1>0 DEF Process
  <2> HIDE DEF x
  <2>4. pc \in Claimed => proc[p].pc \in Claimed  BY <2>1 DEF At, Claimed
  <2>5. QED  BY <1>1, <2>2, <2>3, <2>4, Frame
<1>3. CASE put_secret(p)
  <2>1. PICK pc \in {"insert", "r_update"} : Goto(p, pc) /\ (pc = "insert" => At(p, "vault"))
    BY <1>3 DEF put_secret
  <2>2. pc \in Claimed => proc[p].pc \in Claimed  BY <2>1 DEF At, Claimed
  <2>3. QED  BY <1>1, <2>1, <2>2, GotoFrame
<1>4. QED  BY <1>2, <1>3

\* A claim is won only where nobody is.
LEMMA ClaimStep ==
    ASSUME IInv, Mutex, NEW p \in Processes, try_claim_provisioning(p)
    PROVE  Mutex'
<1> DEFINE h == proc[p].hub
<1>0. /\ tenant \in [Hubs -> Tenant] /\ proc \in [Processes -> Process] /\ h \in Hubs
      /\ \A q \in Processes : proc[q].pc \in Claimed => proc[q].hub \in Hubs
  BY DEF try_claim_provisioning, At, IInv, TypeOK, Busy, Claimed
<1>1. CASE Claimable(h)
  <2>1. \A q \in Processes : proc[q].pc \in Claimed => proc[q].hub # h
    BY <1>1 DEF Claimable, Mutex, Held
  <2>2. tenant' = [tenant EXCEPT ![h].claim = "held"] /\ Goto(p, "recheck")
    BY <1>1 DEF try_claim_provisioning
  <2>3. /\ tenant'[h].claim = "held"
        /\ \A g \in Hubs \ {h} : tenant'[g].claim = tenant[g].claim
    BY <1>0, <2>2 DEF Tenant
  <2>4. /\ proc'[p].hub = h
        /\ \A q \in Processes \ {p} : proc'[q] = proc[q]
    BY <1>0, <2>2 DEF Goto, Process
  <2>5. OneCreator'  BY <2>1, <2>4 DEF Mutex, OneCreator
  <2>6. Held'  BY <1>0, <2>1, <2>3, <2>4 DEF Mutex, Held
  <2>7. QED  BY <2>5, <2>6 DEF Mutex
<1>2. CASE ~Claimable(h)
  <2>1. Goto(p, "await") /\ SameClaims
    BY <1>2 DEF try_claim_provisioning, SameClaims
  <2>2. "await" \notin Claimed  BY DEF Claimed
  <2>3. QED  BY <2>1, <2>2, GotoFrame
<1>3. QED  BY <1>1, <1>2

\* Whoever releases a claim was the only one to have it.
LEMMA ReleaseStep ==
    ASSUME IInv, Mutex, NEW p \in Processes, release_provisioning(p)
    PROVE  Mutex'
<1> DEFINE h == proc[p].hub
<1>0. /\ tenant \in [Hubs -> Tenant] /\ proc \in [Processes -> Process] /\ h \in Hubs
      /\ proc[p].pc \in Claimed
      /\ \A q \in Processes : proc[q].pc \in Claimed => proc[q].hub \in Hubs
  BY DEF release_provisioning, At, IInv, TypeOK, Busy, Claimed
<1>1. \A q \in Processes \ {p} : proc[q].pc \in Claimed => proc[q].hub # h
  BY <1>0 DEF Mutex, OneCreator
<1>2. tenant' = [tenant EXCEPT ![h].claim = "free"] /\ proc' = [proc EXCEPT ![p] = Free]
  BY DEF release_provisioning, Return
<1>3. \A g \in Hubs \ {h} : tenant'[g].claim = tenant[g].claim  BY <1>0, <1>2 DEF Tenant
<1>4. /\ proc'[p].pc \notin Claimed
      /\ \A q \in Processes \ {p} : proc'[q] = proc[q]
  BY <1>0, <1>2 DEF Free, Fresh, Claimed
<1>5. OneCreator'  BY <1>4 DEF Mutex, OneCreator
<1>6. Held'  BY <1>0, <1>1, <1>3, <1>4 DEF Mutex, Held
<1>7. QED  BY <1>5, <1>6 DEF Mutex

\* A claim grows old once nobody is under it.
LEMMA ExpiryFrame ==
    ASSUME IInv, Mutex, ~LiveExpiry, NEW h \in Hubs, ClaimExpires(h)
    PROVE  Mutex'
<1>1. \A q \in Processes : proc[q].pc \in Claimed => proc[q].hub # h
  BY DEF ClaimExpires, Holds
<1>2. \A g \in Hubs \ {h} : tenant'[g].claim = tenant[g].claim
  BY DEF ClaimExpires, IInv, TypeOK
<1>3. proc' = proc  BY DEF ClaimExpires
<1>4. \A q \in Processes : proc[q].pc \in Claimed => proc[q].hub \in Hubs
  BY DEF IInv, Busy, Claimed
<1>5. OneCreator'  BY <1>3 DEF Mutex, OneCreator
<1>6. Held'  BY <1>1, <1>2, <1>3, <1>4 DEF Mutex, Held
<1>7. QED  BY <1>5, <1>6 DEF Mutex

LEMMA FaultFrame ==
    ASSUME IInv, Mutex, NEW p \in Processes, Fail(p) \/ ResponseLost(p) \/ Crash(p)
    PROVE  Mutex'
<1>1. SameClaims  BY DEF Fail, ResponseLost, Crash, SameClaims
<1>2. CASE Return(p)  BY <1>1, <1>2, ReturnFrame
<1>3. CASE proc[p].pc \in Claimed /\ \E pc : Goto(p, pc)  BY <1>1, <1>3, GotoFrame
<1>4. QED  BY <1>2, <1>3 DEF Fail, ResponseLost, Crash, At, Claimed

LEMMA StepMutex == ASSUME IInv, Mutex, ~LiveExpiry, [Next]_vars PROVE Mutex'
<1>1. CASE UNCHANGED vars  BY <1>1 DEF vars, Mutex, OneCreator, Held
<1>2. ASSUME NEW h \in Hubs, ClaimExpires(h) PROVE Mutex'  BY <1>2, ExpiryFrame
<1>3. ASSUME NEW p \in Processes, NEW h \in Hubs,
             ensure_ssa(p, h) \/ verify_app_authorised(p, h) \/ rotate_key(p, h)
      PROVE  Mutex'
  BY <1>3, OutsideSteps
<1>4. ASSUME NEW p \in Processes, Step(p) PROVE Mutex'
  <2>1. PICK h \in Hubs : TRUE
    BY <1>4
       DEF Step, resolve_app, ensure_tenant, try_claim_provisioning, await_winner, Refused, recheck,
           adopt, create_service_account, set_pending_robot, create_key, put_secret, insert, winner,
           clear_pending_robot, reread, restate, mark_tenant_failed, release_provisioning,
           PinTenant, mark_app_authorised, update_key, get_acc_token, delete_key, At, IInv, Busy,
           Verifying
  <2>2. QED
    BY <1>4, <2>1, OutsideSteps, InsideSteps, SharedSteps, ClaimStep, ReleaseStep DEF Step
<1>5. ASSUME NEW p \in Processes, Fail(p) \/ ResponseLost(p) \/ Crash(p) PROVE Mutex'
  BY <1>5, FaultFrame
<1>6. QED  BY <1>1, <1>2, <1>3, <1>4, <1>5 DEF Next

\* try_claim_provisioning is a mutex, for any number of hubs, requests and
\* faults, as long as no claim grows old under a living holder
\* (tenant_repository.py:103).
THEOREM ClaimIsMutex == ASSUME ~LiveExpiry PROVE Spec => []OneCreator
<1>1. Init => Mutex  BY DEF Init, Mutex, OneCreator, Held, Free, Fresh, Claimed
<1>2. IInv /\ Mutex /\ [Next]_vars => Mutex'  BY StepMutex
<1>3. Mutex => OneCreator  BY DEF Mutex
<1>4. QED  BY <1>1, <1>2, <1>3, Wellformed, PTL DEF Spec

-----------------------------------------------------------------------------
(***************************************************************************)
(* What becomes of the robots and keys of a hub, for any number of hubs,   *)
(* requests, rotations and faults.                                         *)
(*                                                                         *)
(* Homes and Signed hold whatever happens to claims: a robot id in a row   *)
(* or in hand is that of a robot of the same hub, a key that is not stored *)
(* yet belongs to one request and to no rotation, and a rotation that may  *)
(* delete has replaced the key it deletes.  Adopted needs the claim to be  *)
(* a mutex (ClaimIsMutex): between the claim and its release the rows of   *)
(* the hub are as the request has read them, so a robot is always in one   *)
(* place, and it is the same one in all.  Stored adds the vault, as long   *)
(* as at most one rotation has been started, and that did not fail.        *)
(***************************************************************************)

\* Steps of a request that has a robot of its hub in hand.
HasRobot == {"record", "key", "vault", "insert"}

\* Rows and requests name robots of their own hub; a rotation works with the one
\* that the credential names.
Homes ==
    /\ \A h \in Hubs : /\ cred[h].robot # 0 => robots[cred[h].robot] = h
                       /\ tenant[h].pending # 0 => robots[tenant[h].pending] = h
    /\ \A p \in Processes :
          /\ proc[p].pc \in HasRobot => proc[p].robot # 0 /\ robots[proc[p].robot] = proc[p].hub
          /\ proc[p].pc \in Rotating => /\ cred[proc[p].hub].robot # 0
                                        /\ proc[p].robot = cred[proc[p].hub].robot

\* Steps of a request with a key that no credential names yet.
HasKey == {"vault", "insert", "r_vault", "r_update"}

LiveKeyOf(k, r) == k \in 1..Len(keys) /\ keys[k] = [robot |-> r, live |-> TRUE]

\* The key of a credential is live and its robot's; so is a key in hand, which nobody
\* else has and no rotation will delete.
Signed ==
    /\ \A h \in Hubs : cred[h].robot # 0 => LiveKeyOf(cred[h].kid, cred[h].robot)
    /\ \A p \in Processes : proc[p].pc \in HasKey =>
          /\ LiveKeyOf(proc[p].kid, proc[p].robot)
          /\ \A h \in Hubs : cred[h].robot # 0 => cred[h].kid # proc[p].kid
          /\ \A q \in Processes \ {p} : proc[q].pc \in HasKey => proc[q].kid # proc[p].kid
          /\ \A q \in Processes : proc[q].pc \in Rotating => proc[q].old # proc[p].kid

\* A rotation will delete a key of its own hub, and not the one in use.
Replaced ==
    \A p \in Processes :
        /\ proc[p].pc \in Rotating =>
              /\ proc[p].old \in 1..Len(keys)
              /\ robots[keys[proc[p].old].robot] = proc[p].hub
        /\ proc[p].pc \in {"r_mint", "r_delete"} => proc[p].old # cred[proc[p].hub].kid

KInv == Homes /\ Signed /\ Replaced

-----------------------------------------------------------------------------

\* Between the check under the claim and the credential there is none, and the robot in
\* hand is the recorded one, as soon as it is recorded.
UnderClaim ==
    \A p \in Processes :
        /\ proc[p].pc \in {"adopt", "create"} \cup HasRobot => cred[proc[p].hub].robot = 0
        /\ proc[p].pc \in {"create", "record"} => tenant[proc[p].hub].pending = 0
        /\ proc[p].pc \in {"key", "vault", "insert", "clear"} =>
              tenant[proc[p].hub].pending = proc[p].robot
        /\ proc[p].pc = "clear" => cred[proc[p].hub].robot = proc[p].robot

\* A robot whose id a fault took is in no row and nobody's hand, and a hub has one robot.
Found ==
    /\ \A h \in Hubs : /\ cred[h].robot \notin lost /\ tenant[h].pending \notin lost
                       /\ cred[h].robot # 0 /\ tenant[h].pending # 0
                             => cred[h].robot = tenant[h].pending
    /\ \A p \in Processes : proc[p].pc = "record" => proc[p].robot \notin lost

Adopted == UnderClaim /\ Found /\ RobotsRecorded

-----------------------------------------------------------------------------

\* No rotation, or one that nothing goes wrong with.
Calm == rotations = 0 \/ (rotations = 1 /\ faults = 0)

\* The vault has the key that the credential names, or will name.
Stored ==
    /\ \A p \in Processes : proc[p].pc = "insert" => vault[proc[p].hub] = proc[p].kid
    /\ rotations = 0 => \A p \in Processes : proc[p].pc \notin Rotating
    /\ rotations = 1 => \A p, q \in Processes :
          proc[p].pc \in Rotating /\ proc[q].pc \in Rotating => p = q
    /\ Calm => \A p \in Processes : proc[p].pc = "r_update" => vault[proc[p].hub] = proc[p].kid
    /\ Calm => \A h \in Hubs : cred[h].robot # 0 =>
          vault[h] = cred[h].kid \/ \E p \in Processes : proc[p].pc = "r_update" /\ proc[p].hub = h
-----------------------------------------------------------------------------
(* Keys: KInv is preserved *)

\* A request moves; what it has in hand is right, and a key in hand stays the same.
LEMMA KProc ==
    ASSUME IInv, KInv, NEW p \in Processes, NEW x,
           proc' = [proc EXCEPT ![p] = x],
           UNCHANGED <<cred, robots, keys>>,
           \A h \in Hubs : tenant'[h].pending # 0 => robots[tenant'[h].pending] = h,
           x.pc \in HasRobot => x.robot # 0 /\ robots[x.robot] = x.hub,
           x.pc \in HasKey => proc[p].pc \in HasKey /\ x.robot = proc[p].robot /\ x.kid = proc[p].kid,
           x.pc \in Rotating =>
              /\ cred[x.hub].robot # 0 /\ x.robot = cred[x.hub].robot
              /\ x.old \in 1..Len(keys) /\ robots[keys[x.old].robot] = x.hub
              /\ \A q \in Processes : proc[q].pc \in HasKey => x.old # proc[q].kid,
           x.pc \in {"r_mint", "r_delete"} => x.old # cred[x.hub].kid
    PROVE  KInv'
<1>1. /\ proc'[p] = x
      /\ \A q \in Processes \ {p} : proc'[q] = proc[q]
  BY DEF IInv, TypeOK
<1>2. Homes'  BY <1>1 DEF KInv, Homes
<1>3. \A q \in Processes : proc'[q].pc \in HasKey =>
          proc[q].pc \in HasKey /\ proc'[q].robot = proc[q].robot /\ proc'[q].kid = proc[q].kid
  BY <1>1
<1>4. \A q, r \in Processes : proc'[q].pc \in Rotating /\ proc[r].pc \in HasKey =>
          proc'[q].old # proc[r].kid
  BY <1>1 DEF KInv, Signed
<1>5. Signed'
  <2>1. \A h \in Hubs : cred'[h].robot # 0 => LiveKeyOf(cred[h].kid, cred[h].robot)'
    BY DEF KInv, Signed, LiveKeyOf
  <2>2. ASSUME NEW q \in Processes, proc'[q].pc \in HasKey
        PROVE  /\ LiveKeyOf(proc[q].kid, proc[q].robot)'
               /\ \A h \in Hubs : cred'[h].robot # 0 => cred'[h].kid # proc'[q].kid
               /\ \A r \in Processes \ {q} : proc'[r].pc \in HasKey => proc'[r].kid # proc'[q].kid
               /\ \A r \in Processes : proc'[r].pc \in Rotating => proc'[r].old # proc'[q].kid
    <3>1. proc[q].pc \in HasKey /\ proc'[q].robot = proc[q].robot /\ proc'[q].kid = proc[q].kid
      BY <1>3, <2>2
    <3>2. LiveKeyOf(proc[q].kid, proc[q].robot)'  BY <3>1 DEF KInv, Signed, LiveKeyOf
    <3>3. \A h \in Hubs : cred'[h].robot # 0 => cred'[h].kid # proc'[q].kid
      BY <3>1 DEF KInv, Signed
    <3>4. \A r \in Processes \ {q} : proc'[r].pc \in HasKey => proc'[r].kid # proc'[q].kid
      BY <1>3, <3>1 DEF KInv, Signed
    <3>5. QED  BY <3>1, <3>2, <3>3, <3>4, <1>4
  <2>3. QED  BY <2>1, <2>2 DEF Signed
<1>6. Replaced'  BY <1>1 DEF KInv, Replaced
<1>7. QED  BY <1>2, <1>5, <1>6 DEF KInv

\* Nobody's pending robot changes.
SamePending == \A h \in Hubs : tenant'[h].pending = tenant[h].pending

\* A request moves on, with what it has in hand.
LEMMA KGoto ==
    ASSUME IInv, KInv, NEW p \in Processes, NEW pc, Goto(p, pc),
           UNCHANGED <<cred, robots, keys>>,
           \A h \in Hubs : tenant'[h].pending # 0 => robots[tenant'[h].pending] = h,
           pc \in HasRobot => proc[p].pc \in HasRobot,
           pc \in HasKey => proc[p].pc \in HasKey,
           pc \in Rotating => proc[p].pc \in Rotating,
           pc \in {"r_mint", "r_delete"} => proc[p].pc \in {"r_mint", "r_delete"}
    PROVE  KInv'
<1> DEFINE x == [proc[p] EXCEPT !.pc = pc]
<1>1. proc' = [proc EXCEPT ![p] = x]  BY DEF Goto, IInv, TypeOK
<1>2. /\ x.pc = pc /\ x.hub = proc[p].hub /\ x.robot = proc[p].robot /\ x.kid = proc[p].kid
      /\ x.old = proc[p].old
  BY DEF IInv, TypeOK, Process
<1> HIDE DEF x
<1>3. x.pc \in HasRobot => x.robot # 0 /\ robots[x.robot] = x.hub
  BY <1>2 DEF KInv, Homes
<1>4. x.pc \in Rotating =>
              /\ cred[x.hub].robot # 0 /\ x.robot = cred[x.hub].robot
              /\ x.old \in 1..Len(keys) /\ robots[keys[x.old].robot] = x.hub
              /\ \A q \in Processes : proc[q].pc \in HasKey => x.old # proc[q].kid
  BY <1>2 DEF KInv, Homes, Signed, Replaced
<1>5. x.pc \in {"r_mint", "r_delete"} => x.old # cred[x.hub].kid
  BY <1>2 DEF KInv, Replaced
<1>6. x.pc \in HasKey => proc[p].pc \in HasKey /\ x.robot = proc[p].robot /\ x.kid = proc[p].kid
  BY <1>2
<1>7. QED  BY <1>1, <1>3, <1>4, <1>5, <1>6, KProc

\* Pending robots are at home.
LEMMA PendingHome ==
    ASSUME KInv, SamePending
    PROVE  \A h \in Hubs : tenant'[h].pending # 0 => robots[tenant'[h].pending] = h
BY DEF KInv, Homes, SamePending

\* A request takes its place among those that have nothing in hand.
LEMMA KBare ==
    ASSUME IInv, KInv, NEW p \in Processes, NEW x, proc' = [proc EXCEPT ![p] = x],
           UNCHANGED <<cred, robots, keys>>, SamePending,
           x.pc \notin HasRobot \cup HasKey \cup Rotating
    PROVE  KInv'
<1>1. \A h \in Hubs : tenant'[h].pending # 0 => robots[tenant'[h].pending] = h  BY PendingHome
<1>2. x.pc \notin HasRobot /\ x.pc \notin HasKey /\ x.pc \notin Rotating
      /\ x.pc \notin {"r_mint", "r_delete"}
  BY DEF Rotating
<1>3. QED  BY <1>1, <1>2, KProc

\* Keys are those of robots that APS has created.
LEMMA KeyTypes ==
    ASSUME IInv
    PROVE  /\ Len(keys) \in Nat /\ keys \in Seq(KeyOf(Len(robots)))
           /\ \A k \in 1..Len(keys) : /\ keys[k].robot \in 1..Len(robots)
                                      /\ keys[k] = [robot |-> keys[k].robot, live |-> keys[k].live]
<1>1. keys \in Seq(KeyOf(Len(robots)))  BY DEF IInv, TypeOK, KeyOf
<1>2. \A k \in 1..Len(keys) : keys[k] \in KeyOf(Len(robots))  BY <1>1, ElementOfSeq
<1>3. QED  BY <1>1, <1>2, LenProperties DEF KeyOf

\* A robot is created; nobody has a key of it yet.
LEMMA KRobots ==
    ASSUME IInv, KInv, NEW p \in Processes, NEW g \in Hubs, NEW x,
           proc' = [proc EXCEPT ![p] = x], robots' = Append(robots, g),
           UNCHANGED <<tenant, cred, keys>>,
           x.pc \notin HasKey \cup Rotating,
           x.pc \in HasRobot => x.robot # 0 /\ robots'[x.robot] = x.hub
    PROVE  KInv'
<1>1. /\ proc'[p] = x
      /\ \A q \in Processes \ {p} : proc'[q] = proc[q]
  BY DEF IInv, TypeOK
<1>2. \A n \in 1..Len(robots) : robots'[n] = robots[n]
  BY DEF IInv, TypeOK
<1>3. \A h \in Hubs : /\ cred[h].robot # 0 => cred[h].robot \in 1..Len(robots)
                      /\ tenant[h].pending # 0 => tenant[h].pending \in 1..Len(robots)
  BY DEF IInv, TypeOK, Known, Tenant
<1>4. \A q \in Processes : proc[q].robot # 0 => proc[q].robot \in 1..Len(robots)
  BY DEF IInv, TypeOK, Known, Process
<1>5. \A k \in 1..Len(keys) : keys[k].robot \in 1..Len(robots)
  BY KeyTypes
<1>6. Homes'
  <2>1. \A h \in Hubs : /\ cred'[h].robot # 0 => robots'[cred'[h].robot] = h
                        /\ tenant'[h].pending # 0 => robots'[tenant'[h].pending] = h
    BY <1>2, <1>3 DEF KInv, Homes
  <2>2. ASSUME NEW q \in Processes
        PROVE  /\ proc'[q].pc \in HasRobot => proc'[q].robot # 0 /\ robots'[proc'[q].robot] = proc'[q].hub
               /\ proc'[q].pc \in Rotating => /\ cred'[proc'[q].hub].robot # 0
                                              /\ proc'[q].robot = cred'[proc'[q].hub].robot
    <3>1. CASE q = p  BY <3>1, <1>1
    <3>2. CASE q # p
      <4>1. proc'[q] = proc[q] /\ cred' = cred  BY <3>2, <1>1
      <4>2. proc[q].pc \in HasRobot => proc[q].robot # 0 /\ robots[proc[q].robot] = proc[q].hub
        BY DEF KInv, Homes
      <4>3. proc[q].pc \in HasRobot => robots'[proc[q].robot] = robots[proc[q].robot]
        BY <4>2, <1>2, <1>4
      <4>4. QED  BY <4>1, <4>2, <4>3 DEF KInv, Homes
    <3>3. QED  BY <3>1, <3>2
  <2>3. QED  BY <2>1, <2>2 DEF Homes
<1>7. Signed'
  <2>1. \A k, r : LiveKeyOf(k, r)' = LiveKeyOf(k, r)  BY DEF LiveKeyOf
  <2>2. \A h \in Hubs : cred'[h].robot # 0 => LiveKeyOf(cred[h].kid, cred[h].robot)'
    BY DEF KInv, Signed, LiveKeyOf
  <2>3. \A q \in Processes : proc'[q].pc \in HasKey =>
            proc[q].pc \in HasKey /\ proc'[q] = proc[q]
    BY <1>1
  <2>4. \A q \in Processes : proc'[q].pc \in Rotating =>
            proc[q].pc \in Rotating /\ proc'[q] = proc[q]
    BY <1>1
  <2>5. \A q \in Processes : proc'[q].pc \in HasKey => LiveKeyOf(proc[q].kid, proc[q].robot)'
    BY <2>3 DEF KInv, Signed, LiveKeyOf
  <2>6. QED  BY <2>2, <2>3, <2>4, <2>5 DEF KInv, Signed
<1>8. Replaced'
  <2>1. ASSUME NEW q \in Processes
        PROVE  /\ proc'[q].pc \in Rotating =>
                     /\ proc'[q].old \in 1..Len(keys')
                     /\ robots'[keys'[proc'[q].old].robot] = proc'[q].hub
               /\ proc'[q].pc \in {"r_mint", "r_delete"} => proc'[q].old # cred'[proc'[q].hub].kid
    <3>1. CASE q = p  BY <3>1, <1>1 DEF Rotating
    <3>2. CASE q # p
      <4>1. proc'[q] = proc[q] /\ cred' = cred /\ keys' = keys  BY <3>2, <1>1
      <4>2. proc[q].pc \in Rotating =>
               /\ proc[q].old \in 1..Len(keys)
               /\ robots[keys[proc[q].old].robot] = proc[q].hub
        BY DEF KInv, Replaced
      <4>3. proc[q].pc \in Rotating =>
               robots'[keys[proc[q].old].robot] = robots[keys[proc[q].old].robot]
        BY <4>2, <1>2, <1>5
      <4>4. QED  BY <4>1, <4>2, <4>3 DEF KInv, Replaced
    <3>3. QED  BY <3>1, <3>2
  <2>2. QED  BY <2>1 DEF Replaced
<1>9. QED  BY <1>6, <1>7, <1>8 DEF KInv

\* A new key is nobody else's.
LEMMA KCreateKey ==
    ASSUME IInv, KInv, NEW p \in Processes, create_key(p)
    PROVE  KInv'
<1> DEFINE n == Len(keys) + 1
           k == [robot |-> proc[p].robot, live |-> TRUE]
<1>1. PICK pc \in {"vault", "r_vault"} :
          /\ proc' = [proc EXCEPT ![p] = [proc[p] EXCEPT !.kid = n, !.pc = pc]]
          /\ pc = "vault" => proc[p].pc = "key"
          /\ pc = "r_vault" => proc[p].pc = "r_key"
  BY DEF create_key, At, IInv, TypeOK
<1> DEFINE x == [proc[p] EXCEPT !.kid = n, !.pc = pc]
<1>2. /\ x.pc = pc /\ x.hub = proc[p].hub /\ x.robot = proc[p].robot /\ x.old = proc[p].old
      /\ x.kid = n
  BY DEF IInv, TypeOK, Process
<1>3. /\ proc'[p] = x
      /\ \A q \in Processes \ {p} : proc'[q] = proc[q]
  BY <1>1 DEF IInv, TypeOK
<1> HIDE DEF x
<1>4. /\ keys' = Append(keys, k)
      /\ UNCHANGED <<tenant, cred, robots>>
  BY DEF create_key
<1>5. Len(keys) \in Nat /\ keys \in Seq(KeyOf(Len(robots)))  BY KeyTypes
<1>6. /\ Len(keys') = n /\ n \in 1..Len(keys') /\ n \notin 1..Len(keys)
      /\ keys'[n] = k
      /\ \A i \in 1..Len(keys) : i \in 1..Len(keys') /\ keys'[i] = keys[i]
  BY <1>4, <1>5
<1> HIDE DEF n, k
<1>7. \A i, r : LiveKeyOf(i, r) => LiveKeyOf(i, r)' /\ i # n
  BY <1>6 DEF LiveKeyOf
<1>8. \A q \in Processes : proc'[q].pc \in HasRobot =>
          proc[q].pc \in HasRobot /\ proc'[q].robot = proc[q].robot /\ proc'[q].hub = proc[q].hub
  BY <1>1, <1>2, <1>3 DEF HasRobot
<1>9. \A q \in Processes : proc'[q].pc \in Rotating =>
          /\ proc[q].pc \in Rotating /\ proc'[q].robot = proc[q].robot /\ proc'[q].hub = proc[q].hub
          /\ proc'[q].old = proc[q].old
  BY <1>1, <1>2, <1>3 DEF Rotating
<1>10. Homes'  BY <1>4, <1>8, <1>9 DEF KInv, Homes
<1>11. \A q \in Processes : proc[q].pc \in Rotating => proc[q].old # n
  BY <1>6 DEF KInv, Replaced
<1>12. \A h \in Hubs : cred[h].robot # 0 => cred[h].kid # n
  BY <1>7 DEF KInv, Signed
<1>13. \A q \in Processes : proc[q].pc \in HasKey => proc[q].kid # n
  BY <1>7 DEF KInv, Signed
<1>14. Signed'
  <2>1. \A h \in Hubs : cred'[h].robot # 0 => LiveKeyOf(cred[h].kid, cred[h].robot)'
    <3> SUFFICES ASSUME NEW h \in Hubs, cred[h].robot # 0
                 PROVE  LiveKeyOf(cred[h].kid, cred[h].robot)'
      BY <1>4
    <3>1. LiveKeyOf(cred[h].kid, cred[h].robot)  BY DEF KInv, Signed
    <3>2. QED  BY <3>1, <1>4, <1>6 DEF LiveKeyOf
  <2>2. ASSUME NEW q \in Processes, proc'[q].pc \in HasKey
        PROVE  /\ LiveKeyOf(proc[q].kid, proc[q].robot)'
               /\ \A h \in Hubs : cred'[h].robot # 0 => cred'[h].kid # proc'[q].kid
               /\ \A r \in Processes \ {q} : proc'[r].pc \in HasKey => proc'[r].kid # proc'[q].kid
               /\ \A r \in Processes : proc'[r].pc \in Rotating => proc'[r].old # proc'[q].kid
    <3>1. CASE q = p
      <4>1. proc'[q].kid = n /\ proc'[q].robot = proc[p].robot  BY <3>1, <1>2, <1>3
      <4>2. LiveKeyOf(proc[q].kid, proc[q].robot)'
        <5>1. n \in 1..Len(keys') /\ keys'[n] = [robot |-> proc[p].robot, live |-> TRUE]
          BY <1>6 DEF k
        <5>2. QED  BY <5>1, <4>1 DEF LiveKeyOf
      <4>3. \A r \in Processes \ {q} : proc'[r].pc \in HasKey => proc'[r].kid # proc'[q].kid
        BY <3>1, <4>1, <1>3, <1>13
      <4>4. QED  BY <4>1, <4>2, <4>3, <1>4, <1>9, <1>11, <1>12
    <3>2. CASE q # p
      <4>1. proc'[q] = proc[q] /\ proc[q].pc \in HasKey  BY <2>2, <3>2, <1>3
      <4>2. LiveKeyOf(proc[q].kid, proc[q].robot)'
        <5>1. LiveKeyOf(proc[q].kid, proc[q].robot)  BY <4>1 DEF KInv, Signed
        <5>2. QED  BY <5>1, <4>1, <1>6 DEF LiveKeyOf
      <4>3. \A h \in Hubs : cred'[h].robot # 0 => cred'[h].kid # proc'[q].kid
        BY <4>1, <1>4 DEF KInv, Signed
      <4>4. \A r \in Processes \ {q} : proc'[r].pc \in HasKey => proc'[r].kid # proc'[q].kid
        <5> SUFFICES ASSUME NEW r \in Processes \ {q}, proc'[r].pc \in HasKey
                     PROVE  proc'[r].kid # proc[q].kid
          BY <4>1
        <5>1. CASE r = p  BY <5>1, <4>1, <1>2, <1>3, <1>13
        <5>2. CASE r # p
          <6>1. proc'[r] = proc[r]  BY <5>2, <1>3
          <6>2. QED  BY <6>1, <4>1 DEF KInv, Signed
        <5>3. QED  BY <5>1, <5>2
      <4>5. \A r \in Processes : proc'[r].pc \in Rotating => proc'[r].old # proc'[q].kid
        BY <4>1, <1>9 DEF KInv, Signed
      <4>6. QED  BY <4>2, <4>3, <4>4, <4>5
    <3>3. QED  BY <3>1, <3>2
  <2>3. QED  BY <2>1, <2>2 DEF Signed
<1>15. Replaced'
  <2>1. \A q \in Processes : proc'[q].pc \in {"r_mint", "r_delete"} =>
            proc[q].pc \in {"r_mint", "r_delete"} /\ proc'[q].old = proc[q].old /\ proc'[q].hub = proc[q].hub
    BY <1>1, <1>2, <1>3
  <2>2. ASSUME NEW q \in Processes, proc'[q].pc \in Rotating
        PROVE  /\ proc'[q].old \in 1..Len(keys')
               /\ robots'[keys'[proc'[q].old].robot] = proc'[q].hub
    <3>1. proc[q].old \in 1..Len(keys) /\ robots[keys[proc[q].old].robot] = proc[q].hub
      BY <2>2, <1>9 DEF KInv, Replaced
    <3>2. QED  BY <3>1, <2>2, <1>4, <1>6, <1>9
  <2>3. QED  BY <2>1, <2>2, <1>4 DEF KInv, Replaced
<1>16. QED  BY <1>10, <1>14, <1>15 DEF KInv

\* A key in hand becomes that of the credential.
LEMMA KCred ==
    ASSUME IInv, KInv, NEW p \in Processes, NEW g \in Hubs, NEW pc, NEW r \in Nat,
           proc[p].pc \in HasKey, g = proc[p].hub, r = proc[p].robot,
           cred' = [cred EXCEPT ![g] = [robot |-> r, kid |-> proc[p].kid]],
           cred[g].robot \in {0, r}, r # 0, robots[r] = g,
           Goto(p, pc),
           pc \notin HasRobot \cup HasKey,
           pc \in Rotating => proc[p].pc \in Rotating,
           UNCHANGED <<tenant, robots, keys>>
    PROVE  KInv'
<1>1. /\ proc'[p] = [proc[p] EXCEPT !.pc = pc]
      /\ \A q \in Processes \ {p} : proc'[q] = proc[q]
  BY DEF Goto, IInv, TypeOK
<1>2. /\ proc'[p].pc = pc /\ proc'[p].hub = proc[p].hub /\ proc'[p].robot = proc[p].robot
      /\ proc'[p].old = proc[p].old /\ proc'[p].kid = proc[p].kid
  BY <1>1 DEF IInv, TypeOK, Process
<1>3. /\ cred'[g].robot = r /\ cred'[g].kid = proc[p].kid
      /\ \A h \in Hubs \ {g} : cred'[h] = cred[h]
  BY DEF IInv, TypeOK
<1>4. \A q \in Processes : proc'[q].pc \in HasRobot =>
          q # p /\ proc[q].pc \in HasRobot /\ proc'[q] = proc[q]
  BY <1>1, <1>2
<1>5. \A q \in Processes : proc'[q].pc \in HasKey =>
          q # p /\ proc[q].pc \in HasKey /\ proc'[q] = proc[q]
  BY <1>1, <1>2
<1>6. \A q \in Processes : proc'[q].pc \in Rotating =>
          /\ proc[q].pc \in Rotating /\ proc'[q].robot = proc[q].robot /\ proc'[q].hub = proc[q].hub
          /\ proc'[q].old = proc[q].old
  BY <1>1, <1>2
<1>7. \A q \in Processes : proc[q].pc \in Rotating => proc[q].hub \in Hubs
  BY DEF IInv, Busy, Rotating
<1>8. Homes'
  <2>1. \A h \in Hubs : /\ cred'[h].robot # 0 => robots[cred'[h].robot] = h
                        /\ tenant[h].pending # 0 => robots[tenant[h].pending] = h
    BY <1>3 DEF KInv, Homes
  <2>2. \A q \in Processes : proc[q].pc \in Rotating =>
            cred'[proc[q].hub].robot # 0 /\ proc[q].robot = cred'[proc[q].hub].robot
    BY <1>3, <1>7 DEF KInv, Homes
  <2>3. QED  BY <2>1, <2>2, <1>4, <1>6 DEF KInv, Homes
<1>9. Signed'
  <2>1. \A h \in Hubs : cred'[h].robot # 0 => LiveKeyOf(cred[h].kid, cred[h].robot)'
    <3> SUFFICES ASSUME NEW h \in Hubs, cred'[h].robot # 0
                 PROVE  LiveKeyOf(cred[h].kid, cred[h].robot)'
      OBVIOUS
    <3>1. CASE h = g
      <4>1. LiveKeyOf(proc[p].kid, proc[p].robot)  BY DEF KInv, Signed
      <4>2. QED  BY <3>1, <4>1, <1>3 DEF LiveKeyOf
    <3>2. CASE h # g
      <4>1. cred'[h] = cred[h]  BY <3>2, <1>3
      <4>2. LiveKeyOf(cred[h].kid, cred[h].robot)  BY <4>1 DEF KInv, Signed
      <4>3. QED  BY <4>1, <4>2 DEF LiveKeyOf
    <3>3. QED  BY <3>1, <3>2
  <2>2. ASSUME NEW q \in Processes, proc'[q].pc \in HasKey
        PROVE  /\ LiveKeyOf(proc[q].kid, proc[q].robot)'
               /\ \A h \in Hubs : cred'[h].robot # 0 => cred'[h].kid # proc'[q].kid
               /\ \A s \in Processes \ {q} : proc'[s].pc \in HasKey => proc'[s].kid # proc'[q].kid
               /\ \A s \in Processes : proc'[s].pc \in Rotating => proc'[s].old # proc'[q].kid
    <3>1. q # p /\ proc[q].pc \in HasKey /\ proc'[q] = proc[q]  BY <1>5, <2>2
    <3>2. LiveKeyOf(proc[q].kid, proc[q].robot)'
      <4>1. LiveKeyOf(proc[q].kid, proc[q].robot)  BY <3>1 DEF KInv, Signed
      <4>2. QED  BY <3>1, <4>1 DEF LiveKeyOf
    <3>3. \A h \in Hubs : cred'[h].robot # 0 => cred'[h].kid # proc'[q].kid
      <4>1. proc[p].kid # proc[q].kid  BY <3>1 DEF KInv, Signed
      <4>2. \A h \in Hubs : cred[h].robot # 0 => cred[h].kid # proc[q].kid
        BY <3>1 DEF KInv, Signed
      <4>3. QED  BY <3>1, <4>1, <4>2, <1>3
    <3>4. \A s \in Processes \ {q} : proc'[s].pc \in HasKey => proc'[s].kid # proc'[q].kid
      BY <3>1, <1>5 DEF KInv, Signed
    <3>5. \A s \in Processes : proc'[s].pc \in Rotating => proc'[s].old # proc'[q].kid
      BY <3>1, <1>6 DEF KInv, Signed
    <3>6. QED  BY <3>2, <3>3, <3>4, <3>5
  <2>3. QED  BY <2>1, <2>2 DEF Signed
<1>10. Replaced'
  <2>1. \A q \in Processes : proc[q].pc \in Rotating => proc[q].old # proc[p].kid
    BY DEF KInv, Signed
  <2>2. ASSUME NEW q \in Processes, proc'[q].pc \in {"r_mint", "r_delete"}
        PROVE  proc'[q].old # cred'[proc'[q].hub].kid
    <3>1. proc'[q].pc \in Rotating  BY <2>2 DEF Rotating
    <3>2. proc[q].pc \in Rotating /\ proc[q].hub \in Hubs
          /\ proc'[q].hub = proc[q].hub /\ proc'[q].old = proc[q].old
      BY <3>1, <1>6, <1>7
    <3>3. CASE proc[q].hub = g  BY <3>2, <3>3, <2>1, <1>3
    <3>4. CASE proc[q].hub # g
      <4>1. q # p /\ proc'[q] = proc[q]  BY <3>4, <1>1
      <4>2. proc[q].old # cred[proc[q].hub].kid  BY <4>1, <2>2 DEF KInv, Replaced
      <4>3. QED  BY <4>2, <3>2, <3>4, <1>3
    <3>5. QED  BY <3>3, <3>4
  <2>3. QED  BY <2>2, <1>6 DEF KInv, Replaced
<1>11. QED  BY <1>8, <1>9, <1>10 DEF KInv

\* A rotation deletes a key that is neither a credential's nor in hand.
LEMMA KDeleteKey ==
    ASSUME IInv, KInv, NEW p \in Processes, delete_key(p)
    PROVE  KInv'
<1> DEFINE o == proc[p].old
<1>1. /\ proc[p].pc = "r_delete" /\ proc' = [proc EXCEPT ![p] = Free]
      /\ keys' = [keys EXCEPT ![o].live = FALSE]
      /\ UNCHANGED <<tenant, cred, robots>>
  BY DEF delete_key, At, Return
<1>2. /\ proc'[p].pc = "free"
      /\ \A q \in Processes \ {p} : proc'[q] = proc[q]
  BY <1>1 DEF IInv, TypeOK, Free, Fresh
<1>3. /\ proc[p].hub \in Hubs /\ proc[p].pc \in Rotating
      /\ o \in 1..Len(keys) /\ robots[keys[o].robot] = proc[p].hub
      /\ o # cred[proc[p].hub].kid
  BY <1>1 DEF KInv, Replaced, IInv, Busy, Rotating
<1>4. Len(keys) \in Nat /\ keys \in Seq(KeyOf(Len(robots)))  BY KeyTypes
<1>5. /\ DOMAIN keys' = DOMAIN keys
      /\ \A i \in 1..Len(keys) : /\ keys'[i].robot = keys[i].robot
                                 /\ i # o => keys'[i] = keys[i]
  <2>1. keys' = [keys EXCEPT ![o] = [keys[o] EXCEPT !.live = FALSE]]  BY <1>1
  <2>2. [keys[o] EXCEPT !.live = FALSE].robot = keys[o].robot
    BY <1>3, KeyTypes
  <2>3. QED  BY <2>1, <2>2, <1>3, <1>4
<1>6. Len(keys') = Len(keys)  BY <1>4, <1>5, <1>1
<1>7. \A q \in Processes : proc'[q].pc \in HasRobot \cup HasKey \cup Rotating =>
          proc[q].pc = proc'[q].pc /\ proc'[q] = proc[q]
  BY <1>2 DEF HasRobot, HasKey, Rotating
<1>8. Homes'  BY <1>1, <1>7 DEF KInv, Homes
<1>9. Signed'
  <2>1. \A h \in Hubs : cred'[h].robot # 0 => LiveKeyOf(cred[h].kid, cred[h].robot)'
    <3> SUFFICES ASSUME NEW h \in Hubs, cred[h].robot # 0
                 PROVE  LiveKeyOf(cred[h].kid, cred[h].robot)'
      BY <1>1
    <3>1. LiveKeyOf(cred[h].kid, cred[h].robot) /\ robots[cred[h].robot] = h
      BY DEF KInv, Signed, Homes
    <3>2. cred[h].kid # o
      <4>1. CASE h = proc[p].hub  BY <4>1, <1>3
      <4>2. CASE h # proc[p].hub  BY <4>2, <3>1, <1>3 DEF LiveKeyOf
      <4>3. QED  BY <4>1, <4>2
    <3>3. QED  BY <3>1, <3>2, <1>1, <1>5, <1>6 DEF LiveKeyOf
  <2>2. ASSUME NEW q \in Processes, proc'[q].pc \in HasKey
        PROVE  /\ proc[q].pc \in HasKey /\ proc'[q] = proc[q]
               /\ LiveKeyOf(proc[q].kid, proc[q].robot)'
    <3>1. proc[q].pc \in HasKey /\ proc'[q] = proc[q]  BY <2>2, <1>7
    <3>2. LiveKeyOf(proc[q].kid, proc[q].robot) /\ proc[q].kid # o
      BY <3>1, <1>3 DEF KInv, Signed
    <3>3. proc[q].kid \in 1..Len(keys) /\ proc[q].kid # o  BY <3>2 DEF LiveKeyOf
    <3>4. keys'[proc[q].kid] = keys[proc[q].kid]  BY <3>3, <1>5
    <3>5. LiveKeyOf(proc[q].kid, proc[q].robot)'  BY <3>1, <3>2, <3>4, <1>6 DEF LiveKeyOf
    <3>6. QED  BY <3>1, <3>5
  <2>3. \A q \in Processes : proc'[q].pc \in Rotating => proc[q].pc \in Rotating /\ proc'[q] = proc[q]
    BY <1>7
  <2>4. QED  BY <2>1, <2>2, <2>3, <1>1 DEF KInv, Signed
<1>10. Replaced'
  <2>1. ASSUME NEW q \in Processes, proc'[q].pc \in Rotating
        PROVE  /\ proc'[q] = proc[q] /\ proc[q].old \in 1..Len(keys')
               /\ robots'[keys'[proc[q].old].robot] = proc[q].hub
    <3>1. proc'[q] = proc[q] /\ proc[q].pc \in Rotating  BY <2>1, <1>7
    <3>2. proc[q].old \in 1..Len(keys) /\ robots[keys[proc[q].old].robot] = proc[q].hub
      BY <3>1 DEF KInv, Replaced
    <3>3. QED  BY <3>1, <3>2, <1>1, <1>5, <1>6
  <2>2. \A q \in Processes : proc'[q].pc \in {"r_mint", "r_delete"} => proc'[q].pc \in Rotating
    BY DEF Rotating
  <2>3. QED  BY <2>1, <2>2, <1>1 DEF KInv, Replaced
<1>11. QED  BY <1>8, <1>9, <1>10 DEF KInv

-----------------------------------------------------------------------------
(* What the steps do *)

\* Steps of a request that has nothing in hand.
Bare == {"free", "app", "tenant", "claim", "await", "recheck", "winner", "reread", "restate",
         "failed", "limit", "release"} \cup Verifying

\* Request p goes on to x, with nothing in hand, and robots, keys and the rows that name
\* them stay as they are.  An id in hand is lost.
Quiet(p, x) ==
    /\ proc' = [proc EXCEPT ![p] = x]
    /\ x.pc \in Bare
    /\ x.pc \in Claimed =>
          \/ proc[p].pc \in Claimed /\ x.hub = proc[p].hub
          \/ proc[p].pc \notin Claimed /\ x.hub \in Hubs /\ Claimable(x.hub)
    /\ proc[p].pc \in Rotating => proc[p].pc = "r_mint" \/ faults' = faults + 1
    /\ SamePending
    /\ UNCHANGED <<cred, vault, robots, keys, rotations>>
    /\ lost' = lost \cup InHand(p)
    /\ faults' \in {faults, faults + 1}

\* A new robot, key or credential is made, recorded or dropped.
Busily(p) ==
    \/ recheck(p) /\ Goto(p, "adopt") /\ ~Provisioned(proc[p].hub)
    \/ adopt(p)
    \/ create_service_account(p) /\ Len(robots) < Quota
    \/ ResponseLost(p)
    \/ set_pending_robot(p)
    \/ create_key(p)
    \/ put_secret(p)
    \/ insert(p) /\ ~Provisioned(proc[p].hub)
    \/ clear_pending_robot(p)
    \/ \E h \in Hubs : rotate_key(p, h)
    \/ update_key(p)
    \/ get_acc_token(p) /\ Goto(p, "r_delete")
    \/ delete_key(p)

LEMMA QuietGoto ==
    ASSUME IInv, NEW p \in Processes, NEW pc \in Bare, Goto(p, pc),
           pc \in Claimed => \/ proc[p].pc \in Claimed
                             \/ proc[p].pc = "claim" /\ Claimable(proc[p].hub),
           proc[p].pc \in Rotating => proc[p].pc = "r_mint" \/ faults' = faults + 1,
           SamePending, UNCHANGED <<cred, vault, robots, keys, rotations>>,
           lost' = lost \cup InHand(p), faults' \in {faults, faults + 1}
    PROVE  \E x : Quiet(p, x)
<1> DEFINE x == [proc[p] EXCEPT !.pc = pc]
<1>1. proc' = [proc EXCEPT ![p] = x]  BY DEF Goto, IInv, TypeOK
<1>2. x.pc = pc /\ x.hub = proc[p].hub  BY DEF IInv, TypeOK, Process
<1>3. proc[p].pc = "claim" => proc[p].hub \in Hubs /\ proc[p].pc \notin Claimed
  BY DEF IInv, Busy, Claimed
<1> HIDE DEF x
<1>4. Quiet(p, x)  BY <1>1, <1>2, <1>3 DEF Quiet
<1>5. QED  BY <1>4

LEMMA QuietReturn ==
    ASSUME IInv, NEW p \in Processes, Return(p),
           proc[p].pc \in Rotating => proc[p].pc = "r_mint" \/ faults' = faults + 1,
           SamePending, UNCHANGED <<cred, vault, robots, keys, rotations>>,
           lost' = lost \cup InHand(p), faults' \in {faults, faults + 1}
    PROVE  \E x : Quiet(p, x)
<1>1. proc' = [proc EXCEPT ![p] = Free]  BY DEF Return
<1>2. Free.pc = "free"  BY DEF Free, Fresh
<1>3. "free" \in Bare /\ "free" \notin Claimed  BY DEF Bare, Claimed
<1>4. Quiet(p, Free)  BY <1>1, <1>2, <1>3 DEF Quiet
<1>5. QED  BY <1>4

\* Most of the steps are quiet: those of a request outside the claim.
LEMMA QuietOutside ==
    ASSUME IInv, NEW p \in Processes, NEW h \in Hubs,
           \/ ensure_ssa(p, h) \/ verify_app_authorised(p, h)
           \/ resolve_app(p) \/ ensure_tenant(p) \/ try_claim_provisioning(p)
           \/ await_winner(p) \/ Refused(p) \/ PinTenant(p) \/ mark_app_authorised(p)
    PROVE  \E x : Quiet(p, x)
<1>0. tenant \in [Hubs -> Tenant] /\ proc \in [Processes -> Process]  BY DEF IInv, TypeOK
<1>1. /\ UNCHANGED <<cred, vault, robots, keys, rotations, lost>>
      /\ faults' \in {faults, faults + 1}
  BY DEF ensure_ssa, verify_app_authorised, resolve_app, ensure_tenant, try_claim_provisioning,
         await_winner, Refused, PinTenant, mark_app_authorised
<1>2. proc[p].pc \in {"free", "app", "tenant", "claim", "await"} \cup Verifying
  BY DEF ensure_ssa, verify_app_authorised, resolve_app, ensure_tenant, try_claim_provisioning,
         await_winner, Refused, PinTenant, mark_app_authorised, At, Verifying
<1>3. proc[p].pc \notin Rotating /\ proc[p].pc # "record"  BY <1>2 DEF Rotating, Verifying
<1>4. lost' = lost \cup InHand(p)  BY <1>1, <1>3 DEF InHand, At
<1>5. SamePending
  <2>1. CASE ensure_ssa(p, h) \/ verify_app_authorised(p, h) \/ resolve_app(p)
                \/ await_winner(p) \/ Refused(p)
    BY <2>1 DEF ensure_ssa, verify_app_authorised, resolve_app, await_winner, Refused, SamePending
  <2>2. CASE ensure_tenant(p) \/ PinTenant(p)
    <3>1. /\ tenant' = [tenant EXCEPT ![proc[p].hub] = EnsuredTenant(proc[p].hub)]
          /\ proc[p].pc # "free"
      BY <2>2 DEF ensure_tenant, PinTenant, At
    <3>2. proc[p].hub \in Hubs  BY <3>1 DEF IInv, Busy
    <3>3. QED  BY <1>0, <3>1, <3>2, EnsuredType DEF SamePending, IInv
  <2>3. CASE try_claim_provisioning(p)
    BY <1>0, <2>3 DEF try_claim_provisioning, SamePending, Tenant
  <2>4. CASE mark_app_authorised(p)
    <3>1. PICK s : tenant' = [tenant EXCEPT ![proc[p].hub].status = s]
      BY <2>4 DEF mark_app_authorised
    <3>2. QED  BY <1>0, <3>1 DEF SamePending, Tenant
  <2>5. QED  BY <2>1, <2>2, <2>3, <2>4
<1>6. CASE ensure_ssa(p, h)
  <2>1. PICK x \in {Free, Fresh("app", h)} : proc' = [proc EXCEPT ![p] = x]
    BY <1>6 DEF ensure_ssa
  <2>2. x.pc \in {"free", "app"}  BY DEF Free, Fresh
  <2>3. x.pc \in Bare /\ x.pc \notin Claimed  BY <2>2 DEF Bare, Claimed
  <2>4. Quiet(p, x)  BY <1>1, <1>3, <1>4, <1>5, <2>1, <2>3 DEF Quiet
  <2>5. QED  BY <2>4
<1>7. CASE verify_app_authorised(p, h)
  <2>1. PICK x \in {Fresh("v_tenant", h),
                    [Fresh("v_status", h) EXCEPT !.seen = tenant[h].status]} :
            proc' = [proc EXCEPT ![p] = x]
    BY <1>7 DEF verify_app_authorised
  <2>2. x.pc \in Verifying  BY DEF Fresh, Verifying
  <2>3. x.pc \in Bare /\ x.pc \notin Claimed  BY <2>2 DEF Bare, Claimed, Verifying
  <2>4. Quiet(p, x)  BY <1>1, <1>3, <1>4, <1>5, <2>1, <2>3 DEF Quiet
  <2>5. QED  BY <2>4
<1>8. CASE resolve_app(p) \/ ensure_tenant(p) \/ try_claim_provisioning(p)
  <2>1. PICK pc \in {"tenant", "claim", "recheck", "await"} :
            /\ Goto(p, pc)
            /\ pc = "recheck" => proc[p].pc = "claim" /\ Claimable(proc[p].hub)
    BY <1>8 DEF resolve_app, ensure_tenant, try_claim_provisioning, At
  <2>2. pc \in Bare /\ (pc \in Claimed => pc = "recheck")  BY DEF Bare, Claimed
  <2>3. QED  BY <1>1, <1>3, <1>4, <1>5, <2>1, <2>2, QuietGoto
<1>9. CASE await_winner(p) \/ Refused(p) \/ mark_app_authorised(p)
  <2>1. Return(p)  BY <1>9 DEF await_winner, Refused, mark_app_authorised
  <2>2. QED  BY <1>1, <1>3, <1>4, <1>5, <2>1, QuietReturn
<1>10. CASE PinTenant(p)
  <2> DEFINE x == [proc[p] EXCEPT !.seen = EnsuredTenant(proc[p].hub).status, !.pc = "v_status"]
  <2>1. proc' = [proc EXCEPT ![p] = x]  BY <1>0, <1>10 DEF PinTenant
  <2>2. x.pc = "v_status"  BY <1>0 DEF Process
  <2> HIDE DEF x
  <2>3. x.pc \in Bare /\ x.pc \notin Claimed  BY <2>2 DEF Bare, Claimed, Verifying
  <2>4. Quiet(p, x)  BY <1>1, <1>3, <1>4, <1>5, <2>1, <2>3 DEF Quiet
  <2>5. QED  BY <2>4
<1>11. QED  BY <1>6, <1>7, <1>8, <1>9, <1>10

\* And, under the claim, those that do not lead to a robot.
LEMMA QuietInside ==
    ASSUME IInv, NEW p \in Processes,
           \/ recheck(p) \/ create_service_account(p) \/ insert(p) \/ winner(p)
           \/ reread(p) \/ restate(p) \/ mark_tenant_failed(p) \/ release_provisioning(p)
    PROVE  Busily(p) \/ \E x : Quiet(p, x)
<1>0. tenant \in [Hubs -> Tenant] /\ proc \in [Processes -> Process]  BY DEF IInv, TypeOK
<1>1. /\ proc[p].pc \in Claimed \ {"record"} /\ proc[p].pc \notin Rotating
      /\ UNCHANGED <<vault, keys, rotations, faults, lost>>
  BY DEF recheck, create_service_account, insert, winner, reread, restate, mark_tenant_failed,
         release_provisioning, At, Claimed, Rotating
<1>2. lost' = lost \cup InHand(p) /\ faults' \in {faults, faults + 1}  BY <1>1 DEF InHand, At
<1>3. CASE recheck(p) /\ ~Provisioned(proc[p].hub)
  BY <1>3 DEF recheck, Busily
<1>4. CASE recheck(p) /\ Provisioned(proc[p].hub)
  <2>1. Goto(p, "release") /\ UNCHANGED <<tenant, cred, robots>>  BY <1>4 DEF recheck
  <2>2. "release" \in Bare /\ SamePending  BY <2>1 DEF Bare, SamePending
  <2>3. QED  BY <1>1, <1>2, <2>1, <2>2, QuietGoto
<1>5. CASE create_service_account(p) /\ Len(robots) < Quota
  BY <1>5 DEF Busily
<1>6. CASE create_service_account(p) /\ ~(Len(robots) < Quota)
  <2>1. Goto(p, "limit") /\ UNCHANGED <<tenant, cred, robots>>
    BY <1>6 DEF create_service_account
  <2>2. "limit" \in Bare /\ SamePending  BY <2>1 DEF Bare, SamePending
  <2>3. QED  BY <1>1, <1>2, <2>1, <2>2, QuietGoto
<1>7. CASE insert(p) /\ ~Provisioned(proc[p].hub)
  BY <1>7 DEF Busily
<1>8. CASE insert(p) /\ Provisioned(proc[p].hub)
  <2>1. Goto(p, "winner") /\ UNCHANGED <<tenant, cred, robots>>  BY <1>8 DEF insert
  <2>2. "winner" \in Bare /\ SamePending  BY <2>1 DEF Bare, SamePending
  <2>3. QED  BY <1>1, <1>2, <2>1, <2>2, QuietGoto
<1>9. CASE winner(p)
  <2>1. Goto(p, "release") /\ UNCHANGED <<tenant, cred, robots>>  BY <1>9 DEF winner
  <2>2. "release" \in Bare /\ SamePending  BY <2>1 DEF Bare, SamePending
  <2>3. QED  BY <1>1, <1>2, <2>1, <2>2, QuietGoto
<1>10. CASE reread(p)
  <2> DEFINE x == [proc[p] EXCEPT !.seen = tenant[proc[p].hub].status, !.pc = "restate"]
  <2>1. proc' = [proc EXCEPT ![p] = x]  BY <1>0, <1>10 DEF reread
  <2>2. x.pc = "restate" /\ x.hub = proc[p].hub  BY <1>0 DEF Process
  <2> HIDE DEF x
  <2>3. x.pc \in Bare  BY <2>2 DEF Bare
  <2>4. SamePending /\ UNCHANGED <<cred, robots>>  BY <1>10 DEF reread, SamePending
  <2>5. Quiet(p, x)  BY <1>1, <1>2, <2>1, <2>2, <2>3, <2>4 DEF Quiet
  <2>6. QED  BY <2>5
<1>11. CASE restate(p) \/ mark_tenant_failed(p)
  <2>1. PICK s : tenant' = [tenant EXCEPT ![proc[p].hub].status = s]
    BY <1>11 DEF restate, mark_tenant_failed
  <2>2. SamePending  BY <1>0, <2>1 DEF SamePending, Tenant
  <2>3. Goto(p, "release") /\ UNCHANGED <<cred, robots>>
    BY <1>11 DEF restate, mark_tenant_failed
  <2>4. "release" \in Bare  BY DEF Bare
  <2>5. QED  BY <1>1, <1>2, <2>2, <2>3, <2>4, QuietGoto
<1>12. CASE release_provisioning(p)
  <2>1. SamePending  BY <1>0, <1>12 DEF release_provisioning, SamePending, Tenant
  <2>2. Return(p) /\ UNCHANGED <<cred, robots>>  BY <1>12 DEF release_provisioning
  <2>3. QED  BY <1>1, <1>2, <2>1, <2>2, QuietReturn
<1>13. QED  BY <1>3, <1>4, <1>5, <1>6, <1>7, <1>8, <1>9, <1>10, <1>11, <1>12

\* A failed step and a crash are quiet, but for the id they take.
LEMMA QuietFault ==
    ASSUME IInv, NEW p \in Processes, Fail(p) \/ Crash(p)
    PROVE  \E x : Quiet(p, x)
<1>1. /\ UNCHANGED <<cred, vault, robots, keys, rotations>> /\ SamePending
      /\ lost' = lost \cup InHand(p) /\ faults' = faults + 1
  BY DEF Fail, Crash, SamePending
<1>2. \/ Return(p)
      \/ proc[p].pc \in Claimed /\ \E pc \in {"release", "failed"} : Goto(p, pc)
  BY DEF Fail, Crash
<1>3. CASE Return(p)  BY <1>1, <1>3, QuietReturn
<1>4. CASE proc[p].pc \in Claimed /\ \E pc \in {"release", "failed"} : Goto(p, pc)
  <2>1. PICK pc \in {"release", "failed"} : Goto(p, pc)  BY <1>4
  <2>2. pc \in Bare  BY DEF Bare
  <2>3. QED  BY <1>1, <1>4, <2>1, <2>2, QuietGoto
<1>5. QED  BY <1>2, <1>3, <1>4

\* Nothing happens to a robot, a key or a request.
Idle == SamePending /\ UNCHANGED <<cred, vault, robots, keys, proc, rotations, faults, lost>>

\* A step is idle, quiet or busy.
LEMMA Kinds ==
    ASSUME IInv, [Next]_vars
    PROVE  Idle \/ \E p \in Processes : Busily(p) \/ \E x : Quiet(p, x)
<1>1. CASE UNCHANGED vars  BY <1>1 DEF vars, Idle, SamePending
<1>2. ASSUME NEW h \in Hubs, ClaimExpires(h) PROVE Idle
  <2>1. tenant \in [Hubs -> Tenant]  BY DEF IInv, TypeOK
  <2>2. QED  BY <1>2, <2>1 DEF ClaimExpires, Idle, SamePending, Tenant
<1>3. ASSUME NEW p \in Processes, NEW h \in Hubs,
             ensure_ssa(p, h) \/ verify_app_authorised(p, h) \/ rotate_key(p, h)
      PROVE  Busily(p) \/ \E x : Quiet(p, x)
  BY <1>3, QuietOutside DEF Busily
<1>4. ASSUME NEW p \in Processes, Step(p) PROVE Busily(p) \/ \E x : Quiet(p, x)
  <2>1. CASE adopt(p) \/ set_pending_robot(p) \/ create_key(p) \/ put_secret(p)
                \/ clear_pending_robot(p) \/ update_key(p) \/ delete_key(p)
    BY <2>1 DEF Busily
  <2>2. CASE \/ resolve_app(p) \/ ensure_tenant(p) \/ try_claim_provisioning(p)
             \/ await_winner(p) \/ Refused(p) \/ PinTenant(p) \/ mark_app_authorised(p)
    <3>1. PICK h \in Hubs : TRUE
      BY <2>2 DEF resolve_app, ensure_tenant, try_claim_provisioning, await_winner, Refused,
                  PinTenant, mark_app_authorised, At, IInv, Busy, Verifying
    <3>2. QED  BY <2>2, <3>1, QuietOutside
  <2>3. CASE \/ recheck(p) \/ create_service_account(p) \/ insert(p) \/ winner(p)
             \/ reread(p) \/ restate(p) \/ mark_tenant_failed(p) \/ release_provisioning(p)
    BY <2>3, QuietInside
  <2>4. CASE get_acc_token(p)
    <3>1. CASE Goto(p, "r_delete")  BY <2>4, <3>1 DEF Busily
    <3>2. CASE Return(p)
      <4>1. /\ proc[p].pc = "r_mint" /\ SamePending
            /\ UNCHANGED <<cred, vault, robots, keys, rotations>>
            /\ lost' = lost \cup InHand(p) /\ faults' \in {faults, faults + 1}
        BY <2>4 DEF get_acc_token, At, SamePending, InHand
      <4>2. QED  BY <3>2, <4>1, QuietReturn
    <3>3. QED  BY <2>4, <3>1, <3>2 DEF get_acc_token
  <2>5. QED  BY <1>4, <2>1, <2>2, <2>3, <2>4 DEF Step
<1>5. ASSUME NEW p \in Processes, Fail(p) \/ ResponseLost(p) \/ Crash(p)
      PROVE  Busily(p) \/ \E x : Quiet(p, x)
  BY <1>5, QuietFault DEF Busily
<1>6. QED  BY <1>1, <1>2, <1>3, <1>4, <1>5 DEF Next

-----------------------------------------------------------------------------
(* KInv is preserved, and the key that a credential names is live *)

LEMMA KQuiet ==
    ASSUME IInv, KInv, NEW p \in Processes, NEW x, Quiet(p, x)
    PROVE  KInv'
<1>1. /\ proc' = [proc EXCEPT ![p] = x]
      /\ UNCHANGED <<cred, robots, keys>> /\ SamePending
      /\ x.pc \notin HasRobot \cup HasKey \cup Rotating
  BY DEF Quiet, Bare, HasRobot, HasKey, Rotating, Verifying
<1>2. QED  BY <1>1, KBare

\* Steps that move with what the request has in hand.
LEMMA KMove ==
    ASSUME IInv, KInv, NEW p \in Processes,
           \/ recheck(p) /\ Goto(p, "adopt")
           \/ set_pending_robot(p) \/ put_secret(p) \/ clear_pending_robot(p)
           \/ get_acc_token(p) /\ Goto(p, "r_delete")
    PROVE  KInv'
<1>0. /\ tenant \in [Hubs -> Tenant]
      /\ proc[p].pc # "free" => proc[p].hub \in Hubs
  BY DEF IInv, TypeOK, Busy
<1>1. CASE recheck(p) /\ Goto(p, "adopt")
  <2>1. /\ "adopt" \notin HasRobot /\ "adopt" \notin HasKey /\ "adopt" \notin Rotating
        /\ "adopt" \notin {"r_mint", "r_delete"}
    BY DEF HasRobot, HasKey, Rotating
  <2>2. SamePending /\ UNCHANGED <<cred, robots, keys>>  BY <1>1 DEF recheck, SamePending
  <2>3. \A h \in Hubs : tenant'[h].pending # 0 => robots[tenant'[h].pending] = h
    BY <2>2, PendingHome
  <2>4. QED  BY <1>1, <2>1, <2>2, <2>3, KGoto
<1>2. CASE set_pending_robot(p)
  <2>1. /\ proc[p].pc = "record" /\ Goto(p, "key") /\ UNCHANGED <<cred, robots, keys>>
        /\ tenant' = [tenant EXCEPT ![proc[p].hub].pending = proc[p].robot]
    BY <1>2 DEF set_pending_robot, At
  <2>2. proc[p].pc \in HasRobot /\ "key" \notin HasKey /\ "key" \notin Rotating
        /\ "key" \notin {"r_mint", "r_delete"}
    BY <2>1 DEF HasRobot, HasKey, Rotating
  <2>3. robots[proc[p].robot] = proc[p].hub  BY <2>2 DEF KInv, Homes
  <2>4. ASSUME NEW h \in Hubs, tenant'[h].pending # 0 PROVE robots[tenant'[h].pending] = h
    <3>1. CASE h = proc[p].hub
      <4>1. tenant'[h].pending = proc[p].robot  BY <1>0, <2>1, <3>1 DEF Tenant
      <4>2. QED  BY <2>3, <3>1, <4>1
    <3>2. CASE h # proc[p].hub
      <4>1. tenant'[h] = tenant[h]  BY <1>0, <2>1, <3>2
      <4>2. QED  BY <2>4, <4>1 DEF KInv, Homes
    <3>3. QED  BY <3>1, <3>2
  <2>5. QED  BY <2>1, <2>2, <2>4, KGoto
<1>3. CASE put_secret(p)
  <2>1. PICK pc \in {"insert", "r_update"} :
            /\ Goto(p, pc)
            /\ pc = "insert" => proc[p].pc = "vault"
            /\ pc = "r_update" => proc[p].pc = "r_vault"
    BY <1>3 DEF put_secret, At
  <2>2. /\ pc \in HasRobot => proc[p].pc \in HasRobot
        /\ proc[p].pc \in HasKey
        /\ pc \in Rotating => proc[p].pc \in Rotating
        /\ pc \notin {"r_mint", "r_delete"}
    BY <2>1 DEF HasRobot, HasKey, Rotating
  <2>3. SamePending /\ UNCHANGED <<cred, robots, keys>>  BY <1>3 DEF put_secret, SamePending
  <2>4. \A h \in Hubs : tenant'[h].pending # 0 => robots[tenant'[h].pending] = h
    BY <2>3, PendingHome
  <2>5. QED  BY <2>1, <2>2, <2>3, <2>4, KGoto
<1>4. CASE clear_pending_robot(p)
  <2>1. /\ proc[p].pc = "clear" /\ Goto(p, "reread") /\ UNCHANGED <<cred, robots, keys>>
        /\ tenant' = [tenant EXCEPT ![proc[p].hub].pending = 0]
    BY <1>4 DEF clear_pending_robot, At
  <2>2. /\ "reread" \notin HasRobot /\ "reread" \notin HasKey /\ "reread" \notin Rotating
        /\ "reread" \notin {"r_mint", "r_delete"}
    BY DEF HasRobot, HasKey, Rotating
  <2>3. \A h \in Hubs : tenant'[h].pending # 0 => tenant'[h].pending = tenant[h].pending
    BY <1>0, <2>1 DEF Tenant
  <2>4. \A h \in Hubs : tenant'[h].pending # 0 => robots[tenant'[h].pending] = h
    BY <2>3 DEF KInv, Homes
  <2>5. QED  BY <2>1, <2>2, <2>4, KGoto
<1>5. CASE get_acc_token(p) /\ Goto(p, "r_delete")
  <2>1. proc[p].pc = "r_mint" /\ SamePending /\ UNCHANGED <<cred, robots, keys>>
    BY <1>5 DEF get_acc_token, At, SamePending
  <2>2. /\ "r_delete" \notin HasRobot /\ "r_delete" \notin HasKey
        /\ proc[p].pc \in Rotating /\ proc[p].pc \in {"r_mint", "r_delete"}
    BY <2>1 DEF HasRobot, HasKey, Rotating
  <2>3. \A h \in Hubs : tenant'[h].pending # 0 => robots[tenant'[h].pending] = h
    BY <2>1, PendingHome
  <2>4. QED  BY <1>5, <2>1, <2>2, <2>3, KGoto
<1>6. QED  BY <1>1, <1>2, <1>3, <1>4, <1>5

\* Steps that take a robot in hand.
LEMMA KTake ==
    ASSUME IInv, KInv, NEW p \in Processes,
           \/ adopt(p) \/ ResponseLost(p)
           \/ create_service_account(p) /\ Len(robots) < Quota
    PROVE  KInv'
<1> DEFINE g == proc[p].hub
<1>0. /\ proc \in [Processes -> Process] /\ proc[p] \in Process /\ tenant \in [Hubs -> Tenant]
      /\ g \in Hubs /\ robots \in Seq(Hubs) /\ Len(robots) \in Nat
  BY LenProperties DEF adopt, create_service_account, ResponseLost, At, IInv, TypeOK, Busy
<1>1. CASE adopt(p)
  <2> DEFINE left == tenant[g].pending
  <2>1. PICK pc \in {"key", "create"} :
            /\ proc' = [proc EXCEPT ![p] = [proc[p] EXCEPT !.robot = left, !.pc = pc]]
            /\ pc = "key" => left # 0
    BY <1>0, <1>1 DEF adopt
  <2> DEFINE x == [proc[p] EXCEPT !.robot = left, !.pc = pc]
  <2>2. x.pc = pc /\ x.hub = g /\ x.robot = left  BY <1>0 DEF Process
  <2>3. proc' = [proc EXCEPT ![p] = x]  BY <2>1
  <2> HIDE DEF x
  <2>4. /\ SamePending /\ UNCHANGED <<cred, robots, keys>>  BY <1>1 DEF adopt, SamePending
  <2>5. \A h \in Hubs : tenant'[h].pending # 0 => robots[tenant'[h].pending] = h
    BY <2>4, PendingHome
  <2>6. /\ x.pc \notin HasKey /\ x.pc \notin Rotating /\ x.pc \notin {"r_mint", "r_delete"}
        /\ x.pc \in HasRobot => x.pc = "key"
    BY <2>2 DEF HasRobot, HasKey, Rotating
  <2>7. x.pc \in HasRobot => x.robot # 0 /\ robots[x.robot] = x.hub
    BY <1>0, <2>1, <2>2, <2>6 DEF KInv, Homes
  <2>8. QED  BY <2>3, <2>4, <2>5, <2>6, <2>7, KProc
<1>2. CASE create_service_account(p) /\ Len(robots) < Quota
  <2> DEFINE n == Len(robots) + 1
             x == [proc[p] EXCEPT !.robot = n, !.pc = "record"]
  <2>1. /\ proc' = [proc EXCEPT ![p] = x] /\ robots' = Append(robots, g)
        /\ UNCHANGED <<tenant, cred, keys>>
    BY <1>0, <1>2 DEF create_service_account
  <2>2. x.pc = "record" /\ x.hub = g /\ x.robot = n  BY <1>0 DEF Process
  <2>3. n # 0 /\ robots'[n] = g  BY <1>0, <2>1
  <2> HIDE DEF x, n
  <2>4. x.pc \notin HasKey \cup Rotating  BY <2>2 DEF HasKey, Rotating
  <2>5. x.pc \in HasRobot => x.robot # 0 /\ robots'[x.robot] = x.hub  BY <2>2, <2>3
  <2>6. QED  BY <1>0, <2>1, <2>4, <2>5, KRobots
<1>3. CASE ResponseLost(p)
  <2> DEFINE x == [proc[p] EXCEPT !.pc = "failed"]
  <2>1. /\ proc' = [proc EXCEPT ![p] = x] /\ robots' = Append(robots, g)
        /\ UNCHANGED <<tenant, cred, keys>>
    BY <1>0, <1>3 DEF ResponseLost, Goto
  <2>2. x.pc = "failed"  BY <1>0 DEF Process
  <2> HIDE DEF x
  <2>4. x.pc \notin HasKey \cup Rotating /\ x.pc \notin HasRobot
    BY <2>2 DEF HasKey, Rotating, HasRobot
  <2>5. QED  BY <1>0, <2>1, <2>4, KRobots
<1>4. QED  BY <1>1, <1>2, <1>3

\* Steps that give a credential a key, and one that will replace it.
LEMMA KStore ==
    ASSUME IInv, KInv, NEW p \in Processes,
           \/ insert(p) /\ ~Provisioned(proc[p].hub)
           \/ update_key(p)
           \/ \E h \in Hubs : rotate_key(p, h)
    PROVE  KInv'
<1>0. /\ proc[p] \in Process /\ cred \in [Hubs -> Row]
      /\ proc[p].pc # "free" => proc[p].hub \in Hubs
  BY DEF IInv, TypeOK, Busy, Row
<1>1. CASE insert(p) /\ ~Provisioned(proc[p].hub)
  <2> DEFINE g == proc[p].hub
             r == proc[p].robot
  <2>1. /\ proc[p].pc = "insert" /\ Goto(p, "clear") /\ cred[g].robot = 0
        /\ cred' = [cred EXCEPT ![g] = [robot |-> r, kid |-> proc[p].kid]]
        /\ UNCHANGED <<tenant, robots, keys>>
    BY <1>1 DEF insert, At, Provisioned
  <2>2. proc[p].pc \in HasKey /\ proc[p].pc \in HasRobot
        /\ "clear" \notin HasRobot \cup HasKey /\ "clear" \notin Rotating
    BY <2>1 DEF HasRobot, HasKey, Rotating
  <2>3. r \in Nat /\ g \in Hubs /\ r # 0 /\ robots[r] = g
    BY <1>0, <2>1, <2>2 DEF KInv, Homes, Process
  <2>4. cred[g].robot \in {0, r}  BY <2>1
  <2> HIDE DEF g, r
  <2>5. g = proc[p].hub /\ r = proc[p].robot  BY DEF g, r
  <2>6. QED  BY <2>1, <2>2, <2>3, <2>4, <2>5, KCred
<1>2. CASE update_key(p)
  <2> DEFINE g == proc[p].hub
             r == proc[p].robot
  <2>1. /\ proc[p].pc = "r_update" /\ Goto(p, "r_mint")
        /\ cred' = [cred EXCEPT ![g].kid = proc[p].kid]
        /\ UNCHANGED <<tenant, robots, keys>>
    BY <1>2 DEF update_key, At
  <2>2. proc[p].pc \in HasKey /\ proc[p].pc \in Rotating
        /\ "r_mint" \notin HasRobot \cup HasKey
    BY <2>1 DEF HasRobot, HasKey, Rotating
  <2>3. r \in Nat /\ g \in Hubs /\ r # 0 /\ r = cred[g].robot /\ robots[r] = g
    BY <1>0, <2>1, <2>2 DEF KInv, Homes, Process
  <2>4. cred[g].robot \in {0, r}  BY <2>3
  <2>5. [cred[g] EXCEPT !.kid = proc[p].kid] = [robot |-> r, kid |-> proc[p].kid]
    BY <1>0, <2>3 DEF Row
  <2>6. cred' = [cred EXCEPT ![g] = [robot |-> r, kid |-> proc[p].kid]]
    BY <2>1, <2>5
  <2> HIDE DEF g, r
  <2>7. g = proc[p].hub /\ r = proc[p].robot  BY DEF g, r
  <2>8. QED  BY <2>1, <2>2, <2>3, <2>4, <2>6, <2>7, KCred
<1>3. CASE \E h \in Hubs : rotate_key(p, h)
  <2>1. PICK h \in Hubs : rotate_key(p, h)  BY <1>3
  <2> DEFINE x == [Fresh("r_key", h) EXCEPT !.robot = cred[h].robot, !.old = cred[h].kid]
  <2>2. /\ proc' = [proc EXCEPT ![p] = x] /\ cred[h].robot # 0
        /\ UNCHANGED <<cred, robots, keys>> /\ SamePending
    BY <2>1 DEF rotate_key, Provisioned, SamePending
  <2>3. x.pc = "r_key" /\ x.hub = h /\ x.robot = cred[h].robot /\ x.old = cred[h].kid
    BY DEF Fresh
  <2> HIDE DEF x
  <2>4. x.pc \notin HasRobot /\ x.pc \notin HasKey /\ x.pc \notin {"r_mint", "r_delete"}
    BY <2>3 DEF HasRobot, HasKey
  <2>5. \A g \in Hubs : tenant'[g].pending # 0 => robots[tenant'[g].pending] = g
    BY <2>2, PendingHome
  <2>6. /\ LiveKeyOf(cred[h].kid, cred[h].robot) /\ robots[cred[h].robot] = h
        /\ \A q \in Processes : proc[q].pc \in HasKey => cred[h].kid # proc[q].kid
    BY <2>2 DEF KInv, Signed, Homes
  <2>7. /\ cred[x.hub].robot # 0 /\ x.robot = cred[x.hub].robot
        /\ x.old \in 1..Len(keys) /\ robots[keys[x.old].robot] = x.hub
        /\ \A q \in Processes : proc[q].pc \in HasKey => x.old # proc[q].kid
    BY <2>2, <2>3, <2>6 DEF LiveKeyOf
  <2>8. QED  BY <2>2, <2>4, <2>5, <2>7, KProc
<1>4. QED  BY <1>1, <1>2, <1>3

LEMMA StepKInv == ASSUME IInv, KInv, [Next]_vars PROVE KInv'
<1>1. CASE Idle
  <2>1. /\ UNCHANGED <<cred, robots, keys, proc>>
        /\ \A h \in Hubs : tenant'[h].pending # 0 => robots[tenant'[h].pending] = h
    BY <1>1, PendingHome DEF Idle
  <2>2. Homes'  BY <2>1 DEF KInv, Homes
  <2>3. Signed' /\ Replaced'  BY <2>1 DEF KInv, Signed, Replaced, LiveKeyOf
  <2>4. QED  BY <2>2, <2>3 DEF KInv
<1>2. ASSUME NEW p \in Processes, NEW x, Quiet(p, x) PROVE KInv'  BY <1>2, KQuiet
<1>3. ASSUME NEW p \in Processes, Busily(p) PROVE KInv'
  <2>1. CASE \/ recheck(p) /\ Goto(p, "adopt")
             \/ set_pending_robot(p) \/ put_secret(p) \/ clear_pending_robot(p)
             \/ get_acc_token(p) /\ Goto(p, "r_delete")
    BY <2>1, KMove
  <2>2. CASE \/ adopt(p) \/ ResponseLost(p)
             \/ create_service_account(p) /\ Len(robots) < Quota
    BY <2>2, KTake
  <2>3. CASE \/ insert(p) /\ ~Provisioned(proc[p].hub)
             \/ update_key(p)
             \/ \E h \in Hubs : rotate_key(p, h)
    BY <2>3, KStore
  <2>4. CASE create_key(p)  BY <2>4, KCreateKey
  <2>5. CASE delete_key(p)  BY <2>5, KDeleteKey
  <2>6. QED  BY <1>3, <2>1, <2>2, <2>3, <2>4, <2>5 DEF Busily
<1>4. QED  BY <1>1, <1>2, <1>3, Kinds

LEMMA InitKInv == ASSUME Init PROVE KInv
<1>1. Homes  BY DEF Init, Homes, HasRobot, Rotating, Free, Fresh
<1>2. Signed  BY DEF Init, Signed, HasKey, Free, Fresh
<1>3. Replaced  BY DEF Init, Replaced, Rotating, Free, Fresh
<1>4. QED  BY <1>1, <1>2, <1>3 DEF KInv

\* New key first, old key deleted last: however many rotations of however many hubs
\* overlap and fail, and even when claims outlive their holders, the key that a credential
\* names is a live key of the hub's own robot (ssa_provisioner.py, rotate_key).
THEOREM KeyOfRobotLive == Spec => []SigningKeyLive
<1>1. Init => KInv  BY InitKInv
<1>2. IInv /\ KInv /\ [Next]_vars => KInv'  BY StepKInv
<1>3. KInv => SigningKeyLive
  BY DEF KInv, Homes, Signed, LiveKeyOf, SigningKeyLive, Provisioned
<1>4. QED  BY <1>1, <1>2, <1>3, Wellformed, PTL DEF Spec

-----------------------------------------------------------------------------
(* Adopted is preserved: between the claim and its release the rows of a hub are *)
(* as its only request has read and written them                                 *)

\* The robots in the row and in the credential of hub h stay.
SameRow(h) == cred'[h].robot = cred[h].robot /\ tenant'[h].pending = tenant[h].pending

\* Only the request under the claim changes them, and it knows what they are.
LEMMA UnderFrame ==
    ASSUME IInv, Mutex, UnderClaim, NEW p \in Processes, NEW x,
           proc' = [proc EXCEPT ![p] = x],
           \A h \in Hubs : SameRow(h) \/ (proc[p].pc \in Claimed /\ h = proc[p].hub),
           x.pc \in {"adopt", "create"} \cup HasRobot => cred'[x.hub].robot = 0,
           x.pc \in {"create", "record"} => tenant'[x.hub].pending = 0,
           x.pc \in {"key", "vault", "insert", "clear"} => tenant'[x.hub].pending = x.robot,
           x.pc = "clear" => cred'[x.hub].robot = x.robot
    PROVE  UnderClaim'
<1>1. /\ proc'[p] = x
      /\ \A q \in Processes \ {p} : proc'[q] = proc[q]
  BY DEF IInv, TypeOK
<1>2. \A q \in Processes \ {p} : proc[q].pc \in Claimed => SameRow(proc[q].hub)
  <2> SUFFICES ASSUME NEW q \in Processes \ {p}, proc[q].pc \in Claimed PROVE SameRow(proc[q].hub)
    OBVIOUS
  <2>1. proc[q].hub \in Hubs  BY DEF IInv, Busy, Claimed
  <2>2. ~(proc[p].pc \in Claimed /\ proc[q].hub = proc[p].hub)  BY DEF Mutex, OneCreator
  <2>3. QED  BY <2>1, <2>2
<1>3. {"adopt", "create", "clear"} \cup HasRobot \subseteq Claimed  BY DEF HasRobot, Claimed
<1>4. ASSUME NEW q \in Processes
      PROVE  /\ proc'[q].pc \in {"adopt", "create"} \cup HasRobot => cred'[proc'[q].hub].robot = 0
             /\ proc'[q].pc \in {"create", "record"} => tenant'[proc'[q].hub].pending = 0
             /\ proc'[q].pc \in {"key", "vault", "insert", "clear"} =>
                   tenant'[proc'[q].hub].pending = proc'[q].robot
             /\ proc'[q].pc = "clear" => cred'[proc'[q].hub].robot = proc'[q].robot
  <2>1. CASE q = p  BY <2>1, <1>1
  <2>2. CASE q # p
    <3>1. proc'[q] = proc[q]  BY <2>2, <1>1
    <3>2. proc[q].pc \in {"adopt", "create", "clear"} \cup HasRobot => SameRow(proc[q].hub)
      BY <2>2, <1>2, <1>3
    <3>3. {"create", "record", "key", "vault", "insert", "clear"}
             \subseteq {"adopt", "create", "clear"} \cup HasRobot
      BY DEF HasRobot
    <3>4. QED  BY <3>1, <3>2, <3>3 DEF UnderClaim, SameRow
  <2>3. QED  BY <2>1, <2>2
<1>5. QED  BY <1>4 DEF UnderClaim

\* Facts of the state that the proofs below start from.
LEMMA Ids ==
    ASSUME IInv
    PROVE  /\ Len(robots) \in Nat /\ 0 \notin lost /\ lost \subseteq 1..Len(robots)
           /\ robots \in Seq(Hubs) /\ proc \in [Processes -> Process]
           /\ tenant \in [Hubs -> Tenant] /\ cred \in [Hubs -> Row]
           /\ \A i \in 1..Len(robots) : robots[i] \in Hubs
           /\ \A h \in Hubs : /\ cred[h].robot \in 0..Len(robots)
                              /\ tenant[h].pending \in 0..Len(robots)
           /\ \A q \in Processes : proc[q].robot \in 0..Len(robots)
<1>1. robots \in Seq(Hubs) /\ lost \subseteq 1..Len(robots)  BY DEF IInv, TypeOK
<1>2. Len(robots) \in Nat /\ \A i \in 1..Len(robots) : robots[i] \in Hubs
  BY <1>1, LenProperties, ElementOfSeq
<1>3. \A h \in Hubs : /\ cred[h].robot \in Nat /\ tenant[h].pending \in Nat
                      /\ cred[h].robot <= Len(robots) /\ tenant[h].pending <= Len(robots)
  BY DEF IInv, TypeOK, Known, Tenant
<1>4. \A q \in Processes : proc[q].robot \in Nat /\ proc[q].robot <= Len(robots)
  BY DEF IInv, TypeOK, Known, Process
<1>5. QED  BY <1>1, <1>2, <1>3, <1>4 DEF IInv, TypeOK, Row

\* An id that is in the hands of p alone is in no row and in nobody else's hands.
LEMMA HandAlone ==
    ASSUME IInv, KInv, Mutex, Adopted, NEW p \in Processes, NEW i \in InHand(p)
    PROVE  /\ i \in 1..Len(robots) /\ i \notin lost /\ robots[i] = proc[p].hub
           /\ \A h \in Hubs : cred[h].robot # i /\ tenant[h].pending # i
           /\ \A q \in Processes \ {p} : i \notin InHand(q)
<1>1. proc[p].pc = "record" /\ i = proc[p].robot  BY DEF InHand, At
<1>2. i # 0 /\ robots[i] = proc[p].hub  BY <1>1 DEF KInv, Homes, HasRobot
<1>3. i \in 1..Len(robots)  BY <1>1, <1>2, Ids
<1>4. cred[proc[p].hub].robot = 0 /\ tenant[proc[p].hub].pending = 0
  BY <1>1 DEF Adopted, UnderClaim, HasRobot
<1>5. \A h \in Hubs : cred[h].robot # i /\ tenant[h].pending # i
  BY <1>2, <1>4 DEF KInv, Homes
<1>6. ASSUME NEW q \in Processes \ {p}, i \in InHand(q) PROVE FALSE
  <2>1. proc[q].pc = "record" /\ i = proc[q].robot  BY <1>6 DEF InHand, At
  <2>2. robots[i] = proc[q].hub  BY <2>1 DEF KInv, Homes, HasRobot
  <2>3. QED  BY <1>1, <1>2, <2>1, <2>2 DEF Mutex, OneCreator, Claimed
<1>7. i \notin lost  BY <1>1 DEF Adopted, Found
<1>8. QED  BY <1>2, <1>3, <1>5, <1>6, <1>7

\* Rows and robots stay.  An id in hand is kept, or lost.
LEMMA AQuiet ==
    ASSUME IInv, KInv, Mutex, Adopted, NEW p \in Processes, NEW x,
           proc' = [proc EXCEPT ![p] = x], \A h \in Hubs : SameRow(h), robots' = robots,
           lost' = lost \cup InHand(p), x.pc # "record",
           x.pc \in {"adopt", "create", "clear"} \cup HasRobot =>
              /\ proc[p].pc \in {"recheck", "adopt", "key", "vault"} /\ x.hub = proc[p].hub
              /\ x.pc \in {"adopt", "create"} \cup HasRobot => cred[x.hub].robot = 0
              /\ x.pc = "create" => tenant[x.hub].pending = 0
              /\ x.pc \in {"key", "vault", "insert"} => tenant[x.hub].pending = x.robot
              /\ x.pc # "clear"
    PROVE  Adopted'
<1>1. /\ proc'[p] = x
      /\ \A q \in Processes \ {p} : proc'[q] = proc[q]
  BY DEF IInv, TypeOK
<1>2. UnderClaim'
  <2>1. x.pc \in {"adopt", "create", "clear"} \cup HasRobot => x.hub \in Hubs /\ SameRow(x.hub)
    BY DEF IInv, Busy
  <2>2. {"create", "record", "key", "vault", "insert", "clear"}
             \subseteq {"adopt", "create", "clear"} \cup HasRobot
    BY DEF HasRobot
  <2>3. /\ x.pc \in {"adopt", "create"} \cup HasRobot => cred'[x.hub].robot = 0
        /\ x.pc \in {"create", "record"} => tenant'[x.hub].pending = 0
        /\ x.pc \in {"key", "vault", "insert", "clear"} => tenant'[x.hub].pending = x.robot
        /\ x.pc = "clear" => cred'[x.hub].robot = x.robot
    BY <2>1, <2>2 DEF SameRow
  <2>4. QED  BY <2>3, UnderFrame DEF Adopted
<1>3. \A i \in InHand(p) : \A h \in Hubs : cred[h].robot # i /\ tenant[h].pending # i
  BY HandAlone
<1>4. \A i \in InHand(p) : \A q \in Processes \ {p} : i \notin InHand(q)
  BY HandAlone
<1>5. \A q \in Processes : proc'[q].pc = "record" => q # p /\ proc'[q] = proc[q]
  BY <1>1
<1>6. \A q \in Processes \ {p} : proc[q].pc = "record" => proc[q].robot \notin InHand(p)
  BY <1>4 DEF InHand, At
<1>7. Found'
  <2>1. \A h \in Hubs : /\ cred'[h].robot \notin lost' /\ tenant'[h].pending \notin lost'
                        /\ cred'[h].robot # 0 /\ tenant'[h].pending # 0
                              => cred'[h].robot = tenant'[h].pending
    BY <1>3 DEF Adopted, Found, SameRow
  <2>2. \A q \in Processes : proc'[q].pc = "record" => proc'[q].robot \notin lost'
    BY <1>5, <1>6 DEF Adopted, Found
  <2>3. QED  BY <2>1, <2>2 DEF Found
<1>8. RobotsRecorded'
  <2>1. ASSUME NEW i \in (1..Len(robots)) \ lost'
        PROVE  \/ cred'[robots[i]].robot = i
               \/ tenant'[robots[i]].pending = i
               \/ \E q \in Processes : proc'[q].pc = "record" /\ i = proc'[q].robot
    <3>1. robots[i] \in Hubs /\ i \notin lost /\ i \notin InHand(p)  BY <2>1, Ids
    <3>2. CASE cred[robots[i]].robot = i  BY <3>1, <3>2 DEF SameRow
    <3>3. CASE tenant[robots[i]].pending = i  BY <3>1, <3>3 DEF SameRow
    <3>4. CASE \E q \in Processes : i \in InHand(q)
      <4>1. PICK q \in Processes : i \in InHand(q)  BY <3>4
      <4>2. proc'[q] = proc[q] /\ proc[q].pc = "record" /\ i = proc[q].robot
        BY <4>1, <3>1, <1>1 DEF InHand, At
      <4>3. QED  BY <4>2
    <3>5. QED  BY <3>1, <3>2, <3>3, <3>4 DEF Adopted, RobotsRecorded
  <2>2. QED  BY <2>1 DEF RobotsRecorded, InHand, At
<1>9. QED  BY <1>2, <1>7, <1>8 DEF Adopted

\* A request that does not touch a robot.
LEMMA AKeep ==
    ASSUME IInv, KInv, Mutex, Adopted, NEW p \in Processes,
           \/ recheck(p) /\ Goto(p, "adopt") /\ ~Provisioned(proc[p].hub)
           \/ adopt(p) \/ create_key(p) \/ put_secret(p)
           \/ \E h \in Hubs : rotate_key(p, h)
           \/ update_key(p)
           \/ get_acc_token(p) /\ Goto(p, "r_delete")
           \/ delete_key(p)
    PROVE  Adopted'
<1> DEFINE g == proc[p].hub
           under == {"adopt", "create", "clear"} \cup HasRobot
<1>0. /\ proc \in [Processes -> Process] /\ proc[p] \in Process /\ cred \in [Hubs -> Row]
      /\ proc[p].pc # "free" => g \in Hubs
  BY DEF IInv, TypeOK, Busy, Row
<1>1. proc[p].pc # "record" /\ UNCHANGED <<robots, lost, tenant>>
  BY DEF recheck, adopt, create_key, put_secret, rotate_key, update_key, get_acc_token,
         delete_key, At
<1>2. lost' = lost \cup InHand(p)  BY <1>1 DEF InHand, At
<1>3. \A h \in Hubs : SameRow(h)
  <2>1. CASE update_key(p)
    BY <1>0, <1>1, <2>1 DEF update_key, SameRow, Row
  <2>2. CASE UNCHANGED cred  BY <1>1, <2>2 DEF SameRow
  <2>3. QED
    BY <2>1, <2>2 DEF recheck, adopt, create_key, put_secret, rotate_key, get_acc_token, delete_key
<1>4. CASE recheck(p) /\ Goto(p, "adopt") /\ ~Provisioned(g)
  <2> DEFINE x == [proc[p] EXCEPT !.pc = "adopt"]
  <2>1. proc' = [proc EXCEPT ![p] = x] /\ proc[p].pc = "recheck" /\ cred[g].robot = 0
    BY <1>0, <1>4 DEF recheck, Goto, At, Provisioned
  <2>2. x.pc = "adopt" /\ x.hub = g  BY <1>0 DEF Process
  <2> HIDE DEF x
  <2>3. QED  BY <1>1, <1>2, <1>3, <2>1, <2>2, AQuiet
<1>5. CASE adopt(p)
  <2> DEFINE left == tenant[g].pending
  <2>1. PICK pc \in {"key", "create"} :
            /\ proc' = [proc EXCEPT ![p] = [proc[p] EXCEPT !.robot = left, !.pc = pc]]
            /\ pc = "create" => left = 0
    BY <1>0, <1>5 DEF adopt
  <2> DEFINE x == [proc[p] EXCEPT !.robot = left, !.pc = pc]
  <2>2. x.pc = pc /\ x.hub = g /\ x.robot = left  BY <1>0 DEF Process
  <2>3. proc' = [proc EXCEPT ![p] = x]  BY <2>1
  <2>4. proc[p].pc = "adopt" /\ cred[g].robot = 0
    BY <1>5 DEF adopt, At, Adopted, UnderClaim
  <2> HIDE DEF x
  <2>5. QED  BY <1>1, <1>2, <1>3, <2>1, <2>2, <2>3, <2>4, AQuiet
<1>6. CASE create_key(p)
  <2>1. PICK pc \in {"vault", "r_vault"} :
            /\ proc' = [proc EXCEPT ![p] = [proc[p] EXCEPT !.kid = Len(keys) + 1, !.pc = pc]]
            /\ pc = "vault" => proc[p].pc = "key"
    BY <1>0, <1>6 DEF create_key, At
  <2> DEFINE x == [proc[p] EXCEPT !.kid = Len(keys) + 1, !.pc = pc]
  <2>2. x.pc = pc /\ x.hub = g /\ x.robot = proc[p].robot  BY <1>0 DEF Process
  <2>3. proc' = [proc EXCEPT ![p] = x]  BY <2>1
  <2>4. proc[p].pc = "key" => cred[g].robot = 0 /\ tenant[g].pending = proc[p].robot
    BY DEF Adopted, UnderClaim, HasRobot
  <2>5. "r_vault" \notin under  BY DEF HasRobot
  <2> HIDE DEF x
  <2>6. QED  BY <1>1, <1>2, <1>3, <2>1, <2>2, <2>3, <2>4, <2>5, AQuiet
<1>7. CASE put_secret(p)
  <2>1. PICK pc \in {"insert", "r_update"} :
            /\ proc' = [proc EXCEPT ![p] = [proc[p] EXCEPT !.pc = pc]]
            /\ pc = "insert" => proc[p].pc = "vault"
    BY <1>0, <1>7 DEF put_secret, Goto, At
  <2> DEFINE x == [proc[p] EXCEPT !.pc = pc]
  <2>2. x.pc = pc /\ x.hub = g /\ x.robot = proc[p].robot  BY <1>0 DEF Process
  <2>3. proc' = [proc EXCEPT ![p] = x]  BY <2>1
  <2>4. proc[p].pc = "vault" => cred[g].robot = 0 /\ tenant[g].pending = proc[p].robot
    BY DEF Adopted, UnderClaim, HasRobot
  <2>5. "r_update" \notin under  BY DEF HasRobot
  <2> HIDE DEF x
  <2>6. QED  BY <1>1, <1>2, <1>3, <2>1, <2>2, <2>3, <2>4, <2>5, AQuiet
<1>8. CASE \/ \E h \in Hubs : rotate_key(p, h)
           \/ update_key(p)
           \/ get_acc_token(p) /\ Goto(p, "r_delete")
           \/ delete_key(p)
  <2>1. PICK x : /\ proc' = [proc EXCEPT ![p] = x]
                 /\ x.pc \in {"r_key", "r_mint", "r_delete", "free"}
    <3>1. CASE \E h \in Hubs : rotate_key(p, h)
      <4>1. PICK h \in Hubs : rotate_key(p, h)  BY <3>1
      <4> DEFINE y == [Fresh("r_key", h) EXCEPT !.robot = cred[h].robot, !.old = cred[h].kid]
      <4>2. proc' = [proc EXCEPT ![p] = y]  BY <4>1 DEF rotate_key
      <4>3. y.pc = "r_key"  BY DEF Fresh
      <4> HIDE DEF y
      <4>4. QED  BY <4>2, <4>3
    <3>2. CASE update_key(p) \/ Goto(p, "r_delete")
      <4>1. PICK pc \in {"r_mint", "r_delete"} :
                proc' = [proc EXCEPT ![p] = [proc[p] EXCEPT !.pc = pc]]
        BY <1>0, <3>2 DEF update_key, Goto
      <4>2. [proc[p] EXCEPT !.pc = pc].pc = pc  BY <1>0 DEF Process
      <4>3. QED  BY <4>1, <4>2
    <3>3. CASE delete_key(p)
      <4>1. proc' = [proc EXCEPT ![p] = Free]  BY <3>3 DEF delete_key, Return
      <4>2. Free.pc = "free"  BY DEF Free, Fresh
      <4>3. QED  BY <4>1, <4>2
    <3>4. QED  BY <1>8, <3>1, <3>2, <3>3
  <2>2. x.pc \notin under /\ x.pc # "record"  BY <2>1 DEF HasRobot
  <2>3. QED  BY <1>1, <1>2, <1>3, <2>1, <2>2, AQuiet
<1>9. QED  BY <1>4, <1>5, <1>6, <1>7, <1>8

\* A new robot is in hand; or nobody will ever know of it.
LEMMA ARobots ==
    ASSUME IInv, KInv, Mutex, Adopted, NEW p \in Processes, NEW g \in Hubs, NEW x, NEW n,
           proc' = [proc EXCEPT ![p] = x], proc[p].pc = "create", proc[p].hub = g,
           n = Len(robots) + 1, robots' = Append(robots, g),
           UNCHANGED <<tenant, cred>>,
           \/ x.pc = "record" /\ x.robot = n /\ x.hub = g /\ lost' = lost
           \/ x.pc = "failed" /\ lost' = lost \cup {n}
    PROVE  Adopted'
<1>1. /\ proc'[p] = x
      /\ \A q \in Processes \ {p} : proc'[q] = proc[q]
  BY DEF IInv, TypeOK
<1>2. /\ Len(robots') = n /\ robots'[n] = g /\ n \notin 0..Len(robots)
      /\ \A i \in 1..Len(robots) : robots'[i] = robots[i] /\ robots[i] \in Hubs
      /\ 1..Len(robots') = (1..Len(robots)) \cup {n}
  BY Ids
<1>3. cred[g].robot = 0 /\ tenant[g].pending = 0  BY DEF Adopted, UnderClaim
<1>4. UnderClaim'
  <2>1. \A h \in Hubs : SameRow(h)  BY DEF SameRow
  <2>2. "failed" \notin {"adopt", "create"} \cup HasRobot  BY DEF HasRobot
  <2>3. QED  BY <1>3, <2>1, <2>2, UnderFrame DEF Adopted
<1>5. Found'
  <2>1. \A h \in Hubs : cred[h].robot # n /\ tenant[h].pending # n  BY <1>2, Ids
  <2>2. \A q \in Processes : proc[q].robot # n  BY <1>2, Ids
  <2>3. n \notin lost  BY <1>2, Ids
  <2>4. QED  BY <1>1, <2>1, <2>2, <2>3 DEF Adopted, Found
<1>6. RobotsRecorded'
  <2>1. ASSUME NEW i \in (1..Len(robots')) \ lost'
        PROVE  \/ cred'[robots'[i]].robot = i
               \/ tenant'[robots'[i]].pending = i
               \/ \E q \in Processes : proc'[q].pc = "record" /\ i = proc'[q].robot
    <3>1. CASE i = n  BY <2>1, <3>1, <1>1
    <3>2. CASE i # n
      <4>1. i \in (1..Len(robots)) \ lost /\ robots'[i] = robots[i]  BY <2>1, <3>2, <1>2
      <4>2. CASE \E q \in Processes : i \in InHand(q)
        <5>1. PICK q \in Processes : i \in InHand(q)  BY <4>2
        <5>2. proc'[q] = proc[q] /\ proc[q].pc = "record" /\ i = proc[q].robot
          BY <5>1, <1>1 DEF InHand, At
        <5>3. QED  BY <5>2
      <4>3. QED  BY <4>1, <4>2 DEF Adopted, RobotsRecorded
    <3>3. QED  BY <3>1, <3>2
  <2>2. QED  BY <2>1 DEF RobotsRecorded, InHand, At
<1>7. QED  BY <1>4, <1>5, <1>6 DEF Adopted

\* The robot in hand is recorded, put into service, and no longer a leftover.
LEMMA AWrite ==
    ASSUME IInv, KInv, Mutex, Adopted, NEW p \in Processes, NEW g \in Hubs, NEW pc,
           g = proc[p].hub, Goto(p, pc), UNCHANGED <<robots, lost>>,
           \A h \in Hubs \ {g} : SameRow(h),
           \/ /\ proc[p].pc = "record" /\ pc = "key"
              /\ cred'[g].robot = cred[g].robot /\ tenant'[g].pending = proc[p].robot
           \/ /\ proc[p].pc = "insert" /\ pc = "clear"
              /\ cred'[g].robot = proc[p].robot /\ tenant'[g].pending = tenant[g].pending
           \/ /\ proc[p].pc = "clear" /\ pc = "reread"
              /\ cred'[g].robot = cred[g].robot /\ tenant'[g].pending = 0
    PROVE  Adopted'
<1> DEFINE r == proc[p].robot
           x == [proc[p] EXCEPT !.pc = pc]
<1>0. proc[p].pc \in {"record", "insert", "clear"}  OBVIOUS
<1>1. /\ proc' = [proc EXCEPT ![p] = x] /\ x.pc = pc /\ x.hub = g /\ x.robot = r
      /\ proc'[p] = x
      /\ \A q \in Processes \ {p} : proc'[q] = proc[q]
  BY DEF Goto, IInv, TypeOK, Process
<1> HIDE DEF x
<1>2. /\ proc[p].pc = "record" => cred[g].robot = 0 /\ tenant[g].pending = 0
      /\ proc[p].pc = "insert" => cred[g].robot = 0 /\ tenant[g].pending = r
      /\ proc[p].pc = "clear" => cred[g].robot = r /\ tenant[g].pending = r
  BY DEF Adopted, UnderClaim, HasRobot
<1>3. r \notin lost /\ 0 \notin lost
  BY <1>0, <1>2, Ids DEF Adopted, Found
<1>4. UnderClaim'
  <2>1. proc[p].pc \in Claimed  BY <1>0 DEF Claimed
  <2>2. {"clear", "reread"} \cap HasRobot = {} /\ "key" \in HasRobot  BY DEF HasRobot
  <2>3. /\ x.pc \in {"adopt", "create"} \cup HasRobot => cred'[x.hub].robot = 0
        /\ x.pc \in {"create", "record"} => tenant'[x.hub].pending = 0
        /\ x.pc \in {"key", "vault", "insert", "clear"} => tenant'[x.hub].pending = x.robot
        /\ x.pc = "clear" => cred'[x.hub].robot = x.robot
    BY <1>1, <1>2, <2>2
  <2>4. \A h \in Hubs : SameRow(h) \/ (proc[p].pc \in Claimed /\ h = proc[p].hub)
    BY <2>1
  <2>5. QED  BY <1>1, <2>3, <2>4, UnderFrame DEF Adopted
<1>5. Found'
  <2>1. ASSUME NEW h \in Hubs
        PROVE  /\ cred'[h].robot \notin lost /\ tenant'[h].pending \notin lost
               /\ cred'[h].robot # 0 /\ tenant'[h].pending # 0
                     => cred'[h].robot = tenant'[h].pending
    <3>1. CASE h = g  BY <3>1, <1>2, <1>3 DEF Adopted, Found
    <3>2. CASE h # g  BY <3>2 DEF Adopted, Found, SameRow
    <3>3. QED  BY <3>1, <3>2
  <2>2. \A q \in Processes : proc'[q].pc = "record" => proc'[q] = proc[q]  BY <1>1
  <2>3. QED  BY <2>1, <2>2 DEF Adopted, Found
<1>6. RobotsRecorded'
  <2>1. ASSUME NEW i \in (1..Len(robots)) \ lost
        PROVE  \/ cred'[robots[i]].robot = i
               \/ tenant'[robots[i]].pending = i
               \/ \E q \in Processes : proc'[q].pc = "record" /\ i = proc'[q].robot
    <3>1. robots[i] \in Hubs /\ i # 0  BY Ids
    <3>2. CASE \E q \in Processes : i \in InHand(q)
      <4>1. PICK q \in Processes : i \in InHand(q)  BY <3>2
      <4>2. proc[q].pc = "record" /\ i = proc[q].robot  BY <4>1 DEF InHand, At
      <4>3. CASE q = p
        <5>1. robots[r] = g  BY <4>2, <4>3 DEF KInv, Homes, HasRobot
        <5>2. QED  BY <4>2, <4>3, <5>1
      <4>4. CASE q # p  BY <4>2, <4>4, <1>1
      <4>5. QED  BY <4>3, <4>4
    <3>3. CASE cred[robots[i]].robot = i \/ tenant[robots[i]].pending = i
      <4>1. CASE robots[i] = g  BY <3>1, <3>3, <4>1, <1>2
      <4>2. CASE robots[i] # g  BY <3>1, <3>3, <4>2 DEF SameRow
      <4>3. QED  BY <4>1, <4>2
    <3>4. QED  BY <3>2, <3>3 DEF Adopted, RobotsRecorded
  <2>2. QED  BY <2>1 DEF RobotsRecorded, InHand, At
<1>7. QED  BY <1>4, <1>5, <1>6 DEF Adopted

LEMMA StepAdopted == ASSUME IInv, KInv, Mutex, Adopted, [Next]_vars PROVE Adopted'
<1>0. tenant \in [Hubs -> Tenant] /\ cred \in [Hubs -> Row] /\ proc \in [Processes -> Process]
  BY Ids
<1>1. CASE Idle
  <2>1. UNCHANGED <<cred, proc, robots, lost>> /\ \A h \in Hubs : SameRow(h)
    BY <1>1 DEF Idle, SamePending, SameRow
  <2>2. UnderClaim'
    <3>1. \A q \in Processes : proc[q].pc \in {"adopt", "create", "clear"} \cup HasRobot =>
              SameRow(proc[q].hub)
      BY <2>1 DEF IInv, Busy, HasRobot
    <3>2. {"create", "record", "key", "vault", "insert", "clear"}
             \subseteq {"adopt", "create", "clear"} \cup HasRobot
      BY DEF HasRobot
    <3>3. QED  BY <2>1, <3>1, <3>2 DEF Adopted, UnderClaim, SameRow
  <2>3. Found'  BY <2>1 DEF Adopted, Found, SameRow
  <2>4. \A i \in (1..Len(robots)) \ lost : robots[i] \in Hubs  BY Ids
  <2>5. RobotsRecorded'
    BY <2>1, <2>4 DEF Adopted, RobotsRecorded, SameRow, InHand, At
  <2>6. QED  BY <2>2, <2>3, <2>5 DEF Adopted
<1>2. ASSUME NEW p \in Processes, NEW x, Quiet(p, x) PROVE Adopted'
  <2>1. /\ proc' = [proc EXCEPT ![p] = x] /\ robots' = robots /\ lost' = lost \cup InHand(p)
        /\ \A h \in Hubs : SameRow(h)
    BY <1>2 DEF Quiet, SamePending, SameRow
  <2>2. x.pc \notin {"adopt", "create", "clear"} \cup HasRobot /\ x.pc # "record"
    BY <1>2 DEF Quiet, Bare, HasRobot, Verifying
  <2>3. QED  BY <2>1, <2>2, AQuiet
<1>3. ASSUME NEW p \in Processes, Busily(p) PROVE Adopted'
  <2> DEFINE g == proc[p].hub
  <2>0. proc[p].pc # "free" => g \in Hubs  BY DEF IInv, Busy
  <2>1. CASE \/ recheck(p) /\ Goto(p, "adopt") /\ ~Provisioned(proc[p].hub)
             \/ adopt(p) \/ create_key(p) \/ put_secret(p)
             \/ \E h \in Hubs : rotate_key(p, h)
             \/ update_key(p)
             \/ get_acc_token(p) /\ Goto(p, "r_delete")
             \/ delete_key(p)
    BY <2>1, AKeep
  <2>2. CASE create_service_account(p) /\ Len(robots) < Quota
    <3> DEFINE n == Len(robots) + 1
               x == [proc[p] EXCEPT !.robot = n, !.pc = "record"]
    <3>1. /\ proc' = [proc EXCEPT ![p] = x] /\ robots' = Append(robots, g)
          /\ proc[p].pc = "create" /\ UNCHANGED <<tenant, cred, lost>>
      BY <1>0, <2>2 DEF create_service_account, At
    <3>2. x.pc = "record" /\ x.hub = g /\ x.robot = n  BY <1>0 DEF Process
    <3> HIDE DEF x
    <3>3. QED  BY <2>0, <3>1, <3>2, ARobots
  <2>3. CASE ResponseLost(p)
    <3> DEFINE n == Len(robots) + 1
               x == [proc[p] EXCEPT !.pc = "failed"]
    <3>1. /\ proc' = [proc EXCEPT ![p] = x] /\ robots' = Append(robots, g)
          /\ proc[p].pc = "create" /\ UNCHANGED <<tenant, cred>> /\ lost' = lost \cup {n}
      BY <1>0, <2>3 DEF ResponseLost, Goto, At
    <3>2. x.pc = "failed"  BY <1>0 DEF Process
    <3> HIDE DEF x
    <3>3. QED  BY <2>0, <3>1, <3>2, ARobots
  <2>4. CASE set_pending_robot(p)
    <3>1. /\ proc[p].pc = "record" /\ Goto(p, "key") /\ UNCHANGED <<cred, robots, lost>>
          /\ tenant' = [tenant EXCEPT ![g].pending = proc[p].robot]
      BY <2>4 DEF set_pending_robot, At
    <3>2. /\ tenant'[g].pending = proc[p].robot
          /\ \A h \in Hubs \ {g} : SameRow(h)
      BY <1>0, <2>0, <3>1 DEF Tenant, SameRow
    <3>3. QED  BY <2>0, <3>1, <3>2, AWrite
  <2>5. CASE insert(p) /\ ~Provisioned(g)
    <3>1. /\ proc[p].pc = "insert" /\ Goto(p, "clear") /\ UNCHANGED <<tenant, robots, lost>>
          /\ cred' = [cred EXCEPT ![g] = [robot |-> proc[p].robot, kid |-> proc[p].kid]]
      BY <2>5 DEF insert, At
    <3>2. /\ cred'[g].robot = proc[p].robot
          /\ \A h \in Hubs \ {g} : SameRow(h)
      BY <1>0, <2>0, <3>1 DEF SameRow
    <3>3. QED  BY <2>0, <3>1, <3>2, AWrite
  <2>6. CASE clear_pending_robot(p)
    <3>1. /\ proc[p].pc = "clear" /\ Goto(p, "reread") /\ UNCHANGED <<cred, robots, lost>>
          /\ tenant' = [tenant EXCEPT ![g].pending = 0]
      BY <2>6 DEF clear_pending_robot, At
    <3>2. /\ tenant'[g].pending = 0
          /\ \A h \in Hubs \ {g} : SameRow(h)
      BY <1>0, <2>0, <3>1 DEF Tenant, SameRow
    <3>3. QED  BY <2>0, <3>1, <3>2, AWrite
  <2>7. QED  BY <1>3, <2>1, <2>2, <2>3, <2>4, <2>5, <2>6 DEF Busily
<1>4. QED  BY <1>1, <1>2, <1>3, Kinds

\* All of it, as long as no claim grows old under a living holder.
Whole == IInv /\ KInv /\ Mutex /\ Adopted

LEMMA InitWhole == ASSUME Init PROVE Whole
<1>1. Mutex  BY DEF Init, Mutex, OneCreator, Held, Free, Fresh, Claimed
<1>2. UnderClaim /\ Found  BY DEF Init, UnderClaim, Found, HasRobot, Free, Fresh
<1>3. RobotsRecorded  BY EmptySeq DEF Init, RobotsRecorded
<1>4. QED  BY <1>1, <1>2, <1>3, InitIInv, InitKInv DEF Whole, Adopted

LEMMA StepWhole == ASSUME ~LiveExpiry, Whole, [Next]_vars PROVE Whole'
BY StepIInv, StepKInv, StepMutex, StepAdopted DEF Whole

THEOREM WholeHolds == ASSUME ~LiveExpiry PROVE Spec => []Whole
<1>1. Init => Whole  BY InitWhole
<1>2. Whole /\ [Next]_vars => Whole'  BY StepWhole
<1>3. QED  BY <1>1, <1>2, PTL DEF Spec

\* Orphan adoption: whatever fails, and however requests interleave, a robot whose id no
\* fault took is a credential's, or recorded for the next attempt, or in the hands of the
\* request that has just made it (ssa_provisioner.py:6-11).
THEOREM NoRobotStranded == ASSUME ~LiveExpiry PROVE Spec => []RobotsRecorded
<1>1. Whole => RobotsRecorded  BY DEF Whole, Adopted
<1>2. QED  BY <1>1, WholeHolds, PTL

LEMMA OneHome == ASSUME Whole PROVE OneRobotUnlessLost
<1> SUFFICES ASSUME NEW i \in (1..Len(robots)) \ lost, NEW j \in (1..Len(robots)) \ lost,
                    robots[i] = robots[j]
             PROVE  i = j
  BY DEF OneRobotUnlessLost
<1> DEFINE h == robots[i]
           Has(k) == cred[h].robot = k \/ tenant[h].pending = k
           Hand(k) == \E p \in Processes : k \in InHand(p)
<1>1. h \in Hubs /\ h = robots[j] /\ i # 0 /\ j # 0  BY Ids DEF Whole
<1>2. (Has(i) \/ Hand(i)) /\ (Has(j) \/ Hand(j))
  BY <1>1 DEF Whole, Adopted, RobotsRecorded
<1>3. \A k \in {i, j} : Hand(k) => \E p \in Processes :
          proc[p].pc = "record" /\ k = proc[p].robot /\ proc[p].hub = h
  BY <1>1 DEF InHand, At, Whole, KInv, Homes, HasRobot
<1>4. Hand(i) \/ Hand(j) => cred[h].robot = 0 /\ tenant[h].pending = 0
  BY <1>3 DEF Whole, Adopted, UnderClaim, HasRobot
<1>5. CASE Hand(i) /\ Hand(j)
  BY <1>3, <1>5 DEF Whole, Mutex, OneCreator, Claimed
<1>6. CASE ~Hand(i) /\ ~Hand(j)
  BY <1>1, <1>2, <1>6 DEF Whole, Adopted, Found
<1>7. QED  BY <1>1, <1>2, <1>4, <1>5, <1>6

\* However many administrators provision a hub, and wherever their requests fail, APS holds
\* one robot for it, apart from those whose id a fault took (ssa_provisioner.py:6-11).
THEOREM OneRobot == ASSUME ~LiveExpiry PROVE Spec => []OneRobotUnlessLost
<1>1. Whole => OneRobotUnlessLost  BY OneHome
<1>2. QED  BY <1>1, WholeHolds, PTL

-----------------------------------------------------------------------------
(* Provisioning keeps the promise of HubRobot: every step maps to one of its *)
(* steps, or to none, for every hub                                          *)

\* What HubRobot sees of a hub, as functions of the state.
HoldersIn(pr, h) == {q \in Processes : pr[q].pc \in Claimed /\ pr[q].hub = h}
RobotsIn(rs, l, h) == {i \in (1..Len(rs)) \ l : rs[i] = h}
ServingIn(c, h) == {c[h].robot} \ {0}

\* A step of HubRobot, or none, from <<H, R, S>> to <<H1, R1, S1>>.
Promised(H, R, S, H1, R1, S1) ==
    \/ H1 = H /\ R1 = R /\ S1 = S
    \/ H = {} /\ (\E p \in Processes : H1 = {p}) /\ R1 = R /\ S1 = S
    \/ H1 = {} /\ R1 = R /\ S1 = S
    \/ H # {} /\ R = {} /\ (\E r \in 1..Quota : R1 = {r}) /\ H1 = H /\ S1 = S
    \/ H # {} /\ R # {} /\ S = {} /\ S1 = R /\ H1 = H /\ R1 = R
    \/ H # {} /\ S = {} /\ R1 = {} /\ (H1 = H \/ H1 = {}) /\ S1 = S

Kept(h) ==
    Promised(HoldersIn(proc, h), RobotsIn(robots, lost, h), ServingIn(cred, h),
             HoldersIn(proc', h), RobotsIn(robots', lost', h), ServingIn(cred', h))

\* That is what a step of HubRobot is, through the mapping.
LEMMA Mapped ==
    ASSUME NEW h \in Hubs, Kept(h)
    PROVE  UNCHANGED HubRobot(h)!vars \/ HubRobot(h)!Next
<1> DEFINE H == HoldersIn(proc, h)
           R == RobotsIn(robots, lost, h)
           S == ServingIn(cred, h)
           H1 == HoldersIn(proc', h)
           R1 == RobotsIn(robots', lost', h)
           S1 == ServingIn(cred', h)
<1>1. /\ H = {p \in Processes : Holds(p, h)} /\ H1 = {p \in Processes : Holds(p, h)}'
      /\ R = Robots(h) /\ R1 = Robots(h)'
      /\ S = {cred[h].robot} \ {0} /\ S1 = ({cred[h].robot} \ {0})'
  BY DEF HoldersIn, RobotsIn, ServingIn, Holds, Robots
<1>2. CASE H1 = H /\ R1 = R /\ S1 = S  BY <1>1, <1>2 DEF HubRobot!vars
<1>3. CASE H = {} /\ (\E p \in Processes : H1 = {p}) /\ R1 = R /\ S1 = S
  BY <1>1, <1>3 DEF HubRobot!Next, HubRobot!Claim
<1>4. CASE H1 = {} /\ R1 = R /\ S1 = S
  BY <1>1, <1>4 DEF HubRobot!Next, HubRobot!Release
<1>5. CASE H # {} /\ R = {} /\ (\E r \in 1..Quota : R1 = {r}) /\ H1 = H /\ S1 = S
  BY <1>1, <1>5 DEF HubRobot!Next, HubRobot!Create
<1>6. CASE H # {} /\ R # {} /\ S = {} /\ S1 = R /\ H1 = H /\ R1 = R
  BY <1>1, <1>6 DEF HubRobot!Next, HubRobot!Serve
<1>7. CASE H # {} /\ S = {} /\ R1 = {} /\ (H1 = H \/ H1 = {}) /\ S1 = S
  BY <1>1, <1>7 DEF HubRobot!Next, HubRobot!Lose
<1>8. QED  BY <1>2, <1>3, <1>4, <1>5, <1>6, <1>7 DEF Kept, Promised

\* Nobody takes a claim or gives one up.
LEMMA HoldersSame ==
    ASSUME IInv, NEW p \in Processes, NEW x, proc' = [proc EXCEPT ![p] = x],
           x.pc \in Claimed <=> proc[p].pc \in Claimed,
           x.pc \in Claimed => x.hub = proc[p].hub
    PROVE  \A h \in Hubs : HoldersIn(proc', h) = HoldersIn(proc, h)
<1>1. /\ proc'[p] = x
      /\ \A q \in Processes \ {p} : proc'[q] = proc[q]
  BY DEF IInv, TypeOK
<1>2. \A q \in Processes : /\ proc'[q].pc \in Claimed <=> proc[q].pc \in Claimed
                           /\ proc'[q].pc \in Claimed => proc'[q].hub = proc[q].hub
  BY <1>1
<1>3. QED  BY <1>2 DEF HoldersIn

\* A request between the claim and its release is the only holder.
LEMMA OnlyHolder ==
    ASSUME Whole, NEW p \in Processes, proc[p].pc \in Claimed
    PROVE  HoldersIn(proc, proc[p].hub) = {p}
BY DEF Whole, Mutex, OneCreator, HoldersIn

\* A hub with a robot has no other; a hub at "create" has none.
LEMMA OnlyRobot ==
    ASSUME Whole, NEW h \in Hubs, NEW i \in RobotsIn(robots, lost, h)
    PROVE  RobotsIn(robots, lost, h) = {i}
BY OneHome DEF RobotsIn, OneRobotUnlessLost

LEMMA NoRobot ==
    ASSUME Whole, NEW p \in Processes, proc[p].pc = "create"
    PROVE  RobotsIn(robots, lost, proc[p].hub) = {}
<1> DEFINE g == proc[p].hub
<1>1. cred[g].robot = 0 /\ tenant[g].pending = 0  BY DEF Whole, Adopted, UnderClaim
<1>2. ASSUME NEW i \in (1..Len(robots)) \ lost, robots[i] = g PROVE FALSE
  <2>1. i # 0  BY Ids DEF Whole
  <2>2. PICK q \in Processes : i \in InHand(q)
    BY <1>1, <1>2, <2>1 DEF Whole, Adopted, RobotsRecorded
  <2>3. proc[q].pc = "record" /\ proc[q].hub = g
    BY <1>2, <2>2 DEF InHand, At, Whole, KInv, Homes, HasRobot
  <2>4. QED  BY <2>3 DEF Whole, Mutex, OneCreator, Claimed
<1>3. QED  BY <1>2 DEF RobotsIn

\* A quiet step takes or leaves a claim, or loses the robot in hand, or does nothing.
LEMMA MQuiet ==
    ASSUME Whole, NEW p \in Processes, NEW x, Quiet(p, x), NEW h \in Hubs
    PROVE  Kept(h)
<1> DEFINE g == proc[p].hub
<1>1. /\ proc' = [proc EXCEPT ![p] = x] /\ robots' = robots /\ lost' = lost \cup InHand(p)
      /\ cred' = cred
      /\ proc'[p] = x
      /\ \A q \in Processes \ {p} : proc'[q] = proc[q]
  BY DEF Quiet, Whole, IInv, TypeOK
<1>2. ServingIn(cred', h) = ServingIn(cred, h)  BY <1>1
<1>3. CASE proc[p].pc \notin Claimed
  <2>1. InHand(p) = {}  BY <1>3 DEF InHand, At, Claimed
  <2>2. RobotsIn(robots', lost', h) = RobotsIn(robots, lost, h)  BY <1>1, <2>1
  <2>3. CASE x.pc \notin Claimed
    <3>1. HoldersIn(proc', h) = HoldersIn(proc, h)
      BY <1>1, <1>3, <2>3, HoldersSame DEF Whole
    <3>2. QED  BY <1>2, <2>2, <3>1 DEF Kept, Promised
  <2>4. CASE x.pc \in Claimed /\ x.hub # h
    <3>1. HoldersIn(proc', h) = HoldersIn(proc, h)
      BY <1>1, <1>3, <2>4 DEF HoldersIn
    <3>2. QED  BY <1>2, <2>2, <3>1 DEF Kept, Promised
  <2>5. CASE x.pc \in Claimed /\ x.hub = h
    <3>1. tenant[h].claim # "held"  BY <1>3, <2>5 DEF Quiet, Claimable
    <3>2. HoldersIn(proc, h) = {}  BY <3>1 DEF Whole, Mutex, Held, HoldersIn
    <3>3. \A q \in Processes : proc'[q].pc \in Claimed /\ proc'[q].hub = h <=> q = p
      BY <1>1, <2>5, <3>2 DEF HoldersIn
    <3>4. HoldersIn(proc', h) = {p}  BY <3>3 DEF HoldersIn
    <3>5. QED  BY <1>2, <2>2, <3>2, <3>4 DEF Kept, Promised
  <2>6. QED  BY <2>3, <2>4, <2>5
<1>4. CASE proc[p].pc \in Claimed /\ g # h
  <2>1. x.pc \in Claimed => x.hub = g  BY <1>4 DEF Quiet
  <2>2. HoldersIn(proc', h) = HoldersIn(proc, h)
    BY <1>1, <1>4, <2>1 DEF HoldersIn
  <2>3. \A i \in InHand(p) : robots[i] # h  BY <1>4, HandAlone DEF Whole
  <2>4. RobotsIn(robots', lost', h) = RobotsIn(robots, lost, h)  BY <1>1, <2>3 DEF RobotsIn
  <2>5. QED  BY <1>2, <2>2, <2>4 DEF Kept, Promised
<1>5. CASE proc[p].pc \in Claimed /\ g = h
  <2>1. HoldersIn(proc, h) = {p}  BY <1>5, OnlyHolder
  <2>2. x.pc \in Claimed => x.hub = h  BY <1>5 DEF Quiet
  <2>3. HoldersIn(proc', h) = {p} \/ HoldersIn(proc', h) = {}
    BY <1>1, <2>1, <2>2 DEF HoldersIn
  <2>4. CASE proc[p].pc = "record"
    <3>1. InHand(p) = {proc[p].robot}  BY <2>4 DEF InHand, At
    <3>2. proc[p].robot \in RobotsIn(robots, lost, h)
      BY <1>5, <3>1, HandAlone DEF Whole, RobotsIn
    <3>3. RobotsIn(robots, lost, h) = {proc[p].robot}  BY <3>2, OnlyRobot
    <3>4. RobotsIn(robots', lost', h) = {}  BY <1>1, <3>1, <3>3 DEF RobotsIn
    <3>5. cred[h].robot = 0  BY <1>5, <2>4 DEF Whole, Adopted, UnderClaim, HasRobot
    <3>6. ServingIn(cred, h) = {}  BY <3>5 DEF ServingIn
    <3>7. QED  BY <1>2, <2>1, <2>3, <3>4, <3>6 DEF Kept, Promised
  <2>5. CASE proc[p].pc # "record"
    <3>1. InHand(p) = {}  BY <2>5 DEF InHand, At
    <3>2. RobotsIn(robots', lost', h) = RobotsIn(robots, lost, h)  BY <1>1, <3>1
    <3>3. QED  BY <1>2, <2>1, <2>3, <3>2 DEF Kept, Promised
  <2>6. QED  BY <2>4, <2>5
<1>6. QED  BY <1>3, <1>4, <1>5

\* The request stays where it is, under the claim or outside.
LEMMA BusyHolders ==
    ASSUME IInv, NEW p \in Processes, Busily(p)
    PROVE  \A h \in Hubs : HoldersIn(proc', h) = HoldersIn(proc, h)
<1>0. proc \in [Processes -> Process] /\ proc[p] \in Process  BY DEF IInv, TypeOK
<1>1. CASE \/ recheck(p) /\ Goto(p, "adopt") /\ ~Provisioned(proc[p].hub)
           \/ ResponseLost(p) \/ set_pending_robot(p) \/ put_secret(p)
           \/ insert(p) /\ ~Provisioned(proc[p].hub)
           \/ clear_pending_robot(p) \/ update_key(p)
           \/ get_acc_token(p) /\ Goto(p, "r_delete")
  <2>1. PICK pc : Goto(p, pc) /\ (pc \in Claimed <=> proc[p].pc \in Claimed)
    BY <1>1 DEF recheck, ResponseLost, set_pending_robot, put_secret, insert, clear_pending_robot,
                update_key, get_acc_token, At, Claimed
  <2> DEFINE x == [proc[p] EXCEPT !.pc = pc]
  <2>2. proc' = [proc EXCEPT ![p] = x]  BY <1>0, <2>1 DEF Goto
  <2>3. x.pc = pc /\ x.hub = proc[p].hub  BY <1>0 DEF Process
  <2> HIDE DEF x
  <2>4. QED  BY <2>1, <2>2, <2>3, HoldersSame
<1>2. CASE adopt(p) \/ create_key(p) \/ (create_service_account(p) /\ Len(robots) < Quota)
  <2>1. PICK r, k, pc :
            /\ proc' = [proc EXCEPT ![p] = [proc[p] EXCEPT !.robot = r, !.kid = k, !.pc = pc]]
            /\ pc \in Claimed <=> proc[p].pc \in Claimed
    <3>1. CASE adopt(p)
      <4> DEFINE left == tenant[proc[p].hub].pending
      <4>1. PICK pc \in {"key", "create"} :
                proc' = [proc EXCEPT ![p] = [proc[p] EXCEPT !.robot = left, !.pc = pc]]
        BY <1>0, <3>1 DEF adopt
      <4>2. [proc[p] EXCEPT !.robot = left, !.pc = pc]
              = [proc[p] EXCEPT !.robot = left, !.kid = proc[p].kid, !.pc = pc]
        BY <1>0 DEF Process
      <4>3. proc[p].pc \in Claimed /\ pc \in Claimed  BY <3>1 DEF adopt, At, Claimed
      <4> HIDE DEF left
      <4>4. QED  BY <4>1, <4>2, <4>3
    <3>2. CASE create_key(p)
      <4> DEFINE n == Len(keys) + 1
      <4>1. PICK pc \in {"vault", "r_vault"} :
                /\ proc' = [proc EXCEPT ![p] = [proc[p] EXCEPT !.kid = n, !.pc = pc]]
                /\ pc = "vault" <=> proc[p].pc = "key"
                /\ proc[p].pc \in {"key", "r_key"}
        BY <1>0, <3>2 DEF create_key, At
      <4>2. [proc[p] EXCEPT !.kid = n, !.pc = pc]
              = [proc[p] EXCEPT !.robot = proc[p].robot, !.kid = n, !.pc = pc]
        BY <1>0 DEF Process
      <4>3. pc \in Claimed <=> proc[p].pc \in Claimed  BY <4>1 DEF Claimed
      <4> HIDE DEF n
      <4>4. QED  BY <4>1, <4>2, <4>3
    <3>3. CASE create_service_account(p) /\ Len(robots) < Quota
      <4> DEFINE n == Len(robots) + 1
      <4>1. proc' = [proc EXCEPT ![p] = [proc[p] EXCEPT !.robot = n, !.pc = "record"]]
        BY <1>0, <3>3 DEF create_service_account
      <4>2. [proc[p] EXCEPT !.robot = n, !.pc = "record"]
              = [proc[p] EXCEPT !.robot = n, !.kid = proc[p].kid, !.pc = "record"]
        BY <1>0 DEF Process
      <4>3. "record" \in Claimed /\ proc[p].pc \in Claimed
        BY <3>3 DEF create_service_account, At, Claimed
      <4> HIDE DEF n
      <4>4. QED  BY <4>1, <4>2, <4>3
    <3>4. QED  BY <1>2, <3>1, <3>2, <3>3
  <2> DEFINE x == [proc[p] EXCEPT !.robot = r, !.kid = k, !.pc = pc]
  <2>2. proc' = [proc EXCEPT ![p] = x]  BY <2>1
  <2>3. x.pc = pc /\ x.hub = proc[p].hub  BY <1>0 DEF Process
  <2> HIDE DEF x
  <2>4. QED  BY <2>1, <2>2, <2>3, HoldersSame
<1>3. CASE \E h \in Hubs : rotate_key(p, h)
  <2>1. PICK h \in Hubs : rotate_key(p, h)  BY <1>3
  <2> DEFINE y == [Fresh("r_key", h) EXCEPT !.robot = cred[h].robot, !.old = cred[h].kid]
  <2>2. proc' = [proc EXCEPT ![p] = y] /\ proc[p].pc = "free"  BY <2>1 DEF rotate_key, At
  <2>3. y.pc = "r_key"  BY DEF Fresh
  <2> HIDE DEF y
  <2>4. y.pc \notin Claimed /\ proc[p].pc \notin Claimed  BY <2>2, <2>3 DEF Claimed
  <2>5. QED  BY <2>2, <2>4, HoldersSame
<1>4. CASE delete_key(p)
  <2>1. proc' = [proc EXCEPT ![p] = Free] /\ proc[p].pc = "r_delete"
    BY <1>4 DEF delete_key, Return, At
  <2>2. Free.pc \notin Claimed /\ proc[p].pc \notin Claimed  BY <2>1 DEF Free, Fresh, Claimed
  <2>3. QED  BY <2>1, <2>2, HoldersSame
<1>5. QED  BY <1>1, <1>2, <1>3, <1>4 DEF Busily

\* A busy step creates the hub's robot, puts it into service, or is none of HubRobot's.
LEMMA MBusily ==
    ASSUME Whole, NEW p \in Processes, Busily(p), NEW h \in Hubs
    PROVE  Kept(h)
<1> DEFINE g == proc[p].hub
<1>0. /\ HoldersIn(proc', h) = HoldersIn(proc, h)
      /\ cred \in [Hubs -> Row] /\ (proc[p].pc # "free" => g \in Hubs)
  BY BusyHolders DEF Whole, IInv, Busy, TypeOK, Row
<1>1. CASE create_service_account(p) /\ Len(robots) < Quota
  <2> DEFINE n == Len(robots) + 1
  <2>1. /\ proc[p].pc = "create" /\ robots' = Append(robots, g) /\ cred' = cred /\ lost' = lost
    BY <1>1 DEF create_service_account, At
  <2>2. /\ n \in 1..Quota /\ n \notin lost /\ 1..Len(robots') = (1..Len(robots)) \cup {n}
        /\ robots'[n] = g /\ \A i \in 1..Len(robots) : robots'[i] = robots[i]
    BY <1>0, <1>1, <2>1, Ids, ConstantsAssumption DEF Whole
  <2> HIDE DEF n
  <2>3. CASE h = g
    <3>1. HoldersIn(proc, h) = {p}  BY <2>1, <2>3, OnlyHolder DEF Claimed
    <3>2. RobotsIn(robots, lost, h) = {}  BY <2>1, <2>3, NoRobot
    <3>3. RobotsIn(robots', lost', h) = {n}  BY <2>1, <2>2, <2>3, <3>2 DEF RobotsIn
    <3>4. QED  BY <1>0, <2>1, <2>2, <3>1, <3>2, <3>3 DEF Kept, Promised, ServingIn
  <2>4. CASE h # g
    <3>1. RobotsIn(robots', lost', h) = RobotsIn(robots, lost, h)  BY <2>1, <2>2, <2>4 DEF RobotsIn
    <3>2. QED  BY <1>0, <2>1, <3>1 DEF Kept, Promised, ServingIn
  <2>5. QED  BY <2>3, <2>4
<1>2. CASE ResponseLost(p)
  <2> DEFINE n == Len(robots) + 1
  <2>1. robots' = Append(robots, g) /\ cred' = cred /\ lost' = lost \cup {n} /\ g \in Hubs
    BY <1>0, <1>2 DEF ResponseLost, At
  <2>2. /\ 1..Len(robots') = (1..Len(robots)) \cup {n} /\ n \notin 1..Len(robots)
        /\ \A i \in 1..Len(robots) : robots'[i] = robots[i]
    BY <2>1, Ids DEF Whole
  <2> HIDE DEF n
  <2>3. RobotsIn(robots', lost', h) = RobotsIn(robots, lost, h)  BY <2>1, <2>2 DEF RobotsIn
  <2>4. QED  BY <1>0, <2>1, <2>3 DEF Kept, Promised, ServingIn
<1>3. CASE insert(p) /\ ~Provisioned(g)
  <2> DEFINE r == proc[p].robot
  <2>1. /\ proc[p].pc = "insert" /\ robots' = robots /\ lost' = lost
        /\ cred' = [cred EXCEPT ![g] = [robot |-> r, kid |-> proc[p].kid]]
    BY <1>3 DEF insert, At
  <2>2. /\ r # 0 /\ robots[r] = g /\ cred[g].robot = 0 /\ tenant[g].pending = r
    BY <2>1 DEF Whole, KInv, Homes, Adopted, UnderClaim, HasRobot
  <2>3. r \in (1..Len(robots)) \ lost
    BY <1>0, <2>1, <2>2, Ids DEF Whole, Adopted, Found
  <2>4. CASE h = g
    <3>1. HoldersIn(proc, h) = {p}  BY <2>1, <2>4, OnlyHolder DEF Claimed
    <3>2. r \in RobotsIn(robots, lost, h)  BY <2>2, <2>3, <2>4 DEF RobotsIn
    <3>3. RobotsIn(robots, lost, h) = {r}  BY <3>2, OnlyRobot
    <3>4. cred'[h].robot = r  BY <1>0, <2>1, <2>4
    <3>5. ServingIn(cred, h) = {} /\ ServingIn(cred', h) = {r}
      BY <2>2, <2>4, <3>4 DEF ServingIn
    <3>6. QED  BY <1>0, <2>1, <3>1, <3>3, <3>5 DEF Kept, Promised
  <2>5. CASE h # g
    <3>1. cred'[h] = cred[h]  BY <1>0, <2>1, <2>5
    <3>2. QED  BY <1>0, <2>1, <3>1 DEF Kept, Promised, ServingIn
  <2>6. QED  BY <2>4, <2>5
<1>4. CASE \/ recheck(p) \/ adopt(p) \/ set_pending_robot(p) \/ create_key(p) \/ put_secret(p)
           \/ clear_pending_robot(p) \/ update_key(p) \/ get_acc_token(p) \/ delete_key(p)
           \/ \E f \in Hubs : rotate_key(p, f)
  <2>1. robots' = robots /\ lost' = lost
    BY <1>4 DEF recheck, adopt, set_pending_robot, create_key, put_secret, clear_pending_robot,
                update_key, get_acc_token, delete_key, rotate_key
  <2>2. cred'[h].robot = cred[h].robot
    <3>1. CASE update_key(p)  BY <1>0, <3>1 DEF update_key, Row
    <3>2. CASE cred' = cred  BY <3>2
    <3>3. QED
      BY <1>4, <3>1, <3>2 DEF recheck, adopt, set_pending_robot, create_key, put_secret,
                              clear_pending_robot, get_acc_token, delete_key, rotate_key
  <2>3. QED  BY <1>0, <2>1, <2>2 DEF Kept, Promised, ServingIn
<1>5. QED  BY <1>1, <1>2, <1>3, <1>4 DEF Busily

LEMMA StepKept == ASSUME Whole, [Next]_vars, NEW h \in Hubs PROVE Kept(h)
<1>1. CASE Idle  BY <1>1 DEF Idle, Kept, Promised
<1>2. QED  BY <1>1, MQuiet, MBusily, Kinds DEF Whole

\* Provisioning implements HubRobot for every hub, however many requests interleave, fail
\* and are repeated: only the holder of the claim makes a robot, only where there is none,
\* and the one that it puts into service stays (ssa_provisioner.py:1-21).
THEOREM ImplementsHubRobot == ASSUME ~LiveExpiry PROVE Spec => KeepsOneRobot
<1>1. ASSUME Init, NEW h \in Hubs PROVE HubRobot(h)!Init
  <2>1. Len(robots) = 0 /\ cred[h].robot = 0  BY <1>1, EmptySeq DEF Init
  <2>2. \A p \in Processes : ~Holds(p, h)  BY <1>1 DEF Init, Holds, Free, Fresh, Claimed
  <2>3. QED  BY <2>1, <2>2 DEF HubRobot!Init, Robots
<1>2. Init => \A h \in Hubs : HubRobot(h)!Init  BY <1>1
<1>3. Whole /\ [Next]_vars =>
          [\A h \in Hubs : UNCHANGED HubRobot(h)!vars \/ HubRobot(h)!Next]_vars
  BY StepKept, Mapped
<1>4. QED  BY <1>2, <1>3, WholeHolds, PTL DEF Spec, KeepsOneRobot

-----------------------------------------------------------------------------
(* The vault: at rest a hub can mint *)

\* The numbers behind Calm.
LEMMA Counts ==
    ASSUME IInv
    PROVE  rotations \in Nat /\ faults \in Nat /\ vault \in [Hubs -> Nat]
BY ConstantsAssumption DEF IInv, TypeOK

\* A request that writes neither vault nor credential, and does not leave them apart.
LEMMA SKeep ==
    ASSUME IInv, Stored, NEW p \in Processes, NEW x, proc' = [proc EXCEPT ![p] = x],
           UNCHANGED <<cred, vault, rotations>>, faults' \in {faults, faults + 1},
           x.pc \notin {"insert", "r_update"},
           x.pc \in Rotating => proc[p].pc \in Rotating,
           proc[p].pc = "r_update" => faults' = faults + 1
    PROVE  Stored'
<1>1. /\ proc'[p] = x
      /\ \A q \in Processes \ {p} : proc'[q] = proc[q]
      /\ \A q \in Processes : proc'[q].pc \in {"insert", "r_update"} => proc'[q] = proc[q]
      /\ \A q \in Processes : proc'[q].pc \in Rotating => proc[q].pc \in Rotating
  BY DEF IInv, TypeOK
<1>2. Calm' => Calm /\ proc[p].pc # "r_update"
  <2>1. "r_update" \in Rotating  BY DEF Rotating
  <2>2. QED  BY <2>1, Counts DEF Calm, Stored
<1>3. \A q \in Processes : proc'[q].pc = "insert" => vault'[proc'[q].hub] = proc'[q].kid
  BY <1>1 DEF Stored
<1>4. /\ rotations' = 0 => \A q \in Processes : proc'[q].pc \notin Rotating
      /\ rotations' = 1 => \A q, r \in Processes :
            proc'[q].pc \in Rotating /\ proc'[r].pc \in Rotating => q = r
  BY <1>1 DEF Stored
<1>5. Calm' => \A q \in Processes : proc'[q].pc = "r_update" => vault'[proc'[q].hub] = proc'[q].kid
  BY <1>1, <1>2 DEF Stored
<1>6. ASSUME Calm', NEW h \in Hubs, cred'[h].robot # 0
      PROVE  vault'[h] = cred'[h].kid \/ \E q \in Processes : proc'[q].pc = "r_update" /\ proc'[q].hub = h
  <2>1. vault[h] = cred[h].kid \/ \E q \in Processes : proc[q].pc = "r_update" /\ proc[q].hub = h
    BY <1>2, <1>6 DEF Stored
  <2>2. CASE vault[h] = cred[h].kid  BY <2>2
  <2>3. CASE \E q \in Processes : proc[q].pc = "r_update" /\ proc[q].hub = h
    <3>1. PICK q \in Processes : proc[q].pc = "r_update" /\ proc[q].hub = h  BY <2>3
    <3>2. proc'[q] = proc[q]  BY <1>1, <1>2, <1>6, <3>1
    <3>3. QED  BY <3>1, <3>2
  <2>4. QED  BY <2>1, <2>2, <2>3
<1>7. QED  BY <1>3, <1>4, <1>5, <1>6 DEF Stored

\* The secret of a hub is written by one request at a time, unless rotations cross.
LEMMA SPut ==
    ASSUME Whole, Stored, NEW p \in Processes, put_secret(p)
    PROVE  Stored'
<1> DEFINE g == proc[p].hub
<1>0. proc \in [Processes -> Process] /\ proc[p] \in Process  BY DEF Whole, IInv, TypeOK
<1>1. PICK pc \in {"insert", "r_update"} :
          /\ Goto(p, pc)
          /\ pc = "insert" => proc[p].pc = "vault"
          /\ pc = "r_update" => proc[p].pc = "r_vault"
  BY DEF put_secret, At
<1> DEFINE x == [proc[p] EXCEPT !.pc = pc]
<1>2. /\ x.pc = pc /\ x.hub = g /\ x.kid = proc[p].kid
      /\ proc'[p] = x
      /\ \A q \in Processes \ {p} : proc'[q] = proc[q]
  BY <1>0, <1>1 DEF Goto, Process
<1> HIDE DEF x
<1>3. g \in Hubs /\ vault \in [Hubs -> Nat]
  BY <1>1, Counts DEF Whole, IInv, Busy
<1>4. /\ vault'[g] = proc[p].kid
      /\ \A h \in Hubs \ {g} : vault'[h] = vault[h]
      /\ UNCHANGED <<cred, rotations, faults>>
  BY <1>3 DEF put_secret
<1>5. /\ proc[p].pc = "vault" => cred[g].robot = 0
      /\ proc[p].pc = "r_vault" => cred[g].robot # 0 /\ proc[p].pc \in Rotating
  BY DEF Whole, KInv, Homes, Adopted, UnderClaim, HasRobot, Rotating
<1>6. \A q \in Processes \ {p} : proc[q].pc = "insert" => proc[q].hub # g
  <2> SUFFICES ASSUME NEW q \in Processes \ {p}, proc[q].pc = "insert", proc[q].hub = g PROVE FALSE
    OBVIOUS
  <2>1. cred[g].robot = 0  BY DEF Whole, Adopted, UnderClaim, HasRobot
  <2>2. proc[p].pc = "vault"  BY <1>1, <1>5, <2>1
  <2>3. QED  BY <2>2 DEF Whole, Mutex, OneCreator, Claimed
<1>7. Calm => \A q \in Processes \ {p} : proc[q].pc = "r_update" => proc[q].hub # g
  <2> SUFFICES ASSUME Calm, NEW q \in Processes \ {p}, proc[q].pc = "r_update", proc[q].hub = g
               PROVE  FALSE
    OBVIOUS
  <2>1. proc[q].pc \in Rotating  BY DEF Rotating
  <2>2. cred[g].robot # 0  BY <2>1 DEF Whole, KInv, Homes
  <2>3. proc[p].pc \in Rotating  BY <1>1, <1>5, <2>2
  <2>4. QED  BY <2>1, <2>3 DEF Calm, Stored
<1>8. Calm' <=> Calm  BY <1>4 DEF Calm
<1>9. \A q \in Processes : proc'[q].pc = "insert" => vault'[proc'[q].hub] = proc'[q].kid
  <2> SUFFICES ASSUME NEW q \in Processes, proc'[q].pc = "insert"
               PROVE  vault'[proc'[q].hub] = proc'[q].kid
    OBVIOUS
  <2>1. CASE q = p  BY <2>1, <1>2, <1>4
  <2>2. CASE q # p
    <3>1. proc'[q] = proc[q] /\ proc[q].hub \in Hubs \ {g}
      BY <2>2, <1>2, <1>6 DEF Whole, IInv, Busy
    <3>2. QED  BY <3>1, <1>4 DEF Stored
  <2>3. QED  BY <2>1, <2>2
<1>10. \A q \in Processes : proc'[q].pc \in Rotating => proc[q].pc \in Rotating
  BY <1>1, <1>2, <1>5 DEF Rotating
<1>11. /\ rotations' = 0 => \A q \in Processes : proc'[q].pc \notin Rotating
       /\ rotations' = 1 => \A q, r \in Processes :
            proc'[q].pc \in Rotating /\ proc'[r].pc \in Rotating => q = r
  BY <1>4, <1>10 DEF Stored
<1>12. Calm' => \A q \in Processes : proc'[q].pc = "r_update" => vault'[proc'[q].hub] = proc'[q].kid
  <2> SUFFICES ASSUME Calm, NEW q \in Processes, proc'[q].pc = "r_update"
               PROVE  vault'[proc'[q].hub] = proc'[q].kid
    BY <1>8
  <2>1. CASE q = p  BY <2>1, <1>2, <1>4
  <2>2. CASE q # p
    <3>1. proc'[q] = proc[q] /\ proc[q].hub \in Hubs \ {g}
      BY <2>2, <1>2, <1>7 DEF Whole, IInv, Busy
    <3>2. QED  BY <3>1, <1>4 DEF Stored
  <2>3. QED  BY <2>1, <2>2
<1>13. ASSUME Calm', NEW h \in Hubs, cred'[h].robot # 0
       PROVE  vault'[h] = cred'[h].kid \/ \E q \in Processes : proc'[q].pc = "r_update" /\ proc'[q].hub = h
  <2>1. CASE h = g
    <3>1. pc = "r_update"  BY <1>1, <1>4, <1>5, <1>13, <2>1
    <3>2. QED  BY <3>1, <1>2, <2>1
  <2>2. CASE h # g
    <3>1. vault[h] = cred[h].kid \/ \E q \in Processes : proc[q].pc = "r_update" /\ proc[q].hub = h
      BY <1>4, <1>8, <1>13 DEF Stored
    <3>2. QED  BY <3>1, <1>2, <1>4, <2>2
  <2>3. QED  BY <2>1, <2>2
<1>14. QED  BY <1>9, <1>11, <1>12, <1>13 DEF Stored

\* A credential is given the key that the vault already has.
LEMMA SCred ==
    ASSUME Whole, Stored, NEW p \in Processes,
           (insert(p) /\ ~Provisioned(proc[p].hub)) \/ update_key(p)
    PROVE  Stored'
<1> DEFINE g == proc[p].hub
<1>0. proc \in [Processes -> Process] /\ proc[p] \in Process /\ cred \in [Hubs -> Row]
  BY DEF Whole, IInv, TypeOK, Row
<1>1. PICK pc \in {"clear", "r_mint"} :
          /\ Goto(p, pc)
          /\ pc = "clear" => proc[p].pc = "insert"
          /\ pc = "r_mint" => proc[p].pc = "r_update"
  BY DEF insert, update_key, At
<1> DEFINE x == [proc[p] EXCEPT !.pc = pc]
<1>2. /\ x.pc = pc /\ proc'[p] = x
      /\ \A q \in Processes \ {p} : proc'[q] = proc[q]
  BY <1>0, <1>1 DEF Goto, Process
<1> HIDE DEF x
<1>3. g \in Hubs  BY <1>1 DEF Whole, IInv, Busy
<1>4. /\ cred'[g].kid = proc[p].kid
      /\ \A h \in Hubs \ {g} : cred'[h] = cred[h]
      /\ UNCHANGED <<vault, rotations, faults>>
  <2>1. CASE insert(p) /\ ~Provisioned(g)  BY <1>0, <1>3, <2>1 DEF insert
  <2>2. CASE update_key(p)  BY <1>0, <1>3, <2>2 DEF update_key, Row
  <2>3. QED  BY <2>1, <2>2
<1>5. Calm' <=> Calm  BY <1>4 DEF Calm
<1>6. Calm => vault[g] = proc[p].kid  BY <1>1 DEF Stored
<1>7. \A q \in Processes : /\ proc'[q].pc \in Rotating => proc[q].pc \in Rotating
                           /\ proc'[q].pc \in {"insert", "r_update"} => proc'[q] = proc[q]
  <2>1. "clear" \notin Rotating /\ "r_update" \in Rotating  BY DEF Rotating
  <2>2. QED  BY <1>1, <1>2, <2>1
<1>8. /\ rotations' = 0 => \A q \in Processes : proc'[q].pc \notin Rotating
      /\ rotations' = 1 => \A q, r \in Processes :
            proc'[q].pc \in Rotating /\ proc'[r].pc \in Rotating => q = r
  BY <1>4, <1>7 DEF Stored
<1>9. \A q \in Processes : proc'[q].pc = "insert" => vault'[proc'[q].hub] = proc'[q].kid
  BY <1>4, <1>7 DEF Stored
<1>10. Calm' => \A q \in Processes : proc'[q].pc = "r_update" => vault'[proc'[q].hub] = proc'[q].kid
  BY <1>4, <1>5, <1>7 DEF Stored
<1>11. ASSUME Calm', NEW h \in Hubs, cred'[h].robot # 0
       PROVE  vault'[h] = cred'[h].kid \/ \E q \in Processes : proc'[q].pc = "r_update" /\ proc'[q].hub = h
  <2>1. CASE h = g  BY <1>4, <1>5, <1>6, <1>11, <2>1
  <2>2. CASE h # g
    <3>1. vault[h] = cred[h].kid \/ \E q \in Processes : proc[q].pc = "r_update" /\ proc[q].hub = h
      BY <1>4, <1>5, <1>11, <2>2 DEF Stored
    <3>2. QED  BY <3>1, <1>2, <1>4, <2>2
  <2>3. QED  BY <2>1, <2>2
<1>12. QED  BY <1>8, <1>9, <1>10, <1>11 DEF Stored

\* The first rotation is the only one; after it, the vault is only watched if it did not fail.
LEMMA SRotate ==
    ASSUME IInv, Stored, NEW p \in Processes, NEW f \in Hubs, rotate_key(p, f)
    PROVE  Stored'
<1> DEFINE x == [Fresh("r_key", f) EXCEPT !.robot = cred[f].robot, !.old = cred[f].kid]
<1>1. /\ proc' = [proc EXCEPT ![p] = x] /\ proc[p].pc = "free" /\ rotations' = rotations + 1
      /\ UNCHANGED <<cred, vault, faults>>
  BY DEF rotate_key, At
<1>2. x.pc = "r_key"  BY DEF Fresh
<1> HIDE DEF x
<1>3. /\ proc'[p] = x
      /\ \A q \in Processes \ {p} : proc'[q] = proc[q]
      /\ \A q \in Processes : proc'[q].pc \in {"insert", "r_update"} => proc'[q] = proc[q]
  BY <1>1, <1>2 DEF IInv, TypeOK
<1>4. rotations' # 0 /\ (rotations' = 1 => rotations = 0) /\ (Calm' => Calm)
  BY <1>1, Counts DEF Calm
<1>5. rotations' = 1 => \A q, r \in Processes :
          proc'[q].pc \in Rotating /\ proc'[r].pc \in Rotating => q = r
  <2>1. rotations' = 1 => \A q \in Processes : proc[q].pc \notin Rotating
    BY <1>4 DEF Stored
  <2>2. QED  BY <1>3, <2>1
<1>6. ASSUME Calm', NEW h \in Hubs, cred'[h].robot # 0
      PROVE  vault'[h] = cred'[h].kid \/ \E q \in Processes : proc'[q].pc = "r_update" /\ proc'[q].hub = h
  <2>1. vault[h] = cred[h].kid \/ \E q \in Processes : proc[q].pc = "r_update" /\ proc[q].hub = h
    BY <1>1, <1>4, <1>6 DEF Stored
  <2>2. QED  BY <1>1, <1>3, <2>1
<1>7. \A q \in Processes : proc'[q].pc = "insert" => vault'[proc'[q].hub] = proc'[q].kid
  BY <1>1, <1>3 DEF Stored
<1>8. Calm' => \A q \in Processes : proc'[q].pc = "r_update" => vault'[proc'[q].hub] = proc'[q].kid
  BY <1>1, <1>3, <1>4 DEF Stored
<1>9. QED  BY <1>4, <1>5, <1>6, <1>7, <1>8 DEF Stored

LEMMA StepStored == ASSUME Whole, Stored, [Next]_vars PROVE Stored'
<1>0. IInv /\ proc \in [Processes -> Process] /\ faults \in Nat
  BY Counts DEF Whole, IInv, TypeOK
<1>1. CASE Idle
  BY <1>1 DEF Idle, Stored, Calm
<1>2. ASSUME NEW p \in Processes, NEW x, Quiet(p, x) PROVE Stored'
  <2>1. x.pc \notin {"insert", "r_update"} /\ x.pc \notin Rotating
    BY <1>2 DEF Quiet, Bare, Verifying, Rotating
  <2>2. proc[p].pc = "r_update" => faults' = faults + 1  BY <1>2 DEF Quiet, Rotating
  <2>3. /\ proc' = [proc EXCEPT ![p] = x] /\ UNCHANGED <<cred, vault, rotations>>
        /\ faults' \in {faults, faults + 1}
    BY <1>2 DEF Quiet
  <2>4. QED  BY <1>0, <2>1, <2>2, <2>3, SKeep
<1>3. ASSUME NEW p \in Processes, Busily(p) PROVE Stored'
  <2>1. CASE put_secret(p)  BY <2>1, SPut
  <2>2. CASE (insert(p) /\ ~Provisioned(proc[p].hub)) \/ update_key(p)  BY <2>2, SCred
  <2>3. CASE \E h \in Hubs : rotate_key(p, h)  BY <1>0, <2>3, SRotate
  <2>4. CASE \/ recheck(p) /\ Goto(p, "adopt")
             \/ ResponseLost(p) \/ set_pending_robot(p) \/ clear_pending_robot(p)
             \/ get_acc_token(p) /\ Goto(p, "r_delete")
    <3>1. PICK pc : Goto(p, pc) /\ pc \notin {"insert", "r_update"}
                    /\ (pc \in Rotating => proc[p].pc \in Rotating)
      BY <2>4 DEF recheck, ResponseLost, set_pending_robot, clear_pending_robot, get_acc_token, At,
                  Rotating
    <3>2. /\ proc[p].pc # "r_update" /\ UNCHANGED <<cred, vault, rotations>>
          /\ faults' \in {faults, faults + 1}
      BY <2>4 DEF recheck, ResponseLost, set_pending_robot, clear_pending_robot, get_acc_token, At
    <3> DEFINE x == [proc[p] EXCEPT !.pc = pc]
    <3>3. proc' = [proc EXCEPT ![p] = x] /\ x.pc = pc  BY <1>0, <3>1 DEF Goto, Process
    <3> HIDE DEF x
    <3>4. QED  BY <1>0, <3>1, <3>2, <3>3, SKeep
  <2>5. CASE \/ adopt(p) \/ create_key(p) \/ delete_key(p)
             \/ create_service_account(p) /\ Len(robots) < Quota
    <3>1. /\ proc[p].pc # "r_update" /\ UNCHANGED <<cred, vault, rotations>>
          /\ faults' \in {faults, faults + 1}
      BY <2>5 DEF adopt, create_key, delete_key, create_service_account, At
    <3>2. PICK x : /\ proc' = [proc EXCEPT ![p] = x] /\ x.pc \notin {"insert", "r_update"}
                   /\ x.pc \in Rotating => proc[p].pc \in Rotating
      <4>1. CASE adopt(p)
        <5> DEFINE left == tenant[proc[p].hub].pending
        <5>1. PICK pc \in {"key", "create"} :
                  proc' = [proc EXCEPT ![p] = [proc[p] EXCEPT !.robot = left, !.pc = pc]]
          BY <1>0, <4>1 DEF adopt
        <5> DEFINE y == [proc[p] EXCEPT !.robot = left, !.pc = pc]
        <5>2. y.pc = pc /\ proc' = [proc EXCEPT ![p] = y]  BY <1>0, <5>1 DEF Process
        <5> HIDE DEF y, left
        <5>3. QED  BY <5>2 DEF Rotating
      <4>2. CASE create_key(p)
        <5> DEFINE n == Len(keys) + 1
        <5>1. PICK pc \in {"vault", "r_vault"} :
                  /\ proc' = [proc EXCEPT ![p] = [proc[p] EXCEPT !.kid = n, !.pc = pc]]
                  /\ pc = "r_vault" => proc[p].pc = "r_key"
          BY <1>0, <4>2 DEF create_key, At
        <5> DEFINE y == [proc[p] EXCEPT !.kid = n, !.pc = pc]
        <5>2. y.pc = pc /\ proc' = [proc EXCEPT ![p] = y]  BY <1>0, <5>1 DEF Process
        <5> HIDE DEF y, n
        <5>3. QED  BY <5>1, <5>2 DEF Rotating
      <4>3. CASE delete_key(p)
        <5>1. proc' = [proc EXCEPT ![p] = Free]  BY <4>3 DEF delete_key, Return
        <5>2. Free.pc = "free"  BY DEF Free, Fresh
        <5>3. QED  BY <5>1, <5>2 DEF Rotating
      <4>4. CASE create_service_account(p) /\ Len(robots) < Quota
        <5> DEFINE y == [proc[p] EXCEPT !.robot = Len(robots) + 1, !.pc = "record"]
        <5>1. y.pc = "record" /\ proc' = [proc EXCEPT ![p] = y]
          BY <1>0, <4>4, ZenonT(30) DEF create_service_account, Process
        <5> HIDE DEF y
        <5>2. QED  BY <5>1 DEF Rotating
      <4>5. QED  BY <2>5, <4>1, <4>2, <4>3, <4>4
    <3>3. QED  BY <1>0, <3>1, <3>2, SKeep
  <2>6. QED  BY <1>3, <2>1, <2>2, <2>3, <2>4, <2>5 DEF Busily
<1>4. QED  BY <1>0, <1>1, <1>2, <1>3, Kinds

\* However it was provisioned, a hub can mint tokens: the vault has the key that the
\* credential names, and APS accepts it, as long as no rotation failed or crossed another
\* (ssa_provisioner.py: the secret and its id are stored one after the other).
THEOREM HubCanMint == ASSUME ~LiveExpiry PROVE Spec => []MintableAtRest
<1>1. ASSUME Init PROVE Stored
  <2>1. \A p \in Processes : proc[p].pc = "free"  BY <1>1 DEF Init, Free, Fresh
  <2>2. \A h \in Hubs : cred[h].robot = 0  BY <1>1 DEF Init
  <2>3. QED  BY <2>1, <2>2 DEF Stored, Rotating
<1>2. Whole /\ Stored /\ [Next]_vars => Stored'  BY StepStored
<1>3. ASSUME Whole, Stored PROVE MintableAtRest
  <2> SUFFICES ASSUME NEW h \in Hubs, Provisioned(h),
                      ~(rotations > 1 \/ (rotations = 1 /\ faults > 0)),
                      ~\E p \in Processes : proc[p].hub = h /\ proc[p].pc \in Rotating
               PROVE  CanMint(h)
    BY DEF MintableAtRest
  <2>1. Calm  BY <1>3, Counts DEF Whole, Calm
  <2>2. vault[h] = cred[h].kid  BY <1>3, <2>1 DEF Stored, Provisioned, Rotating
  <2>3. LiveKeyOf(cred[h].kid, cred[h].robot)
    BY <1>3 DEF Whole, KInv, Signed, Provisioned
  <2>4. keys[cred[h].kid] = [robot |-> cred[h].robot, live |-> TRUE]  BY <2>3 DEF LiveKeyOf
  <2>5. keys[cred[h].kid].live  BY <2>4
  <2>6. QED  BY <2>2, <2>5 DEF CanMint
<1>4. Whole /\ Stored => MintableAtRest  BY <1>3
<1>5. QED  BY <1>1, <1>2, <1>4, WholeHolds, PTL DEF Spec

=============================================================================

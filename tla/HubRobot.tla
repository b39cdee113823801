------------------------------- MODULE HubRobot ------------------------------
(***************************************************************************)
(* What the provisioning of the service account of one hub promises        *)
(* (backend/services/m2m/ssa_provisioner.py:1-21), without saying how: the *)
(* hub has at most one robot, which is made and put into service by the    *)
(* one request that holds the hub's claim, and which stays in service.  A  *)
(* robot may be lost as long as it is not in service; then another one may *)
(* be made.                                                                *)
(***************************************************************************)
CONSTANTS Requests, RobotIds

VARIABLES
    holder,     \* the requests that hold the claim: one at most
    robot,      \* the robots of the hub: one at most
    serving     \* the robots whose credential serves the hub: one at most

vars == <<holder, robot, serving>>

Init == holder = {} /\ robot = {} /\ serving = {}

Claim ==
    /\ holder = {}
    /\ \E p \in Requests : holder' = {p}
    /\ UNCHANGED <<robot, serving>>

Release == holder' = {} /\ UNCHANGED <<robot, serving>>

Create ==
    /\ holder # {} /\ robot = {}
    /\ \E r \in RobotIds : robot' = {r}
    /\ UNCHANGED <<holder, serving>>

Serve ==
    /\ holder # {} /\ robot # {} /\ serving = {}
    /\ serving' = robot
    /\ UNCHANGED <<holder, robot>>

\* The request that made the robot fails, or dies, before anyone else knows of it.
Lose ==
    /\ holder # {} /\ serving = {}
    /\ robot' = {}
    /\ UNCHANGED holder \/ holder' = {}
    /\ UNCHANGED serving

Next == Claim \/ Release \/ Create \/ Serve \/ Lose

Spec == Init /\ [][Next]_vars
=============================================================================

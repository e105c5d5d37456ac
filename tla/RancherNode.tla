---------------------------- MODULE RancherNode ----------------------------
(***************************************************************************)
(* The RancherNode interface of pkg/rancher/rancher.go: what one call to   *)
(* the cluster's API does to a node of the cluster, for the providers      *)
(* rancher2, rke, rke2 and rk-api and for a provider block without         *)
(* rancher_api ("disabled": an empty Rancher2Node, whose calls all succeed *)
(* at once).                                                               *)
(*                                                                         *)
(* A call that takes effect is an action over the node's cluster state; a  *)
(* caller decides what an error means.  Every call except Initialize is    *)
(* skipped, without error, for a handle with an empty NodeID.              *)
(***************************************************************************)
EXTENDS Naturals

CONSTANT
    WaitForNodeTimeout  \* rancher_api.wait_for_node_timeout > 0 (default: FALSE)

(* rancher_api.provider, and the kind of cluster behind rancher2.          *)
Providers == {"disabled", "rancher2-rke1", "rancher2-rke2", "rke", "rke2", "rk-api"}
Role == {"worker", "master"}    \* master: etcd or control plane

ASSUME WaitForNodeAssumption == WaitForNodeTimeout \in BOOLEAN

VARIABLES
    plan,       \* what terraform asks of each node; its provider and its role
    booted,     \* the node's operating system is up
    cordoned,   \* the cluster has marked the node unschedulable
    member,     \* the node is registered in the cluster
    labelled,   \* the node carries its labels, taints and annotations
    machine,    \* its registration: the one of old, that one being deleted, a new one
    nodeID,     \* handle: NodeID is not empty
    roles       \* handle: the roles Initialize has read ({}: none)

handle  == <<nodeID, roles>>
cluster == <<cordoned, member, labelled, machine>>

RancherApiEnabled(n) == plan[n].provider # "disabled"
Rancher2(n) == plan[n].provider \in {"rancher2-rke1", "rancher2-rke2"}
RKE2Cluster(n) == plan[n].provider \in {"rancher2-rke2", "rke2"}
RkApi(n) == plan[n].provider = "rk-api"

IsNodeWorker(n) == "worker" \in roles[n]
IsProviderRKE1(n) == plan[n].provider \in {"rancher2-rke1", "rke"} /\ roles[n] # {}
IsProviderRKE2(n) == (RKE2Cluster(n) /\ roles[n] # {}) \/ RkApi(n)

(* Nodes that the storage handler removes from the cluster and expects to  *)
(* come back under a new registration.                                     *)
ReRegisters(n) == "master" \in roles[n] \/ IsProviderRKE2(n)

(* RancherAPINodeGetState: the states that one call may read.  The rke2    *)
(* client reports readiness only, the rke client always says active.       *)
Rancher2NodeState(n) ==
    IF ~booted[n] \/ ~member[n] THEN "unavailable"
    ELSE IF cordoned[n] THEN "cordoned" ELSE "active"

Rke2NodeState(n) == IF booted[n] /\ member[n] THEN "active" ELSE "notReady"

(* rk-api reads the machine, which a cordon of its node does not change,   *)
(* and which is active only if it is running, its infrastructure is ready  *)
(* and each of its conditions is True.  Those are the controller's to set: *)
(* the machine of a node that is up may be in any of the states, that of a *)
(* node that is down is not active, and without a machine there is an      *)
(* error.                                                                  *)
RkApiNodeStates(n) ==
    IF ~member[n] THEN {}
    ELSE {"inTransition", "notReady"} \cup (IF booted[n] THEN {"active"} ELSE {})

NodeStates(n) ==
    CASE plan[n].provider = "rke"  -> {"active"}
      [] ~nodeID[n]                -> {""}
      [] Rancher2(n)               -> {Rancher2NodeState(n)}
      [] plan[n].provider = "rke2" -> {Rke2NodeState(n)}
      [] RkApi(n)                  -> RkApiNodeStates(n)
      [] OTHER                     -> {""}

(* RancherAPINodeWaitForState can return without error.  rancher2 accepts  *)
(* any state of the comma-separated list (a set here), rke2 and rk-api     *)
(* compare with the whole string, rke does not look.  A drained node is    *)
(* cordoned here.                                                          *)
(*                                                                         *)
(* An operator named ...Bug is not part of the model: it is the definition *)
(* after it with a plausible fault, which some property has to notice.     *)
Rancher2NodeWaitForState(n, states) == nodeID[n] => Rancher2NodeState(n) \in states

Rke2NodeWaitForState(n, states) == nodeID[n] => states = {Rke2NodeState(n)}

RkApiNodeWaitForState(n, states) ==
    nodeID[n] => \E st \in RkApiNodeStates(n) : states = {st}

(* Does not wait.                                                          *)
NodeWaitForStateBug(n, states) == TRUE

NodeWaitForState(n, states) ==
    CASE Rancher2(n)               -> Rancher2NodeWaitForState(n, states)
      [] plan[n].provider = "rke2" -> Rke2NodeWaitForState(n, states)
      [] RkApi(n)                  -> RkApiNodeWaitForState(n, states)
      [] OTHER                     -> TRUE

-----------------------------------------------------------------------------
(* RancherAPIInitialize finds the node by its IP address and reads its     *)
(* roles.  Only rke2 fails when there is no such node; rancher2 and rk-api *)
(* wait for the node to be active when they are told to.  rk-api, when it  *)
(* is not, drops the error of a lookup that failed.                        *)

Handle(n, id, r) ==
    /\ nodeID' = [nodeID EXCEPT ![n] = id]
    /\ roles' = [roles EXCEPT ![n] = r]

Lookup(n, role) == IF member[n] THEN Handle(n, TRUE, role) ELSE Handle(n, FALSE, {})

Rancher2APIInitialize(n, role, wait) ==
    /\ wait /\ WaitForNodeTimeout => Rancher2NodeState(n) = "active"
    /\ Lookup(n, role)

Rke2APIInitialize(n, role) == member[n] /\ Lookup(n, role)

RkeAPIInitialize(n, role) == Lookup(n, role)

RkAPIInitialize(n, role, wait) ==
    IF wait /\ WaitForNodeTimeout
    THEN "active" \in RkApiNodeStates(n) /\ Handle(n, TRUE, role)
    ELSE Lookup(n, role) \/ Handle(n, FALSE, {})

RancherAPIInitialize(n, role, wait) ==
    CASE Rancher2(n)               -> Rancher2APIInitialize(n, role, wait)
      [] plan[n].provider = "rke2" -> Rke2APIInitialize(n, role)
      [] plan[n].provider = "rke"  -> RkeAPIInitialize(n, role)
      [] RkApi(n)                  -> RkAPIInitialize(n, role, wait)
      [] OTHER                     -> Handle(n, FALSE, {})

(* RancherAPINodeGetID looks the node up again: no such node is an error   *)
(* for rke2 and rk-api, an empty NodeID for the others.  Only rk-api reads *)
(* the roles again.                                                        *)
GetID(n) ==
    /\ plan[n].provider \in {"rke2", "rk-api"} => member[n]
    /\ nodeID' = [nodeID EXCEPT ![n] = RancherApiEnabled(n) /\ member[n]]
    /\ roles' = [roles EXCEPT ![n] = IF RkApi(n) THEN plan[n].role ELSE @]

SetCordoned(n, b) ==
    /\ cordoned' = [cordoned EXCEPT ![n] = IF nodeID[n] THEN b ELSE @]
    /\ UNCHANGED <<member, labelled, machine>>

(* RancherAPINodeCordon and RancherAPINodeCordonDrain (which does not fail *)
(* because a drain takes too long).                                        *)
Cordon(n) == SetCordoned(n, TRUE)

(* RancherAPINodeUncordon: rancher2 waits for the node before and after.   *)
Uncordon(n) ==
    /\ (Rancher2(n) /\ nodeID[n]) => booted[n] /\ member[n]
    /\ SetCordoned(n, FALSE)

(* The node leaves the cluster, and its cordon and its labels with it.     *)
LeaveCluster(n) ==
    /\ member' = [member EXCEPT ![n] = FALSE]
    /\ cordoned' = [cordoned EXCEPT ![n] = FALSE]
    /\ labelled' = [labelled EXCEPT ![n] = FALSE]
    /\ UNCHANGED machine

(* DeleteMachine of rk-api asks for a deletion that takes its time, and    *)
(* drops the error of this request.                                        *)
DeleteMachine(n) ==
    /\ \/ machine' = [machine EXCEPT ![n] = IF member[n] THEN "leaving" ELSE @]
       \/ UNCHANGED machine
    /\ UNCHANGED <<cordoned, member, labelled>>

(* RancherAPINodeDelete.  Nothing for rke.                                 *)
NodeDelete(n) ==
    CASE ~nodeID[n] \/ plan[n].provider = "rke" -> UNCHANGED cluster
      [] RkApi(n)                               -> DeleteMachine(n)
      [] OTHER                                  -> LeaveCluster(n)

(* The machine that the handle names is still there.                       *)
OldMachine(n) == nodeID[n] /\ member[n] /\ machine[n] # "new"

(* RancherAPINodeForceDelete, which only rk-api implements: the node of a  *)
(* machine that is still there is deleted, the machine is not.             *)
ForceDelete(n) ==
    IF OldMachine(n)
    THEN /\ cordoned' = [cordoned EXCEPT ![n] = FALSE]
         /\ labelled' = [labelled EXCEPT ![n] = FALSE]
         /\ UNCHANGED <<member, machine>>
    ELSE UNCHANGED cluster

(* RancherAPINodeWaitUntilDeleted can return without error; it, too, is    *)
(* empty for the others.                                                   *)

(* Does not look.                                                          *)
NodeWaitUntilDeletedBug(n) == TRUE

NodeWaitUntilDeleted(n) == RkApi(n) => ~OldMachine(n)

(* RancherAPINodeSetAnnotationsLabelsTaints, right after Initialize: the   *)
(* new handle has a NodeID when the node is a member.                      *)
SetAnnotationsLabelsTaints(n) ==
    /\ labelled' = [labelled EXCEPT ![n] = @ \/ nodeID'[n]]
    /\ UNCHANGED <<cordoned, member, machine>>

(* External: the agent on a running node registers it, schedulable and     *)
(* without the labels; Rancher ends the deletion of a machine.             *)
Register(n) ==
    /\ RancherApiEnabled(n) /\ booted[n] /\ ~member[n]
    /\ member' = [member EXCEPT ![n] = TRUE]
    /\ machine' = [machine EXCEPT ![n] = "new"]
    /\ UNCHANGED <<cordoned, labelled, booted, handle>>

MachineDeleted(n) ==
    /\ RkApi(n) /\ member[n] /\ machine[n] = "leaving"
    /\ LeaveCluster(n)
    /\ UNCHANGED <<booted, handle>>

=============================================================================

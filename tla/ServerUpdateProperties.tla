----------------------- MODULE ServerUpdateProperties -----------------------
(***************************************************************************)
(* What a correct resourceUpdateServer has to guarantee.                   *)
(***************************************************************************)
EXTENDS ServerUpdate

(* The node does its work: its server runs a complete system and the       *)
(* cluster schedules on it.                                                *)
InService(n) ==
    /\ power[n] = "up"
    /\ booted[n]
    /\ disk[n] # "none"
    /\ member[n]
    /\ ~cordoned[n]

-----------------------------------------------------------------------------
(* The configurations for which the code can keep its promise of a         *)
(* sequential update: synchronized_updates is on, the plans start and end  *)
(* with the server up and verify that it answers on SSH, maintenance is    *)
(* run synchronized and undoes its cordons, nothing is restored, and a     *)
(* re-imaged node is one whose return the provider can detect: with rke2   *)
(* every node, with rancher2 a worker that stays registered.  rk-api drops *)
(* the errors of its lookups, and then the handlers act on no node at all. *)

ReturnsToService(tasks) ==
    \A i \in DOMAIN tasks :
        tasks[i] \in {"cordon", "drain"} =>
            \E j \in DOMAIN tasks : i < j /\ tasks[j] = "uncordon"

SerialisedPlan(p) ==
    /\ p.initial = "up" /\ p.powerstate = "up" /\ p.ssh /\ ~p.restore
    /\ p.tasks # <<>> => p.sync /\ ReturnsToService(p.tasks)
    /\ p.provider # "rk-api"
    /\ p.storage = "image" =>
          \/ p.provider = "rke2"
          \/ p.provider = "rancher2-rke1" /\ "master" \notin p.role

Serialised == Synchronized /\ \A p \in Plans : SerialisedPlan(p)

(* At most one node of the cluster is out of service at any time, counting *)
(* the nodes that a failed update has left behind (resourceUpdateServer    *)
(* Compute, Storage and Maintenance under the UpdateManager).              *)
OneNodeOut == \A m, n \in Node : ~InService(m) /\ ~InService(n) => m = n

(* An update that ends without an error leaves its node in service.        *)
OkMeansInService ==
    \A n \in Node : pc[n] = "done" /\ ~failed[n] => InService(n)

(* An update that ends without an error leaves the node with its labels    *)
(* and taints, also when the node was registered anew in between.          *)
OkMeansLabelled ==
    \A n \in Node : pc[n] = "done" /\ ~failed[n] => labelled[n]

(* Once a failure is recorded, no further node is started on or leaves     *)
(* service: only the one whose handler holds the mutex at that moment may. *)
HaltAfterFailure ==
    [][\A n \in Node :
          LastError /\ Sync # n =>
              Sync' # n /\ (InService(n) => InService(n)')]_vars

(* The handlers implement the rollout: who holds the mutex has the turn.   *)
R == INSTANCE Rollout WITH
        turn <- Sync, halted <- LastError, out <- {n \in Node : ~InService(n)}

Rollout == R!Spec

-----------------------------------------------------------------------------
(* Boot and seed LUNs are replaced, restored or lost only while the        *)
(* server that runs from them is powered off.                              *)
OffBeforeRewrite ==
    [][\A n \in Node : disk[n]' # disk[n] => power[n] = "down"]_vars

(* The compute and storage handlers never power off a worker that the      *)
(* cluster still schedules on, under any provider, except rk-api: there    *)
(* the storage handler needs a handle that is not empty, and the compute   *)
(* handler promises nothing, because it drains only if the machine reads   *)
(* active at that moment and goes on without an error if it does not.      *)
DrainedBeforeOff ==
    [][\A n \in Node :
          /\ pc[n] \in {"compute_stop", "storage_stop"}
          /\ power[n] = "up" /\ power[n]' = "down"
          /\ RancherApiEnabled(n) /\ "worker" \in plan[n].role
          /\ RkApi(n) => nodeID[n] /\ pc[n] = "storage_stop"
          /\ booted[n] /\ member[n]
          => cordoned[n]]_vars

(* A node that leaves the cluster to be re-imaged is awaited under a new   *)
(* registration: the storage handler never takes the one that the node had *)
(* before for it, although its deletion may be slow or not even asked for. *)
(* (With rke no node leaves.)                                              *)
RejoinsAnew ==
    [][\A n \in Node :
          /\ pc[n] = "storage_rejoin" /\ pc[n]' = "storage_uncordon"
          /\ ReRegisters(n) /\ plan[n].provider # "rke"
          /\ nodeID[n] /\ nodeID[n]'
          => machine[n] = "new"]_vars

(* Every update comes to an end, in whatever order the nodes get the       *)
(* mutex and whatever fails.                                               *)
EveryUpdateEnds == \A n \in Node : <>(pc[n] = "done")

-----------------------------------------------------------------------------
(* Why at most one node is out: the inductive invariant of ServerUpdate    *)
(* for configurations that are Serialised.                                 *)

(* Between Acquire and the return that releases the mutex.                 *)
Held ==
    { "compute_check", "compute_drain", "compute_stop", "compute_blade",
      "compute_start", "compute_ssh", "compute_uncordon", "compute_active",
      "storage_check", "storage_drain", "storage_leave", "storage_stop",
      "storage_snapshot", "storage_image", "storage_force", "storage_start",
      "storage_ssh", "storage_rejoin", "storage_uncordon", "storage_active",
      "maintenance_task", "maintenance_start", "maintenance_ssh",
      "maintenance_wait" }

(* The handlers are between two pieces of work on the node.                *)
Rest ==
    { "snapshot", "compute", "compute_acquire", "compute_check",
      "compute_drain", "compute_active", "compute_attributes",
      "storage", "storage_acquire", "storage_check", "storage_drain",
      "maintenance", "maintenance_init", "maintenance_acquire",
      "maintenance_wait", "restore", "metadata" }

Whole(n) == member[n] /\ disk[n] # "none"

KnownHandle(n) ==
    /\ nodeID[n] = RancherApiEnabled(n)
    /\ roles[n] = IF RancherApiEnabled(n) THEN plan[n].role ELSE {}

Uncordonable(n) == cordoned[n] => nodeID[n] /\ IsNodeWorker(n)

UncordonPending(n) ==
    cordoned[n] => \E j \in DOMAIN plan[n].tasks :
                      task[n] <= j /\ plan[n].tasks[j] = "uncordon"

MutexInv(n) ==
    /\ pc[n] \in Held => Sync = n
    /\ Sync = n => pc[n] \in Held \cup {"compute_attributes"}

ServiceInv(n) ==
    /\ booted[n] => power[n] = "up"
    /\ pc[n] \in Rest => InService(n)
    /\ pc[n] = "done" => InService(n) \/ (failed[n] /\ LastError)
    /\ pc[n] \notin {"restore_stop", "restore_image", "restore_start", "restore_ssh"}

ComputeInv(n) ==
    /\ pc[n] \in {"compute_acquire", "compute_check"} => seen[n] = "up"
    /\ pc[n] \in {"compute_drain", "compute_stop", "compute_blade", "compute_start",
                  "compute_ssh", "compute_uncordon"} =>
          Whole(n) /\ KnownHandle(n) /\ Uncordonable(n)
    /\ pc[n] = "compute_uncordon" => booted[n]

StorageInv(n) ==
    /\ pc[n] \in {"storage_acquire", "storage_check", "storage_drain", "storage_leave",
                  "storage_stop", "storage_snapshot", "storage_image", "storage_start",
                  "storage_ssh", "storage_rejoin", "storage_uncordon", "storage_active"} =>
          plan[n].storage = "image"
    /\ pc[n] \in {"storage_drain", "storage_leave", "storage_stop", "storage_snapshot",
                  "storage_image", "storage_start", "storage_ssh", "storage_rejoin",
                  "storage_uncordon", "storage_active"} => KnownHandle(n)
    /\ pc[n] \in {"storage_stop", "storage_snapshot", "storage_image", "storage_start",
                  "storage_ssh", "storage_rejoin", "storage_uncordon", "storage_active"} =>
          (plan[n].provider = "rke2" => ~cordoned[n])
    /\ pc[n] \in {"storage_start", "storage_ssh", "storage_rejoin", "storage_uncordon",
                  "storage_active"} => disk[n] = "new"
    /\ pc[n] # "storage_force"

MaintenanceInv(n) ==
    /\ pc[n] \in {"maintenance_init", "maintenance_acquire", "maintenance_task",
                  "maintenance_start", "maintenance_ssh", "maintenance_wait"} =>
          plan[n].tasks # <<>>
    /\ pc[n] \in {"maintenance_acquire", "maintenance_task", "maintenance_start",
                  "maintenance_ssh"} =>
          Whole(n) /\ KnownHandle(n) /\ Uncordonable(n) /\ UncordonPending(n)
    /\ pc[n] = "maintenance_task" => booted[n]

NodeInv(n) ==
    MutexInv(n) /\ ServiceInv(n) /\ ComputeInv(n) /\ StorageInv(n) /\ MaintenanceInv(n)

(* Who holds the mutex has found every other node in service.              *)
OthersInService ==
    \A m, n \in Node : Sync = n /\ m # n => InService(m)

UpdateInv == TypeOK /\ OneNodeOut /\ OthersInService /\ \A n \in Node : NodeInv(n)

-----------------------------------------------------------------------------
(* Why the handlers keep to the order of their steps, in every             *)
(* configuration: the inductive invariant behind OffBeforeRewrite,         *)
(* DrainedBeforeOff and RejoinsAnew.                                       *)

(* The node may lose its cordon or its registration only after these.      *)
BeforeLeave ==
    { "snapshot", "compute", "compute_acquire", "compute_check", "compute_drain",
      "compute_stop", "compute_blade", "compute_start", "compute_ssh",
      "compute_uncordon", "compute_active", "compute_attributes",
      "storage", "storage_acquire", "storage_check", "storage_drain",
      "storage_leave" }

BeforeStop ==
    { "snapshot", "compute", "compute_acquire", "compute_check", "compute_drain" }

(* The handle names the node, or rk-api has dropped an error.              *)
HandleKnown(n) ==
    \/ nodeID[n] /\ roles[n] = plan[n].role
    \/ RkApi(n) /\ ~nodeID[n]

(* What the server runs from is rewritten when it is off.                  *)
PowerInv(n) ==
    /\ pc[n] \in {"storage_snapshot", "storage_image", "restore_image"} => power[n] = "down"
    /\ pc[n] \in {"storage_drain", "storage_leave"} /\ seen[n] = "down" => power[n] = "down"

(* Until the storage handler removes it the node is the one of old, and it *)
(* cannot register again before it has a new image.                        *)
SystemInv(n) ==
    /\ pc[n] \in BeforeLeave => disk[n] = "old" /\ member[n] /\ machine[n] = "old"
    /\ pc[n] \in {"storage_stop", "storage_snapshot", "storage_image"} => disk[n] = "old"
    /\ pc[n] \in BeforeStop /\ power[n] = "up" => booted[n]

CordonInv(n) ==
    LET worker == RancherApiEnabled(n) /\ nodeID[n] /\ "worker" \in plan[n].role
    IN  /\ pc[n] \in {"compute_drain", "compute_stop", "storage_drain", "storage_leave",
                       "storage_stop"} => (RancherApiEnabled(n) => HandleKnown(n))
        /\ pc[n] = "compute_stop" /\ worker /\ ~RkApi(n) /\ power[n] = "up" => cordoned[n]
        /\ pc[n] = "storage_leave" /\ worker /\ seen[n] = "up" => cordoned[n]
        /\ pc[n] = "storage_stop" /\ worker /\ member[n] => cordoned[n]

(* Who is a member again after having left has a new registration.         *)
RejoinInv(n) ==
    /\ pc[n] \in {"storage_stop", "storage_snapshot", "storage_image", "storage_force",
                   "storage_start", "storage_ssh", "storage_rejoin"}
    /\ ReRegisters(n) /\ plan[n].provider \notin {"rke", "rk-api"}
    /\ nodeID[n] /\ member[n]
    => machine[n] = "new"

OrderInv ==
    /\ TypeOK
    /\ \A n \in Node : PowerInv(n) /\ SystemInv(n) /\ CordonInv(n) /\ RejoinInv(n)

-----------------------------------------------------------------------------
(* Why a registered node has its labels again: the inductive invariant     *)
(* behind OkMeansLabelled, together with UpdateInv.                        *)

(* From the change of image on, ChangeStatus remembers it.                 *)
Imaging ==
    { "storage_acquire", "storage_check", "storage_drain", "storage_leave",
      "storage_stop", "storage_snapshot", "storage_image", "storage_force",
      "storage_start", "storage_ssh", "storage_rejoin", "storage_uncordon",
      "storage_active" }

LabelNode(n) ==
    /\ pc[n] \in Imaging => "image" \in change[n]
    /\ ~labelled[n] => "image" \in change[n] /\ plan[n].storage = "image"
    /\ pc[n] = "done" /\ ~failed[n] => labelled[n]

LabelInv == UpdateInv /\ \A n \in Node : LabelNode(n)

=============================================================================

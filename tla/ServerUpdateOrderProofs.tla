----------------------- MODULE ServerUpdateOrderProofs -----------------------
(***************************************************************************)
(* The order of the handlers' steps, for every set of nodes, every set of  *)
(* plans and every cluster provider: proofs of OffBeforeRewrite,           *)
(* DrainedBeforeOff and RejoinsAnew.                                       *)
(***************************************************************************)
EXTENDS ServerUpdateServiceProofs

OrderNode(n) == PowerInv(n) /\ SystemInv(n) /\ CordonInv(n) /\ RejoinInv(n)

Ready(n) == StateOK /\ PlanOK /\ OrderNode(n)

LEMMA OrderParts ==
    OrderInv <=> StateOK /\ PlanOK /\ \A n \in Node : OrderNode(n)
BY TypeParts DEF OrderInv, StateOK, OrderNode

-----------------------------------------------------------------------------
(* Where a step arrives, and what has to hold there.                       *)

LEMMA Arrivals ==
    ASSUME ControlOK, NEW n \in Node, NEW l
    PROVE  /\ Goto(n, l) => pc'[n] = l
           /\ ReturnError(n) => pc'[n] = "done"
           /\ EndHandler(n, l) => pc'[n] = l
           /\ \A from : Acquire(n, from, l) => pc[n] = from /\ pc'[n] \in {l, "done"}
           /\ Try(n, l) \/ Skip(n, l) => pc'[n] \in {l, "done"}
BY DEF ControlOK, Goto, ReturnError, EndHandler, Acquire, Try, Skip

(* Program points of which the invariant says something.                   *)
Watched ==
    BeforeLeave \cup
        { "storage_stop", "storage_snapshot", "storage_image", "storage_force",
          "storage_start", "storage_ssh", "storage_rejoin", "restore_image" }

LEMMA Unwatched ==
    ASSUME NEW n \in Node, pc'[n] \notin Watched
    PROVE  OrderNode(n)'
BY DEF OrderNode, PowerInv, SystemInv, CordonInv, RejoinInv, Watched, BeforeLeave, BeforeStop

LEMMA DoneUnwatched == "done" \notin Watched
BY DEF Watched, BeforeLeave

(* Points at which only the old system has to be there.                    *)
Calm ==
    { "compute_blade", "compute_start", "compute_ssh", "compute_uncordon",
      "compute_active", "compute_attributes",
      "storage", "storage_acquire", "storage_check" }

LEMMA CalmArrival ==
    ASSUME NEW n \in Node, OrderNode(n), pc[n] \in BeforeLeave, pc'[n] \in Calm,
           UNCHANGED <<disk, member, machine>>
    PROVE  OrderNode(n)'
BY DEF OrderNode, PowerInv, SystemInv, CordonInv, RejoinInv, BeforeLeave, BeforeStop, Calm

LEMMA EarlyArrival ==
    ASSUME NEW n \in Node, OrderNode(n), pc[n] \in BeforeStop,
           pc'[n] \in {"compute", "compute_acquire", "compute_check"},
           UNCHANGED <<power, booted, disk, member, machine>>
    PROVE  OrderNode(n)'
BY DEF OrderNode, PowerInv, SystemInv, CordonInv, RejoinInv, BeforeLeave, BeforeStop

(* Initialize finds a node that is a member, unless rk-api drops an error. *)
LEMMA InitializeFinds ==
    ASSUME StateOK, PlanOK, NEW n \in Node, member[n], InitializeHandle(n), UNCHANGED plan
    PROVE  RancherApiEnabled(n)' => HandleKnown(n)'
<1>1. ASSUME NEW id, NEW r, Handle(n, id, r)
      PROVE  nodeID'[n] = id /\ roles'[n] = r
  BY <1>1 DEF Handle, StateOK, HandleOK
<1>2. Lookup(n, plan[n].role) => nodeID'[n] /\ roles'[n] = plan[n].role
  BY <1>1 DEF Lookup
<1>3. plan[n].provider \in Providers
  BY PlanRole DEF PlanType
<1>4. CASE RkApi(n)
  BY <1>1, <1>2, <1>4 DEF InitializeHandle, RancherAPIInitialize, RkAPIInitialize, RkApi,
     Rancher2, HandleKnown
<1>5. CASE ~RkApi(n)
  BY <1>2, <1>3, <1>5 DEF InitializeHandle, RancherAPIInitialize, Rancher2APIInitialize,
     Rke2APIInitialize, RkeAPIInitialize, RancherApiEnabled, RkApi, Rancher2, HandleKnown,
     Providers
<1>. QED
  BY <1>4, <1>5

-----------------------------------------------------------------------------
(* The snapshot and compute handlers.                                      *)

LEMMA SnapshotOrder ==
    ASSUME NEW n \in Node, Ready(n), Snapshot(n)
    PROVE  OrderNode(n)'
<1>1. pc[n] \in BeforeStop /\ pc'[n] \in {"compute", "done"}
  BY Arrivals DEF Snapshot, BeforeStop, Ready, StateOK
<1>2. UNCHANGED <<server, cluster>>
  BY DEF Snapshot, Try, Skip
<1>. QED
  BY <1>1, <1>2, EarlyArrival, Unwatched, DoneUnwatched DEF Ready, server, cluster

LEMMA ComputeCalm ==
    ASSUME NEW n \in Node, Ready(n),
           \/ ComputeStop(n) \/ ComputeBlade(n) \/ ComputeStart(n) \/ ComputeSSH(n)
           \/ ComputeUncordon(n) \/ ComputeActive(n) \/ ComputeAttributes(n)
    PROVE  OrderNode(n)'
<1>1. pc[n] \in BeforeLeave
  BY DEF ComputeStop, ComputeBlade, ComputeStart, ComputeSSH, ComputeUncordon, ComputeActive,
     ComputeAttributes, BeforeLeave
<1>2. pc'[n] \in Calm \cup {"done"}
  BY Arrivals DEF ComputeStop, ComputeBlade, ComputeStart, ComputeSSH, ComputeUncordon,
     ComputeActive, ComputeAttributes, StopServer, StartServer, WaitForSSH, ClusterCall, Calm,
     Ready, StateOK
<1>3. UNCHANGED <<disk, member, machine>>
  BY DEF ComputeStop, ComputeBlade, ComputeStart, ComputeSSH, ComputeUncordon, ComputeActive,
     ComputeAttributes, StopServer, StartServer, WaitForSSH, SSHTimesOut, ClusterCall, Uncordon,
     SetCordoned, Try, Skip, server, cluster
<1>. QED
  BY <1>1, <1>2, <1>3, CalmArrival, Unwatched, DoneUnwatched DEF Ready

LEMMA ComputeDrainOrder ==
    ASSUME NEW n \in Node, Ready(n), ComputeDrain(n), UNCHANGED plan
    PROVE  OrderNode(n)'
<1>1. pc[n] = "compute_drain" /\ pc'[n] \in {"compute_stop", "done"}
  BY Arrivals DEF ComputeDrain, ClusterCall, Ready, StateOK
<1>2. UNCHANGED <<seen, power, booted, disk, member, machine, nodeID, roles>>
  BY DEF ComputeDrain, ClusterCall, Skip, Cordon, SetCordoned, local, server, cluster,
     handle
<1>3. /\ disk[n] = "old" /\ member[n] /\ machine[n] = "old"
      /\ power[n] = "up" => booted[n]
      /\ RancherApiEnabled(n) => HandleKnown(n)
  BY <1>1 DEF Ready, OrderNode, SystemInv, CordonInv, BeforeLeave, BeforeStop
<1>4. ASSUME pc'[n] = "compute_stop", RancherApiEnabled(n), ~RkApi(n), nodeID[n],
             "worker" \in plan[n].role, power[n] = "up"
      PROVE  cordoned'[n]
  <2>1. IsNodeWorker(n) /\ booted[n] /\ plan[n] \in PlanType
    BY <1>3, <1>4, PlanRole DEF HandleKnown, IsNodeWorker, RkApi, Ready
  <2>2. ~ReturnError(n)
    BY <1>4, Arrivals DEF Ready, StateOK
  <2>3. CASE ClusterCall(n, Cordon(n), "compute_stop")
    <3>1. Cordon(n)
      BY <2>2, <2>3 DEF ClusterCall
    <3>. QED
      BY <1>4, <3>1 DEF Cordon, SetCordoned, Ready, StateOK, ClusterOK
  <2>4. CASE NodeStates(n) \ {"active"} # {} /\ Skip(n, "compute_stop")
    <3>1. cordoned[n]
      BY <1>3, <1>4, <2>1, <2>4 DEF NodeStates, Rancher2, Rancher2NodeState, Rke2NodeState,
         RkApi, RancherApiEnabled, PlanType, Providers
    <3>. QED
      BY <2>4, <3>1 DEF Skip, cluster
  <2>. QED
    BY <2>1, <2>2, <2>3, <2>4 DEF ComputeDrain
<1>5. CASE pc'[n] = "compute_stop"
  <2>1. /\ RancherApiEnabled(n)' = RancherApiEnabled(n)
        /\ HandleKnown(n)' = HandleKnown(n)
        /\ RkApi(n)' = RkApi(n)
    BY <1>2 DEF RancherApiEnabled, HandleKnown, RkApi
  <2>. QED
    BY <1>2, <1>3, <1>4, <1>5, <2>1 DEF OrderNode, PowerInv, SystemInv, CordonInv, RejoinInv,
       BeforeLeave, BeforeStop
<1>. QED
  BY <1>1, <1>5, Unwatched, DoneUnwatched

LEMMA ComputeCheckOrder ==
    ASSUME NEW n \in Node, Ready(n), ComputeCheck(n), UNCHANGED plan
    PROVE  OrderNode(n)'
<1>1. pc[n] = "compute_check"
  BY DEF ComputeCheck
<1>2. UNCHANGED <<power, booted, disk, member, machine>>
  BY DEF ComputeCheck, InitializeHandle, server, cluster
<1>3. /\ disk[n] = "old" /\ member[n] /\ machine[n] = "old"
      /\ power[n] = "up" => booted[n]
  BY <1>1 DEF Ready, OrderNode, SystemInv, BeforeLeave, BeforeStop
<1>4. CASE ReturnError(n)
  BY <1>4, Arrivals, Unwatched, DoneUnwatched DEF Ready, StateOK
<1>5. CASE InitializeHandle(n) /\ Goto(n, "compute_drain")
  <2>1. RancherApiEnabled(n)' => HandleKnown(n)'
    BY <1>3, <1>5, InitializeFinds DEF Ready
  <2>2. pc'[n] = "compute_drain"
    BY <1>5, Arrivals DEF Ready, StateOK
  <2>. QED
    BY <1>2, <1>3, <2>1, <2>2 DEF OrderNode, PowerInv, SystemInv, CordonInv, RejoinInv,
       BeforeLeave, BeforeStop
<1>6. CASE Goto(n, "compute_blade")
  <2>1. pc'[n] \in Calm /\ pc[n] \in BeforeLeave
    BY <1>1, <1>6, Arrivals DEF Ready, StateOK, Calm, BeforeLeave
  <2>. QED
    BY <1>2, <2>1, CalmArrival DEF Ready
<1>. QED
  BY <1>4, <1>5, <1>6 DEF ComputeCheck

LEMMA ComputeOrder ==
    ASSUME NEW n \in Node, Ready(n), ComputeStep(n)
    PROVE  OrderNode(n)'
<1>1. CASE Compute(n)
  <2>1. pc[n] \in BeforeStop /\ pc[n] \in BeforeLeave
    BY <1>1 DEF Compute, BeforeStop, BeforeLeave
  <2>2. UNCHANGED <<server, cluster>>
    BY <1>1 DEF Compute, Skip
  <2>3. pc'[n] \in {"storage", "compute_attributes", "compute_acquire", "done"}
    BY <1>1, Arrivals DEF Compute, Ready, StateOK
  <2>. QED
    BY <2>1, <2>2, <2>3, EarlyArrival, CalmArrival, Unwatched, DoneUnwatched
       DEF Ready, Calm, server, cluster
<1>2. CASE ComputeAcquire(n)
  <2>1. pc[n] \in BeforeStop /\ pc'[n] \in {"compute_check", "done"}
    BY <1>2, Arrivals DEF ComputeAcquire, BeforeStop, Ready, StateOK
  <2>2. UNCHANGED <<server, cluster>>
    BY <1>2 DEF ComputeAcquire, Acquire
  <2>. QED
    BY <2>1, <2>2, EarlyArrival, Unwatched, DoneUnwatched DEF Ready, server, cluster
<1>. QED
  BY <1>1, <1>2, ComputeCheckOrder, ComputeDrainOrder, ComputeCalm DEF ComputeStep

-----------------------------------------------------------------------------
(* The storage handler.                                                    *)

(* Points between the call that takes the node out of the cluster and the  *)
(* one that takes it back, the handle unchanged.                           *)
Away ==
    { "storage_stop", "storage_snapshot", "storage_image", "storage_force",
      "storage_start", "storage_ssh", "storage_rejoin" }

LEMMA AwayArrival ==
    ASSUME NEW n \in Node, OrderNode(n), pc[n] \in Away, pc'[n] \in Away \ {"storage_stop"},
           UNCHANGED <<plan, member, machine, nodeID, roles>>,
           pc'[n] \in {"storage_snapshot", "storage_image"} =>
               power'[n] = "down" /\ disk'[n] = "old"
    PROVE  OrderNode(n)'
<1>1. RejoinInv(n)'
  BY DEF OrderNode, RejoinInv, ReRegisters, IsProviderRKE2, RKE2Cluster, RkApi, Away
<1>. QED
  BY <1>1 DEF OrderNode, PowerInv, SystemInv, CordonInv, Away, BeforeLeave, BeforeStop

LEMMA StorageEntryOrder ==
    ASSUME NEW n \in Node, Ready(n), Storage(n) \/ StorageAcquire(n)
    PROVE  OrderNode(n)'
<1>1. pc[n] \in BeforeLeave
  BY DEF Storage, StorageAcquire, Acquire, BeforeLeave
<1>2. UNCHANGED <<server, cluster>>
  BY DEF Storage, StorageAcquire, Acquire, Try, Skip
<1>3. pc'[n] \in {"storage_acquire", "storage_check", "maintenance", "done"}
  BY Arrivals DEF Storage, StorageAcquire, Ready, StateOK
<1>. QED
  BY <1>1, <1>2, <1>3, CalmArrival, Unwatched
     DEF Ready, Calm, Watched, BeforeLeave, server, cluster

LEMMA StorageCheckOrder ==
    ASSUME NEW n \in Node, Ready(n), StorageCheck(n), UNCHANGED plan
    PROVE  OrderNode(n)'
<1>1. pc[n] = "storage_check"
  BY DEF StorageCheck
<1>2. UNCHANGED <<power, disk, member, machine>>
  BY DEF StorageCheck, InitializeHandle, server, cluster
<1>3. disk[n] = "old" /\ member[n] /\ machine[n] = "old"
  BY <1>1 DEF Ready, OrderNode, SystemInv, BeforeLeave
<1>4. CASE ReturnError(n)
  BY <1>4, Arrivals, Unwatched, DoneUnwatched DEF Ready, StateOK
<1>5. CASE /\ seen' = [seen EXCEPT ![n] = power[n]]
           /\ InitializeHandle(n) /\ Goto(n, "storage_drain")
  <2>1. RancherApiEnabled(n)' => HandleKnown(n)'
    BY <1>3, <1>5, InitializeFinds DEF Ready
  <2>2. pc'[n] = "storage_drain" /\ seen'[n] = power[n]
    BY <1>5, Arrivals DEF Ready, StateOK, LocalOK
  <2>. QED
    BY <1>2, <1>3, <2>1, <2>2 DEF OrderNode, PowerInv, SystemInv, CordonInv, RejoinInv,
       BeforeLeave, BeforeStop
<1>. QED
  BY <1>4, <1>5 DEF StorageCheck

LEMMA StorageDrainOrder ==
    ASSUME NEW n \in Node, Ready(n), StorageDrain(n), UNCHANGED plan
    PROVE  OrderNode(n)'
<1>1. pc[n] = "storage_drain" /\ pc'[n] \in {"storage_leave", "done"}
  BY Arrivals DEF StorageDrain, ClusterCall, Ready, StateOK
<1>2. UNCHANGED <<seen, power, booted, disk, member, machine, nodeID, roles>>
  BY DEF StorageDrain, ClusterCall, Try, Skip, Cordon, SetCordoned, local, server, cluster,
     handle
<1>3. /\ disk[n] = "old" /\ member[n] /\ machine[n] = "old"
      /\ seen[n] = "down" => power[n] = "down"
      /\ RancherApiEnabled(n) => HandleKnown(n)
  BY <1>1 DEF Ready, OrderNode, PowerInv, SystemInv, CordonInv, BeforeLeave
<1>4. ASSUME pc'[n] = "storage_leave", RancherApiEnabled(n), nodeID[n],
             "worker" \in plan[n].role, seen[n] = "up"
      PROVE  cordoned'[n]
  <2>1. IsNodeWorker(n)
    BY <1>3, <1>4 DEF HandleKnown, IsNodeWorker, RkApi
  <2>2. Cordon(n)
    BY <1>4, <2>1, Arrivals DEF StorageDrain, ClusterCall, Ready, StateOK
  <2>. QED
    BY <1>4, <2>2 DEF Cordon, SetCordoned, Ready, StateOK, ClusterOK
<1>5. CASE pc'[n] = "storage_leave"
  <2>1. /\ RancherApiEnabled(n)' = RancherApiEnabled(n)
        /\ HandleKnown(n)' = HandleKnown(n)
    BY <1>2 DEF RancherApiEnabled, HandleKnown, RkApi
  <2>. QED
    BY <1>2, <1>3, <1>4, <1>5, <2>1 DEF OrderNode, PowerInv, SystemInv, CordonInv, RejoinInv,
       BeforeLeave, BeforeStop
<1>. QED
  BY <1>1, <1>5, Unwatched, DoneUnwatched

(* The node goes, or rk-api is asked to delete it, or it may stay.         *)
LEMMA StorageLeaveOrder ==
    ASSUME NEW n \in Node, Ready(n), StorageLeave(n), UNCHANGED plan
    PROVE  OrderNode(n)'
<1>1. /\ pc[n] = "storage_leave"
      /\ pc'[n] \in {IF seen[n] = "up" THEN "storage_stop" ELSE "storage_snapshot", "done"}
  BY Arrivals DEF StorageLeave, ClusterCall, Ready, StateOK
<1>2. UNCHANGED <<seen, power, booted, disk, nodeID, roles>>
  BY DEF StorageLeave, ClusterCall, Skip, local, server, handle
<1>3. /\ disk[n] = "old" /\ (seen[n] = "down" => power[n] = "down")
      /\ RancherApiEnabled(n) => HandleKnown(n)
      /\ (RancherApiEnabled(n) /\ nodeID[n] /\ "worker" \in plan[n].role /\ seen[n] = "up"
             => cordoned[n])
      /\ seen[n] \in {"up", "down"}
  BY <1>1 DEF Ready, OrderNode, PowerInv, SystemInv, CordonInv, BeforeLeave, StateOK, LocalOK,
     PowerState
<1>4. CASE pc'[n] = "done"
  BY <1>4, Unwatched, DoneUnwatched
<1>5. CASE pc'[n] # "done"
  <2>1. IF ReRegisters(n) THEN NodeDelete(n) ELSE UNCHANGED cluster
    BY <1>1, <1>5, Arrivals DEF StorageLeave, ClusterCall, Skip, Ready, StateOK
  <2>2. ~member'[n] \/ cordoned'[n] = cordoned[n]
    BY <2>1 DEF NodeDelete, LeaveCluster, DeleteMachine, cluster, Ready, StateOK, ClusterOK
  <2>3. ReRegisters(n) /\ plan[n].provider \notin {"rke", "rk-api"} /\ nodeID[n] => ~member'[n]
    BY <2>1 DEF NodeDelete, LeaveCluster, RkApi, Ready, StateOK, ClusterOK
  <2>4. /\ RancherApiEnabled(n)' = RancherApiEnabled(n)
        /\ HandleKnown(n)' = HandleKnown(n)
        /\ ReRegisters(n)' = ReRegisters(n)
    BY <1>2 DEF RancherApiEnabled, HandleKnown, RkApi, ReRegisters, IsProviderRKE2, RKE2Cluster
  <2>5. RejoinInv(n)'
    BY <1>2, <2>3, <2>4 DEF RejoinInv
  <2>. QED
    BY <1>1, <1>2, <1>3, <1>5, <2>2, <2>4, <2>5 DEF OrderNode, PowerInv, SystemInv, CordonInv,
       BeforeLeave, BeforeStop
<1>. QED
  BY <1>4, <1>5

LEMMA StorageAwayOrder ==
    ASSUME NEW n \in Node, Ready(n), UNCHANGED plan,
           \/ StorageStop(n) \/ StorageSnapshot(n) \/ StorageImage(n) \/ StorageStart(n)
           \/ StorageSSH(n)
    PROVE  OrderNode(n)'
<1>1. UNCHANGED <<member, machine, nodeID, roles>>
  BY DEF StorageStop, StorageSnapshot, StorageImage, StorageStart, StorageSSH, StopServer,
     StartServer, Try, Skip, cluster, handle
<1>2. pc[n] \in Away
  BY DEF StorageStop, StorageSnapshot, StorageImage, StorageStart, StorageSSH, Away
<1>3. CASE StorageStop(n) \/ StorageSnapshot(n)
  <2>1. pc'[n] \in {"storage_snapshot", "storage_image", "done"} /\ disk[n] = "old"
    BY <1>3, Arrivals DEF StorageStop, StorageSnapshot, StopServer, Ready, StateOK, OrderNode,
       SystemInv
  <2>2. UNCHANGED disk
    BY <1>3 DEF StorageStop, StorageSnapshot, StopServer, Try, Skip, server
  <2>3. pc'[n] # "done" => power'[n] = "down"
    <3>1. CASE StorageStop(n)
      BY <3>1, Arrivals DEF StorageStop, StopServer, Ready, StateOK, ServerOK
    <3>2. CASE StorageSnapshot(n)
      BY <3>2 DEF StorageSnapshot, Try, Skip, server, Ready, OrderNode, PowerInv
    <3>. QED
      BY <1>3, <3>1, <3>2
  <2>. QED
    BY <1>1, <1>2, <2>1, <2>2, <2>3, AwayArrival, Unwatched, DoneUnwatched DEF Ready, Away
<1>4. CASE StorageImage(n) \/ StorageStart(n) \/ StorageSSH(n)
  <2>1. pc'[n] \in {"storage_force", "storage_start", "storage_ssh", "storage_rejoin", "done"}
    BY <1>4, Arrivals DEF StorageImage, StorageStart, StorageSSH, StartServer, Ready, StateOK
  <2>. QED
    BY <1>1, <1>2, <2>1, AwayArrival, Unwatched, DoneUnwatched DEF Ready, Away
<1>. QED
  BY <1>3, <1>4

LEMMA StorageForceOrder ==
    ASSUME NEW n \in Node, Ready(n), UNCHANGED plan, StorageForce(n)
    PROVE  OrderNode(n)'
<1>1. pc[n] \in Away /\ pc'[n] \in {"storage_start", "done"}
  BY Arrivals DEF StorageForce, ClusterCall, Ready, StateOK, Away
<1>2. UNCHANGED <<member, machine, nodeID, roles>>
  BY DEF StorageForce, ClusterCall, ForceDelete, cluster, handle
<1>. QED
  BY <1>1, <1>2, AwayArrival, Unwatched, DoneUnwatched DEF Ready, Away

LEMMA StorageOrder ==
    ASSUME NEW n \in Node, Ready(n), StorageStep(n)
    PROVE  OrderNode(n)'
<1>1. CASE StorageRejoin(n) \/ StorageUncordon(n) \/ StorageActive(n)
  <2>1. pc'[n] \in {"storage_uncordon", "storage_active", "maintenance", "done"}
    BY <1>1, Arrivals DEF StorageRejoin, StorageUncordon, StorageActive, ClusterCall, Ready,
       StateOK
  <2>. QED
    BY <2>1, Unwatched DEF Watched, BeforeLeave
<1>. QED
  BY <1>1, StorageEntryOrder, StorageCheckOrder, StorageDrainOrder, StorageLeaveOrder,
     StorageAwayOrder, StorageForceOrder DEF StorageStep

-----------------------------------------------------------------------------
(* The handlers after it.                                                  *)

LEMMA MaintenanceOrder ==
    ASSUME NEW n \in Node, Ready(n), MaintenanceStep(n)
    PROVE  OrderNode(n)'
<1>1. CASE MaintenanceTask(n)
  <2>1. pc'[n] \in {"maintenance_task", "maintenance_start", "maintenance_wait", "done"}
    BY <1>1, Arrivals DEF MaintenanceTask, RunTask, ClusterCall, StopServer, Ready, StateOK
  <2>. QED
    BY <2>1, Unwatched DEF Watched, BeforeLeave
<1>2. CASE ~MaintenanceTask(n)
  <2>1. pc'[n] \in {"maintenance_init", "maintenance_acquire", "maintenance_task",
                    "maintenance_ssh", "restore", "done"}
    BY <1>2, Arrivals DEF MaintenanceStep, Maintenance, MaintenanceInit, MaintenanceAcquire,
       MaintenanceStart, MaintenanceSSH, MaintenanceWait, StartServer, WaitForSSH, Ready,
       StateOK
  <2>. QED
    BY <2>1, Unwatched DEF Watched, BeforeLeave
<1>. QED
  BY <1>1, <1>2

LEMMA RestoreOrder ==
    ASSUME NEW n \in Node, Ready(n), RestoreStep(n)
    PROVE  OrderNode(n)'
<1>1. pc'[n] \in {"restore_stop", "restore_image", "restore_start", "restore_ssh", "metadata",
                  "done"}
  BY Arrivals DEF RestoreStep, Restore, RestoreStop, RestoreImage, RestoreStart, RestoreSSH,
     StopServer, StartServer, Ready, StateOK
<1>2. pc'[n] = "restore_image" => power'[n] = "down"
  <2>1. CASE Restore(n)
    BY <2>1, Arrivals DEF Restore, Skip, server, Ready, StateOK, ServerOK, PowerState
  <2>2. CASE RestoreStop(n)
    BY <2>2, Arrivals DEF RestoreStop, StopServer, Ready, StateOK, ServerOK
  <2>3. CASE RestoreImage(n) \/ RestoreStart(n) \/ RestoreSSH(n)
    BY <2>3, Arrivals DEF RestoreImage, RestoreStart, RestoreSSH, StartServer, Ready, StateOK
  <2>. QED
    BY <2>1, <2>2, <2>3 DEF RestoreStep
<1>3. CASE pc'[n] = "restore_image"
  BY <1>2, <1>3 DEF OrderNode, PowerInv, SystemInv, CordonInv, RejoinInv, BeforeLeave,
     BeforeStop
<1>4. CASE pc'[n] # "restore_image"
  BY <1>1, <1>4, Unwatched DEF Watched, BeforeLeave
<1>. QED
  BY <1>3, <1>4

LEMMA StepOrder ==
    ASSUME NEW n \in Node, Ready(n), Step(n)
    PROVE  OrderNode(n)'
<1>1. CASE Metadata(n)
  <2>1. pc'[n] = "done"
    BY <1>1, Arrivals DEF Metadata, Ready, StateOK
  <2>. QED
    BY <2>1, Unwatched, DoneUnwatched
<1>. QED
  BY <1>1, SnapshotOrder, ComputeOrder, StorageOrder, MaintenanceOrder, RestoreOrder DEF Step

-----------------------------------------------------------------------------
(* Everything else that may happen.                                        *)

(* A step of another node's handlers.                                      *)
LEMMA OtherOrder ==
    ASSUME NEW k \in Node, NEW n \in Node \ {k}, StateOK, PlanOK, OrderNode(n), Step(k)
    PROVE  OrderNode(n)'
<1>1. AllSame(n) /\ plan' = plan
  BY StepFrame
<1>2. /\ pc'[n] = pc[n] /\ seen'[n] = seen[n]
      /\ power'[n] = power[n] /\ booted'[n] = booted[n] /\ disk'[n] = disk[n]
      /\ cordoned'[n] = cordoned[n] /\ member'[n] = member[n] /\ machine'[n] = machine[n]
      /\ nodeID'[n] = nodeID[n] /\ roles'[n] = roles[n]
  BY <1>1 DEF AllSame, ControlSame, LocalSame, ServerSame, ClusterSame, HandleSame
<1>3. PowerInv(n)' /\ SystemInv(n)'
  BY <1>2 DEF OrderNode, PowerInv, SystemInv
<1>4. CordonInv(n)'
  BY <1>1, <1>2 DEF OrderNode, CordonInv, HandleKnown, RancherApiEnabled, RkApi
<1>5. RejoinInv(n)'
  BY <1>1, <1>2 DEF OrderNode, RejoinInv, ReRegisters, IsProviderRKE2, RKE2Cluster, RkApi
<1>. QED
  BY <1>3, <1>4, <1>5 DEF OrderNode

(* A server boots: it is neither off nor rewritten.                        *)
LEMMA BootOrder ==
    ASSUME NEW k \in Node, NEW n \in Node, StateOK, OrderNode(n), Boot(k)
    PROVE  OrderNode(n)'
<1>1. /\ UNCHANGED <<plan, pc, seen, power, disk, cordoned, member, machine, nodeID, roles>>
      /\ booted[n] => booted'[n]
  BY DEF Boot, StateOK, ServerOK, local, cluster, handle
<1>2. PowerInv(n)' /\ SystemInv(n)'
  BY <1>1 DEF OrderNode, PowerInv, SystemInv
<1>3. CordonInv(n)'
  BY <1>1 DEF OrderNode, CordonInv, HandleKnown, RancherApiEnabled, RkApi
<1>4. RejoinInv(n)'
  BY <1>1 DEF OrderNode, RejoinInv, ReRegisters, IsProviderRKE2, RKE2Cluster, RkApi
<1>. QED
  BY <1>2, <1>3, <1>4 DEF OrderNode

(* A node registers: only one with a new image or a snapshot does, and its *)
(* registration is a new one.                                              *)
LEMMA JoinOrder ==
    ASSUME NEW k \in Node, NEW n \in Node, StateOK, OrderNode(n), Join(k)
    PROVE  OrderNode(n)'
<1>1. /\ UNCHANGED <<plan, pc, seen, power, booted, disk, cordoned, nodeID, roles>>
      /\ ~member[k] /\ disk[k] \in {"new", "snap"}
      /\ member' = [member EXCEPT ![k] = TRUE] /\ machine' = [machine EXCEPT ![k] = "new"]
  BY DEF Join, Register, local, handle
<1>2. n = k => pc[n] \notin BeforeLeave \cup {"storage_stop"}
  BY <1>1 DEF OrderNode, SystemInv
<1>3. n # k => member'[n] = member[n] /\ machine'[n] = machine[n]
  BY <1>1 DEF StateOK, ClusterOK
<1>4. n = k => machine'[n] = "new"
  BY <1>1 DEF StateOK, ClusterOK
<1>5. PowerInv(n)' /\ SystemInv(n)'
  BY <1>1, <1>2, <1>3 DEF OrderNode, PowerInv, SystemInv
<1>6. CordonInv(n)'
  BY <1>1, <1>2, <1>3 DEF OrderNode, CordonInv, HandleKnown, RancherApiEnabled, RkApi,
     BeforeLeave
<1>7. RejoinInv(n)'
  BY <1>1, <1>3, <1>4 DEF OrderNode, RejoinInv, ReRegisters, IsProviderRKE2, RKE2Cluster,
     RkApi
<1>. QED
  BY <1>5, <1>6, <1>7 DEF OrderNode

(* Rancher ends a deletion: not before the handler has asked for it.       *)
LEMMA LeavesOrder ==
    ASSUME NEW k \in Node, NEW n \in Node, StateOK, OrderNode(n), MachineLeaves(k)
    PROVE  OrderNode(n)'
<1>1. /\ UNCHANGED <<plan, pc, seen, power, booted, disk, machine, nodeID, roles>>
      /\ machine[k] = "leaving"
      /\ member' = [member EXCEPT ![k] = FALSE]
      /\ cordoned' = [cordoned EXCEPT ![k] = FALSE]
  BY DEF MachineLeaves, MachineDeleted, LeaveCluster, local, handle
<1>2. n = k => pc[n] \notin BeforeLeave
  BY <1>1 DEF OrderNode, SystemInv
<1>3. n # k => member'[n] = member[n] /\ cordoned'[n] = cordoned[n]
  BY <1>1 DEF StateOK, ClusterOK
<1>4. n = k => ~member'[n]
  BY <1>1 DEF StateOK, ClusterOK
<1>5. PowerInv(n)' /\ SystemInv(n)'
  BY <1>1, <1>2, <1>3 DEF OrderNode, PowerInv, SystemInv
<1>6. CordonInv(n)'
  BY <1>1, <1>2, <1>3, <1>4 DEF OrderNode, CordonInv, HandleKnown, RancherApiEnabled, RkApi,
     BeforeLeave
<1>7. RejoinInv(n)'
  BY <1>1, <1>3, <1>4 DEF OrderNode, RejoinInv, ReRegisters, IsProviderRKE2, RKE2Cluster,
     RkApi
<1>. QED
  BY <1>5, <1>6, <1>7 DEF OrderNode

-----------------------------------------------------------------------------
(* The invariant.                                                          *)

Ordered == StateOK /\ PlanOK /\ \A n \in Node : OrderNode(n)

LEMMA InitOrdered ==
    ASSUME Init
    PROVE  Ordered
<1>1. StateOK /\ PlanOK
  BY InitType
<1>2. ASSUME NEW n \in Node
      PROVE  OrderNode(n)
  <2>1. /\ pc[n] = "snapshot" /\ disk[n] = "old" /\ member[n] /\ machine[n] = "old"
        /\ booted[n] <=> power[n] = "up"
    BY DEF Init
  <2>. QED
    BY <2>1 DEF OrderNode, PowerInv, SystemInv, CordonInv, RejoinInv
<1>. QED
  BY <1>1, <1>2 DEF Ordered

LEMMA NextOrdered ==
    ASSUME Ordered, [Next]_vars
    PROVE  Ordered'
<1>1. StateOK' /\ PlanOK'
  BY NextType DEF Ordered
<1>2. CASE UNCHANGED vars
  <2>1. UNCHANGED <<plan, pc, seen, power, booted, disk, cordoned, member, machine, nodeID,
                    roles>>
    BY <1>2 DEF vars, local, server, cluster, handle
  <2>2. ASSUME NEW n \in Node
        PROVE  OrderNode(n)'
    BY <2>1 DEF Ordered, OrderNode, PowerInv, SystemInv, CordonInv, RejoinInv, HandleKnown,
       RancherApiEnabled, RkApi, ReRegisters, IsProviderRKE2, RKE2Cluster
  <2>. QED
    BY <1>1, <2>2 DEF Ordered
<1>3. ASSUME NEW k \in Node, Step(k), NEW n \in Node
      PROVE  OrderNode(n)'
  BY <1>3, StepOrder, OtherOrder DEF Ordered, Ready
<1>4. ASSUME NEW k \in Node, Boot(k) \/ Join(k) \/ MachineLeaves(k), NEW n \in Node
      PROVE  OrderNode(n)'
  BY <1>4, BootOrder, JoinOrder, LeavesOrder DEF Ordered
<1>. QED
  BY <1>1, <1>2, <1>3, <1>4 DEF Next, Terminated, Ordered

(* The strengthening of the three properties holds in every reachable      *)
(* state of resourceUpdateServer, under every configuration.               *)
THEOREM OrderInvariance == Spec => []OrderInv
<1>1. Init => Ordered
  BY InitOrdered
<1>2. Ordered /\ [Next]_vars => Ordered'
  BY NextOrdered
<1>3. Ordered => OrderInv
  BY OrderParts DEF Ordered
<1>. QED
  BY <1>1, <1>2, <1>3, PTL DEF Spec

-----------------------------------------------------------------------------
(* What it is for.                                                         *)

(* Of all steps only the two that rewrite a LUN change what a server runs  *)
(* from.                                                                   *)
LEMMA WhoRewrites ==
    ASSUME StateOK, PlanOK, Next, NEW n \in Node, disk'[n] # disk[n]
    PROVE  pc[n] \in {"storage_image", "restore_image"}
<1>1. PICK k \in Node : Step(k)
  BY DEF Next, Boot, Join, MachineLeaves, Terminated, vars, server
<1>2. k = n
  BY <1>1, StepFrame DEF AllSame, ServerSame
<1>3. Step(n)
  BY <1>1, <1>2
<1>4. CASE ComputeStep(n)
  BY <1>4 DEF ComputeStep, Compute, ComputeAcquire, ComputeCheck, ComputeDrain, ComputeStop,
     ComputeBlade, ComputeStart, ComputeSSH, ComputeUncordon, ComputeActive,
     ComputeAttributes, Acquire, Try, Skip, StopServer, StartServer, WaitForSSH, SSHTimesOut,
     ClusterCall, server
<1>5. CASE StorageStep(n)
  BY <1>5 DEF StorageStep, Storage, StorageAcquire, StorageCheck, StorageDrain, StorageLeave,
     StorageStop, StorageSnapshot, StorageImage, StorageForce, StorageStart, StorageSSH,
     StorageRejoin, StorageUncordon, StorageActive, Acquire, Try, Skip, StopServer,
     StartServer, SSHTimesOut, ClusterCall, server
<1>6. CASE MaintenanceStep(n)
  BY <1>6 DEF MaintenanceStep, Maintenance, MaintenanceInit, MaintenanceAcquire,
     MaintenanceTask, RunTask, MaintenanceStart, MaintenanceSSH, MaintenanceWait, Acquire,
     Try, Skip, StopServer, StartServer, WaitForSSH, SSHTimesOut, ClusterCall, server
<1>7. CASE RestoreStep(n)
  BY <1>7 DEF RestoreStep, Restore, RestoreStop, RestoreImage, RestoreStart, RestoreSSH, Skip,
     StopServer, StartServer, SSHTimesOut, server
<1>8. CASE Snapshot(n) \/ Metadata(n)
  BY <1>8 DEF Snapshot, Metadata, Try, Skip, server
<1>. QED
  BY <1>3, <1>4, <1>5, <1>6, <1>7, <1>8 DEF Step

(* Boot and seed LUNs are re-imaged (storage handler) or restored (restore *)
(* handler) only while the server is powered off: its power state, read    *)
(* before the LUNs are touched, is not stale when they are.                *)
THEOREM RewrittenOnlyOff == Spec => OffBeforeRewrite
<1>. DEFINE Act == \A n \in Node : disk[n]' # disk[n] => power[n] = "down"
<1>1. Init => Ordered
  BY InitOrdered
<1>2. Ordered /\ [Next]_vars => Ordered'
  BY NextOrdered
<1>3. Ordered /\ [Next]_vars => [Act]_vars
  BY WhoRewrites DEF Ordered, OrderNode, PowerInv
<1>. QED
  BY <1>1, <1>2, <1>3, PTL DEF Spec, OffBeforeRewrite

(* Neither the compute nor the storage handler takes the power from a      *)
(* worker on which the cluster still schedules, except the former under    *)
(* rk-api: the drain comes first, and between it and the power-off nothing *)
(* undoes it.                                                              *)
THEOREM PoweredOffDrained == Spec => DrainedBeforeOff
<1>. DEFINE Act ==
       \A n \in Node :
          /\ pc[n] \in {"compute_stop", "storage_stop"}
          /\ power[n] = "up" /\ power[n]' = "down"
          /\ RancherApiEnabled(n) /\ "worker" \in plan[n].role
          /\ RkApi(n) => nodeID[n] /\ pc[n] = "storage_stop"
          /\ booted[n] /\ member[n]
          => cordoned[n]
<1>1. Init => Ordered
  BY InitOrdered
<1>2. Ordered /\ [Next]_vars => Ordered'
  BY NextOrdered
<1>3. Ordered => Act
  BY DEF Ordered, OrderNode, CordonInv, HandleKnown
<1>. QED
  BY <1>1, <1>2, <1>3, PTL DEF Spec, DrainedBeforeOff

(* Only the step that waits for the new registration leaves this point.    *)
LEMMA WhoRejoins ==
    ASSUME StateOK, PlanOK, Next, NEW n \in Node,
           pc[n] = "storage_rejoin", pc'[n] = "storage_uncordon"
    PROVE  StorageRejoin(n)
<1>1. PICK k \in Node : Step(k)
  BY DEF Next, Boot, Join, MachineLeaves, Terminated, vars
<1>2. k = n
  BY <1>1, StepFrame DEF AllSame, ControlSame
<1>3. Step(n)
  BY <1>1, <1>2
<1>4. ~ComputeStep(n)
  BY DEF ComputeStep, Compute, ComputeAcquire, ComputeCheck, ComputeDrain, ComputeStop,
     ComputeBlade, ComputeStart, ComputeSSH, ComputeUncordon, ComputeActive,
     ComputeAttributes, Acquire
<1>5. ~MaintenanceStep(n)
  BY DEF MaintenanceStep, Maintenance, MaintenanceInit, MaintenanceAcquire, MaintenanceTask,
     MaintenanceStart, MaintenanceSSH, MaintenanceWait, Acquire
<1>6. ~RestoreStep(n) /\ ~Snapshot(n) /\ ~Metadata(n)
  BY DEF RestoreStep, Restore, RestoreStop, RestoreImage, RestoreStart, RestoreSSH, Snapshot,
     Metadata
<1>7. StorageStep(n)
  BY <1>3, <1>4, <1>5, <1>6 DEF Step
<1>. QED
  BY <1>7 DEF StorageStep, Storage, StorageAcquire, StorageCheck, StorageDrain, StorageLeave,
     StorageStop, StorageSnapshot, StorageImage, StorageForce, StorageStart, StorageSSH,
     StorageUncordon, StorageActive, Acquire

(* After a re-image the storage handler never goes on with the             *)
(* registration that the node had before: the other providers have removed *)
(* it, and rk-api waits until it is gone.                                  *)
THEOREM AwaitsNewRegistration == Spec => RejoinsAnew
<1>. DEFINE Act ==
       \A n \in Node :
          /\ pc[n] = "storage_rejoin" /\ pc[n]' = "storage_uncordon"
          /\ ReRegisters(n) /\ plan[n].provider # "rke"
          /\ nodeID[n] /\ nodeID[n]'
          => machine[n] = "new"
<1>1. Init => Ordered
  BY InitOrdered
<1>2. Ordered /\ [Next]_vars => Ordered'
  BY NextOrdered
<1>3. ASSUME Ordered, Next, NEW n \in Node,
             pc[n] = "storage_rejoin", pc'[n] = "storage_uncordon",
             ReRegisters(n), plan[n].provider # "rke", nodeID[n], nodeID'[n]
      PROVE  machine[n] = "new"
  <2>1. StorageRejoin(n)
    BY <1>3, WhoRejoins DEF Ordered
  <2>2. pc'[n] # "done"
    BY <1>3
  <2>3. NodeWaitUntilDeleted(n) /\ GetID(n)
    BY <1>3, <2>1, <2>2, Arrivals DEF StorageRejoin, Ordered, StateOK
  <2>4. member[n]
    BY <1>3, <2>3 DEF GetID, Ordered, StateOK, HandleOK
  <2>5. CASE RkApi(n)
    BY <1>3, <2>3, <2>4, <2>5 DEF NodeWaitUntilDeleted, OldMachine
  <2>6. CASE ~RkApi(n)
    BY <1>3, <2>4, <2>6 DEF RkApi, Ordered, OrderNode, RejoinInv
  <2>. QED
    BY <2>5, <2>6
<1>4. Ordered /\ [Next]_vars => [Act]_vars
  BY <1>3
<1>. QED
  BY <1>1, <1>2, <1>4, PTL DEF Spec, RejoinsAnew

=============================================================================

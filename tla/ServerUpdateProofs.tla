------------------------- MODULE ServerUpdateProofs -------------------------
(***************************************************************************)
(* Proofs about ServerUpdate for every set of nodes, every set of plans    *)
(* and every cluster provider.                                             *)
(***************************************************************************)
EXTENDS ServerUpdateProperties, TLAPS

-----------------------------------------------------------------------------
(* The type of the state in four parts: no action disturbs all of them.    *)

ControlOK ==
    /\ LockTypeOK
    /\ pc \in [Node -> Label]
    /\ failed \in [Node -> BOOLEAN]

LocalOK ==
    /\ seen \in [Node -> PowerState]
    /\ change \in [Node -> SUBSET ChangeFlag]

ServerOK ==
    /\ power \in [Node -> PowerState]
    /\ booted \in [Node -> BOOLEAN]
    /\ disk \in [Node -> {"old", "none", "new", "snap"}]

ClusterOK ==
    /\ cordoned \in [Node -> BOOLEAN]
    /\ member \in [Node -> BOOLEAN]
    /\ labelled \in [Node -> BOOLEAN]
    /\ machine \in [Node -> {"old", "leaving", "new"}]

HandleOK ==
    /\ nodeID \in [Node -> BOOLEAN]
    /\ roles \in [Node -> SUBSET Role]

PlanOK ==
    /\ plan \in [Node -> Plans]
    /\ task \in [Node -> Nat \ {0}]

LEMMA TypeParts ==
    TypeOK <=> ControlOK /\ LocalOK /\ ServerOK /\ ClusterOK /\ HandleOK /\ PlanOK
BY DEF TypeOK, ControlOK, LocalOK, ServerOK, ClusterOK, HandleOK, PlanOK

(* The control operators keep the types of pc, failed and the lock.        *)
LEMMA ControlSteps ==
    ASSUME ControlOK, NEW n \in Node, NEW l \in Label
    PROVE  /\ Goto(n, l) => ControlOK'
           /\ ReturnError(n) => ControlOK'
           /\ EndHandler(n, l) => ControlOK'
<1>1. "done" \in Label
  BY DEF Label
<1>2. HolderAfterRelease(n) \in Node \cup {NoNode}
  BY DEF ControlOK, LockTypeOK, HolderAfterRelease
<1>3. ErrorAfterSet \in BOOLEAN
  BY DEF ErrorAfterSet
<1>4. Goto(n, l) => ControlOK'
  BY DEF ControlOK, LockTypeOK, Goto, lock
<1>5. ReturnError(n) => ControlOK'
  BY <1>1, <1>2, <1>3 DEF ControlOK, LockTypeOK, ReturnError
<1>6. EndHandler(n, l) => ControlOK'
  BY <1>2 DEF ControlOK, LockTypeOK, EndHandler
<1>. QED
  BY <1>4, <1>5, <1>6

LEMMA AcquireType ==
    ASSUME ControlOK, LocalOK, ServerOK, ClusterOK, HandleOK,
           NEW n \in Node, NEW from \in Label, NEW l \in Label, Acquire(n, from, l)
    PROVE  ControlOK' /\ LocalOK' /\ ServerOK' /\ ClusterOK' /\ HandleOK'
BY DEF ControlOK, LocalOK, ServerOK, ClusterOK, HandleOK, LockTypeOK, Acquire,
       AcquireGranted, AcquireRefused, lock, local, server, cluster, handle, Label

LEMMA TryType ==
    ASSUME ControlOK, LocalOK, ServerOK, ClusterOK, HandleOK,
           NEW n \in Node, NEW l \in Label, Try(n, l) \/ Skip(n, l)
    PROVE  ControlOK' /\ LocalOK' /\ ServerOK' /\ ClusterOK' /\ HandleOK'
<1>1. ControlOK'
  BY ControlSteps DEF Try, Skip
<1>. QED
  BY <1>1 DEF Try, Skip, LocalOK, ServerOK, ClusterOK, HandleOK, local, server, cluster, handle

LEMMA StopServerType ==
    ASSUME ControlOK, LocalOK, ServerOK, ClusterOK, HandleOK,
           NEW n \in Node, NEW l \in Label, StopServer(n, l)
    PROVE  ControlOK' /\ LocalOK' /\ ServerOK' /\ ClusterOK' /\ HandleOK'
<1>1. ControlOK'
  BY ControlSteps DEF StopServer
<1>2. ServerOK'
  BY DEF StopServer, ServerOK, PowerState
<1>. QED
  BY <1>1, <1>2 DEF StopServer, LocalOK, ClusterOK, HandleOK, local, cluster, handle

LEMMA StartServerType ==
    ASSUME ControlOK, LocalOK, ServerOK, ClusterOK, HandleOK,
           NEW n \in Node, NEW l \in Label, StartServer(n, l)
    PROVE  ControlOK' /\ LocalOK' /\ ServerOK' /\ ClusterOK' /\ HandleOK'
<1>1. ControlOK'
  BY ControlSteps DEF StartServer
<1>2. ServerOK'
  BY DEF StartServer, ServerOK, PowerState
<1>. QED
  BY <1>1, <1>2 DEF StartServer, LocalOK, ClusterOK, HandleOK, local, cluster, handle

LEMMA SSHTimesOutType ==
    ASSUME ServerOK, NEW n \in Node, SSHTimesOut(n)
    PROVE  ServerOK'
BY DEF SSHTimesOut, ServerOK, PowerState

LEMMA WaitForSSHType ==
    ASSUME ControlOK, LocalOK, ServerOK, ClusterOK, HandleOK,
           NEW n \in Node, NEW l \in Label, WaitForSSH(n, l)
    PROVE  ControlOK' /\ LocalOK' /\ ServerOK' /\ ClusterOK' /\ HandleOK'
<1>1. ControlOK'
  BY ControlSteps DEF WaitForSSH
<1>2. ServerOK'
  BY SSHTimesOutType DEF WaitForSSH, ServerOK, server
<1>. QED
  BY <1>1, <1>2 DEF WaitForSSH, LocalOK, ClusterOK, HandleOK, local, cluster, handle

LEMMA ClusterCallType ==
    ASSUME ControlOK, LocalOK, ServerOK, ClusterOK, HandleOK,
           NEW n \in Node, NEW l \in Label,
           \/ ClusterCall(n, Cordon(n), l)
           \/ ClusterCall(n, Uncordon(n), l)
           \/ ClusterCall(n, NodeDelete(n), l)
           \/ ClusterCall(n, ForceDelete(n), l)
    PROVE  ControlOK' /\ LocalOK' /\ ServerOK' /\ ClusterOK' /\ HandleOK'
<1>1. ControlOK'
  BY ControlSteps DEF ClusterCall
<1>2. ClusterOK'
  BY DEF ClusterCall, ClusterOK, HandleOK, Cordon, Uncordon, SetCordoned, NodeDelete,
     LeaveCluster, DeleteMachine, ForceDelete, cluster
<1>. QED
  BY <1>1, <1>2 DEF ClusterCall, LocalOK, ServerOK, HandleOK, local, server, handle

LEMMA InitializeType ==
    ASSUME HandleOK, NEW n \in Node, NEW role \in SUBSET Role, NEW w \in BOOLEAN,
           RancherAPIInitialize(n, role, w)
    PROVE  HandleOK'
BY DEF HandleOK, RancherAPIInitialize, Rancher2APIInitialize, Rke2APIInitialize,
       RkeAPIInitialize, RkAPIInitialize, Lookup, Handle

LEMMA PlanRole ==
    ASSUME PlanOK, NEW n \in Node
    PROVE  plan[n] \in PlanType /\ plan[n].role \in SUBSET Role
BY PlansAssumption DEF PlanOK, PlanType

-----------------------------------------------------------------------------
(* Every handler keeps the types.                                          *)

StateOK == ControlOK /\ LocalOK /\ ServerOK /\ ClusterOK /\ HandleOK

LEMMA InitializeHandleType ==
    ASSUME HandleOK, ClusterOK, PlanOK, NEW n \in Node, InitializeHandle(n)
    PROVE  HandleOK' /\ ClusterOK'
<1>1. HandleOK'
  BY PlanRole, InitializeType DEF InitializeHandle
<1>. QED
  BY <1>1 DEF InitializeHandle, ClusterOK, cluster

LEMMA ComputeType ==
    ASSUME StateOK, PlanOK, NEW n \in Node, ComputeStep(n)
    PROVE  StateOK' /\ PlanOK'
<1>0. PlanOK'
  BY DEF ComputeStep, PlanOK
<1>. USE DEF StateOK
<1>1. CASE Compute(n)
  <2>1. ControlOK'
    BY <1>1, ControlSteps, TryType DEF Compute, Label
  <2>2. LocalOK'
    BY <1>1 DEF Compute, Skip, LocalOK, ServerOK, ComputeChange, ChangeFlag, local
  <2>. QED
    BY <1>0, <1>1, <2>1, <2>2 DEF Compute, Skip, ServerOK, ClusterOK, HandleOK,
       server, cluster, handle
<1>2. CASE ComputeAcquire(n)
  BY <1>0, <1>2, AcquireType DEF ComputeAcquire, Label
<1>3. CASE ComputeCheck(n)
  <2>1. ControlOK'
    BY <1>3, ControlSteps DEF ComputeCheck, Label
  <2>2. HandleOK' /\ ClusterOK'
    BY <1>3, InitializeHandleType DEF ComputeCheck, HandleOK, ClusterOK, cluster, handle
  <2>. QED
    BY <1>0, <1>3, <2>1, <2>2 DEF ComputeCheck, LocalOK, ServerOK, local, server
<1>4. CASE ComputeDrain(n)
  <2>1. \/ Try(n, "compute_stop") \/ Skip(n, "compute_stop")
        \/ ClusterCall(n, Cordon(n), "compute_stop")
    BY <1>4 DEF ComputeDrain, Try
  <2>. QED
    BY <1>0, <2>1, TryType, ClusterCallType DEF Label
<1>5. CASE ComputeStop(n)
  BY <1>0, <1>5, StopServerType DEF ComputeStop, Label
<1>6. CASE ComputeBlade(n)
  <2>1. ControlOK'
    BY <1>6, ControlSteps DEF ComputeBlade, Label
  <2>. QED
    BY <1>0, <1>6, <2>1 DEF ComputeBlade, LocalOK, ServerOK, ClusterOK, HandleOK,
       local, server, cluster, handle
<1>7. CASE ComputeStart(n)
  BY <1>0, <1>7, StartServerType DEF ComputeStart, Label
<1>8. CASE ComputeSSH(n)
  BY <1>0, <1>8, WaitForSSHType DEF ComputeSSH, Label
<1>9. CASE ComputeUncordon(n)
  BY <1>0, <1>9, TryType, ClusterCallType DEF ComputeUncordon, Label
<1>10. CASE ComputeActive(n)
  BY <1>0, <1>10, TryType DEF ComputeActive, Label
<1>11. CASE ComputeAttributes(n)
  <2>1. ControlOK'
    BY <1>11, ControlSteps DEF ComputeAttributes, Label
  <2>. QED
    BY <1>0, <1>11, <2>1 DEF ComputeAttributes, LocalOK, ServerOK, ClusterOK, HandleOK,
       local, server, cluster, handle
<1>. QED
  BY <1>1, <1>2, <1>3, <1>4, <1>5, <1>6, <1>7, <1>8, <1>9, <1>10, <1>11 DEF ComputeStep

LEMMA StorageType ==
    ASSUME StateOK, PlanOK, NEW n \in Node, StorageStep(n)
    PROVE  StateOK' /\ PlanOK'
<1>0. PlanOK'
  BY DEF StorageStep, PlanOK
<1>. USE DEF StateOK
<1>1. CASE Storage(n)
  <2>1. CASE plan[n].storage \in {"none", "resize"}
    BY <1>0, <1>1, <2>1, TryType DEF Storage, Label
  <2>2. CASE plan[n].storage \notin {"none", "resize"}
    <3>1. ControlOK'
      BY <1>1, <2>2, ControlSteps DEF Storage, Label
    <3>2. LocalOK'
      BY <1>1, <2>2 DEF Storage, LocalOK, ChangeFlag, local
    <3>. QED
      BY <1>0, <1>1, <2>2, <3>1, <3>2 DEF Storage, ServerOK, ClusterOK, HandleOK,
         server, cluster, handle
  <2>. QED
    BY <2>1, <2>2
<1>2. CASE StorageAcquire(n)
  BY <1>0, <1>2, AcquireType DEF StorageAcquire, Label
<1>3. CASE StorageCheck(n)
  <2>1. ControlOK'
    BY <1>3, ControlSteps DEF StorageCheck, Label
  <2>2. HandleOK' /\ ClusterOK'
    BY <1>3, InitializeHandleType DEF StorageCheck, HandleOK, ClusterOK, cluster, handle
  <2>. QED
    BY <1>0, <1>3, <2>1, <2>2 DEF StorageCheck, LocalOK, ServerOK, local, server
<1>4. CASE StorageDrain(n)
  BY <1>0, <1>4, TryType, ClusterCallType DEF StorageDrain, Label
<1>5. CASE StorageLeave(n)
  BY <1>0, <1>5, TryType, ClusterCallType DEF StorageLeave, Label
<1>6. CASE StorageStop(n)
  BY <1>0, <1>6, StopServerType DEF StorageStop, Label
<1>7. CASE StorageSnapshot(n)
  BY <1>0, <1>7, TryType DEF StorageSnapshot, Label
<1>8. CASE StorageImage(n)
  <2>1. ControlOK'
    BY <1>8, ControlSteps DEF StorageImage, Label
  <2>. QED
    BY <1>0, <1>8, <2>1 DEF StorageImage, LocalOK, ServerOK, ClusterOK, HandleOK,
       local, cluster, handle
<1>9. CASE StorageStart(n)
  BY <1>0, <1>9, StartServerType DEF StorageStart, Label
<1>14. CASE StorageForce(n)
  BY <1>0, <1>14, ClusterCallType DEF StorageForce, Label
<1>10. CASE StorageSSH(n)
  <2>1. ControlOK'
    BY <1>10, ControlSteps DEF StorageSSH, Label
  <2>2. ServerOK'
    BY <1>10, SSHTimesOutType DEF StorageSSH, ServerOK, server
  <2>. QED
    BY <1>0, <1>10, <2>1, <2>2 DEF StorageSSH, LocalOK, ClusterOK, HandleOK,
       local, cluster, handle
<1>11. CASE StorageRejoin(n)
  <2>1. ControlOK'
    BY <1>11, ControlSteps DEF StorageRejoin, Label
  <2>2. HandleOK'
    BY <1>11, PlanRole DEF StorageRejoin, GetID, HandleOK, ClusterOK, RancherApiEnabled, handle
  <2>. QED
    BY <1>0, <1>11, <2>1, <2>2 DEF StorageRejoin, LocalOK, ServerOK, ClusterOK,
       local, server, cluster
<1>12. CASE StorageUncordon(n)
  BY <1>0, <1>12, TryType, ClusterCallType DEF StorageUncordon, Label
<1>13. CASE StorageActive(n)
  <2>1. ControlOK'
    BY <1>13, ControlSteps DEF StorageActive, Label
  <2>. QED
    BY <1>0, <1>13, <2>1 DEF StorageActive, LocalOK, ServerOK, ClusterOK, HandleOK,
       local, server, cluster, handle
<1>. QED
  BY <1>1, <1>2, <1>3, <1>4, <1>5, <1>6, <1>7, <1>8, <1>9, <1>10, <1>11, <1>12, <1>13,
     <1>14 DEF StorageStep

LEMMA RunTaskType ==
    ASSUME StateOK, NEW n \in Node, NEW t \in Task, RunTask(n, t)
    PROVE  StateOK'
<1>. USE DEF StateOK
<1>1. CASE t \in {"cordon", "drain"}
  BY <1>1, TryType, ClusterCallType DEF RunTask, Label
<1>2. CASE t = "uncordon"
  BY <1>2, TryType, ClusterCallType DEF RunTask, Label
<1>3. CASE t = "restart"
  BY <1>3, StopServerType DEF RunTask, Label
<1>4. CASE t = "upgrade"
  BY <1>4, TryType DEF RunTask, Label
<1>. QED
  BY <1>1, <1>2, <1>3, <1>4 DEF Task

LEMMA CurrentTask ==
    ASSUME PlanOK, NEW n \in Node, task[n] <= Len(plan[n].tasks)
    PROVE  plan[n].tasks[task[n]] \in Task
<1>1. plan[n] \in PlanType
  BY PlanRole
<1>2. plan[n].tasks \in Seq(Task)
  BY <1>1 DEF PlanType
<1>3. task[n] \in Nat \ {0}
  BY DEF PlanOK
<1>. QED
  BY <1>2, <1>3

LEMMA MaintenanceType ==
    ASSUME StateOK, PlanOK, NEW n \in Node, MaintenanceStep(n)
    PROVE  StateOK' /\ PlanOK'
<1>0. plan' = plan
  BY DEF MaintenanceStep
<1>1. CASE Maintenance(n)
  BY <1>0, <1>1, TryType DEF Maintenance, Label, PlanOK, StateOK
<1>2. CASE MaintenanceInit(n)
  <2>1. ControlOK'
    BY <1>2, ControlSteps DEF MaintenanceInit, Label, StateOK
  <2>2. HandleOK' /\ ClusterOK'
    BY <1>2, InitializeHandleType DEF MaintenanceInit, HandleOK, ClusterOK, cluster, handle, StateOK
  <2>. QED
    BY <1>0, <1>2, <2>1, <2>2 DEF MaintenanceInit, LocalOK, ServerOK, PlanOK, local,
       server, StateOK
<1>3. CASE MaintenanceAcquire(n)
  BY <1>0, <1>3, AcquireType DEF MaintenanceAcquire, Label, PlanOK, StateOK
<1>4. CASE MaintenanceTask(n)
  <2>1. CASE task[n] <= Len(plan[n].tasks)
    <3>1. StateOK'
      BY <1>4, <2>1, CurrentTask, RunTaskType DEF MaintenanceTask
    <3>2. PlanOK'
      BY <1>0, <1>4, <2>1 DEF MaintenanceTask, PlanOK
    <3>. QED
      BY <3>1, <3>2
  <2>2. CASE ~(task[n] <= Len(plan[n].tasks))
    BY <1>0, <1>4, <2>2, TryType DEF MaintenanceTask, PlanOK, Label, StateOK
  <2>. QED
    BY <2>1, <2>2
<1>5. CASE MaintenanceStart(n)
  BY <1>0, <1>5, StartServerType DEF MaintenanceStart, Label, PlanOK, StateOK
<1>6. CASE MaintenanceSSH(n)
  BY <1>0, <1>6, WaitForSSHType DEF MaintenanceSSH, Label, PlanOK, StateOK
<1>7. CASE MaintenanceWait(n)
  <2>1. ControlOK'
    BY <1>7, ControlSteps DEF MaintenanceWait, Label, StateOK
  <2>. QED
    BY <1>0, <1>7, <2>1 DEF MaintenanceWait, LocalOK, ServerOK, ClusterOK, HandleOK,
       PlanOK, local, server, cluster, handle, StateOK
<1>. QED
  BY <1>1, <1>2, <1>3, <1>4, <1>5, <1>6, <1>7 DEF MaintenanceStep

LEMMA RestoreType ==
    ASSUME StateOK, PlanOK, NEW n \in Node, RestoreStep(n)
    PROVE  StateOK' /\ PlanOK'
<1>0. PlanOK'
  BY DEF RestoreStep, PlanOK
<1>. USE DEF StateOK
<1>1. CASE Restore(n)
  <2>1. ControlOK'
    BY <1>1, ControlSteps, TryType DEF Restore, Label
  <2>2. LocalOK'
    BY <1>1 DEF Restore, Skip, LocalOK, ServerOK, local
  <2>. QED
    BY <1>0, <1>1, <2>1, <2>2 DEF Restore, Skip, ServerOK, ClusterOK, HandleOK,
       server, cluster, handle
<1>2. CASE RestoreStop(n)
  BY <1>0, <1>2, StopServerType DEF RestoreStop, Label
<1>3. CASE RestoreImage(n)
  <2>1. ControlOK'
    BY <1>3, ControlSteps DEF RestoreImage, Label
  <2>. QED
    BY <1>0, <1>3, <2>1 DEF RestoreImage, LocalOK, ServerOK, ClusterOK, HandleOK,
       local, cluster, handle
<1>4. CASE RestoreStart(n)
  BY <1>0, <1>4, StartServerType DEF RestoreStart, Label
<1>5. CASE RestoreSSH(n)
  <2>1. ControlOK'
    BY <1>5, ControlSteps DEF RestoreSSH, Label
  <2>2. ServerOK'
    BY <1>5, SSHTimesOutType DEF RestoreSSH, ServerOK, server
  <2>3. LocalOK'
    BY <1>5 DEF RestoreSSH, LocalOK, ChangeFlag
  <2>. QED
    BY <1>0, <1>5, <2>1, <2>2, <2>3 DEF RestoreSSH, ClusterOK, HandleOK, cluster, handle
<1>. QED
  BY <1>1, <1>2, <1>3, <1>4, <1>5 DEF RestoreStep

LEMMA MetadataType ==
    ASSUME StateOK, PlanOK, NEW n \in Node, Metadata(n)
    PROVE  StateOK' /\ PlanOK'
<1>. USE DEF StateOK
<1>1. ControlOK'
  BY ControlSteps DEF Metadata, Label
<1>2. HandleOK'
  <2>1. (RewritesMetadata(n) => power[n] = "up") \in BOOLEAN
    OBVIOUS
  <2>. QED
    BY <2>1, PlanRole, InitializeType DEF Metadata, HandleOK, handle
<1>3. ClusterOK'
  BY <1>2 DEF Metadata, SetAnnotationsLabelsTaints, ClusterOK, HandleOK, cluster
<1>. QED
  BY <1>1, <1>2, <1>3 DEF Metadata, LocalOK, ServerOK, PlanOK, local, server

LEMMA InitType ==
    ASSUME Init
    PROVE  StateOK /\ PlanOK
<1>1. ControlOK
  BY DEF Init, LockInit, ControlOK, LockTypeOK, Label
<1>2. PlanOK
  BY DEF Init, PlanOK
<1>3. \A n \in Node : plan[n].initial \in PowerState
  BY <1>2, PlanRole DEF PlanType, PowerState
<1>4. LocalOK /\ ServerOK /\ ClusterOK /\ HandleOK
  BY <1>3 DEF Init, LocalOK, ServerOK, ClusterOK, HandleOK, PowerState
<1>. QED
  BY <1>1, <1>2, <1>4 DEF StateOK

LEMMA NextType ==
    ASSUME StateOK, PlanOK, [Next]_vars
    PROVE  StateOK' /\ PlanOK'
<1>1. CASE UNCHANGED vars
  BY <1>1 DEF StateOK, ControlOK, LockTypeOK, LocalOK, ServerOK, ClusterOK, HandleOK, PlanOK,
     vars, lock, local, server, cluster, handle
<1>2. ASSUME NEW n \in Node, Step(n)
      PROVE  StateOK' /\ PlanOK'
  <2>1. CASE Snapshot(n) /\ UNCHANGED <<plan, task>>
    BY <2>1, TryType DEF Snapshot, Label, PlanOK, StateOK
  <2>. QED
    BY <1>2, <2>1, ComputeType, StorageType, MaintenanceType, RestoreType, MetadataType DEF Step
<1>3. ASSUME NEW n \in Node, Boot(n)
      PROVE  StateOK' /\ PlanOK'
  BY <1>3 DEF Boot, StateOK, ControlOK, LockTypeOK, LocalOK, ServerOK, ClusterOK, HandleOK,
     PlanOK, lock, local, cluster, handle
<1>4. ASSUME NEW n \in Node, Join(n)
      PROVE  StateOK' /\ PlanOK'
  BY <1>4 DEF Join, Register, StateOK, ControlOK, LockTypeOK, LocalOK, ServerOK, ClusterOK,
     HandleOK, PlanOK, lock, local, handle
<1>5. ASSUME NEW n \in Node, MachineLeaves(n)
      PROVE  StateOK' /\ PlanOK'
  BY <1>5 DEF MachineLeaves, MachineDeleted, LeaveCluster, StateOK, ControlOK, LockTypeOK,
     LocalOK, ServerOK, ClusterOK, HandleOK, PlanOK, lock, local, handle
<1>. QED
  BY <1>1, <1>2, <1>3, <1>4, <1>5 DEF Next, Terminated

(* Whatever the nodes, the plans, the provider and the failures are, every *)
(* variable keeps its type: resourceUpdateServer never leaves its program  *)
(* points and never runs past the end of its task list.                    *)
THEOREM TypeCorrect == Spec => []TypeOK
<1>1. Init => StateOK /\ PlanOK
  BY InitType
<1>2. StateOK /\ PlanOK /\ [Next]_vars => (StateOK /\ PlanOK)'
  BY NextType
<1>3. StateOK /\ PlanOK => TypeOK
  BY TypeParts DEF StateOK
<1>. QED
  BY <1>1, <1>2, <1>3, PTL DEF Spec

=============================================================================

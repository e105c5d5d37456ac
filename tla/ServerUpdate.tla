---------------------------- MODULE ServerUpdate ----------------------------
(***************************************************************************)
(* resourceUpdateServer of flexbot/resource_flexbot_server.go: one         *)
(* terraform apply that updates several flexbot_server instances at once.  *)
(* Each instance runs the handlers snapshot, compute, storage,             *)
(* maintenance, restore and metadata, in that order; every remote call     *)
(* that changes something is a step of its own and may fail.               *)
(*                                                                         *)
(* What the update has to do is the node's plan: a record chosen in Init   *)
(* and never changed.  Program points (pc) are named handler_step.         *)
(***************************************************************************)
EXTENDS UpdateManager, RancherNode, Sequences

CONSTANT Plans      \* the updates the operator may have asked for

Task == {"cordon", "uncordon", "drain", "restart", "upgrade"}

PlanType ==
    [ provider   : Providers,           \* the same for all nodes
      role       : (SUBSET Role) \ {{}},
      initial    : {"up", "down"},      \* power state when the apply starts
      ssh        : BOOLEAN,             \* ssh_user, ssh_private_key, wait_for_ssh_timeout
      safe       : BOOLEAN,             \* safe_removal
      snapshot   : BOOLEAN,             \* HasChange("snapshot")
      compute    : BOOLEAN,             \* HasChange("compute")
      blade      : BOOLEAN,             \* ... and the assigned blade no longer matches
      powerstate : {"up", "down"},      \* power state asked for
      storage    : {"none", "image", "resize"},
      autosnap   : BOOLEAN,             \* auto_snapshot_on_update
      tasks      : Seq(Task),           \* maintenance tasks; <<>>: nothing to execute
      sync       : BOOLEAN,             \* maintenance synchronized_run
      wait       : BOOLEAN,             \* maintenance wait_for_node_timeout > 0
      restore    : BOOLEAN,             \* HasChange("restore") and restore = true
      labels     : BOOLEAN ]            \* HasChange("labels") or HasChange("taints")

ASSUME PlansAssumption == Plans \subseteq PlanType

VARIABLES
    pc,         \* where each node's goroutine is
    failed,     \* the update returned an error diagnostic
    seen,       \* local powerState: what the handler last read from UCSM
    change,     \* nodeConfig.ChangeStatus
    task,       \* the maintenance task to run next
    power,      \* UCSM: power state of the service profile
    disk        \* boot and seed LUNs: as before, incomplete, new image, snapshot

local  == <<seen, change>>
server == <<power, booted, disk>>
vars   == <<lock, plan, pc, failed, local, task, server, cluster, handle>>

Label ==
    { "snapshot",
      "compute", "compute_acquire", "compute_check", "compute_drain",
      "compute_stop", "compute_blade", "compute_start", "compute_ssh",
      "compute_uncordon", "compute_active", "compute_attributes",
      "storage", "storage_acquire", "storage_check", "storage_drain",
      "storage_leave", "storage_stop", "storage_snapshot", "storage_image",
      "storage_force", "storage_start", "storage_ssh", "storage_rejoin",
      "storage_uncordon", "storage_active",
      "maintenance", "maintenance_init", "maintenance_acquire",
      "maintenance_task", "maintenance_start", "maintenance_ssh",
      "maintenance_wait",
      "restore", "restore_stop", "restore_image", "restore_start",
      "restore_ssh",
      "metadata", "done" }

ChangeFlag == {"blade", "power", "image", "restore"}
PowerState == {"up", "down"}

TypeOK ==
    /\ LockTypeOK
    /\ plan \in [Node -> Plans]
    /\ pc \in [Node -> Label]
    /\ failed \in [Node -> BOOLEAN]
    /\ seen \in [Node -> PowerState]
    /\ change \in [Node -> SUBSET ChangeFlag]
    /\ task \in [Node -> Nat \ {0}]
    /\ power \in [Node -> PowerState]
    /\ disk \in [Node -> {"old", "none", "new", "snap"}]
    /\ booted \in [Node -> BOOLEAN]
    /\ cordoned \in [Node -> BOOLEAN]
    /\ member \in [Node -> BOOLEAN]
    /\ labelled \in [Node -> BOOLEAN]
    /\ machine \in [Node -> {"old", "leaving", "new"}]
    /\ nodeID \in [Node -> BOOLEAN]
    /\ roles \in [Node -> SUBSET Role]

Init ==
    /\ LockInit
    /\ plan \in [Node -> Plans]
    /\ \A m, n \in Node : plan[m].provider = plan[n].provider
    /\ pc = [n \in Node |-> "snapshot"]
    /\ failed = [n \in Node |-> FALSE]
    /\ seen = [n \in Node |-> "down"]
    /\ change = [n \in Node |-> {}]
    /\ task = [n \in Node |-> 1]
    /\ power = [n \in Node |-> plan[n].initial]
    /\ booted = [n \in Node |-> plan[n].initial = "up"]
    /\ disk = [n \in Node |-> "old"]
    /\ cordoned = [n \in Node |-> FALSE]
    /\ member = [n \in Node |-> TRUE]
    /\ labelled = [n \in Node |-> TRUE]
    /\ machine = [n \in Node |-> "old"]
    /\ nodeID = [n \in Node |-> FALSE]
    /\ roles = [n \in Node |-> {}]

-----------------------------------------------------------------------------
(* Control.  A handler that fails returns from the whole update.  Where it *)
(* calls UpdateManagerSetError first, the program point is in Recorded;    *)
(* the deferred release runs on every return.                              *)

Recorded ==
    { "compute_check", "compute_drain", "compute_stop", "compute_blade",
      "compute_start", "compute_ssh", "compute_uncordon", "compute_active",
      "storage_check", "storage_drain", "storage_leave", "storage_stop",
      "storage_snapshot", "storage_image", "storage_force", "storage_start",
      "storage_ssh", "storage_rejoin", "storage_uncordon", "storage_active",
      "maintenance_init", "maintenance_task", "maintenance_start",
      "maintenance_ssh", "maintenance_wait" }

Goto(n, l) ==
    /\ pc' = [pc EXCEPT ![n] = l]
    /\ UNCHANGED <<lock, failed>>

ReturnError(n) ==
    /\ pc' = [pc EXCEPT ![n] = "done"]
    /\ failed' = [failed EXCEPT ![n] = TRUE]
    /\ LastError' = IF pc[n] \in Recorded THEN ErrorAfterSet ELSE LastError
    /\ Sync' = HolderAfterRelease(n)

(* A handler returns without error; the deferred release runs, if any.     *)
EndHandler(n, l) ==
    /\ pc' = [pc EXCEPT ![n] = l]
    /\ Sync' = HolderAfterRelease(n)
    /\ UNCHANGED <<LastError, failed>>

Acquire(n, from, l) ==
    /\ pc[n] = from
    /\ \/ /\ AcquireGranted(n)
          /\ pc' = [pc EXCEPT ![n] = l]
          /\ UNCHANGED failed
       \/ /\ AcquireRefused
          /\ pc' = [pc EXCEPT ![n] = "done"]
          /\ failed' = [failed EXCEPT ![n] = TRUE]
    /\ UNCHANGED <<local, server, cluster, handle>>

(* A call that changes nothing the model keeps.                            *)
Try(n, l) ==
    /\ Goto(n, l) \/ ReturnError(n)
    /\ UNCHANGED <<local, server, cluster, handle>>

Skip(n, l) ==
    /\ Goto(n, l)
    /\ UNCHANGED <<local, server, cluster, handle>>

-----------------------------------------------------------------------------
(* The remote calls that several handlers make.                            *)
(*                                                                         *)
(* An operator named ...Bug is not part of the model: it is the definition *)
(* after it with a plausible fault, which some property has to notice.     *)

(* Takes the operational state power-off for a power state.                *)
StopServerBug(n, l) ==
    /\ power' = [power EXCEPT ![n] = "power-off"]
    /\ booted' = [booted EXCEPT ![n] = FALSE]
    /\ Goto(n, l)
    /\ UNCHANGED <<local, disk, cluster, handle>>

(* ucsm.StopServer, and shutdownServer, which ends in it.  A failed call   *)
(* may have powered the server off all the same: the graceful shutdown     *)
(* worked, or UCSM stopped answering after it.                             *)
StopServer(n, l) ==
    /\ \E p \in {power[n], "down"} :
          /\ power' = [power EXCEPT ![n] = p]
          /\ booted' = [booted EXCEPT ![n] = @ /\ p = "up"]
          /\ (p = "down" /\ Goto(n, l)) \/ ReturnError(n)
    /\ UNCHANGED <<local, disk, cluster, handle>>

(* ucsm.StartServer.  The operating system boots in its own time.          *)
StartServer(n, l) ==
    /\ \/ power' = [power EXCEPT ![n] = "up"] /\ Goto(n, l)
       \/ UNCHANGED power /\ ReturnError(n)
    /\ UNCHANGED <<local, booted, disk, cluster, handle>>

(* waitForSSH times out.  While it waits it restarts the server, ignoring  *)
(* errors, so the server may be left off.                                  *)
SSHTimesOut(n) ==
    /\ \E p \in PowerState, b \in {FALSE, booted[n]} :
          /\ power' = [power EXCEPT ![n] = p]
          /\ booted' = [booted EXCEPT ![n] = b /\ p = "up"]
    /\ UNCHANGED disk

WaitForSSH(n, l) ==
    /\ \/ (plan[n].ssh => booted[n]) /\ UNCHANGED server /\ Goto(n, l)
       \/ plan[n].ssh /\ SSHTimesOut(n) /\ ReturnError(n)
    /\ UNCHANGED <<local, cluster, handle>>

(* A call to the cluster API with effect A, or an error.  A call that      *)
(* fails may have had its effect (a drain that fails has cordoned).        *)
ClusterCall(n, A, l) ==
    /\ \/ A /\ Goto(n, l)
       \/ (A \/ UNCHANGED cluster) /\ ReturnError(n)
    /\ UNCHANGED <<local, server, handle>>

InitializeHandle(n) ==
    RancherAPIInitialize(n, plan[n].role, FALSE) /\ UNCHANGED cluster

-----------------------------------------------------------------------------
(* resourceUpdateServerSnapshot: see SnapshotFreeze for what it creates.   *)

Snapshot(n) ==
    /\ pc[n] = "snapshot"
    /\ IF plan[n].snapshot THEN Try(n, "compute") ELSE Skip(n, "compute")

-----------------------------------------------------------------------------
(* resourceUpdateServerCompute                                             *)

(* The power state is read here, before the mutex is taken.                *)
ComputeChange(n) ==
    (IF plan[n].blade THEN {"blade"} ELSE {})
        \cup (IF plan[n].powerstate # power[n] THEN {"power"} ELSE {})

Compute(n) ==
    /\ pc[n] = "compute"
    /\ IF ~plan[n].compute THEN Skip(n, "storage")
       ELSE /\ \/ /\ seen' = [seen EXCEPT ![n] = power[n]]
                  /\ change' = [change EXCEPT ![n] = @ \cup ComputeChange(n)]
                  /\ Goto(n, IF ComputeChange(n) = {} THEN "compute_attributes"
                                                      ELSE "compute_acquire")
               \/ UNCHANGED local /\ ReturnError(n)
            /\ UNCHANGED <<server, cluster, handle>>

ComputeAcquire(n) == Acquire(n, "compute_acquire", "compute_check")

(* Preflight check, cluster handle, safe_removal.                          *)
ComputeCheck(n) ==
    /\ pc[n] = "compute_check"
    /\ \/ /\ InitializeHandle(n)
          /\ ~(seen[n] = "up" /\ plan[n].safe)
          /\ Goto(n, IF seen[n] = "up" THEN "compute_drain" ELSE "compute_blade")
       \/ UNCHANGED <<cluster, handle>> /\ ReturnError(n)
    /\ UNCHANGED <<local, server>>

(* Powers off without draining.                                            *)
ComputeDrainBug(n) == pc[n] = "compute_drain" /\ Skip(n, "compute_stop")

(* The state is read once.  A worker in any other state than active is not *)
(* drained, and the handler goes on.                                       *)
ComputeDrain(n) ==
    /\ pc[n] = "compute_drain"
    /\ IF ~IsNodeWorker(n) THEN Skip(n, "compute_stop")
       ELSE \/ /\ "active" \in NodeStates(n)
               /\ ClusterCall(n, Cordon(n), "compute_stop")
            \/ NodeStates(n) \ {"active"} # {} /\ Skip(n, "compute_stop")
            \/ ReturnError(n) /\ UNCHANGED <<local, server, cluster, handle>>

ComputeStop(n) == pc[n] = "compute_stop" /\ StopServer(n, "compute_blade")

(* ucsm.UpdateServer refuses to touch a server that is powered up.         *)
ComputeBlade(n) ==
    LET next == IF plan[n].powerstate = "up" THEN "compute_start"
                                             ELSE "compute_attributes"
    IN  /\ pc[n] = "compute_blade"
        /\ \/ ("blade" \in change[n] => power[n] = "down") /\ Goto(n, next)
           \/ "blade" \in change[n] /\ ReturnError(n)
        /\ UNCHANGED <<local, server, cluster, handle>>

ComputeStart(n) == pc[n] = "compute_start" /\ StartServer(n, "compute_ssh")

ComputeSSH(n) == pc[n] = "compute_ssh" /\ WaitForSSH(n, "compute_uncordon")

ComputeUncordon(n) ==
    /\ pc[n] = "compute_uncordon"
    /\ IF IsNodeWorker(n) THEN ClusterCall(n, Uncordon(n), "compute_active")
                          ELSE Skip(n, "compute_active")

(* Wait for the cluster, and for the grace period.                         *)
ComputeActive(n) == pc[n] = "compute_active" /\ Try(n, "compute_attributes")

(* ucsm.UpdateServerAttributes runs under the mutex when it was taken; its *)
(* error is returned but not recorded.                                     *)
ComputeAttributes(n) ==
    /\ pc[n] = "compute_attributes"
    /\ EndHandler(n, "storage") \/ ReturnError(n)
    /\ UNCHANGED <<local, server, cluster, handle>>

ComputeStep(n) ==
    /\ \/ Compute(n) \/ ComputeAcquire(n) \/ ComputeCheck(n) \/ ComputeDrain(n)
       \/ ComputeStop(n) \/ ComputeBlade(n) \/ ComputeStart(n) \/ ComputeSSH(n)
       \/ ComputeUncordon(n) \/ ComputeActive(n) \/ ComputeAttributes(n)
    /\ UNCHANGED <<plan, task>>

-----------------------------------------------------------------------------
(* resourceUpdateServerStorage                                             *)

(* A new image, seed template or data disk re-images the server under the  *)
(* mutex; a new size is applied at once, with neither mutex nor SetError.  *)
Storage(n) ==
    /\ pc[n] = "storage"
    /\ CASE plan[n].storage = "none"   -> Skip(n, "maintenance")
         [] plan[n].storage = "resize" -> Try(n, "maintenance")
         [] OTHER ->
              /\ \/ /\ change' = [change EXCEPT ![n] = @ \cup {"image"}]
                    /\ Goto(n, "storage_acquire")
                    /\ UNCHANGED seen
                 \/ UNCHANGED local /\ ReturnError(n)
              /\ UNCHANGED <<server, cluster, handle>>

StorageAcquire(n) == Acquire(n, "storage_acquire", "storage_check")

(* Power state, preflight checks, safe_removal, cluster handle.            *)
StorageCheck(n) ==
    /\ pc[n] = "storage_check"
    /\ \/ /\ seen' = [seen EXCEPT ![n] = power[n]]
          /\ ~(power[n] = "up" /\ plan[n].safe)
          /\ InitializeHandle(n)
          /\ Goto(n, "storage_drain")
       \/ UNCHANGED <<seen, cluster, handle>> /\ ReturnError(n)
    /\ UNCHANGED <<change, server>>

StorageDrain(n) ==
    /\ pc[n] = "storage_drain"
    /\ IF seen[n] = "up" /\ IsNodeWorker(n)
       THEN ClusterCall(n, Cordon(n), "storage_leave")
       ELSE Skip(n, "storage_leave")

StorageLeave(n) ==
    LET next == IF seen[n] = "up" THEN "storage_stop" ELSE "storage_snapshot"
    IN  /\ pc[n] = "storage_leave"
        /\ IF ReRegisters(n) THEN ClusterCall(n, NodeDelete(n), next)
                             ELSE Skip(n, next)

(* Leaves the server running while its LUNs are replaced.                  *)
StorageStopBug(n) == pc[n] = "storage_stop" /\ Skip(n, "storage_snapshot")

StorageStop(n) == pc[n] = "storage_stop" /\ StopServer(n, "storage_snapshot")

StorageSnapshot(n) ==
    /\ pc[n] = "storage_snapshot"
    /\ IF plan[n].autosnap THEN Try(n, "storage_image") ELSE Skip(n, "storage_image")

(* Delete the boot and seed LUNs and create them again, a few times over   *)
(* (StorageRetryAttempts); when every attempt failed the LUNs are as they  *)
(* were, incomplete, or new after all (see BootStorage).                   *)
StorageImage(n) ==
    LET next == IF RkApi(n) THEN "storage_force" ELSE "storage_start"
    IN  /\ pc[n] = "storage_image"
        /\ \/ disk' = [disk EXCEPT ![n] = "new"] /\ Goto(n, next)
           \/ \E d \in {disk[n], "none", "new"} :
                 disk' = [disk EXCEPT ![n] = d] /\ ReturnError(n)
        /\ UNCHANGED <<local, power, booted, cluster, handle>>

StorageForce(n) ==
    pc[n] = "storage_force" /\ ClusterCall(n, ForceDelete(n), "storage_start")

(* The server is started whatever powerstate asks for.                     *)
StorageStart(n) == pc[n] = "storage_start" /\ StartServer(n, "storage_ssh")

(* An error of waitForSSH is dropped: only its success runs the wait for   *)
(* the cluster and ssh_node_init_commands, whose errors are returned.      *)
StorageSSH(n) ==
    /\ pc[n] = "storage_ssh"
    /\ \/ ~plan[n].ssh /\ UNCHANGED server /\ Goto(n, "storage_rejoin")
       \/ plan[n].ssh /\ SSHTimesOut(n) /\ Goto(n, "storage_rejoin")
       \/ /\ plan[n].ssh /\ booted[n] /\ UNCHANGED server
          /\ Goto(n, "storage_rejoin") \/ ReturnError(n)
    /\ UNCHANGED <<local, cluster, handle>>

StorageRejoin(n) ==
    /\ pc[n] = "storage_rejoin"
    /\ IF ReRegisters(n)
       THEN \/ NodeWaitUntilDeleted(n) /\ GetID(n) /\ Goto(n, "storage_uncordon")
            \/ UNCHANGED handle /\ ReturnError(n)
       ELSE UNCHANGED handle /\ Goto(n, "storage_uncordon")
    /\ UNCHANGED <<local, server, cluster>>

StorageUncordon(n) ==
    /\ pc[n] = "storage_uncordon"
    /\ IF IsNodeWorker(n) /\ IsProviderRKE1(n)
       THEN ClusterCall(n, Uncordon(n), "storage_active")
       ELSE Skip(n, "storage_active")

(* Wait for the node state active, and for the grace period.               *)
StorageActive(n) ==
    /\ pc[n] = "storage_active"
    /\ \/ NodeWaitForState(n, {"active"}) /\ EndHandler(n, "maintenance")
       \/ ReturnError(n)
    /\ UNCHANGED <<local, server, cluster, handle>>

StorageStep(n) ==
    /\ \/ Storage(n) \/ StorageAcquire(n) \/ StorageCheck(n) \/ StorageDrain(n)
       \/ StorageLeave(n) \/ StorageStop(n) \/ StorageSnapshot(n)
       \/ StorageImage(n) \/ StorageForce(n) \/ StorageStart(n)
       \/ StorageSSH(n) \/ StorageRejoin(n) \/ StorageUncordon(n)
       \/ StorageActive(n)
    /\ UNCHANGED <<plan, task>>

-----------------------------------------------------------------------------
(* resourceUpdateServerMaintenance                                         *)

(* A server that is down is passed over.  The cluster handle is made       *)
(* before the mutex is taken: an error there is recorded without it.       *)
Maintenance(n) ==
    /\ pc[n] = "maintenance"
    /\ IF plan[n].tasks = <<>> THEN Skip(n, "restore")
       ELSE IF power[n] = "down" THEN Try(n, "restore")
       ELSE Try(n, "maintenance_init")
    /\ UNCHANGED task

MaintenanceInit(n) ==
    /\ pc[n] = "maintenance_init"
    /\ \/ /\ InitializeHandle(n)
          /\ Goto(n, IF plan[n].sync THEN "maintenance_acquire" ELSE "maintenance_task")
       \/ UNCHANGED <<cluster, handle>> /\ ReturnError(n)
    /\ UNCHANGED <<local, task, server>>

MaintenanceAcquire(n) ==
    Acquire(n, "maintenance_acquire", "maintenance_task") /\ UNCHANGED task

RunTask(n, t) ==
    \/ t \in {"cordon", "drain"} /\ IsNodeWorker(n)
       /\ ClusterCall(n, Cordon(n), "maintenance_task")
    \/ t = "uncordon" /\ IsNodeWorker(n)
       /\ ClusterCall(n, Uncordon(n), "maintenance_task")
    \/ t \in {"cordon", "drain", "uncordon"} /\ ~IsNodeWorker(n)
       /\ Skip(n, "maintenance_task")
    \/ t = "restart" /\ StopServer(n, "maintenance_start")
    \/ t = "upgrade" /\ Try(n, "maintenance_task")

MaintenanceTask(n) ==
    /\ pc[n] = "maintenance_task"
    /\ IF task[n] <= Len(plan[n].tasks)
       THEN /\ RunTask(n, plan[n].tasks[task[n]])
            /\ task' = [task EXCEPT ![n] = @ + 1]
       ELSE Skip(n, "maintenance_wait") /\ UNCHANGED task

MaintenanceStart(n) ==
    pc[n] = "maintenance_start" /\ StartServer(n, "maintenance_ssh") /\ UNCHANGED task

MaintenanceSSH(n) ==
    pc[n] = "maintenance_ssh" /\ WaitForSSH(n, "maintenance_task") /\ UNCHANGED task

(* The states to wait for depend on the last task only.                    *)
StatesAfter(t) ==
    CASE t = "cordon"   -> {"cordoned"}
      [] t = "uncordon" -> {"active"}
      [] t = "drain"    -> {"cordoned", "drained"}
      [] OTHER          -> {"cordoned", "drained", "active"}

MaintenanceWait(n) ==
    LET last == plan[n].tasks[Len(plan[n].tasks)]
    IN  /\ pc[n] = "maintenance_wait"
        /\ \/ /\ plan[n].wait => NodeWaitForState(n, StatesAfter(last))
              /\ EndHandler(n, "restore")
           \/ ReturnError(n)
        /\ UNCHANGED <<local, task, server, cluster, handle>>

MaintenanceStep(n) ==
    /\ \/ Maintenance(n) \/ MaintenanceInit(n) \/ MaintenanceAcquire(n)
       \/ MaintenanceTask(n) \/ MaintenanceStart(n) \/ MaintenanceSSH(n)
       \/ MaintenanceWait(n)
    /\ UNCHANGED plan

-----------------------------------------------------------------------------
(* resourceUpdateServerRestore: neither Acquire nor SetError, and the node *)
(* is neither cordoned nor drained.                                        *)

Restore(n) ==
    /\ pc[n] = "restore"
    /\ IF ~plan[n].restore THEN Skip(n, "metadata")
       ELSE /\ \/ /\ seen' = [seen EXCEPT ![n] = power[n]]
                  /\ ~(power[n] = "up" /\ plan[n].safe)
                  /\ Goto(n, IF power[n] = "up" THEN "restore_stop" ELSE "restore_image")
               \/ UNCHANGED seen /\ ReturnError(n)
            /\ UNCHANGED <<change, server, cluster, handle>>

RestoreStop(n) == pc[n] = "restore_stop" /\ StopServer(n, "restore_image")

(* ontap.RestoreSnapshot, then LunRestoreMapping.                          *)
RestoreImage(n) ==
    /\ pc[n] = "restore_image"
    /\ \/ disk' = [disk EXCEPT ![n] = "snap"] /\ (Goto(n, "restore_start") \/ ReturnError(n))
       \/ UNCHANGED disk /\ ReturnError(n)
    /\ UNCHANGED <<local, power, booted, cluster, handle>>

RestoreStart(n) == pc[n] = "restore_start" /\ StartServer(n, "restore_ssh")

RestoreSSH(n) ==
    /\ pc[n] = "restore_ssh"
    /\ \/ /\ plan[n].ssh => booted[n]
          /\ change' = [change EXCEPT ![n] = @ \cup {"restore"}]
          /\ Goto(n, "metadata")
          /\ UNCHANGED server
       \/ plan[n].ssh /\ SSHTimesOut(n) /\ UNCHANGED change /\ ReturnError(n)
    /\ UNCHANGED <<seen, cluster, handle>>

RestoreStep(n) ==
    /\ \/ Restore(n) \/ RestoreStop(n) \/ RestoreImage(n) \/ RestoreStart(n)
       \/ RestoreSSH(n)
    /\ UNCHANGED <<plan, task>>

-----------------------------------------------------------------------------
(* The end of resourceUpdateServer.  After a change of blade, image or a   *)
(* restore the cluster's view of the node is written again (for a server   *)
(* that is up after waiting for the node); otherwise only changed labels   *)
(* and taints are.  The resource is read back last, its errors dropped.    *)

(* Compares the flags instead of masking them.                             *)
RewritesMetadataBug(n) == change[n] \in {{"blade"}, {"image"}, {"restore"}}

RewritesMetadata(n) == change[n] \cap {"blade", "image", "restore"} # {}

Metadata(n) ==
    /\ pc[n] = "metadata"
    /\ IF RewritesMetadata(n) \/ plan[n].labels
       THEN \/ /\ RancherAPIInitialize(n, plan[n].role, RewritesMetadata(n) => power[n] = "up")
               /\ SetAnnotationsLabelsTaints(n)
               /\ Goto(n, "done")
            \/ UNCHANGED <<cluster, handle>> /\ ReturnError(n)
       ELSE UNCHANGED <<cluster, handle>> /\ Goto(n, "done")
    /\ UNCHANGED <<plan, task, local, server>>

-----------------------------------------------------------------------------
(* External: a server that is powered up with complete LUNs boots; the     *)
(* cluster agent of a system booted from a new image or from a snapshot    *)
(* registers the node (a running agent whose node was deleted does not).   *)
Boot(n) ==
    /\ power[n] = "up" /\ ~booted[n] /\ disk[n] # "none"
    /\ booted' = [booted EXCEPT ![n] = TRUE]
    /\ UNCHANGED <<lock, plan, pc, failed, local, task, power, disk, cluster, handle>>

Join(n) ==
    /\ disk[n] \in {"new", "snap"}
    /\ Register(n)
    /\ UNCHANGED <<lock, plan, pc, failed, local, task, power, disk>>

MachineLeaves(n) ==
    /\ MachineDeleted(n)
    /\ UNCHANGED <<lock, plan, pc, failed, local, task, power, disk>>

Step(n) ==
    \/ Snapshot(n) /\ UNCHANGED <<plan, task>>
    \/ ComputeStep(n)
    \/ StorageStep(n)
    \/ MaintenanceStep(n)
    \/ RestoreStep(n)
    \/ Metadata(n)

Terminated ==
    /\ \A n \in Node : pc[n] = "done"
    /\ UNCHANGED vars

Next ==
    \/ \E n \in Node : Step(n) \/ Boot(n) \/ Join(n) \/ MachineLeaves(n)
    \/ Terminated

Spec == Init /\ [][Next]_vars

(* Goroutines that can run do run; nothing is assumed of servers booting   *)
(* or of nodes joining, since every wait in the code has a timeout.        *)
FairSpec == Spec /\ \A n \in Node : WF_vars(Step(n))

=============================================================================

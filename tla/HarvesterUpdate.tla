--------------------------- MODULE HarvesterUpdate ---------------------------
(***************************************************************************)
(* resourceUpdateHarvesterNode of flexbot/resource_flexbot_harvester_node  *)
(* .go, with the calls it makes to the Harvester cluster (pkg/rancher      *)
(* /harvester.go and harvester-client.go).                                 *)
(***************************************************************************)
EXTENDS Hypervisor

-----------------------------------------------------------------------------
(* The Harvester API.  Without it every call below does nothing.           *)

(* KubeletReady; a node that is not found (404) is not ready.              *)
IsNodeReady(n) == os[n] = "running" /\ member[n]

(* Requests go out when /ping answers.  When it does not, IsNodeReady and  *)
(* DeleteNode look into a response that does not exist.                    *)
ApiUnreachable == Panic /\ UNCHANGED <<local, node>>

(* Wait until the node is ready, or time out.                              *)
WaitUntilReady(n, l) ==
    \/ /\ (IsNodeReady(n) /\ Goto(n, l)) \/ ReturnError(n)
       /\ UNCHANGED <<local, node>>
    \/ ApiUnreachable

HarvesterAPIInitialize(n, waitForNode, l) ==
    IF provider.rancher /\ waitForNode /\ provider.wait
    THEN WaitUntilReady(n, l)
    ELSE Skip(n, l)

(* Loops that ask for the mode until it is reached, within                 *)
(* wait_for_node_timeout: if that is 0 they fail before the first request. *)
(* Disable looks for "completed" only, so it passes over a node whose      *)
(* maintenance is still being entered.                                     *)

(* Does not wait until the node has been evacuated.                        *)
EnableMaintainanceModeBug(n, l) ==
    /\ RequestMaintenance(n) /\ Goto(n, l)
    /\ UNCHANGED <<local, power, os, disk, member>>

EnableMaintainanceMode(n, l) ==
    /\ \/ ~provider.rancher /\ Goto(n, l) /\ UNCHANGED maint
       \/ /\ provider.rancher /\ provider.wait
          /\ \/ Maintained(n) /\ Goto(n, l) /\ UNCHANGED maint
             \/ ~Maintained(n) /\ RequestMaintenance(n) /\ Goto(n, pc[n])
       \/ provider.rancher /\ (RequestMaintenance(n) \/ UNCHANGED maint) /\ ReturnError(n)
    /\ UNCHANGED <<local, power, os, disk, member>>

(* Takes the request for its effect.                                       *)
DisableMaintainanceModeBug(n, l) == Skip(n, l)

DisableMaintainanceMode(n, l) ==
    /\ \/ ~provider.rancher /\ Goto(n, l) /\ UNCHANGED maint
       \/ /\ provider.rancher /\ provider.wait
          /\ \/ ~Maintained(n) /\ Goto(n, l) /\ UNCHANGED maint
             \/ Maintained(n) /\ CancelMaintenance(n) /\ Goto(n, pc[n])
       \/ provider.rancher /\ (CancelMaintenance(n) \/ UNCHANGED maint) /\ ReturnError(n)
    /\ UNCHANGED <<local, power, os, disk, member>>

(* The Node object goes, with its cordon and its annotations.              *)
DeleteNode(n, l) ==
    \/ /\ IF provider.rancher
          THEN \/ /\ member' = [member EXCEPT ![n] = FALSE]
                  /\ CancelMaintenance(n)
                  /\ Goto(n, l) \/ ReturnError(n)
               \/ UNCHANGED <<member, maint>> /\ ReturnError(n)
          ELSE UNCHANGED <<member, maint>> /\ Goto(n, l)
       /\ UNCHANGED <<local, power, os, disk>>
    \/ provider.rancher /\ ApiUnreachable

-----------------------------------------------------------------------------
(* resourceUpdateHarvesterNodeCompute                                      *)

NodeCompute(n) == pc[n] = "compute" /\ ReadStates(n)

NodeComputeAcquire(n) == Acquire(n, "compute_acquire", "compute_check")

(* Preflight check of a new blade; a server whose operational state is     *)
(* "ok" is awaited in the cluster.                                         *)
NodeComputeCheck(n) ==
    /\ pc[n] = "compute_check"
    /\ \/ seen[n] = "ok" /\ HarvesterAPIInitialize(n, TRUE, "compute_maintain")
       \/ seen[n] = "degraded" /\ Skip(n, "compute_stop")
       \/ seen[n] = "down" /\ Skip(n, "compute_blade")
       \/ plan[n].blade /\ ReturnError(n) /\ UNCHANGED <<local, node>>

NodeComputeMaintain(n) ==
    pc[n] = "compute_maintain" /\ EnableMaintainanceMode(n, "compute_stop")

NodeComputeStop(n) == pc[n] = "compute_stop" /\ StopServer(n, "compute_blade")

NodeComputeBlade(n) == pc[n] = "compute_blade" /\ ChangeBlade(n)

NodeComputeStart(n) == pc[n] = "compute_start" /\ StartServer(n, "compute_wait")

NodeComputeWait(n) == pc[n] = "compute_wait" /\ WaitForSSH(n, "compute_ready")

NodeComputeReady(n) ==
    pc[n] = "compute_ready" /\ HarvesterAPIInitialize(n, TRUE, "compute_resume")

NodeComputeResume(n) ==
    pc[n] = "compute_resume" /\ DisableMaintainanceMode(n, "compute_grace")

(* The node has to be ready when the grace period is over.                 *)
NodeComputeGrace(n) ==
    /\ pc[n] = "compute_grace"
    /\ IF provider.rancher /\ provider.grace
       THEN WaitUntilReady(n, "compute_attributes")
       ELSE Skip(n, "compute_attributes")

NodeComputeAttributes(n) == pc[n] = "compute_attributes" /\ ChangeAttributes(n)

NodeComputeStep(n) ==
    \/ NodeCompute(n) \/ NodeComputeAcquire(n) \/ NodeComputeCheck(n)
    \/ NodeComputeMaintain(n) \/ NodeComputeStop(n) \/ NodeComputeBlade(n)
    \/ NodeComputeStart(n) \/ NodeComputeWait(n) \/ NodeComputeReady(n)
    \/ NodeComputeResume(n) \/ NodeComputeGrace(n) \/ NodeComputeAttributes(n)

-----------------------------------------------------------------------------
(* resourceUpdateHarvesterNodeStorage                                      *)

NodeStorage(n) ==
    /\ pc[n] = "storage"
    /\ IF plan[n].storage THEN Try(n, "storage_acquire") ELSE Skip(n, "done")

NodeStorageAcquire(n) == Acquire(n, "storage_acquire", "storage_check")

(* States, preflight checks, safe_removal.                                 *)
NodeStorageCheck(n) ==
    /\ pc[n] = "storage_check"
    /\ \/ \E r \in Reading(n) :
             /\ ~(r = "ok" /\ plan[n].safe)
             /\ seen' = [seen EXCEPT ![n] = r]
             /\ Goto(n, IF r = "ok" THEN "storage_find" ELSE "storage_leave")
       \/ UNCHANGED seen /\ ReturnError(n)
    /\ UNCHANGED <<probe, streak, node>>

(* The node is looked up and awaited.  If that fails the error is dropped, *)
(* and the node goes without maintenance.                                  *)
NodeStorageFind(n) ==
    /\ pc[n] = "storage_find"
    /\ \/ (provider.rancher => IsNodeReady(n)) /\ Skip(n, "storage_maintain")
       \/ provider.rancher /\ Skip(n, "storage_leave")
       \/ provider.rancher /\ ApiUnreachable

NodeStorageMaintain(n) ==
    pc[n] = "storage_maintain" /\ EnableMaintainanceMode(n, "storage_leave")

NodeStorageLeave(n) ==
    /\ pc[n] = "storage_leave"
    /\ DeleteNode(n, IF seen[n] = "down" THEN "storage_image" ELSE "storage_stop")

(* Replaces the LUNs under a server that is not "ok".                      *)
NodeStorageStopBug(n) ==
    /\ pc[n] = "storage_stop"
    /\ IF seen[n] = "ok" THEN StopServer(n, "storage_image") ELSE Skip(n, "storage_image")

NodeStorageStop(n) == pc[n] = "storage_stop" /\ StopServer(n, "storage_image")

NodeStorageImage(n) == pc[n] = "storage_image" /\ Reimage(n)

NodeStorageStart(n) == pc[n] = "storage_start" /\ StartServer(n, "storage_network")

NodeStorageNetwork(n) ==
    /\ pc[n] = "storage_network"
    /\ (os[n] = "running" /\ Goto(n, "storage_installer")) \/ ReturnError(n)
    /\ UNCHANGED <<local, node>>

(* The installer ends by shutting the server down: operational state       *)
(* "power-off", while the service profile still asks for power.            *)
NodeStorageInstaller(n) ==
    /\ pc[n] = "storage_installer"
    /\ (os[n] = "halted" /\ Goto(n, "storage_off")) \/ ReturnError(n)
    /\ UNCHANGED <<local, node>>

(* Remaps the LUNs without waiting for the power state.                    *)
NodeStorageOffBug(n) ==
    /\ pc[n] = "storage_off"
    /\ StopServer(n, "storage_remap") \/ Skip(n, "storage_remap")

(* An error of StopServer is dropped: waitForPowerState tells.             *)
NodeStorageOff(n) == pc[n] = "storage_off" /\ StopServer(n, "storage_remap")

(* ontap.RemapHarvesterStorage: the boot LUN takes the place of the        *)
(* bootstrap LUN (see BootStorage).                                        *)
NodeStorageRemap(n) ==
    /\ pc[n] = "storage_remap"
    /\ \/ disk' = [disk EXCEPT ![n] = "new"] /\ (Goto(n, "storage_restart") \/ ReturnError(n))
       \/ \E d \in {disk[n], "none"} : disk' = [disk EXCEPT ![n] = d] /\ ReturnError(n)
    /\ UNCHANGED <<local, power, os, maint, member>>

NodeStorageRestart(n) == pc[n] = "storage_restart" /\ StartServer(n, "storage_wait")

(* waitForSSH, then ssh_node_init_commands.                                *)
NodeStorageWait(n) ==
    /\ pc[n] = "storage_wait"
    /\ \/ WaitForSSH(n, "storage_ready")
       \/ plan[n].ssh /\ os[n] = "running" /\ ReturnError(n) /\ UNCHANGED <<local, node>>

(* The error of RancherAPIInitialize is overwritten by that of the wait    *)
(* for the grace period, if there is one; both are about a ready node.     *)
NodeStorageReady(n) ==
    LET awaited == provider.rancher /\ (provider.wait \/ provider.grace)
    IN  /\ pc[n] = "storage_ready"
        /\ \/ /\ awaited => IsNodeReady(n)
              /\ EndHandler(n, "done")
              /\ UNCHANGED <<local, node>>
           \/ awaited /\ ReturnError(n) /\ UNCHANGED <<local, node>>
           \/ awaited /\ ApiUnreachable

NodeStorageStep(n) ==
    \/ NodeStorage(n) \/ NodeStorageAcquire(n) \/ NodeStorageCheck(n)
    \/ NodeStorageFind(n) \/ NodeStorageMaintain(n) \/ NodeStorageLeave(n)
    \/ NodeStorageStop(n) \/ NodeStorageImage(n) \/ NodeStorageStart(n)
    \/ NodeStorageNetwork(n) \/ NodeStorageInstaller(n) \/ NodeStorageOff(n)
    \/ NodeStorageRemap(n) \/ NodeStorageRestart(n) \/ NodeStorageWait(n)
    \/ NodeStorageReady(n)

NodeStep(n) ==
    /\ plan[n].kind = "harvester"
    /\ NodeComputeStep(n) \/ NodeStorageStep(n)

-----------------------------------------------------------------------------
(* External: the cluster evacuates a node for maintenance; the installer   *)
(* ends; a new system joins the cluster.                                   *)
NodeInstalled(n) ==
    /\ plan[n].kind = "harvester" /\ disk[n] = "installer" /\ os[n] = "running"
    /\ disk' = [disk EXCEPT ![n] = "installed"]
    /\ os' = [os EXCEPT ![n] = "halted"]
    /\ UNCHANGED <<pc, failed, lock, local, power, maint, member>>

NodeJoins(n) ==
    /\ disk[n] = "new" /\ os[n] = "running" /\ ~member[n]
    /\ member' = [member EXCEPT ![n] = TRUE]
    /\ UNCHANGED <<pc, failed, lock, local, power, os, disk, maint>>

=============================================================================

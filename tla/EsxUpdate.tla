------------------------------ MODULE EsxUpdate ------------------------------
(***************************************************************************)
(* resourceUpdateEsxHost of flexbot/resource_flexbot_esx_host.go, with the *)
(* calls it makes to the SDK of the host (pkg/vmware).                     *)
(***************************************************************************)
EXTENDS Hypervisor

VMwareApi == provider.vmware = "enabled"

-----------------------------------------------------------------------------
(* The SDK of the host.                                                    *)

(* A host in maintenance mode stays in it; otherwise the task is awaited.  *)
EnterMaintenanceMode(n, l) ==
    /\ \/ Maintained(n) /\ Goto(n, l) /\ UNCHANGED maint
       \/ ~Maintained(n) /\ RequestMaintenance(n) /\ Goto(n, pc[n])
       \/ (RequestMaintenance(n) \/ UNCHANGED maint) /\ ReturnError(n)
    /\ UNCHANGED <<local, power, os, disk, member>>

(* Leaves the host in maintenance.                                         *)
ExitMaintenanceModeBug(n, l) == Try(n, l)

ExitMaintenanceMode(n, l) ==
    /\ \/ ~Maintained(n) /\ Goto(n, l) /\ UNCHANGED maint
       \/ Maintained(n) /\ CancelMaintenance(n) /\ (Goto(n, l) \/ ReturnError(n))
       \/ UNCHANGED maint /\ ReturnError(n)
    /\ UNCHANGED <<local, power, os, disk, member>>

(* Refused unless the host is in maintenance mode.  UCS then reports       *)
(* "power-off" while the service profile still asks for power.             *)
ShutdownHost(n, l) ==
    /\ \/ Maintained(n) /\ os' = [os EXCEPT ![n] = "halted"] /\ (Goto(n, l) \/ ReturnError(n))
       \/ UNCHANGED os /\ ReturnError(n)
    /\ UNCHANGED <<local, power, disk, maint, member>>

(* The state "connected".  The installer runs its scripts for less than 60 *)
(* seconds with the SDK up, as the comment in waitForEsxHost has it.       *)
Connected(n) ==
    /\ os[n] = "running"
    /\ disk[n] = "installer" => streak[n] < Probes - 1

-----------------------------------------------------------------------------
(* waitForEsxHost: the host is probed for 60 seconds, over and over, until *)
(* the last of the probes finds it connected.  A probe whose connection to *)
(* the SDK fails does not break off the 60 seconds, a state other than     *)
(* "connected" does.                                                       *)

(* Does not start counting again after the last probe.                     *)
ProbeConnectedBug(n, l) ==
    /\ Connected(n)
    /\ streak' = [streak EXCEPT ![n] = IF @ < Probes THEN @ + 1 ELSE @]
    /\ probe' = [probe EXCEPT ![n] = @ + 1]
    /\ Goto(n, IF probe[n] + 1 >= Probes THEN l ELSE pc[n])

ProbeConnected(n, l) ==
    /\ Connected(n)
    /\ streak' = [streak EXCEPT ![n] = IF @ < Probes THEN @ + 1 ELSE @]
    /\ probe' = [probe EXCEPT ![n] = (@ + 1) % Probes]
    /\ Goto(n, IF probe[n] + 1 = Probes THEN l ELSE pc[n])

ProbeFailed(n) ==
    /\ streak' = [streak EXCEPT ![n] = 0]
    /\ probe' = [probe EXCEPT ![n] = (@ + 1) % Probes]
    /\ Goto(n, pc[n])

ProbeDisconnected(n) ==
    /\ streak' = [streak EXCEPT ![n] = 0]
    /\ probe' = [probe EXCEPT ![n] = 0]
    /\ Goto(n, pc[n])

(* The timeout is read from the vmware_api block, which is optional: there *)
(* is none to read from if it is absent.  Without the API nothing is       *)
(* awaited.                                                                *)
WaitForHost(n, l) ==
    \/ /\ VMwareApi
       /\ ProbeConnected(n, l) \/ ProbeFailed(n) \/ ProbeDisconnected(n)
       /\ UNCHANGED <<seen, node>>
    \/ provider.vmware = "disabled" /\ Skip(n, l)
    \/ provider.vmware = "absent" /\ Panic /\ UNCHANGED <<local, node>>

GiveUp(n) ==
    /\ plan[n].kind = "esx" /\ pc[n] \in {"compute_wait", "storage_wait"}
    /\ VMwareApi
    /\ ReturnError(n)
    /\ probe' = [probe EXCEPT ![n] = 0]
    /\ streak' = [streak EXCEPT ![n] = 0]
    /\ UNCHANGED <<seen, node>>

(* shutdownEsxHost: maintenance mode, shutdown, wait for power-off.        *)
ShutdownStep(n, maintain, halt, stop) ==
    \/ pc[n] = maintain /\ IF VMwareApi THEN EnterMaintenanceMode(n, halt) ELSE Skip(n, stop)
    \/ pc[n] = halt /\ ShutdownHost(n, stop)

-----------------------------------------------------------------------------
(* resourceUpdateEsxHostCompute                                            *)

HostCompute(n) == pc[n] = "compute" /\ ReadStates(n)

HostComputeAcquire(n) == Acquire(n, "compute_acquire", "compute_check")

HostComputeCheck(n) ==
    /\ pc[n] = "compute_check"
    /\ \/ Goto(n, IF seen[n] = "ok" THEN "compute_maintain"
                   ELSE IF seen[n] = "degraded" THEN "compute_stop"
                   ELSE "compute_blade")
       \/ plan[n].blade /\ ReturnError(n)
    /\ UNCHANGED <<local, node>>

HostComputeShutdown(n) ==
    ShutdownStep(n, "compute_maintain", "compute_halt", "compute_stop")

HostComputeStop(n) == pc[n] = "compute_stop" /\ StopServer(n, "compute_blade")

HostComputeBlade(n) == pc[n] = "compute_blade" /\ ChangeBlade(n)

HostComputeStart(n) == pc[n] = "compute_start" /\ StartServer(n, "compute_wait")

HostComputeWait(n) == pc[n] = "compute_wait" /\ WaitForHost(n, "compute_resume")

HostComputeResume(n) ==
    /\ pc[n] = "compute_resume"
    /\ IF VMwareApi THEN ExitMaintenanceMode(n, "compute_attributes")
                    ELSE Skip(n, "compute_attributes")

HostComputeAttributes(n) == pc[n] = "compute_attributes" /\ ChangeAttributes(n)

HostComputeStep(n) ==
    \/ HostCompute(n) \/ HostComputeAcquire(n) \/ HostComputeCheck(n)
    \/ HostComputeShutdown(n) \/ HostComputeStop(n) \/ HostComputeBlade(n)
    \/ HostComputeStart(n) \/ HostComputeWait(n) \/ HostComputeResume(n)
    \/ HostComputeAttributes(n)

-----------------------------------------------------------------------------
(* resourceUpdateEsxHostStorage                                            *)

HostStorage(n) ==
    pc[n] = "storage" /\ Skip(n, IF plan[n].storage THEN "storage_acquire" ELSE "done")

HostStorageAcquire(n) == Acquire(n, "storage_acquire", "storage_check")

(* Preflight check, states, safe_removal.  The preflight check loses the   *)
(* errors of a missing aggregate and of a missing xorriso.                 *)
HostStorageCheck(n) ==
    /\ pc[n] = "storage_check"
    /\ \/ \E r \in Reading(n) :
             /\ ~(r = "ok" /\ plan[n].safe)
             /\ seen' = [seen EXCEPT ![n] = r]
             /\ Goto(n, IF r = "ok" THEN "storage_maintain"
                        ELSE IF r = "degraded" THEN "storage_stop"
                        ELSE "storage_image")
       \/ UNCHANGED seen /\ ReturnError(n)
    /\ UNCHANGED <<probe, streak, node>>

HostStorageShutdown(n) ==
    ShutdownStep(n, "storage_maintain", "storage_halt", "storage_stop")

HostStorageStop(n) == pc[n] = "storage_stop" /\ StopServer(n, "storage_image")

HostStorageImage(n) == pc[n] = "storage_image" /\ Reimage(n)

HostStorageStart(n) == pc[n] = "storage_start" /\ StartServer(n, "storage_wait")

HostStorageWait(n) == pc[n] = "storage_wait" /\ WaitForHost(n, "storage_ready")

HostStorageReady(n) ==
    /\ pc[n] = "storage_ready"
    /\ EndHandler(n, "done")
    /\ UNCHANGED <<local, node>>

HostStorageStep(n) ==
    \/ HostStorage(n) \/ HostStorageAcquire(n) \/ HostStorageCheck(n)
    \/ HostStorageShutdown(n) \/ HostStorageStop(n) \/ HostStorageImage(n)
    \/ HostStorageStart(n) \/ HostStorageWait(n) \/ HostStorageReady(n)

HostStep(n) ==
    /\ plan[n].kind = "esx"
    /\ HostComputeStep(n) \/ HostStorageStep(n) \/ GiveUp(n)

-----------------------------------------------------------------------------
(* External: the installer ends with a restart into the new system.        *)
HostInstalled(n) ==
    /\ plan[n].kind = "esx" /\ disk[n] = "installer" /\ os[n] = "running"
    /\ disk' = [disk EXCEPT ![n] = "new"]
    /\ os' = [os EXCEPT ![n] = "booting"]
    /\ maint' = [maint EXCEPT ![n] = "off"]
    /\ UNCHANGED <<pc, failed, lock, local, power, member>>

=============================================================================

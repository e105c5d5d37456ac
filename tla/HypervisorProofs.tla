--------------------------- MODULE HypervisorProofs ---------------------------
(***************************************************************************)
(* The updates of harvester nodes and ESX hosts, for every set of nodes,   *)
(* every set of plans, every provider and any number of probes: proofs of  *)
(* TypeOK, OffBeforeRewrite, EvacuatedBeforeOff and OkMeansInService, and  *)
(* with synchronized_updates of the refinement of Rollout.                 *)
(***************************************************************************)
EXTENDS HypervisorUpdateProperties, TLAPS

-----------------------------------------------------------------------------
(* The type of the state in four parts.                                    *)

ConfigOK == provider \in Providers /\ plan \in [Node -> Plans]

ControlOK ==
    /\ LockTypeOK
    /\ pc \in [Node -> Label]
    /\ failed \in [Node -> BOOLEAN]

LocalOK ==
    /\ seen \in [Node -> {"down", "degraded", "ok"}]
    /\ probe \in [Node -> 0 .. Probes - 1]
    /\ streak \in [Node -> 0 .. Probes]

NodeOK ==
    /\ power \in [Node -> {"up", "down"}]
    /\ os \in [Node -> {"halted", "booting", "running"}]
    /\ disk \in [Node -> Disk]
    /\ maint \in [Node -> {"off", "running", "completed"}]
    /\ member \in [Node -> BOOLEAN]

LEMMA TypeParts ==
    TypeOK <=> ConfigOK /\ ControlOK /\ LocalOK /\ NodeOK
BY DEF TypeOK, ConfigOK, ControlOK, LocalOK, NodeOK

LEMMA ControlSteps ==
    ASSUME ControlOK, NEW n \in Node, NEW l \in Label
    PROVE  /\ Goto(n, l) => ControlOK'
           /\ Goto(n, pc[n]) => ControlOK'
           /\ ReturnError(n) => ControlOK'
           /\ EndHandler(n, l) => ControlOK'
           /\ Panic => ControlOK'
<1>1. "done" \in Label
  BY DEF Label
<1>2. HolderAfterRelease(n) \in Node \cup {NoNode}
  BY DEF ControlOK, LockTypeOK, HolderAfterRelease
<1>3. ErrorAfterSet \in BOOLEAN
  BY DEF ErrorAfterSet
<1>4. Goto(n, l) => ControlOK'
  BY DEF ControlOK, LockTypeOK, Goto, lock
<1>5. Goto(n, pc[n]) => ControlOK'
  BY DEF ControlOK, LockTypeOK, Goto, lock
<1>6. ReturnError(n) => ControlOK'
  BY <1>1, <1>2, <1>3 DEF ControlOK, LockTypeOK, ReturnError
<1>7. EndHandler(n, l) => ControlOK'
  BY <1>2 DEF ControlOK, LockTypeOK, EndHandler
<1>8. Panic => ControlOK'
  BY <1>1 DEF ControlOK, LockTypeOK, Panic, lock
<1>. QED
  BY <1>4, <1>5, <1>6, <1>7, <1>8

(* Nothing but the control.                                                *)
LEMMA QuietType ==
    ASSUME ControlOK', LocalOK, NodeOK, UNCHANGED <<local, node>>
    PROVE  ControlOK' /\ LocalOK' /\ NodeOK'
BY DEF LocalOK, NodeOK, local, node

-----------------------------------------------------------------------------
(* The steps that all handlers are made of.                                *)

LEMMA AcquireType ==
    ASSUME ControlOK, LocalOK, NodeOK, NEW n \in Node, NEW from, NEW l \in Label,
           Acquire(n, from, l)
    PROVE  ControlOK' /\ LocalOK' /\ NodeOK'
<1>1. "done" \in Label
  BY DEF Label
<1>2. ControlOK'
  BY <1>1 DEF Acquire, AcquireGranted, AcquireRefused, ControlOK, LockTypeOK, lock
<1>. QED
  BY <1>2, QuietType DEF Acquire

LEMMA QuietSteps ==
    ASSUME ControlOK, LocalOK, NodeOK, NEW n \in Node, NEW l \in Label
    PROVE  /\ Skip(n, l) => ControlOK' /\ LocalOK' /\ NodeOK'
           /\ Try(n, l) => ControlOK' /\ LocalOK' /\ NodeOK'
           /\ ApiUnreachable => ControlOK' /\ LocalOK' /\ NodeOK'
           /\ WaitUntilReady(n, l) => ControlOK' /\ LocalOK' /\ NodeOK'
           /\ \A w \in BOOLEAN : HarvesterAPIInitialize(n, w, l) => ControlOK' /\ LocalOK' /\ NodeOK'
           /\ ReturnError(n) /\ UNCHANGED <<local, node>> => ControlOK' /\ LocalOK' /\ NodeOK'
           /\ EndHandler(n, l) /\ UNCHANGED <<local, node>> => ControlOK' /\ LocalOK' /\ NodeOK'
<1>1. Skip(n, l) => ControlOK' /\ LocalOK' /\ NodeOK'
  BY ControlSteps, QuietType DEF Skip
<1>2. Try(n, l) => ControlOK' /\ LocalOK' /\ NodeOK'
  BY ControlSteps, QuietType DEF Try
<1>3. ApiUnreachable => ControlOK' /\ LocalOK' /\ NodeOK'
  BY ControlSteps, QuietType DEF ApiUnreachable
<1>4. WaitUntilReady(n, l) => ControlOK' /\ LocalOK' /\ NodeOK'
  BY <1>3, ControlSteps, QuietType DEF WaitUntilReady
<1>5. \A w \in BOOLEAN : HarvesterAPIInitialize(n, w, l) => ControlOK' /\ LocalOK' /\ NodeOK'
  BY <1>1, <1>4 DEF HarvesterAPIInitialize
<1>6. ReturnError(n) /\ UNCHANGED <<local, node>> => ControlOK' /\ LocalOK' /\ NodeOK'
  BY ControlSteps, QuietType
<1>7. EndHandler(n, l) /\ UNCHANGED <<local, node>> => ControlOK' /\ LocalOK' /\ NodeOK'
  BY ControlSteps, QuietType
<1>. QED
  BY <1>1, <1>2, <1>3, <1>4, <1>5, <1>6, <1>7

LEMMA ServerSteps ==
    ASSUME ControlOK, LocalOK, NodeOK, NEW n \in Node, NEW l \in Label
    PROVE  /\ StopServer(n, l) => ControlOK' /\ LocalOK' /\ NodeOK'
           /\ StartServer(n, l) => ControlOK' /\ LocalOK' /\ NodeOK'
           /\ WaitForSSH(n, l) => ControlOK' /\ LocalOK' /\ NodeOK'
           /\ ShutdownHost(n, l) => ControlOK' /\ LocalOK' /\ NodeOK'
<1>1. StopServer(n, l) => ControlOK' /\ LocalOK' /\ NodeOK'
  BY ControlSteps DEF StopServer, LocalOK, NodeOK, local
<1>2. StartServer(n, l) => ControlOK' /\ LocalOK' /\ NodeOK'
  BY ControlSteps DEF StartServer, LocalOK, NodeOK, local
<1>3. WaitForSSH(n, l) => ControlOK' /\ LocalOK' /\ NodeOK'
  BY ControlSteps DEF WaitForSSH, LocalOK, NodeOK, local
<1>4. ShutdownHost(n, l) => ControlOK' /\ LocalOK' /\ NodeOK'
  BY ControlSteps DEF ShutdownHost, LocalOK, NodeOK, local
<1>. QED
  BY <1>1, <1>2, <1>3, <1>4

LEMMA MaintenanceSteps ==
    ASSUME ControlOK, LocalOK, NodeOK, NEW n \in Node, NEW l \in Label
    PROVE  /\ EnableMaintainanceMode(n, l) => ControlOK' /\ LocalOK' /\ NodeOK'
           /\ DisableMaintainanceMode(n, l) => ControlOK' /\ LocalOK' /\ NodeOK'
           /\ EnterMaintenanceMode(n, l) => ControlOK' /\ LocalOK' /\ NodeOK'
           /\ ExitMaintenanceMode(n, l) => ControlOK' /\ LocalOK' /\ NodeOK'
           /\ DeleteNode(n, l) => ControlOK' /\ LocalOK' /\ NodeOK'
<1>1. EnableMaintainanceMode(n, l) => ControlOK' /\ LocalOK' /\ NodeOK'
  BY ControlSteps DEF EnableMaintainanceMode, RequestMaintenance, LocalOK, NodeOK, local
<1>2. DisableMaintainanceMode(n, l) => ControlOK' /\ LocalOK' /\ NodeOK'
  BY ControlSteps DEF DisableMaintainanceMode, CancelMaintenance, LocalOK, NodeOK, local
<1>3. EnterMaintenanceMode(n, l) => ControlOK' /\ LocalOK' /\ NodeOK'
  BY ControlSteps DEF EnterMaintenanceMode, RequestMaintenance, LocalOK, NodeOK, local
<1>4. ExitMaintenanceMode(n, l) => ControlOK' /\ LocalOK' /\ NodeOK'
  BY ControlSteps DEF ExitMaintenanceMode, CancelMaintenance, LocalOK, NodeOK, local
<1>5. DeleteNode(n, l) => ControlOK' /\ LocalOK' /\ NodeOK'
  <2>1. ApiUnreachable => ControlOK' /\ LocalOK' /\ NodeOK'
    BY QuietSteps
  <2>. QED
    BY <2>1, ControlSteps DEF DeleteNode, CancelMaintenance, LocalOK, NodeOK, local
<1>. QED
  BY <1>1, <1>2, <1>3, <1>4, <1>5

LEMMA HandlerSteps ==
    ASSUME ControlOK, LocalOK, NodeOK, NEW n \in Node
    PROVE  /\ ReadStates(n) => ControlOK' /\ LocalOK' /\ NodeOK'
           /\ ChangeBlade(n) => ControlOK' /\ LocalOK' /\ NodeOK'
           /\ ChangeAttributes(n) => ControlOK' /\ LocalOK' /\ NodeOK'
           /\ Reimage(n) => ControlOK' /\ LocalOK' /\ NodeOK'
<1>1. {"storage", "compute_attributes", "compute_acquire", "compute_start", "storage_start"}
         \subseteq Label
  BY DEF Label
<1>2. Reading(n) \subseteq {"down", "degraded", "ok"}
  BY DEF Reading
<1>3. ReadStates(n) => ControlOK' /\ LocalOK' /\ NodeOK'
  <2>1. CASE ~plan[n].compute
    BY <1>1, <2>1, QuietSteps DEF ReadStates
  <2>2. CASE plan[n].compute
    BY <1>1, <1>2, <2>2, ControlSteps DEF ReadStates, LocalOK, NodeOK, node
  <2>. QED
    BY <2>1, <2>2
<1>4. ChangeBlade(n) => ControlOK' /\ LocalOK' /\ NodeOK'
  BY <1>1, ControlSteps, QuietType DEF ChangeBlade
<1>5. ChangeAttributes(n) => ControlOK' /\ LocalOK' /\ NodeOK'
  BY <1>1, QuietSteps DEF ChangeAttributes
<1>6. Reimage(n) => ControlOK' /\ LocalOK' /\ NodeOK'
  BY <1>1, ControlSteps DEF Reimage, LocalOK, NodeOK, Disk, local
<1>. QED
  BY <1>3, <1>4, <1>5, <1>6

LEMMA HostSteps ==
    ASSUME ControlOK, LocalOK, NodeOK, NEW n \in Node, NEW l \in Label
    PROVE  /\ WaitForHost(n, l) => ControlOK' /\ LocalOK' /\ NodeOK'
           /\ GiveUp(n) => ControlOK' /\ LocalOK' /\ NodeOK'
<1>1. probe[n] \in 0 .. Probes - 1 /\ streak[n] \in 0 .. Probes /\ Probes \in Nat \ {0}
  BY ProbesAssumption DEF LocalOK
<1>2. (probe[n] + 1) % Probes \in 0 .. Probes - 1
  BY <1>1
<1>3. 0 \in 0 .. Probes - 1 /\ 0 \in 0 .. Probes
  BY <1>1
<1>4. (IF streak[n] < Probes THEN streak[n] + 1 ELSE streak[n]) \in 0 .. Probes
  BY <1>1
<1>5. ProbeConnected(n, l) /\ UNCHANGED <<seen, node>> => ControlOK' /\ LocalOK' /\ NodeOK'
  BY <1>2, <1>4, ControlSteps DEF ProbeConnected, LocalOK, NodeOK, node
<1>6. ProbeFailed(n) /\ UNCHANGED <<seen, node>> => ControlOK' /\ LocalOK' /\ NodeOK'
  BY <1>2, <1>3, ControlSteps DEF ProbeFailed, LocalOK, NodeOK, node
<1>7. ProbeDisconnected(n) /\ UNCHANGED <<seen, node>> => ControlOK' /\ LocalOK' /\ NodeOK'
  BY <1>3, ControlSteps DEF ProbeDisconnected, LocalOK, NodeOK, node
<1>8. Panic /\ UNCHANGED <<local, node>> => ControlOK' /\ LocalOK' /\ NodeOK'
  BY ControlSteps, QuietType
<1>9. WaitForHost(n, l) => ControlOK' /\ LocalOK' /\ NodeOK'
  BY <1>5, <1>6, <1>7, <1>8, QuietSteps DEF WaitForHost
<1>10. GiveUp(n) => ControlOK' /\ LocalOK' /\ NodeOK'
  BY <1>3, ControlSteps DEF GiveUp, LocalOK, NodeOK, node
<1>. QED
  BY <1>9, <1>10

-----------------------------------------------------------------------------
(* The handlers.                                                           *)

LEMMA NodeComputeType ==
    ASSUME ControlOK, LocalOK, NodeOK, NEW n \in Node, NodeComputeStep(n)
    PROVE  ControlOK' /\ LocalOK' /\ NodeOK'
<1>1. InCompute \cup Rest \subseteq Label
  BY DEF InCompute, Rest, Label
<1>2. NodeCompute(n) => ControlOK' /\ LocalOK' /\ NodeOK'
  BY HandlerSteps DEF NodeCompute
<1>3. NodeComputeAcquire(n) => ControlOK' /\ LocalOK' /\ NodeOK'
  BY <1>1, AcquireType DEF NodeComputeAcquire, Rest
<1>4. NodeComputeCheck(n) => ControlOK' /\ LocalOK' /\ NodeOK'
  BY <1>1, QuietSteps DEF NodeComputeCheck, InCompute
<1>5. NodeComputeMaintain(n) => ControlOK' /\ LocalOK' /\ NodeOK'
  BY <1>1, MaintenanceSteps DEF NodeComputeMaintain, InCompute
<1>6. NodeComputeStop(n) => ControlOK' /\ LocalOK' /\ NodeOK'
  BY <1>1, ServerSteps DEF NodeComputeStop, InCompute
<1>7. NodeComputeBlade(n) => ControlOK' /\ LocalOK' /\ NodeOK'
  BY HandlerSteps DEF NodeComputeBlade
<1>8. NodeComputeStart(n) => ControlOK' /\ LocalOK' /\ NodeOK'
  BY <1>1, ServerSteps DEF NodeComputeStart, InCompute
<1>9. NodeComputeWait(n) => ControlOK' /\ LocalOK' /\ NodeOK'
  BY <1>1, ServerSteps DEF NodeComputeWait, InCompute
<1>10. NodeComputeReady(n) => ControlOK' /\ LocalOK' /\ NodeOK'
  BY <1>1, QuietSteps DEF NodeComputeReady, InCompute
<1>11. NodeComputeResume(n) => ControlOK' /\ LocalOK' /\ NodeOK'
  BY <1>1, MaintenanceSteps DEF NodeComputeResume, Rest
<1>12. NodeComputeGrace(n) => ControlOK' /\ LocalOK' /\ NodeOK'
  BY <1>1, QuietSteps DEF NodeComputeGrace, Rest
<1>13. NodeComputeAttributes(n) => ControlOK' /\ LocalOK' /\ NodeOK'
  BY HandlerSteps DEF NodeComputeAttributes
<1>. QED
  BY <1>2, <1>3, <1>4, <1>5, <1>6, <1>7, <1>8, <1>9, <1>10, <1>11, <1>12, <1>13
  DEF NodeComputeStep

LEMMA NodeStorageType ==
    ASSUME ControlOK, LocalOK, NodeOK, NEW n \in Node, NodeStorageStep(n)
    PROVE  ControlOK' /\ LocalOK' /\ NodeOK'
<1>1. { "storage_acquire", "storage_check", "storage_find", "storage_maintain", "storage_leave",
        "storage_stop", "storage_image", "storage_network", "storage_installer", "storage_off",
        "storage_remap", "storage_restart", "storage_wait", "storage_ready", "done" }
         \subseteq Label
  BY DEF Label
<1>2. NodeStorage(n) => ControlOK' /\ LocalOK' /\ NodeOK'
  BY <1>1, QuietSteps DEF NodeStorage
<1>3. NodeStorageAcquire(n) => ControlOK' /\ LocalOK' /\ NodeOK'
  BY <1>1, AcquireType DEF NodeStorageAcquire
<1>4. NodeStorageCheck(n) => ControlOK' /\ LocalOK' /\ NodeOK'
  BY <1>1, ControlSteps DEF NodeStorageCheck, Reading, LocalOK, NodeOK, node
<1>5. NodeStorageFind(n) => ControlOK' /\ LocalOK' /\ NodeOK'
  BY <1>1, QuietSteps DEF NodeStorageFind
<1>6. NodeStorageMaintain(n) => ControlOK' /\ LocalOK' /\ NodeOK'
  BY <1>1, MaintenanceSteps DEF NodeStorageMaintain
<1>7. NodeStorageLeave(n) => ControlOK' /\ LocalOK' /\ NodeOK'
  BY <1>1, MaintenanceSteps DEF NodeStorageLeave
<1>8. NodeStorageStop(n) \/ NodeStorageOff(n) => ControlOK' /\ LocalOK' /\ NodeOK'
  BY <1>1, ServerSteps DEF NodeStorageStop, NodeStorageOff
<1>9. NodeStorageImage(n) => ControlOK' /\ LocalOK' /\ NodeOK'
  BY HandlerSteps DEF NodeStorageImage
<1>10. NodeStorageStart(n) \/ NodeStorageRestart(n) => ControlOK' /\ LocalOK' /\ NodeOK'
  BY <1>1, ServerSteps DEF NodeStorageStart, NodeStorageRestart
<1>11. NodeStorageNetwork(n) \/ NodeStorageInstaller(n) => ControlOK' /\ LocalOK' /\ NodeOK'
  BY <1>1, ControlSteps, QuietType DEF NodeStorageNetwork, NodeStorageInstaller
<1>12. NodeStorageRemap(n) => ControlOK' /\ LocalOK' /\ NodeOK'
  BY <1>1, ControlSteps DEF NodeStorageRemap, LocalOK, NodeOK, Disk, local
<1>13. NodeStorageWait(n) => ControlOK' /\ LocalOK' /\ NodeOK'
  BY <1>1, ServerSteps, ControlSteps, QuietType DEF NodeStorageWait
<1>14. NodeStorageReady(n) => ControlOK' /\ LocalOK' /\ NodeOK'
  BY <1>1, QuietSteps DEF NodeStorageReady
<1>. QED
  BY <1>2, <1>3, <1>4, <1>5, <1>6, <1>7, <1>8, <1>9, <1>10, <1>11, <1>12, <1>13, <1>14
  DEF NodeStorageStep

LEMMA HostType ==
    ASSUME ControlOK, LocalOK, NodeOK, NEW n \in Node,
           HostComputeStep(n) \/ HostStorageStep(n) \/ GiveUp(n)
    PROVE  ControlOK' /\ LocalOK' /\ NodeOK'
<1>1. InCompute \cup Rest \cup { "storage_maintain", "storage_halt", "storage_stop",
         "storage_image", "storage_wait", "storage_ready", "done" } \subseteq Label
  BY DEF InCompute, Rest, Label
<1>2. HostCompute(n) \/ HostComputeBlade(n) \/ HostComputeAttributes(n) \/ HostStorageImage(n)
        => ControlOK' /\ LocalOK' /\ NodeOK'
  BY HandlerSteps DEF HostCompute, HostComputeBlade, HostComputeAttributes, HostStorageImage
<1>3. HostComputeAcquire(n) \/ HostStorageAcquire(n) => ControlOK' /\ LocalOK' /\ NodeOK'
  BY <1>1, AcquireType DEF HostComputeAcquire, HostStorageAcquire, Rest
<1>4. HostComputeCheck(n) => ControlOK' /\ LocalOK' /\ NodeOK'
  <2>1. ASSUME NEW l \in Label, Goto(n, l), UNCHANGED <<local, node>>
        PROVE  ControlOK' /\ LocalOK' /\ NodeOK'
    BY <2>1, ControlSteps, QuietType
  <2>2. seen[n] \in {"down", "degraded", "ok"}
    BY DEF LocalOK
  <2>. QED
    BY <1>1, <2>1, <2>2, QuietSteps DEF HostComputeCheck, InCompute
<1>5. HostComputeShutdown(n) \/ HostStorageShutdown(n) => ControlOK' /\ LocalOK' /\ NodeOK'
  BY <1>1, MaintenanceSteps, QuietSteps, ServerSteps DEF HostComputeShutdown,
     HostStorageShutdown, ShutdownStep, InCompute
<1>6. HostComputeStop(n) \/ HostComputeStart(n) => ControlOK' /\ LocalOK' /\ NodeOK'
  BY <1>1, ServerSteps DEF HostComputeStop, HostComputeStart, InCompute
<1>7. HostStorageStop(n) \/ HostStorageStart(n) => ControlOK' /\ LocalOK' /\ NodeOK'
  BY <1>1, ServerSteps DEF HostStorageStop, HostStorageStart
<1>8. HostComputeWait(n) \/ HostStorageWait(n) \/ GiveUp(n) => ControlOK' /\ LocalOK' /\ NodeOK'
  BY <1>1, HostSteps DEF HostComputeWait, HostStorageWait, InCompute
<1>9. HostComputeResume(n) => ControlOK' /\ LocalOK' /\ NodeOK'
  BY <1>1, MaintenanceSteps, QuietSteps DEF HostComputeResume, Rest
<1>10. HostStorage(n) \/ HostStorageReady(n) => ControlOK' /\ LocalOK' /\ NodeOK'
  BY <1>1, QuietSteps DEF HostStorage, HostStorageReady, Rest
<1>11. HostStorageCheck(n) => ControlOK' /\ LocalOK' /\ NodeOK'
  <2>1. Reading(n) \subseteq {"down", "degraded", "ok"}
    BY DEF Reading
  <2>. QED
    BY <1>1, <2>1, ControlSteps DEF HostStorageCheck, LocalOK, NodeOK, node
<1>. QED
  BY <1>2, <1>3, <1>4, <1>5, <1>6, <1>7, <1>8, <1>9, <1>10, <1>11
  DEF HostComputeStep, HostStorageStep

LEMMA ExternalType ==
    ASSUME TypeOK, NEW n \in Node, External(n)
    PROVE  TypeOK'
<1>1. UNCHANGED <<Sync, LastError, pc, failed, seen, probe, streak, provider, plan>>
  BY DEF External, Boot, Evacuated, NodeInstalled, NodeJoins, HostInstalled, lock, local, config
<1>2. NodeOK'
  BY TypeParts DEF External, Boot, Evacuated, NodeInstalled, NodeJoins, HostInstalled, NodeOK, Disk
<1>. QED
  BY <1>1, <1>2 DEF TypeOK, NodeOK, LockTypeOK

LEMMA NextType ==
    ASSUME TypeOK, [Next]_vars
    PROVE  TypeOK'
<1>1. CASE UNCHANGED vars
  <2>1. UNCHANGED <<Sync, LastError, provider, plan, pc, failed>>
    BY <1>1 DEF vars, lock, config
  <2>2. UNCHANGED <<seen, probe, streak, power, os, disk, maint, member>>
    BY <1>1 DEF vars, local, node
  <2>. QED
    BY <2>1, <2>2 DEF TypeOK, LockTypeOK
<1>2. ASSUME NEW n \in Node, Step(n)
      PROVE  TypeOK'
  <2>1. ControlOK' /\ LocalOK' /\ NodeOK'
    BY <1>2, TypeParts, NodeComputeType, NodeStorageType, HostType DEF Step, NodeStep, HostStep
  <2>2. ConfigOK'
    BY <1>2, TypeParts DEF Step, config, ConfigOK
  <2>. QED
    BY <2>1, <2>2 DEF TypeOK, ConfigOK, ControlOK, LocalOK, NodeOK
<1>. QED
  BY <1>1, <1>2, ExternalType DEF Next, Terminated

LEMMA InitType ==
    ASSUME Init
    PROVE  TypeOK
<1>1. plan \in [Node -> PlanType]
  BY HypervisorPlansAssumption DEF Init
<1>2. \A n \in Node : plan[n].initial \in {"up", "down"}
  BY <1>1 DEF PlanType
<1>3. power \in [Node -> {"up", "down"}]
  BY <1>2 DEF Init
<1>4. LocalOK
  BY ProbesAssumption DEF Init, LocalOK
<1>5. ControlOK /\ ConfigOK
  BY DEF Init, ControlOK, ConfigOK, LockInit, LockTypeOK, Label
<1>6. NodeOK
  BY <1>3 DEF Init, NodeOK, Disk
<1>. QED
  BY <1>4, <1>5, <1>6, TypeParts

-----------------------------------------------------------------------------
(* What a step does to the other nodes: nothing, but a panic ends their    *)
(* updates too.                                                            *)

NodeSame(m) ==
    /\ seen'[m] = seen[m] /\ probe'[m] = probe[m] /\ streak'[m] = streak[m]
    /\ power'[m] = power[m] /\ os'[m] = os[m] /\ disk'[m] = disk[m]
    /\ maint'[m] = maint[m] /\ member'[m] = member[m]

Ended(m) == pc'[m] = "done" /\ (failed'[m] \/ (pc[m] = "done" /\ failed'[m] = failed[m]))

OtherSame(m) == NodeSame(m) /\ ((pc'[m] = pc[m] /\ failed'[m] = failed[m]) \/ Ended(m))

LEMMA ControlFrame ==
    ASSUME ControlOK, NEW n \in Node, NEW m \in Node, m # n
    PROVE  /\ \A l : Goto(n, l) \/ EndHandler(n, l) => pc'[m] = pc[m] /\ failed'[m] = failed[m]
           /\ ReturnError(n) => pc'[m] = pc[m] /\ failed'[m] = failed[m]
           /\ \A l, k : Acquire(n, l, k) => pc'[m] = pc[m] /\ failed'[m] = failed[m]
           /\ Panic => Ended(m)
BY DEF ControlOK, Goto, EndHandler, ReturnError, Acquire, Panic, Ended

LEMMA NodeComputeFrame ==
    ASSUME ControlOK, LocalOK, NodeOK, NEW n \in Node, NEW m \in Node, m # n,
           NodeComputeStep(n)
    PROVE  OtherSame(m)
<1>. USE ControlFrame DEF OtherSame, NodeSame, LocalOK, NodeOK, local, node
<1>1. NodeCompute(n) => OtherSame(m)
  BY DEF NodeCompute, ReadStates, Skip
<1>2. NodeComputeAcquire(n) => OtherSame(m)
  BY SMTT(30) DEF NodeComputeAcquire, Acquire
<1>3. NodeComputeCheck(n) \/ NodeComputeReady(n) \/ NodeComputeGrace(n) => OtherSame(m)
  BY DEF NodeComputeCheck, NodeComputeReady, NodeComputeGrace, HarvesterAPIInitialize,
     WaitUntilReady, ApiUnreachable, Skip
<1>4. NodeComputeMaintain(n) => OtherSame(m)
  BY DEF NodeComputeMaintain, EnableMaintainanceMode, RequestMaintenance
<1>5. NodeComputeResume(n) => OtherSame(m)
  BY DEF NodeComputeResume, DisableMaintainanceMode, CancelMaintenance
<1>6. NodeComputeStop(n) \/ NodeComputeStart(n) => OtherSame(m)
  BY DEF NodeComputeStop, NodeComputeStart, StopServer, StartServer
<1>7. NodeComputeBlade(n) \/ NodeComputeAttributes(n) => OtherSame(m)
  BY DEF NodeComputeBlade, NodeComputeAttributes, ChangeBlade, ChangeAttributes
<1>8. NodeComputeWait(n) => OtherSame(m)
  BY DEF NodeComputeWait, WaitForSSH
<1>. QED
  BY <1>1, <1>2, <1>3, <1>4, <1>5, <1>6, <1>7, <1>8 DEF NodeComputeStep

LEMMA NodeStorageFrame ==
    ASSUME ControlOK, LocalOK, NodeOK, NEW n \in Node, NEW m \in Node, m # n,
           NodeStorageStep(n)
    PROVE  OtherSame(m)
<1>. USE ControlFrame DEF OtherSame, NodeSame, LocalOK, NodeOK, local, node
<1>1. NodeStorage(n) => OtherSame(m)
  BY DEF NodeStorage, Try, Skip
<1>2. NodeStorageAcquire(n) => OtherSame(m)
  BY SMTT(30) DEF NodeStorageAcquire, Acquire
<1>3. NodeStorageCheck(n) \/ NodeStorageReady(n) => OtherSame(m)
  BY DEF NodeStorageCheck, NodeStorageReady, ApiUnreachable
<1>4. NodeStorageFind(n) => OtherSame(m)
  BY DEF NodeStorageFind, ApiUnreachable, Skip
<1>5. NodeStorageMaintain(n) => OtherSame(m)
  BY DEF NodeStorageMaintain, EnableMaintainanceMode, RequestMaintenance
<1>6. NodeStorageLeave(n) => OtherSame(m)
  BY DEF NodeStorageLeave, DeleteNode, CancelMaintenance, ApiUnreachable
<1>7. NodeStorageStop(n) \/ NodeStorageStart(n) => OtherSame(m)
  BY DEF NodeStorageStop, NodeStorageStart, StopServer, StartServer
<1>8. NodeStorageOff(n) \/ NodeStorageRestart(n) => OtherSame(m)
  BY DEF NodeStorageOff, NodeStorageRestart, StopServer, StartServer
<1>9. NodeStorageImage(n) => OtherSame(m)
  BY DEF NodeStorageImage, Reimage
<1>10. NodeStorageRemap(n) => OtherSame(m)
  BY DEF NodeStorageRemap
<1>11. NodeStorageNetwork(n) \/ NodeStorageInstaller(n) => OtherSame(m)
  BY DEF NodeStorageNetwork, NodeStorageInstaller
<1>12. NodeStorageWait(n) => OtherSame(m)
  BY DEF NodeStorageWait, WaitForSSH
<1>. QED
  BY <1>1, <1>2, <1>3, <1>4, <1>5, <1>6, <1>7, <1>8, <1>9, <1>10, <1>11, <1>12 DEF
     NodeStorageStep

LEMMA HostFrame ==
    ASSUME ControlOK, LocalOK, NodeOK, NEW n \in Node, NEW m \in Node, m # n,
           HostComputeStep(n) \/ HostStorageStep(n) \/ GiveUp(n)
    PROVE  OtherSame(m)
<1>. USE ControlFrame DEF OtherSame, NodeSame, LocalOK, NodeOK, local, node
<1>1. HostCompute(n) \/ HostComputeBlade(n) \/ HostComputeAttributes(n) => OtherSame(m)
  BY DEF HostCompute, HostComputeBlade, HostComputeAttributes, ReadStates, Skip,
     ChangeBlade, ChangeAttributes
<1>2. HostComputeAcquire(n) \/ HostStorageAcquire(n) => OtherSame(m)
  BY SMTT(30) DEF HostComputeAcquire, HostStorageAcquire, Acquire
<1>3. HostComputeCheck(n) \/ HostStorageCheck(n) => OtherSame(m)
  BY DEF HostComputeCheck, HostStorageCheck
<1>4. HostComputeShutdown(n) => OtherSame(m)
  BY DEF HostComputeShutdown, ShutdownStep, EnterMaintenanceMode, RequestMaintenance,
     ShutdownHost, Skip
<1>5. HostStorageShutdown(n) => OtherSame(m)
  BY DEF HostStorageShutdown, ShutdownStep, EnterMaintenanceMode, RequestMaintenance,
     ShutdownHost, Skip
<1>6. HostComputeStop(n) \/ HostComputeStart(n) => OtherSame(m)
  BY DEF HostComputeStop, HostComputeStart, StopServer, StartServer
<1>7. HostStorageStop(n) \/ HostStorageStart(n) => OtherSame(m)
  BY DEF HostStorageStop, HostStorageStart, StopServer, StartServer
<1>8. HostComputeWait(n) => OtherSame(m)
  BY DEF HostComputeWait, WaitForHost, ProbeConnected, ProbeFailed, ProbeDisconnected, Skip
<1>9. HostStorageWait(n) => OtherSame(m)
  BY DEF HostStorageWait, WaitForHost, ProbeConnected, ProbeFailed, ProbeDisconnected, Skip
<1>10. GiveUp(n) => OtherSame(m)
  BY DEF GiveUp
<1>11. HostComputeResume(n) => OtherSame(m)
  BY DEF HostComputeResume, ExitMaintenanceMode, CancelMaintenance, Skip
<1>12. HostStorage(n) \/ HostStorageReady(n) => OtherSame(m)
  BY DEF HostStorage, HostStorageReady, Skip
<1>13. HostStorageImage(n) => OtherSame(m)
  BY DEF HostStorageImage, Reimage
<1>. QED
  BY <1>1, <1>2, <1>3, <1>4, <1>5, <1>6, <1>7, <1>8, <1>9, <1>10, <1>11, <1>12, <1>13 DEF
     HostComputeStep, HostStorageStep

-----------------------------------------------------------------------------
(* What a step does to its own node.                                       *)

NodeInv(n) == PowerInv(n) /\ EvacuationInv(n) /\ ServiceInv(n)

(* What remains of the invariant when an update has failed.                *)
Bare(n) ==
    /\ power[n] = "down" => os[n] = "halted"
    /\ Awaited(n) /\ plan[n].kind = "harvester" /\ ~provider.rancher =>
          maint[n] = "off" /\ member[n]

LEMMA Failed ==
    ASSUME NEW n \in Node, UNCHANGED config, pc'[n] = "done", failed'[n], Bare(n)'
    PROVE  NodeInv(n)'
BY DEF NodeInv, PowerInv, EvacuationInv, ServiceInv, ComputeInv, StorageInv, Bare, Awaited,
       Visible, Rest, InCompute, config

(* Of a node that is not touched the invariant is that of its new point.   *)
LEMMA FailedUntouched ==
    ASSUME ControlOK, NEW n \in Node, UNCHANGED config, NodeInv(n),
           ReturnError(n) \/ (Panic /\ pc[n] # "done"), UNCHANGED <<local, node>>
    PROVE  NodeInv(n)'
<1>1. pc'[n] = "done" /\ failed'[n]
  BY DEF ControlOK, ReturnError, Panic
<1>2. Bare(n)'
  BY DEF Bare, NodeInv, PowerInv, ServiceInv, Awaited, Visible, config, node
<1>. QED
  BY <1>1, <1>2, Failed

LEMMA NodeComputeKeeps ==
    ASSUME TypeOK, NEW n \in Node, NodeInv(n), UNCHANGED config,
           plan[n].kind = "harvester", NodeComputeStep(n)
    PROVE  NodeInv(n)'
<1>1. ControlOK /\ LocalOK /\ NodeOK
  BY TypeParts
<1>. USE <1>1, FailedUntouched
<1>2. NodeCompute(n) => NodeInv(n)'
  BY DEF NodeCompute, ReadStates, Skip, NodeInv, PowerInv, EvacuationInv, ServiceInv,
     ComputeInv, StorageInv, Awaited, Visible, InService, Rest, InCompute, ControlOK,
     NodeOK, LocalOK, config, local, node, Goto, ReturnError
<1>3. NodeComputeAcquire(n) => NodeInv(n)'
  BY DEF NodeComputeAcquire, Acquire, NodeInv, PowerInv, EvacuationInv, ServiceInv,
     ComputeInv, StorageInv, Awaited, Visible, InService, Rest, InCompute, ControlOK,
     NodeOK, LocalOK, config, local, node, Goto, ReturnError
<1>4. NodeComputeCheck(n) => NodeInv(n)'
  BY DEF NodeComputeCheck, HarvesterAPIInitialize, WaitUntilReady, ApiUnreachable,
     IsNodeReady, Skip, NodeInv, PowerInv, EvacuationInv, ServiceInv, ComputeInv,
     StorageInv, Awaited, Visible, InService, Rest, InCompute, ControlOK, NodeOK, LocalOK,
     config, local, node, Goto, ReturnError
<1>5. NodeComputeMaintain(n) => NodeInv(n)'
  BY DEF NodeComputeMaintain, EnableMaintainanceMode, RequestMaintenance, Maintained,
     NodeInv, PowerInv, EvacuationInv, ServiceInv, ComputeInv, StorageInv, Awaited, Visible,
     InService, Rest, InCompute, ControlOK, NodeOK, LocalOK, config, local, node, Goto,
     ReturnError
<1>6. NodeComputeStop(n) => NodeInv(n)'
  BY DEF NodeComputeStop, StopServer, NodeInv, PowerInv, EvacuationInv, ServiceInv,
     ComputeInv, StorageInv, Awaited, Visible, InService, Rest, InCompute, ControlOK,
     NodeOK, LocalOK, config, local, node, Goto, ReturnError
<1>7. NodeComputeBlade(n) => NodeInv(n)'
  BY DEF NodeComputeBlade, ChangeBlade, NodeInv, PowerInv, EvacuationInv, ServiceInv,
     ComputeInv, StorageInv, Awaited, Visible, InService, Rest, InCompute, ControlOK,
     NodeOK, LocalOK, config, local, node, Goto, ReturnError
<1>8. NodeComputeStart(n) => NodeInv(n)'
  BY DEF NodeComputeStart, StartServer, NodeInv, PowerInv, EvacuationInv, ServiceInv,
     ComputeInv, StorageInv, Awaited, Visible, InService, Rest, InCompute, ControlOK,
     NodeOK, LocalOK, config, local, node, Goto, ReturnError
<1>9. NodeComputeWait(n) => NodeInv(n)'
  BY DEF NodeComputeWait, WaitForSSH, NodeInv, PowerInv, EvacuationInv, ServiceInv,
     ComputeInv, StorageInv, Awaited, Visible, InService, Rest, InCompute, ControlOK,
     NodeOK, LocalOK, config, local, node, Goto, ReturnError
<1>10. NodeComputeReady(n) => NodeInv(n)'
  BY DEF NodeComputeReady, HarvesterAPIInitialize, WaitUntilReady, ApiUnreachable,
     IsNodeReady, Skip, NodeInv, PowerInv, EvacuationInv, ServiceInv, ComputeInv,
     StorageInv, Awaited, Visible, InService, Rest, InCompute, ControlOK, NodeOK, LocalOK,
     config, local, node, Goto, ReturnError
<1>11. NodeComputeResume(n) => NodeInv(n)'
  BY DEF NodeComputeResume, DisableMaintainanceMode, CancelMaintenance, Maintained, NodeInv,
     PowerInv, EvacuationInv, ServiceInv, ComputeInv, StorageInv, Awaited, Visible,
     InService, Rest, InCompute, ControlOK, NodeOK, LocalOK, config, local, node, Goto,
     ReturnError
<1>12. NodeComputeGrace(n) => NodeInv(n)'
  BY DEF NodeComputeGrace, WaitUntilReady, ApiUnreachable, Skip, NodeInv, PowerInv,
     EvacuationInv, ServiceInv, ComputeInv, StorageInv, Awaited, Visible, InService, Rest,
     InCompute, ControlOK, NodeOK, LocalOK, config, local, node, Goto, ReturnError
<1>13. NodeComputeAttributes(n) => NodeInv(n)'
  BY DEF NodeComputeAttributes, ChangeAttributes, EndHandler, NodeInv, PowerInv,
     EvacuationInv, ServiceInv, ComputeInv, StorageInv, Awaited, Visible, InService, Rest,
     InCompute, ControlOK, NodeOK, LocalOK, config, local, node, Goto, ReturnError
<1>. QED
  BY <1>2, <1>3, <1>4, <1>5, <1>6, <1>7, <1>8, <1>9, <1>10, <1>11, <1>12, <1>13 DEF
     NodeComputeStep

LEMMA NodeStorageKeeps ==
    ASSUME TypeOK, NEW n \in Node, NodeInv(n), UNCHANGED config,
           plan[n].kind = "harvester", NodeStorageStep(n)
    PROVE  NodeInv(n)'
<1>1. ControlOK /\ LocalOK /\ NodeOK
  BY TypeParts
<1>. USE <1>1, FailedUntouched
<1>2. NodeStorage(n) => NodeInv(n)'
  BY DEF NodeStorage, Try, Skip, NodeInv, PowerInv, EvacuationInv, ServiceInv, ComputeInv,
     StorageInv, Awaited, Visible, InService, Rest, InCompute, ControlOK, NodeOK, LocalOK,
     config, local, node, Goto, ReturnError
<1>3. NodeStorageAcquire(n) => NodeInv(n)'
  BY DEF NodeStorageAcquire, Acquire, NodeInv, PowerInv, EvacuationInv, ServiceInv,
     ComputeInv, StorageInv, Awaited, Visible, InService, Rest, InCompute, ControlOK,
     NodeOK, LocalOK, config, local, node, Goto, ReturnError
<1>4. NodeStorageCheck(n) => NodeInv(n)'
  BY DEF NodeStorageCheck, Reading, NodeInv, PowerInv, EvacuationInv, ServiceInv,
     ComputeInv, StorageInv, Awaited, Visible, InService, Rest, InCompute, ControlOK,
     NodeOK, LocalOK, config, local, node, Goto, ReturnError
<1>5. NodeStorageFind(n) => NodeInv(n)'
  BY DEF NodeStorageFind, ApiUnreachable, IsNodeReady, Skip, NodeInv, PowerInv,
     EvacuationInv, ServiceInv, ComputeInv, StorageInv, Awaited, Visible, InService, Rest,
     InCompute, ControlOK, NodeOK, LocalOK, config, local, node, Goto, ReturnError
<1>6. NodeStorageMaintain(n) => NodeInv(n)'
  BY DEF NodeStorageMaintain, EnableMaintainanceMode, RequestMaintenance, Maintained,
     NodeInv, PowerInv, EvacuationInv, ServiceInv, ComputeInv, StorageInv, Awaited, Visible,
     InService, Rest, InCompute, ControlOK, NodeOK, LocalOK, config, local, node, Goto,
     ReturnError
<1>7. NodeStorageLeave(n) => NodeInv(n)'
  BY DEF NodeStorageLeave, DeleteNode, CancelMaintenance, ApiUnreachable, NodeInv, PowerInv,
     EvacuationInv, ServiceInv, ComputeInv, StorageInv, Awaited, Visible, InService, Rest,
     InCompute, ControlOK, NodeOK, LocalOK, config, local, node, Goto, ReturnError
<1>8. NodeStorageStop(n) => NodeInv(n)'
  BY DEF NodeStorageStop, StopServer, NodeInv, PowerInv, EvacuationInv, ServiceInv,
     ComputeInv, StorageInv, Awaited, Visible, InService, Rest, InCompute, ControlOK,
     NodeOK, LocalOK, config, local, node, Goto, ReturnError
<1>9. NodeStorageImage(n) => NodeInv(n)'
  BY DEF NodeStorageImage, Reimage, NodeInv, PowerInv, EvacuationInv, ServiceInv,
     ComputeInv, StorageInv, Awaited, Visible, InService, Rest, InCompute, ControlOK,
     NodeOK, LocalOK, config, local, node, Goto, ReturnError
<1>10. NodeStorageStart(n) => NodeInv(n)'
  BY DEF NodeStorageStart, StartServer, NodeInv, PowerInv, EvacuationInv, ServiceInv,
     ComputeInv, StorageInv, Awaited, Visible, InService, Rest, InCompute, ControlOK,
     NodeOK, LocalOK, config, local, node, Goto, ReturnError
<1>11. NodeStorageNetwork(n) => NodeInv(n)'
  BY DEF NodeStorageNetwork, NodeInv, PowerInv, EvacuationInv, ServiceInv, ComputeInv,
     StorageInv, Awaited, Visible, InService, Rest, InCompute, ControlOK, NodeOK, LocalOK,
     config, local, node, Goto, ReturnError
<1>12. NodeStorageInstaller(n) => NodeInv(n)'
  BY DEF NodeStorageInstaller, NodeInv, PowerInv, EvacuationInv, ServiceInv, ComputeInv,
     StorageInv, Awaited, Visible, InService, Rest, InCompute, ControlOK, NodeOK, LocalOK,
     config, local, node, Goto, ReturnError
<1>13. NodeStorageOff(n) => NodeInv(n)'
  BY DEF NodeStorageOff, StopServer, NodeInv, PowerInv, EvacuationInv, ServiceInv,
     ComputeInv, StorageInv, Awaited, Visible, InService, Rest, InCompute, ControlOK,
     NodeOK, LocalOK, config, local, node, Goto, ReturnError
<1>14. NodeStorageRemap(n) => NodeInv(n)'
  BY DEF NodeStorageRemap, NodeInv, PowerInv, EvacuationInv, ServiceInv, ComputeInv,
     StorageInv, Awaited, Visible, InService, Rest, InCompute, ControlOK, NodeOK, LocalOK,
     config, local, node, Goto, ReturnError
<1>15. NodeStorageRestart(n) => NodeInv(n)'
  BY DEF NodeStorageRestart, StartServer, NodeInv, PowerInv, EvacuationInv, ServiceInv,
     ComputeInv, StorageInv, Awaited, Visible, InService, Rest, InCompute, ControlOK,
     NodeOK, LocalOK, config, local, node, Goto, ReturnError
<1>16. NodeStorageWait(n) => NodeInv(n)'
  BY DEF NodeStorageWait, WaitForSSH, NodeInv, PowerInv, EvacuationInv, ServiceInv,
     ComputeInv, StorageInv, Awaited, Visible, InService, Rest, InCompute, ControlOK,
     NodeOK, LocalOK, config, local, node, Goto, ReturnError
<1>17. NodeStorageReady(n) => NodeInv(n)'
  BY DEF NodeStorageReady, ApiUnreachable, IsNodeReady, EndHandler, NodeInv, PowerInv,
     EvacuationInv, ServiceInv, ComputeInv, StorageInv, Awaited, Visible, InService, Rest,
     InCompute, ControlOK, NodeOK, LocalOK, config, local, node, Goto, ReturnError
<1>. QED
  BY <1>2, <1>3, <1>4, <1>5, <1>6, <1>7, <1>8, <1>9, <1>10, <1>11, <1>12, <1>13, <1>14,
     <1>15, <1>16, <1>17 DEF NodeStorageStep

LEMMA HostKeeps ==
    ASSUME TypeOK, NEW n \in Node, NodeInv(n), UNCHANGED config,
           plan[n].kind = "esx", HostComputeStep(n) \/ HostStorageStep(n) \/ GiveUp(n)
    PROVE  NodeInv(n)'
<1>1. ControlOK /\ LocalOK /\ NodeOK
  BY TypeParts
<1>. USE <1>1, FailedUntouched
<1>2. HostCompute(n) => NodeInv(n)'
  BY DEF HostCompute, ReadStates, Skip, NodeInv, PowerInv, EvacuationInv, ServiceInv,
     ComputeInv, StorageInv, Awaited, Visible, InService, Rest, InCompute, ControlOK,
     NodeOK, LocalOK, config, local, node, Goto, ReturnError
<1>3. HostComputeAcquire(n) => NodeInv(n)'
  BY DEF HostComputeAcquire, Acquire, NodeInv, PowerInv, EvacuationInv, ServiceInv,
     ComputeInv, StorageInv, Awaited, Visible, InService, Rest, InCompute, ControlOK,
     NodeOK, LocalOK, config, local, node, Goto, ReturnError
<1>4. HostComputeCheck(n) => NodeInv(n)'
  BY DEF HostComputeCheck, NodeInv, PowerInv, EvacuationInv, ServiceInv, ComputeInv,
     StorageInv, Awaited, Visible, InService, Rest, InCompute, ControlOK, NodeOK, LocalOK,
     config, local, node, Goto, ReturnError
<1>5. HostComputeShutdown(n) => NodeInv(n)'
  BY DEF HostComputeShutdown, ShutdownStep, EnterMaintenanceMode, RequestMaintenance,
     Maintained, ShutdownHost, VMwareApi, Skip, NodeInv, PowerInv, EvacuationInv,
     ServiceInv, ComputeInv, StorageInv, Awaited, Visible, InService, Rest, InCompute,
     ControlOK, NodeOK, LocalOK, config, local, node, Goto, ReturnError
<1>6. HostComputeStop(n) => NodeInv(n)'
  BY DEF HostComputeStop, StopServer, NodeInv, PowerInv, EvacuationInv, ServiceInv,
     ComputeInv, StorageInv, Awaited, Visible, InService, Rest, InCompute, ControlOK,
     NodeOK, LocalOK, config, local, node, Goto, ReturnError
<1>7. HostComputeBlade(n) => NodeInv(n)'
  BY DEF HostComputeBlade, ChangeBlade, NodeInv, PowerInv, EvacuationInv, ServiceInv,
     ComputeInv, StorageInv, Awaited, Visible, InService, Rest, InCompute, ControlOK,
     NodeOK, LocalOK, config, local, node, Goto, ReturnError
<1>8. HostComputeStart(n) => NodeInv(n)'
  BY DEF HostComputeStart, StartServer, NodeInv, PowerInv, EvacuationInv, ServiceInv,
     ComputeInv, StorageInv, Awaited, Visible, InService, Rest, InCompute, ControlOK,
     NodeOK, LocalOK, config, local, node, Goto, ReturnError
<1>9. HostComputeWait(n) => NodeInv(n)'
  BY DEF HostComputeWait, WaitForHost, ProbeConnected, ProbeFailed, ProbeDisconnected,
     Connected, VMwareApi, Skip, NodeInv, PowerInv, EvacuationInv, ServiceInv, ComputeInv,
     StorageInv, Awaited, Visible, InService, Rest, InCompute, ControlOK, NodeOK, LocalOK,
     config, local, node, Goto, ReturnError
<1>10. HostComputeResume(n) => NodeInv(n)'
  BY DEF HostComputeResume, ExitMaintenanceMode, CancelMaintenance, Maintained, VMwareApi,
     Skip, NodeInv, PowerInv, EvacuationInv, ServiceInv, ComputeInv, StorageInv, Awaited,
     Visible, InService, Rest, InCompute, ControlOK, NodeOK, LocalOK, config, local, node,
     Goto, ReturnError
<1>11. HostComputeAttributes(n) => NodeInv(n)'
  BY DEF HostComputeAttributes, ChangeAttributes, EndHandler, NodeInv, PowerInv,
     EvacuationInv, ServiceInv, ComputeInv, StorageInv, Awaited, Visible, InService, Rest,
     InCompute, ControlOK, NodeOK, LocalOK, config, local, node, Goto, ReturnError
<1>12. HostStorage(n) => NodeInv(n)'
  BY DEF HostStorage, Skip, NodeInv, PowerInv, EvacuationInv, ServiceInv, ComputeInv,
     StorageInv, Awaited, Visible, InService, Rest, InCompute, ControlOK, NodeOK, LocalOK,
     config, local, node, Goto, ReturnError
<1>13. HostStorageAcquire(n) => NodeInv(n)'
  BY DEF HostStorageAcquire, Acquire, NodeInv, PowerInv, EvacuationInv, ServiceInv,
     ComputeInv, StorageInv, Awaited, Visible, InService, Rest, InCompute, ControlOK,
     NodeOK, LocalOK, config, local, node, Goto, ReturnError
<1>14. HostStorageCheck(n) => NodeInv(n)'
  BY DEF HostStorageCheck, Reading, NodeInv, PowerInv, EvacuationInv, ServiceInv,
     ComputeInv, StorageInv, Awaited, Visible, InService, Rest, InCompute, ControlOK,
     NodeOK, LocalOK, config, local, node, Goto, ReturnError
<1>15. HostStorageShutdown(n) => NodeInv(n)'
  BY DEF HostStorageShutdown, ShutdownStep, EnterMaintenanceMode, RequestMaintenance,
     Maintained, ShutdownHost, VMwareApi, Skip, NodeInv, PowerInv, EvacuationInv,
     ServiceInv, ComputeInv, StorageInv, Awaited, Visible, InService, Rest, InCompute,
     ControlOK, NodeOK, LocalOK, config, local, node, Goto, ReturnError
<1>16. HostStorageStop(n) => NodeInv(n)'
  BY DEF HostStorageStop, StopServer, NodeInv, PowerInv, EvacuationInv, ServiceInv,
     ComputeInv, StorageInv, Awaited, Visible, InService, Rest, InCompute, ControlOK,
     NodeOK, LocalOK, config, local, node, Goto, ReturnError
<1>17. HostStorageImage(n) => NodeInv(n)'
  BY DEF HostStorageImage, Reimage, NodeInv, PowerInv, EvacuationInv, ServiceInv,
     ComputeInv, StorageInv, Awaited, Visible, InService, Rest, InCompute, ControlOK,
     NodeOK, LocalOK, config, local, node, Goto, ReturnError
<1>18. HostStorageStart(n) => NodeInv(n)'
  BY DEF HostStorageStart, StartServer, NodeInv, PowerInv, EvacuationInv, ServiceInv,
     ComputeInv, StorageInv, Awaited, Visible, InService, Rest, InCompute, ControlOK,
     NodeOK, LocalOK, config, local, node, Goto, ReturnError
<1>19. HostStorageWait(n) => NodeInv(n)'
  BY DEF HostStorageWait, WaitForHost, ProbeConnected, ProbeFailed, ProbeDisconnected,
     Connected, VMwareApi, Skip, NodeInv, PowerInv, EvacuationInv, ServiceInv, ComputeInv,
     StorageInv, Awaited, Visible, InService, Rest, InCompute, ControlOK, NodeOK, LocalOK,
     config, local, node, Goto, ReturnError
<1>20. HostStorageReady(n) => NodeInv(n)'
  BY DEF HostStorageReady, EndHandler, NodeInv, PowerInv, EvacuationInv, ServiceInv,
     ComputeInv, StorageInv, Awaited, Visible, InService, Rest, InCompute, ControlOK,
     NodeOK, LocalOK, config, local, node, Goto, ReturnError
<1>21. GiveUp(n) => NodeInv(n)'
  BY DEF GiveUp, NodeInv, PowerInv, EvacuationInv, ServiceInv, ComputeInv, StorageInv,
     Awaited, Visible, InService, Rest, InCompute, ControlOK, NodeOK, LocalOK, config,
     local, node, Goto, ReturnError
<1>. QED
  BY <1>2, <1>3, <1>4, <1>5, <1>6, <1>7, <1>8, <1>9, <1>10, <1>11, <1>12, <1>13, <1>14,
     <1>15, <1>16, <1>17, <1>18, <1>19, <1>20, <1>21 DEF HostComputeStep, HostStorageStep

-----------------------------------------------------------------------------
(* The inductive invariant of the handlers.                                *)

LEMMA OtherKeeps ==
    ASSUME NEW m \in Node, NodeInv(m), OtherSame(m), UNCHANGED config
    PROVE  NodeInv(m)'
<1>1. CASE pc'[m] = pc[m] /\ failed'[m] = failed[m]
  BY <1>1 DEF OtherSame, NodeSame, NodeInv, PowerInv, EvacuationInv, ServiceInv, ComputeInv,
     StorageInv, Awaited, Visible, InService, config
<1>2. CASE Ended(m)
  <2>1. Bare(m)'
    BY DEF OtherSame, NodeSame, Bare, NodeInv, PowerInv, ServiceInv, Awaited, Visible, config
  <2>2. CASE failed'[m]
    BY <1>2, <2>1, <2>2, Failed DEF Ended
  <2>3. CASE pc'[m] = pc[m] /\ failed'[m] = failed[m]
    BY <1>1, <2>3
  <2>. QED
    BY <1>2, <2>2, <2>3 DEF Ended
<1>. QED
  BY <1>1, <1>2 DEF OtherSame

LEMMA StepOthers ==
    ASSUME TypeOK, NEW n \in Node, Step(n), NEW m \in Node, m # n
    PROVE  OtherSame(m)
BY TypeParts, NodeComputeFrame, NodeStorageFrame, HostFrame DEF Step, NodeStep, HostStep

LEMMA ExternalKeeps ==
    ASSUME TypeOK, NEW n \in Node, External(n), NEW m \in Node, NodeInv(m)
    PROVE  NodeInv(m)'
<1>. USE TypeParts DEF NodeOK, NodeInv, PowerInv, EvacuationInv, ServiceInv, ComputeInv,
     StorageInv, Awaited, Visible, InService, Rest, InCompute, config, local
<1>1. CASE Boot(n)
  BY <1>1 DEF External, Boot
<1>2. CASE Evacuated(n)
  BY <1>2 DEF External, Evacuated
<1>3. CASE NodeInstalled(n)
  BY <1>3 DEF External, NodeInstalled
<1>4. CASE NodeJoins(n)
  BY <1>4 DEF External, NodeJoins
<1>5. CASE HostInstalled(n)
  BY <1>5 DEF External, HostInstalled
<1>. QED
  BY <1>1, <1>2, <1>3, <1>4, <1>5 DEF External

LEMMA StepKeeps ==
    ASSUME TypeOK, NEW n \in Node, Step(n), NEW m \in Node, NodeInv(n), NodeInv(m)
    PROVE  NodeInv(m)'
<1>1. UNCHANGED config
  BY DEF Step
<1>2. CASE m = n
  BY <1>1, <1>2, NodeComputeKeeps, NodeStorageKeeps, HostKeeps DEF Step, NodeStep, HostStep
<1>3. CASE m # n
  BY <1>1, <1>3, StepOthers, OtherKeeps
<1>. QED
  BY <1>2, <1>3

LEMMA NextHandler ==
    ASSUME HandlerInv, [Next]_vars
    PROVE  HandlerInv'
<1>1. TypeOK /\ TypeOK'
  BY NextType DEF HandlerInv
<1>2. ASSUME NEW m \in Node
      PROVE  NodeInv(m)'
  <2>1. NodeInv(m)
    BY DEF HandlerInv, NodeInv
  <2>2. CASE UNCHANGED vars
    <3>1. OtherSame(m) /\ UNCHANGED config
      BY <2>2 DEF vars, local, node, OtherSame, NodeSame
    <3>. QED
      BY <2>1, <3>1, OtherKeeps
  <2>3. ASSUME NEW n \in Node, Step(n)
        PROVE  NodeInv(m)'
    BY <1>1, <2>1, <2>3, StepKeeps DEF HandlerInv, NodeInv
  <2>4. ASSUME NEW n \in Node, External(n)
        PROVE  NodeInv(m)'
    BY <1>1, <2>1, <2>4, ExternalKeeps
  <2>. QED
    BY <2>2, <2>3, <2>4 DEF Next, Terminated
<1>. QED
  BY <1>1, <1>2 DEF HandlerInv, NodeInv

LEMMA InitHandler ==
    ASSUME Init
    PROVE  HandlerInv
<1>1. TypeOK
  BY InitType
<1>2. ASSUME NEW n \in Node
      PROVE  PowerInv(n) /\ EvacuationInv(n) /\ ServiceInv(n)
  BY <1>2 DEF Init, PowerInv, EvacuationInv, ServiceInv, ComputeInv, StorageInv, Awaited,
     Visible, InService, Rest, InCompute
<1>. QED
  BY <1>1, <1>2 DEF HandlerInv

(* The type of the state of the two hypervisor updates.                    *)
THEOREM HypervisorTypes == Spec => []TypeOK
<1>1. Init => TypeOK
  BY InitType
<1>2. TypeOK /\ [Next]_vars => TypeOK'
  BY NextType
<1>. QED
  BY <1>1, <1>2, PTL DEF Spec

(* The power state that a handler has read is still true when it rewrites  *)
(* LUNs, what it has evacuated is still in maintenance when it stops it,   *)
(* and at every program point the node is as the handler left it.          *)
THEOREM HandlerInvariance == Spec => []HandlerInv
<1>1. Init => HandlerInv
  BY InitHandler
<1>2. HandlerInv /\ [Next]_vars => HandlerInv'
  BY NextHandler
<1>. QED
  BY <1>1, <1>2, PTL DEF Spec

(* An update that ends without an error leaves the node or host in         *)
(* service, whatever the provider, with and without the mutex.             *)
THEOREM SuccessMeansInService == Spec => []OkMeansInService
<1>1. HandlerInv => OkMeansInService
  BY DEF HandlerInv, ServiceInv, OkMeansInService
<1>. QED
  BY <1>1, HandlerInvariance, PTL

(* Only the steps that replace or remap the LUNs change what a server      *)
(* boots from.                                                             *)
LEMMA WhoRewrites ==
    ASSUME TypeOK, NEW n \in Node, Step(n), disk'[n] # disk[n]
    PROVE  pc[n] \in {"storage_image", "storage_remap"}
<1>. USE DEF local, node
<1>1. ~NodeComputeStep(n)
  BY DEF NodeComputeStep, NodeCompute, NodeComputeAcquire, NodeComputeCheck,
     NodeComputeMaintain, NodeComputeStop, NodeComputeBlade, NodeComputeStart,
     NodeComputeWait, NodeComputeReady, NodeComputeResume, NodeComputeGrace,
     NodeComputeAttributes, ReadStates, Acquire, HarvesterAPIInitialize, WaitUntilReady,
     ApiUnreachable, Skip, EnableMaintainanceMode, StopServer, ChangeBlade, StartServer,
     WaitForSSH, DisableMaintainanceMode, ChangeAttributes
<1>2. CASE NodeStorageStep(n)
  BY <1>2 DEF NodeStorageStep, NodeStorage, NodeStorageAcquire, NodeStorageCheck,
     NodeStorageFind, NodeStorageMaintain, NodeStorageLeave, NodeStorageStop,
     NodeStorageImage, NodeStorageStart, NodeStorageNetwork, NodeStorageInstaller,
     NodeStorageOff, NodeStorageRemap, NodeStorageRestart, NodeStorageWait,
     NodeStorageReady, Acquire, ApiUnreachable, Skip, Try, EnableMaintainanceMode, DeleteNode,
     StopServer, StartServer, WaitForSSH
<1>3. ~HostComputeStep(n) /\ ~GiveUp(n)
  BY DEF HostComputeStep, HostCompute, HostComputeAcquire, HostComputeCheck,
     HostComputeShutdown, HostComputeStop, HostComputeBlade, HostComputeStart,
     HostComputeWait, HostComputeResume, HostComputeAttributes, GiveUp, ReadStates, Acquire,
     Skip, ShutdownStep, EnterMaintenanceMode, ShutdownHost, StopServer, ChangeBlade,
     StartServer, WaitForHost, ExitMaintenanceMode, ChangeAttributes
<1>4. CASE HostStorageStep(n)
  BY <1>4 DEF HostStorageStep, HostStorage, HostStorageAcquire, HostStorageCheck,
     HostStorageShutdown, HostStorageStop, HostStorageImage, HostStorageStart,
     HostStorageWait, HostStorageReady, Acquire, Skip, ShutdownStep, EnterMaintenanceMode,
     ShutdownHost, StopServer, StartServer, WaitForHost
<1>. QED
  BY <1>1, <1>2, <1>3, <1>4 DEF Step, NodeStep, HostStep

(* LUNs are only deleted, created and mapped anew while the server is off: *)
(* also between the two stages of the Harvester installation, when it has  *)
(* shut itself down while UCS still asks for power.                        *)
THEOREM RewrittenOnlyOff == Spec => OffBeforeRewrite
<1>. DEFINE Act ==
       \A n \in Node :
          disk[n]' # disk[n] /\ pc[n]' # pc[n] => power[n] = "down" /\ os[n] = "halted"
<1>1. Init => HandlerInv
  BY InitHandler
<1>2. HandlerInv /\ [Next]_vars => HandlerInv'
  BY NextHandler
<1>3. ASSUME HandlerInv, Next, NEW n \in Node, disk'[n] # disk[n], pc'[n] # pc[n]
      PROVE  power[n] = "down" /\ os[n] = "halted"
  <2>1. PICK k \in Node : Step(k)
    BY <1>3 DEF Next, Terminated, vars, External, Boot, Evacuated, NodeInstalled, NodeJoins,
       HostInstalled
  <2>2. k = n
    BY <1>3, <2>1, StepOthers DEF HandlerInv, OtherSame, NodeSame
  <2>3. pc[n] \in {"storage_image", "storage_remap"}
    BY <1>3, <2>1, <2>2, WhoRewrites DEF HandlerInv
  <2>. QED
    BY <1>3, <2>3 DEF HandlerInv, PowerInv
<1>4. HandlerInv /\ [Next]_vars => [Act]_vars
  BY <1>3
<1>. QED
  BY <1>1, <1>2, <1>4, PTL DEF Spec, OffBeforeRewrite

(* Of the steps of an ESX host those that stop it wait for maintenance, or *)
(* stop what has been shut down.                                           *)
LEMMA WhoStopsHosts ==
    ASSUME TypeOK, NEW n \in Node, Step(n), plan[n].kind = "esx",
           os[n] = "running", os'[n] = "halted"
    PROVE  pc[n] \in {"compute_stop", "storage_stop"} \/ maint[n] = "completed"
<1>. USE TypeParts DEF local, node, NodeOK
<1>1. CASE HostComputeStep(n) \/ GiveUp(n)
  BY <1>1 DEF HostComputeStep, HostCompute, HostComputeAcquire, HostComputeCheck,
     HostComputeShutdown, HostComputeStop, HostComputeBlade, HostComputeStart,
     HostComputeWait, HostComputeResume, HostComputeAttributes, GiveUp, ReadStates, Acquire,
     Skip, ShutdownStep, EnterMaintenanceMode, ShutdownHost, Maintained, StopServer,
     ChangeBlade, StartServer, WaitForHost, ExitMaintenanceMode, ChangeAttributes
<1>2. CASE HostStorageStep(n)
  BY <1>2 DEF HostStorageStep, HostStorage, HostStorageAcquire, HostStorageCheck,
     HostStorageShutdown, HostStorageStop, HostStorageImage, HostStorageStart,
     HostStorageWait, HostStorageReady, Acquire, Skip, ShutdownStep, EnterMaintenanceMode,
     ShutdownHost, Maintained, StopServer, StartServer, WaitForHost, Reimage
<1>. QED
  BY <1>1, <1>2 DEF Step, NodeStep, HostStep

(* A node or host found "ok" is only taken down, by the compute handlers   *)
(* and the storage handler of ESX hosts, after its virtual machines have   *)
(* left it: nothing ends the maintenance in between.                       *)
THEOREM StoppedEvacuated == Spec => EvacuatedBeforeOff
<1>. DEFINE Act ==
       \A n \in Node :
          /\ os[n] = "running" /\ os[n]' = "halted" /\ pc[n] # pc[n]'
          /\ seen[n] = "ok"
          /\ \/ plan[n].kind = "harvester" /\ provider.rancher /\ pc[n] = "compute_stop"
             \/ plan[n].kind = "esx" /\ provider.vmware = "enabled"
          => maint[n] = "completed"
<1>1. Init => HandlerInv
  BY InitHandler
<1>2. HandlerInv /\ [Next]_vars => HandlerInv'
  BY NextHandler
<1>3. ASSUME HandlerInv, Next, NEW n \in Node,
             os[n] = "running", os'[n] = "halted", pc[n] # pc'[n], seen[n] = "ok",
             \/ plan[n].kind = "harvester" /\ provider.rancher /\ pc[n] = "compute_stop"
             \/ plan[n].kind = "esx" /\ provider.vmware = "enabled"
      PROVE  maint[n] = "completed"
  <2>1. PICK k \in Node : Step(k)
    BY <1>3 DEF Next, Terminated, vars, External, Boot, Evacuated, NodeInstalled, NodeJoins,
       HostInstalled
  <2>2. k = n
    BY <1>3, <2>1, StepOthers DEF HandlerInv, OtherSame, NodeSame
  <2>3. plan[n].kind = "esx" =>
           pc[n] \in {"compute_stop", "storage_stop"} \/ maint[n] = "completed"
    BY <1>3, <2>1, <2>2, WhoStopsHosts DEF HandlerInv
  <2>. QED
    BY <1>3, <2>3 DEF HandlerInv, EvacuationInv
<1>4. HandlerInv /\ [Next]_vars => [Act]_vars
  BY <1>3
<1>. QED
  BY <1>1, <1>2, <1>4, PTL DEF Spec, EvacuatedBeforeOff

-----------------------------------------------------------------------------
(* What a step of node n's handler does to the turns: it goes on, takes    *)
(* the mutex, or gives it back with or without an error.                   *)

Returned(n) ==
    /\ LastError' = LastError
    /\ Sync' = HolderAfterRelease(n)
    /\ pc'[n] \in {"storage", "done"}
    /\ failed'[n] = failed[n]

Outcome(n) ==
    /\ pc[n] # "done"
    /\ pc[n] \in Unrecorded => UNCHANGED node
    /\ failed'[n] => failed[n] \/ pc'[n] = "done"
    /\ \/ UNCHANGED lock /\ (pc[n] \in Unrecorded => pc'[n] \in Unrecorded \cup {"done"})
       \/ AcquireGranted(n) /\ pc[n] \in Unrecorded
       \/ ReturnError(n)
       \/ Returned(n)

LEMMA HeldOutcome ==
    ASSUME ControlOK, NEW n \in Node, pc[n] \in Held
    PROVE  /\ \A l : Goto(n, l) => Outcome(n)
           /\ ReturnError(n) => Outcome(n)
           /\ \A l \in {"storage", "done"} : EndHandler(n, l) => Outcome(n)
           /\ Panic => Outcome(n)
BY DEF ControlOK, Held, Goto, ReturnError, EndHandler, Panic, Outcome, Returned

LEMMA UnrecordedOutcome ==
    ASSUME ControlOK, NEW n \in Node, pc[n] \in Unrecorded, UNCHANGED node
    PROVE  /\ \A l \in Unrecorded \cup {"done"} : Goto(n, l) => Outcome(n)
           /\ ReturnError(n) => Outcome(n)
           /\ \A l \in {"storage", "done"} : EndHandler(n, l) => Outcome(n)
           /\ \A l, k : Acquire(n, l, k) => Outcome(n)
<1>1. pc[n] # "done"
  BY DEF Unrecorded
<1>2. \A l, k : Acquire(n, l, k) => Outcome(n)
  BY <1>1 DEF ControlOK, Acquire, AcquireRefused, Outcome
<1>. QED
  BY <1>1, <1>2 DEF ControlOK, Goto, ReturnError, EndHandler, Outcome, Returned

LEMMA NodeComputeOutcome ==
    ASSUME ControlOK, NEW n \in Node, NodeComputeStep(n)
    PROVE  Outcome(n)
<1>1. NodeCompute(n) => Outcome(n)
  BY UnrecordedOutcome DEF NodeCompute, ReadStates, Skip, node, Unrecorded
<1>2. NodeComputeAcquire(n) => Outcome(n)
  BY UnrecordedOutcome DEF NodeComputeAcquire, Acquire, Unrecorded
<1>3. NodeComputeAttributes(n) => Outcome(n)
  BY UnrecordedOutcome DEF NodeComputeAttributes, ChangeAttributes, Unrecorded
<1>4. NodeComputeCheck(n) \/ NodeComputeReady(n) \/ NodeComputeGrace(n) => Outcome(n)
  BY HeldOutcome DEF NodeComputeCheck, NodeComputeReady, NodeComputeGrace,
     HarvesterAPIInitialize, WaitUntilReady, ApiUnreachable, Skip, Held, Label, Unrecorded
<1>5. NodeComputeMaintain(n) \/ NodeComputeResume(n) => Outcome(n)
  BY HeldOutcome DEF NodeComputeMaintain, NodeComputeResume, EnableMaintainanceMode,
     DisableMaintainanceMode, Held, Label, Unrecorded
<1>6. NodeComputeStop(n) \/ NodeComputeStart(n) \/ NodeComputeWait(n) => Outcome(n)
  BY HeldOutcome DEF NodeComputeStop, NodeComputeStart, NodeComputeWait, StopServer,
     StartServer, WaitForSSH, Held, Label, Unrecorded
<1>7. NodeComputeBlade(n) => Outcome(n)
  BY HeldOutcome DEF NodeComputeBlade, ChangeBlade, Held, Label, Unrecorded
<1>. QED
  BY <1>1, <1>2, <1>3, <1>4, <1>5, <1>6, <1>7 DEF NodeComputeStep

LEMMA NodeStorageOutcome ==
    ASSUME ControlOK, NEW n \in Node, NodeStorageStep(n)
    PROVE  Outcome(n)
<1>1. NodeStorage(n) => Outcome(n)
  BY UnrecordedOutcome DEF NodeStorage, Try, Skip, Unrecorded
<1>2. NodeStorageAcquire(n) => Outcome(n)
  BY UnrecordedOutcome DEF NodeStorageAcquire, Acquire, Unrecorded
<1>3. NodeStorageCheck(n) \/ NodeStorageFind(n) => Outcome(n)
  BY HeldOutcome DEF NodeStorageCheck, NodeStorageFind, ApiUnreachable, Skip, Held, Label,
     Unrecorded
<1>4. NodeStorageMaintain(n) \/ NodeStorageLeave(n) => Outcome(n)
  BY HeldOutcome DEF NodeStorageMaintain, NodeStorageLeave, EnableMaintainanceMode,
     DeleteNode, ApiUnreachable, Held, Label, Unrecorded
<1>5. NodeStorageStop(n) \/ NodeStorageStart(n) => Outcome(n)
  BY HeldOutcome DEF NodeStorageStop, NodeStorageStart, StopServer, StartServer, Held, Label,
     Unrecorded
<1>6. NodeStorageOff(n) \/ NodeStorageRestart(n) => Outcome(n)
  BY HeldOutcome DEF NodeStorageOff, NodeStorageRestart, StopServer, StartServer, Held, Label,
     Unrecorded
<1>7. NodeStorageImage(n) \/ NodeStorageRemap(n) => Outcome(n)
  BY HeldOutcome DEF NodeStorageImage, NodeStorageRemap, Reimage, Held, Label, Unrecorded
<1>8. NodeStorageNetwork(n) \/ NodeStorageInstaller(n) => Outcome(n)
  BY HeldOutcome DEF NodeStorageNetwork, NodeStorageInstaller, Held, Label, Unrecorded
<1>9. NodeStorageWait(n) \/ NodeStorageReady(n) => Outcome(n)
  BY HeldOutcome DEF NodeStorageWait, NodeStorageReady, WaitForSSH, ApiUnreachable, Held,
     Label, Unrecorded
<1>. QED
  BY <1>1, <1>2, <1>3, <1>4, <1>5, <1>6, <1>7, <1>8, <1>9 DEF NodeStorageStep

LEMMA HostOutcome ==
    ASSUME ControlOK, NEW n \in Node, HostComputeStep(n) \/ HostStorageStep(n) \/ GiveUp(n)
    PROVE  Outcome(n)
<1>1. HostCompute(n) => Outcome(n)
  BY UnrecordedOutcome DEF HostCompute, ReadStates, Skip, node, Unrecorded
<1>2. HostComputeAcquire(n) \/ HostStorageAcquire(n) => Outcome(n)
  BY UnrecordedOutcome DEF HostComputeAcquire, HostStorageAcquire, Acquire, Unrecorded
<1>3. HostComputeAttributes(n) \/ HostStorage(n) => Outcome(n)
  BY UnrecordedOutcome DEF HostComputeAttributes, HostStorage, ChangeAttributes, Skip,
     Unrecorded
<1>4. HostComputeCheck(n) \/ HostStorageCheck(n) \/ HostStorageReady(n) => Outcome(n)
  BY HeldOutcome DEF HostComputeCheck, HostStorageCheck, HostStorageReady, Held, Label,
     Unrecorded
<1>5. HostComputeShutdown(n) \/ HostStorageShutdown(n) => Outcome(n)
  BY HeldOutcome DEF HostComputeShutdown, HostStorageShutdown, ShutdownStep,
     EnterMaintenanceMode, ShutdownHost, Skip, Held, Label, Unrecorded
<1>6. HostComputeStop(n) \/ HostComputeStart(n) => Outcome(n)
  BY HeldOutcome DEF HostComputeStop, HostComputeStart, StopServer, StartServer, Held, Label,
     Unrecorded
<1>7. HostStorageStop(n) \/ HostStorageStart(n) => Outcome(n)
  BY HeldOutcome DEF HostStorageStop, HostStorageStart, StopServer, StartServer, Held, Label,
     Unrecorded
<1>8. HostComputeWait(n) \/ HostStorageWait(n) \/ GiveUp(n) => Outcome(n)
  BY HeldOutcome DEF HostComputeWait, HostStorageWait, GiveUp, WaitForHost, ProbeConnected,
     ProbeFailed, ProbeDisconnected, Skip, Held, Label, Unrecorded
<1>9. HostComputeBlade(n) \/ HostComputeResume(n) => Outcome(n)
  BY HeldOutcome DEF HostComputeBlade, HostComputeResume, ChangeBlade, ExitMaintenanceMode,
     Skip, Held, Label, Unrecorded
<1>10. HostStorageImage(n) => Outcome(n)
  BY HeldOutcome DEF HostStorageImage, Reimage, Held, Label, Unrecorded
<1>. QED
  BY <1>1, <1>2, <1>3, <1>4, <1>5, <1>6, <1>7, <1>8, <1>9, <1>10 DEF HostComputeStep,
     HostStorageStep

-----------------------------------------------------------------------------
(* With synchronized_updates: turns.                                       *)

LEMMA StepOutcome ==
    ASSUME TypeOK, NEW n \in Node, Step(n)
    PROVE  /\ Outcome(n)
           /\ \A m \in Node \ {n} : m \in Out' <=> m \in Out
           /\ pc[n] \in Unrecorded => Out' = Out
<1>1. Outcome(n)
  BY TypeParts, NodeComputeOutcome, NodeStorageOutcome, HostOutcome DEF Step, NodeStep, HostStep
<1>2. \A m \in Node \ {n} : m \in Out' <=> m \in Out
  BY StepOthers DEF Step, OtherSame, NodeSame, Out, Awaited, Visible, InService, config
<1>3. pc[n] \in Unrecorded => Out' = Out
  BY <1>1 DEF Outcome, Step, Out, Awaited, Visible, InService, config, node
<1>. QED
  BY <1>1, <1>2, <1>3

(* Whoever has nothing to undo is in service.                              *)
LEMMA AtRest ==
    ASSUME HandlerInv, NEW n \in Node,
           pc[n] \in Rest \/ (pc[n] = "done" /\ ~failed[n])
    PROVE  n \notin Out
BY DEF HandlerInv, ServiceInv, Out

LEMMA ControlTurn ==
    ASSUME Synchronized, HandlerInv, TurnInv, NEW n \in Node, Step(n)
    PROVE  /\ \A m \in Node : pc'[m] \in Held => Sync' = m
           /\ \A m \in Node : failed'[m] => pc'[m] = "done"
<1>1. Outcome(n) /\ TypeOK
  BY StepOutcome DEF HandlerInv
<1>2. "done" \notin Held /\ "storage" \notin Held /\ Held \cap Unrecorded = {}
  BY DEF Held, Unrecorded
<1>3. pc[n] \in Label /\ pc'[n] \in Label
  BY <1>1, NextType DEF TypeOK, Next
<1>4. pc[n] \in Held \/ pc[n] \in Unrecorded
  BY <1>1, <1>3 DEF Outcome, Held
<1>5. pc[n] \in Held => Sync = n
  BY DEF TurnInv
<1>6. \A m \in Node \ {n} : (pc'[m] = pc[m] /\ failed'[m] = failed[m]) \/ pc'[m] = "done"
  BY <1>1, StepOthers DEF OtherSame, Ended
<1>7. ASSUME NEW m \in Node, pc'[m] \in Held
      PROVE  Sync' = m
  <2>1. CASE UNCHANGED lock /\ (pc[n] \in Unrecorded => pc'[n] \in Unrecorded \cup {"done"})
    BY <1>2, <1>4, <1>5, <1>6, <1>7, <2>1 DEF TurnInv, lock
  <2>2. CASE AcquireGranted(n)
    BY <1>2, <1>6, <1>7, <2>2, NoNodeAssumption DEF TurnInv, AcquireGranted, CanAcquire
  <2>3. CASE ReturnError(n) \/ Returned(n)
    <3>1. pc'[n] \notin Held
      BY <1>1, <1>2, <2>3 DEF ReturnError, Returned, TypeOK
    <3>2. m # n /\ pc[m] \in Held
      BY <1>2, <1>6, <1>7, <3>1
    <3>. QED
      BY <2>3, <3>2 DEF TurnInv, ReturnError, Returned, HolderAfterRelease
  <2>. QED
    BY <1>1, <2>1, <2>2, <2>3 DEF Outcome
<1>8. ASSUME NEW m \in Node, failed'[m]
      PROVE  pc'[m] = "done"
  BY <1>1, <1>6, <1>8 DEF Outcome, TurnInv
<1>. QED
  BY <1>7, <1>8

LEMMA StepRollout ==
    ASSUME Synchronized, HandlerInv, HandlerInv', TurnInv, NEW n \in Node, Step(n)
    PROVE  /\ [R!Next]_(R!vars)
           /\ TurnInv'
<1>1. /\ Outcome(n) /\ TypeOK
      /\ \A m \in Node \ {n} : m \in Out' <=> m \in Out
      /\ pc[n] \in Unrecorded => Out' = Out
  BY StepOutcome DEF HandlerInv
<1>2. Out \subseteq Node /\ Out' \subseteq Node
  BY DEF Out
<1>3. LastError \in BOOLEAN /\ n # NoNode
  BY NoNodeAssumption DEF HandlerInv, TypeOK, LockTypeOK
<1>4. pc[n] \in Held => Sync = n
  BY DEF TurnInv
<1>5. pc[n] \in Held \/ pc[n] \in Unrecorded
  BY <1>1 DEF Outcome, Held, TypeOK
<1>6. Sync = n => Out \subseteq {n} /\ Out' \in {{}, {n}}
  BY <1>1, <1>2 DEF TurnInv
<1>7. /\ \A m \in Node : pc'[m] \in Held => Sync' = m
      /\ \A m \in Node : failed'[m] => pc'[m] = "done"
  BY ControlTurn
<1>8. SUFFICES /\ [R!Next]_(R!vars)
               /\ \A k, m \in Out' : k = m
               /\ Sync' \in Node => Out' \subseteq {Sync'}
               /\ Sync' = NoNode /\ Out' # {} => LastError'
  BY <1>7 DEF TurnInv
<1>9. CASE UNCHANGED lock
  <2>1. CASE Out' = Out
    BY <1>9, <2>1 DEF TurnInv, R!vars, lock
  <2>2. CASE Out' # Out
    <3>1. Sync = n
      BY <1>1, <1>4, <1>5, <2>2
    <3>2. R!Work(n)
      BY <1>6, <1>9, <3>1 DEF R!Work, lock
    <3>. QED
      BY <1>3, <1>6, <1>9, <3>1, <3>2 DEF R!Next, lock
  <2>. QED
    BY <2>1, <2>2
<1>10. CASE AcquireGranted(n) /\ pc[n] \in Unrecorded
  <2>1. Sync = NoNode /\ ~LastError /\ Sync' = n /\ LastError' = LastError
    BY <1>10 DEF AcquireGranted, CanAcquire
  <2>2. Out = {} /\ Out' = {}
    BY <1>1, <1>10, <2>1 DEF TurnInv
  <2>3. R!Begin(n)
    BY <2>1, <2>2 DEF R!Begin
  <2>. QED
    BY <1>3, <2>1, <2>2, <2>3 DEF R!Next
<1>11. CASE /\ Sync' = HolderAfterRelease(n) /\ Sync = n
            /\ LastError' \in {LastError, TRUE}
            /\ Out' # {} => LastError'
  <2>1. Sync' = NoNode
    BY <1>11 DEF HolderAfterRelease
  <2>2. R!End(n)
    BY <1>6, <1>11, <2>1 DEF R!End
  <2>. QED
    BY <1>6, <1>11, <2>1, <2>2, NoNodeAssumption DEF R!Next
<1>12. CASE ReturnError(n)
  <2>1. CASE pc[n] \in Held
    <3>1. LastError' /\ Sync' = HolderAfterRelease(n)
      BY <1>12, <2>1 DEF ReturnError, Held, ErrorAfterSet
    <3>. QED
      BY <1>4, <1>11, <2>1, <3>1
  <2>2. CASE pc[n] \in Unrecorded
    <3>1. LastError' = LastError /\ Sync' = HolderAfterRelease(n)
      BY <1>12, <2>2 DEF ReturnError
    <3>2. CASE Sync # n
      BY <1>9, <3>1, <3>2 DEF HolderAfterRelease, lock
    <3>3. CASE Sync = n
      <4>1. pc[n] \in Rest
        BY <2>2 DEF Unrecorded, Rest
      <4>2. Out' = {}
        BY <1>1, <1>6, <2>2, <3>3, <4>1, AtRest
      <4>. QED
        BY <1>11, <3>1, <3>3, <4>2
    <3>. QED
      BY <3>2, <3>3
  <2>. QED
    BY <1>5, <2>1, <2>2
<1>13. CASE Returned(n)
  <2>1. CASE Sync # n
    BY <1>9, <1>13, <2>1 DEF Returned, HolderAfterRelease, lock
  <2>2. CASE Sync = n
    <3>1. ~failed[n]
      BY <1>1 DEF Outcome, TurnInv
    <3>2. n \notin Out'
      BY <1>13, <3>1 DEF Returned, HandlerInv, ServiceInv, Rest, Out
    <3>3. Out' = {}
      BY <1>6, <2>2, <3>2
    <3>. QED
      BY <1>11, <1>13, <2>2, <3>3 DEF Returned
  <2>. QED
    BY <2>1, <2>2
<1>. QED
  BY <1>1, <1>9, <1>10, <1>12, <1>13 DEF Outcome

(* What happens outside of the handlers never takes a node out of service. *)
LEMMA ExternalRollout ==
    ASSUME HandlerInv, TurnInv, NEW n \in Node, External(n)
    PROVE  /\ [R!Next]_(R!vars)
           /\ TurnInv'
<1>1. UNCHANGED lock /\ pc' = pc /\ failed' = failed
  BY DEF External, Boot, Evacuated, NodeInstalled, NodeJoins, HostInstalled
<1>2. Out' \subseteq Out
  BY DEF HandlerInv, TypeOK, External, Boot, Evacuated, NodeInstalled, NodeJoins,
     HostInstalled, Out, Awaited, Visible, InService, config
<1>3. CASE Out' = Out
  BY <1>1, <1>3 DEF TurnInv, R!vars, lock
<1>4. CASE Out' # Out
  <2>1. Out' = {}
    BY <1>2, <1>4 DEF TurnInv
  <2>2. R!Recover
    BY <1>1, <2>1 DEF R!Recover, lock
  <2>. QED
    BY <1>1, <2>1, <2>2 DEF R!Next, TurnInv, lock
<1>. QED
  BY <1>3, <1>4

LEMMA NextRollout ==
    ASSUME Synchronized, HandlerInv, TurnInv, [Next]_vars
    PROVE  /\ [R!Next]_(R!vars)
           /\ TurnInv'
<1>1. HandlerInv'
  BY NextHandler
<1>2. CASE UNCHANGED vars
  <2>1. Out' = Out
    BY <1>2 DEF Out, Awaited, Visible, InService, vars, config, node
  <2>2. UNCHANGED lock /\ pc' = pc /\ failed' = failed
    BY <1>2 DEF vars
  <2>. QED
    BY <2>1, <2>2 DEF TurnInv, R!vars, lock
<1>. QED
  BY <1>1, <1>2, StepRollout, ExternalRollout DEF Next, Terminated

LEMMA InitTurn ==
    ASSUME Init
    PROVE  TurnInv /\ R!Init
<1>1. Out = {}
  BY InitHandler, AtRest DEF Init, Rest, Out
<1>2. \A n \in Node : pc[n] \notin Held /\ ~failed[n]
  BY DEF Init, Held, Unrecorded
<1>. QED
  BY <1>1, <1>2 DEF Init, LockInit, TurnInv, R!Init

(* With synchronized_updates the handlers of both kinds implement the      *)
(* abstract rollout, the holder of the mutex having the turn: one node or  *)
(* host out at a time and none any more after a failure, panics included.  *)
THEOREM HypervisorsImplementRollout ==
    ASSUME Synchronized
    PROVE  Spec => Rollout
<1>1. Init => HandlerInv /\ TurnInv /\ R!Init
  BY InitHandler, InitTurn
<1>2. HandlerInv /\ TurnInv /\ [Next]_vars => HandlerInv' /\ TurnInv' /\ [R!Next]_(R!vars)
  BY NextHandler, NextRollout
<1>. QED
  BY <1>1, <1>2, PTL DEF Spec, Rollout, R!Spec

=============================================================================

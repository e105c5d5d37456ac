---------------------- MODULE ServerUpdateServiceProofs ----------------------
(***************************************************************************)
(* One node at a time, for every set of nodes and every Serialised set of  *)
(* plans: proofs of OneNodeOut, OkMeansInService, HaltAfterFailure and     *)
(* OkMeansLabelled, and that the handlers implement Rollout.               *)
(***************************************************************************)
EXTENDS ServerUpdateProofs

(* What one step of node n's handlers does to the turns of Rollout: it     *)
(* takes the turn, works in it, ends it, or has no part in it.             *)
BeginTurn(n) ==
    /\ Sync = NoNode /\ ~LastError
    /\ Sync' = n /\ LastError' = LastError
    /\ InService(n) /\ InService(n)'

WorkTurn(n) == Sync = n /\ Sync' = Sync /\ LastError' = LastError

EndTurn(n) ==
    /\ Sync = n /\ Sync' = NoNode
    /\ LastError => LastError'
    /\ InService(n)' \/ LastError'

NoTurn(n) ==
    /\ Sync # n /\ Sync' = Sync
    /\ LastError => LastError'
    /\ InService(n) /\ InService(n)'

TurnStep(n) == BeginTurn(n) \/ WorkTurn(n) \/ EndTurn(n) \/ NoTurn(n)

PoweredIfBooted(n) == booted[n] => power[n] = "up"

(* Outside of the mutex and not yet done.                                  *)
Free == Rest \ (Held \cup {"compute_attributes"})

-----------------------------------------------------------------------------
(* Control: leaving a program point, by what it has to do with the mutex.  *)

LEMMA HeldRecorded == Held \subseteq Recorded
BY DEF Held, Recorded

LEMMA HeldGoto ==
    ASSUME ControlOK, NEW n \in Node, MutexInv(n), pc[n] \in Held,
           NEW l \in Held \cup {"compute_attributes"}, Goto(n, l)
    PROVE  MutexInv(n)' /\ WorkTurn(n) /\ pc'[n] = l
BY DEF ControlOK, MutexInv, Goto, WorkTurn, lock

LEMMA EnterDone ==
    ASSUME NEW n \in Node, pc'[n] = "done", PoweredIfBooted(n)',
           InService(n)' \/ (failed'[n] /\ LastError'), Sync' # n
    PROVE  NodeInv(n)'
BY DEF NodeInv, MutexInv, ServiceInv, ComputeInv, StorageInv, MaintenanceInv, Held, Rest,
   PoweredIfBooted

LEMMA HeldError ==
    ASSUME ControlOK, Synchronized, NEW n \in Node, MutexInv(n), pc[n] \in Held,
           PoweredIfBooted(n)', ReturnError(n)
    PROVE  NodeInv(n)' /\ EndTurn(n)
<1>1. pc'[n] = "done" /\ failed'[n] /\ LastError'
  BY HeldRecorded DEF ControlOK, ReturnError, ErrorAfterSet
<1>2. Sync = n /\ Sync' = NoNode
  BY DEF MutexInv, ReturnError, HolderAfterRelease
<1>3. NodeInv(n)'
  BY <1>1, <1>2, EnterDone, NoNodeAssumption
<1>. QED
  BY <1>1, <1>2, <1>3 DEF EndTurn

LEMMA HeldEnd ==
    ASSUME ControlOK, NEW n \in Node, MutexInv(n), pc[n] \in Held, InService(n)',
           NEW l \in Free, EndHandler(n, l)
    PROVE  MutexInv(n)' /\ EndTurn(n) /\ pc'[n] = l
<1>1. Sync = n /\ Sync' = NoNode /\ pc'[n] = l /\ LastError' = LastError
  BY DEF MutexInv, EndHandler, HolderAfterRelease, ControlOK
<1>. QED
  BY <1>1, NoNodeAssumption DEF MutexInv, EndTurn, Free

LEMMA FreeHolder ==
    ASSUME NEW n \in Node, MutexInv(n), pc[n] \in Free
    PROVE  Sync # n
BY DEF MutexInv, Free

LEMMA FreeGoto ==
    ASSUME ControlOK, NEW n \in Node, MutexInv(n), pc[n] \in Free, InService(n), InService(n)',
           NEW l \in Free \cup {"compute_attributes", "done"}, Goto(n, l)
    PROVE  MutexInv(n)' /\ NoTurn(n) /\ pc'[n] = l
<1>1. Sync # n
  BY FreeHolder
<1>2. pc'[n] = l /\ Sync' = Sync /\ LastError' = LastError
  BY DEF Goto, ControlOK, lock
<1>3. l \notin Held
  BY DEF Free, Held
<1>. QED
  BY <1>1, <1>2, <1>3 DEF MutexInv, NoTurn

LEMMA FreeError ==
    ASSUME ControlOK, NEW n \in Node, MutexInv(n), pc[n] \in Free,
           InService(n), InService(n)', PoweredIfBooted(n)', ReturnError(n)
    PROVE  NodeInv(n)' /\ NoTurn(n)
<1>1. Sync # n
  BY FreeHolder
<1>2. pc'[n] = "done" /\ Sync' = Sync /\ (LastError => LastError')
  BY <1>1 DEF ReturnError, ControlOK, HolderAfterRelease, ErrorAfterSet
<1>3. NodeInv(n)'
  BY <1>1, <1>2, EnterDone
<1>. QED
  BY <1>1, <1>2, <1>3 DEF NoTurn

LEMMA FreeAcquire ==
    ASSUME ControlOK, Synchronized, NEW n \in Node, MutexInv(n),
           NEW from \in Free, InService(n), InService(n)', PoweredIfBooted(n)',
           NEW l \in Held, Acquire(n, from, l)
    PROVE  \/ NodeInv(n)' /\ NoTurn(n)
           \/ MutexInv(n)' /\ BeginTurn(n) /\ pc'[n] = l
<1>1. Sync # n
  BY FreeHolder DEF Acquire
<1>2. CASE AcquireGranted(n) /\ pc' = [pc EXCEPT ![n] = l]
  BY <1>2 DEF AcquireGranted, CanAcquire, ControlOK, MutexInv, BeginTurn
<1>3. CASE AcquireRefused /\ pc' = [pc EXCEPT ![n] = "done"]
  <2>1. pc'[n] = "done" /\ Sync' = Sync /\ LastError' = LastError
    BY <1>3 DEF AcquireRefused, ControlOK, lock
  <2>. QED
    BY <1>1, <2>1, EnterDone DEF NoTurn
<1>. QED
  BY <1>2, <1>3 DEF Acquire

-----------------------------------------------------------------------------
(* Arriving at a program point: what the invariant asks for there.         *)

Arrival(n) == MutexInv(n)' /\ PoweredIfBooted(n)'

LEMMA EnterRest ==
    ASSUME NEW n \in Node, Arrival(n), InService(n)',
           pc'[n] \in {"compute", "compute_active", "compute_attributes", "storage",
                       "maintenance", "restore", "metadata", "done"}
    PROVE  NodeInv(n)'
BY DEF Arrival, NodeInv, ServiceInv, ComputeInv, StorageInv, MaintenanceInv, PoweredIfBooted

ComputePoints ==
    {"compute_stop", "compute_blade", "compute_start", "compute_ssh", "compute_uncordon"}

LEMMA EnterCompute ==
    ASSUME NEW n \in Node, Arrival(n), pc'[n] \in ComputePoints,
           Whole(n)', KnownHandle(n)', Uncordonable(n)',
           pc'[n] = "compute_uncordon" => booted'[n]
    PROVE  NodeInv(n)'
BY DEF Arrival, NodeInv, ServiceInv, ComputeInv, StorageInv, MaintenanceInv,
       PoweredIfBooted, Rest, ComputePoints

StoragePoints ==
    {"storage_leave", "storage_stop", "storage_snapshot", "storage_image", "storage_start",
     "storage_ssh", "storage_rejoin", "storage_uncordon", "storage_active"}

LEMMA EnterStorage ==
    ASSUME NEW n \in Node, Arrival(n), pc'[n] \in StoragePoints,
           plan'[n].storage = "image", KnownHandle(n)',
           pc'[n] # "storage_leave" => (plan'[n].provider = "rke2" => ~cordoned'[n]),
           pc'[n] \in {"storage_start", "storage_ssh", "storage_rejoin",
                       "storage_uncordon", "storage_active"} => disk'[n] = "new"
    PROVE  NodeInv(n)'
<1>1. ServiceInv(n)'
  BY DEF Arrival, ServiceInv, PoweredIfBooted, Rest, StoragePoints
<1>2. ComputeInv(n)' /\ MaintenanceInv(n)'
  BY DEF ComputeInv, MaintenanceInv, StoragePoints
<1>3. StorageInv(n)'
  BY DEF StorageInv, StoragePoints
<1>. QED
  BY <1>1, <1>2, <1>3 DEF Arrival, NodeInv

LEMMA EnterMaintenance ==
    ASSUME NEW n \in Node, Arrival(n), plan'[n].tasks # <<>>,
           pc'[n] \in {"maintenance_task", "maintenance_start", "maintenance_ssh"},
           Whole(n)', KnownHandle(n)', Uncordonable(n)', UncordonPending(n)',
           pc'[n] = "maintenance_task" => booted'[n]
    PROVE  NodeInv(n)'
BY DEF Arrival, NodeInv, ServiceInv, ComputeInv, StorageInv, MaintenanceInv,
       PoweredIfBooted, Rest

-----------------------------------------------------------------------------
(* The remote calls under the mutex.  Each one either fails, which ends    *)
(* the turn and leaves an error, or goes on to the next program point.     *)

Failed(n) == NodeInv(n)' /\ EndTurn(n)

GoesOn(n, l) == Arrival(n) /\ WorkTurn(n) /\ pc'[n] = l

LEMMA PoweredUnchanged ==
    ASSUME NEW n \in Node, PoweredIfBooted(n), UNCHANGED server
    PROVE  PoweredIfBooted(n)'
BY DEF PoweredIfBooted, server

LEMMA HeldTry ==
    ASSUME ControlOK, Synchronized, NEW n \in Node, MutexInv(n), pc[n] \in Held,
           PoweredIfBooted(n), NEW l \in Held \cup {"compute_attributes"},
           Try(n, l) \/ Skip(n, l)
    PROVE  Failed(n) \/ (GoesOn(n, l) /\ UNCHANGED <<local, server, cluster, handle>>)
<1>1. UNCHANGED <<local, server, cluster, handle>> /\ PoweredIfBooted(n)'
  BY PoweredUnchanged DEF Try, Skip
<1>2. CASE Goto(n, l)
  BY <1>1, <1>2, HeldGoto DEF GoesOn, Arrival
<1>3. CASE ReturnError(n)
  BY <1>1, <1>3, HeldError DEF Failed
<1>. QED
  BY <1>1, <1>2, <1>3 DEF Try, Skip

LEMMA HeldStop ==
    ASSUME ControlOK, ServerOK, Synchronized, NEW n \in Node, MutexInv(n), pc[n] \in Held,
           PoweredIfBooted(n), NEW l \in Held, StopServer(n, l)
    PROVE  Failed(n) \/ (GoesOn(n, l) /\ UNCHANGED <<local, disk, cluster, handle>>)
<1>1. PoweredIfBooted(n)'
  BY DEF StopServer, PoweredIfBooted, ServerOK
<1>2. CASE Goto(n, l)
  BY <1>1, <1>2, HeldGoto DEF GoesOn, Arrival, StopServer
<1>3. CASE ReturnError(n)
  BY <1>1, <1>3, HeldError DEF Failed
<1>. QED
  BY <1>2, <1>3 DEF StopServer

LEMMA HeldStart ==
    ASSUME ControlOK, ServerOK, Synchronized, NEW n \in Node, MutexInv(n), pc[n] \in Held,
           PoweredIfBooted(n), NEW l \in Held, StartServer(n, l)
    PROVE  Failed(n) \/ (GoesOn(n, l) /\ UNCHANGED <<local, booted, disk, cluster, handle>>)
<1>1. PoweredIfBooted(n)'
  BY DEF StartServer, PoweredIfBooted, ServerOK
<1>2. CASE Goto(n, l)
  BY <1>1, <1>2, HeldGoto DEF GoesOn, Arrival, StartServer
<1>3. CASE ReturnError(n)
  BY <1>1, <1>3, HeldError DEF Failed
<1>. QED
  BY <1>2, <1>3 DEF StartServer

LEMMA SSHTimesOutPowered ==
    ASSUME ServerOK, NEW n \in Node, SSHTimesOut(n)
    PROVE  PoweredIfBooted(n)'
BY DEF SSHTimesOut, PoweredIfBooted, ServerOK

LEMMA HeldSSH ==
    ASSUME ControlOK, ServerOK, Synchronized, NEW n \in Node, MutexInv(n), pc[n] \in Held,
           PoweredIfBooted(n), plan[n].ssh, NEW l \in Held, WaitForSSH(n, l)
    PROVE  \/ Failed(n)
           \/ GoesOn(n, l) /\ booted[n] /\ UNCHANGED <<local, server, cluster, handle>>
<1>1. CASE booted[n] /\ UNCHANGED server /\ Goto(n, l)
  <2>1. PoweredIfBooted(n)'
    BY <1>1, PoweredUnchanged
  <2>. QED
    BY <1>1, <2>1, HeldGoto DEF GoesOn, Arrival, WaitForSSH
<1>2. CASE SSHTimesOut(n) /\ ReturnError(n)
  BY <1>2, SSHTimesOutPowered, HeldError DEF Failed
<1>. QED
  BY <1>1, <1>2 DEF WaitForSSH

LEMMA HeldCluster ==
    ASSUME ControlOK, Synchronized, NEW n \in Node, MutexInv(n), pc[n] \in Held,
           PoweredIfBooted(n), NEW l \in Held
    PROVE  /\ ClusterCall(n, Cordon(n), l) =>
                 Failed(n) \/ (GoesOn(n, l) /\ Cordon(n) /\ UNCHANGED <<local, server, handle>>)
           /\ ClusterCall(n, Uncordon(n), l) =>
                 Failed(n) \/ (GoesOn(n, l) /\ Uncordon(n) /\ UNCHANGED <<local, server, handle>>)
           /\ ClusterCall(n, NodeDelete(n), l) =>
                 Failed(n) \/ (GoesOn(n, l) /\ NodeDelete(n) /\ UNCHANGED <<local, server, handle>>)
<1>1. Goto(n, l) /\ UNCHANGED server => GoesOn(n, l)
  BY HeldGoto, PoweredUnchanged DEF GoesOn, Arrival
<1>2. ReturnError(n) /\ UNCHANGED server => Failed(n)
  BY HeldError, PoweredUnchanged DEF Failed
<1>. QED
  BY <1>1, <1>2 DEF ClusterCall

-----------------------------------------------------------------------------
(* Every step of a handler keeps the node's part of the invariant and is a *)
(* step of the node's turn.                                                *)

Before(n) ==
    StateOK /\ PlanOK /\ Synchronized /\ SerialisedPlan(plan[n]) /\ NodeInv(n)

After(n) == NodeInv(n)' /\ TurnStep(n)

LEMMA FailedAfter ==
    ASSUME NEW n \in Node, Failed(n)
    PROVE  After(n)
BY DEF Failed, After, TurnStep

LEMMA InServiceUnchanged ==
    ASSUME NEW n \in Node, UNCHANGED <<server, cluster>>
    PROVE  InService(n)' <=> InService(n)
BY DEF InService, server, cluster

(* RancherAPIInitialize of a member of the cluster fills the handle.       *)
LEMMA InitializeKnown ==
    ASSUME StateOK, PlanOK, NEW n \in Node, SerialisedPlan(plan[n]), member[n],
           InitializeHandle(n), UNCHANGED plan
    PROVE  KnownHandle(n)'
<1>1. plan[n].provider \in Providers /\ plan[n].provider # "rk-api"
  BY PlanRole DEF PlanType, SerialisedPlan
<1>2. \A id, r : Handle(n, id, r) => nodeID'[n] = id /\ roles'[n] = r
  BY DEF Handle, StateOK, HandleOK
<1>. QED
  BY <1>1, <1>2 DEF InitializeHandle, RancherAPIInitialize, Rancher2APIInitialize,
     Rke2APIInitialize, RkeAPIInitialize, Lookup, KnownHandle, RancherApiEnabled, Rancher2,
     RkApi, Providers

LEMMA FreeTry ==
    ASSUME NEW n \in Node, Before(n), pc[n] \in Free,
           NEW l \in {"compute", "storage", "maintenance", "restore", "metadata"},
           Try(n, l) \/ Skip(n, l)
    PROVE  After(n)
<1>1. UNCHANGED <<server, cluster>>
  BY DEF Try, Skip
<1>2. InService(n) /\ InService(n)' /\ PoweredIfBooted(n)'
  BY <1>1, InServiceUnchanged, PoweredUnchanged
     DEF Before, NodeInv, ServiceInv, Free, PoweredIfBooted
<1>3. CASE Goto(n, l)
  <2>1. MutexInv(n)' /\ NoTurn(n) /\ pc'[n] = l
    BY <1>2, <1>3, FreeGoto DEF Before, StateOK, NodeInv, Free, Rest, Held
  <2>. QED
    BY <1>2, <2>1, EnterRest DEF Arrival, After, TurnStep
<1>4. CASE ReturnError(n)
  BY <1>2, <1>4, FreeError DEF Before, StateOK, NodeInv, After, TurnStep
<1>. QED
  BY <1>3, <1>4 DEF Try, Skip

LEMMA SnapshotStep ==
    ASSUME NEW n \in Node, Before(n), Snapshot(n)
    PROVE  After(n)
BY FreeTry DEF Snapshot, Free, Rest, Held

LEMMA ComputeEntry ==
    ASSUME NEW n \in Node, Before(n), Compute(n), UNCHANGED <<plan, task>>
    PROVE  After(n)
<1>0. pc[n] \in Free /\ pc[n] = "compute"
  BY DEF Compute, Free, Rest, Held
<1>1. CASE ~plan[n].compute
  BY <1>0, <1>1, FreeTry DEF Compute
<1>2. CASE plan[n].compute
  <2>1. UNCHANGED <<server, cluster>>
    BY <1>2 DEF Compute
  <2>2. InService(n) /\ InService(n)' /\ PoweredIfBooted(n)'
    BY <1>0, <2>1, InServiceUnchanged, PoweredUnchanged
       DEF Before, NodeInv, ServiceInv, Free, PoweredIfBooted
  <2>3. CASE ReturnError(n)
    BY <1>0, <2>2, <2>3, FreeError DEF Before, StateOK, NodeInv, After, TurnStep
  <2>4. CASE Goto(n, "compute_attributes")
    <3>1. MutexInv(n)' /\ NoTurn(n) /\ pc'[n] = "compute_attributes"
      BY <1>0, <2>2, <2>4, FreeGoto DEF Before, StateOK, NodeInv
    <3>. QED
      BY <2>2, <3>1, EnterRest DEF Arrival, After, TurnStep
  <2>5. CASE /\ Goto(n, "compute_acquire")
             /\ seen' = [seen EXCEPT ![n] = power[n]]
    <3>1. "compute_acquire" \in Free
      BY DEF Free, Rest, Held
    <3>2. MutexInv(n)' /\ NoTurn(n) /\ pc'[n] = "compute_acquire"
      BY <1>0, <2>2, <2>5, <3>1, FreeGoto DEF Before, StateOK, NodeInv
    <3>3. seen'[n] = "up"
      BY <2>2, <2>5 DEF InService, Before, StateOK, LocalOK
    <3>. QED
      BY <2>2, <3>2, <3>3 DEF After, TurnStep, NodeInv, ServiceInv, ComputeInv, StorageInv,
         MaintenanceInv, PoweredIfBooted
  <2>. QED
    BY <1>2, <2>3, <2>4, <2>5 DEF Compute
<1>. QED
  BY <1>1, <1>2

(* A step of a program point under the mutex: what is known before it.     *)
LEMMA HeldFacts ==
    ASSUME NEW n \in Node, Before(n), pc[n] \in Held
    PROVE  /\ ControlOK /\ LocalOK /\ ServerOK /\ ClusterOK /\ HandleOK /\ PlanOK
           /\ Synchronized /\ MutexInv(n) /\ PoweredIfBooted(n)
           /\ plan[n].ssh /\ plan[n].powerstate = "up" /\ ~plan[n].restore
BY DEF Before, StateOK, NodeInv, ServiceInv, PoweredIfBooted, SerialisedPlan

LEMMA HeldRestStep ==
    ASSUME NEW n \in Node, Before(n), pc[n] \in Held,
           NEW l \in {"compute_active", "compute_attributes"},
           GoesOn(n, l), InService(n)'
    PROVE  After(n)
BY EnterRest DEF GoesOn, After, TurnStep

LEMMA ComputeHeldStep ==
    ASSUME NEW n \in Node, Before(n), pc[n] \in Held, NEW l \in ComputePoints,
           GoesOn(n, l), Whole(n)', KnownHandle(n)', Uncordonable(n)',
           l = "compute_uncordon" => booted'[n]
    PROVE  After(n)
BY EnterCompute DEF GoesOn, After, TurnStep

LEMMA ComputeCheckStep ==
    ASSUME NEW n \in Node, Before(n), ComputeCheck(n), UNCHANGED <<plan, task>>
    PROVE  After(n)
<1>1. pc[n] \in Held /\ pc[n] \in Rest /\ pc[n] = "compute_check"
  BY DEF ComputeCheck, Held, Rest
<1>2. InService(n) /\ seen[n] = "up"
  BY <1>1 DEF Before, NodeInv, ServiceInv, ComputeInv
<1>3. PoweredIfBooted(n)'
  BY <1>1, HeldFacts, PoweredUnchanged DEF ComputeCheck
<1>4. CASE ReturnError(n)
  BY <1>1, <1>3, <1>4, HeldFacts, HeldError, FailedAfter DEF Failed
<1>5. CASE InitializeHandle(n) /\ Goto(n, "compute_drain")
  <2>1. MutexInv(n)' /\ WorkTurn(n) /\ pc'[n] = "compute_drain"
    BY <1>1, <1>5, HeldFacts, HeldGoto DEF Held
  <2>2. UNCHANGED <<server, cluster>>
    BY <1>5 DEF ComputeCheck, InitializeHandle
  <2>3. InService(n)'
    BY <1>2, <2>2, InServiceUnchanged
  <2>4. KnownHandle(n)'
    BY <1>2, <1>5, InitializeKnown DEF InService, Before
  <2>5. Whole(n)' /\ Uncordonable(n)'
    BY <2>3 DEF InService, Whole, Uncordonable
  <2>. QED
    BY <1>3, <2>1, <2>3, <2>4, <2>5 DEF After, TurnStep, NodeInv, ServiceInv, ComputeInv,
       StorageInv, MaintenanceInv, PoweredIfBooted
<1>. QED
  BY <1>2, <1>4, <1>5 DEF ComputeCheck

LEMMA ComputeDrainStep ==
    ASSUME NEW n \in Node, Before(n), ComputeDrain(n), UNCHANGED <<plan, task>>
    PROVE  After(n)
<1>1. pc[n] \in Held /\ pc[n] = "compute_drain"
  BY DEF ComputeDrain, Held
<1>2. Whole(n) /\ KnownHandle(n) /\ Uncordonable(n)
  BY <1>1 DEF Before, NodeInv, ComputeInv
<1>3. "compute_stop" \in Held /\ "compute_stop" \in ComputePoints
  BY DEF Held, ComputePoints
<1>4. CASE Try(n, "compute_stop") \/ Skip(n, "compute_stop")
  <2>1. Failed(n) \/ (GoesOn(n, "compute_stop") /\ UNCHANGED <<local, server, cluster, handle>>)
    BY <1>1, <1>3, <1>4, HeldFacts, HeldTry
  <2>2. UNCHANGED <<local, server, cluster, handle>> =>
            Whole(n)' /\ KnownHandle(n)' /\ Uncordonable(n)'
    BY <1>2 DEF Whole, KnownHandle, RancherApiEnabled, Uncordonable, IsNodeWorker, server,
       cluster, handle
  <2>. QED
    BY <1>1, <1>3, <2>1, <2>2, FailedAfter, ComputeHeldStep
<1>5. CASE IsNodeWorker(n) /\ ClusterCall(n, Cordon(n), "compute_stop")
  <2>1. Failed(n) \/ (GoesOn(n, "compute_stop") /\ Cordon(n) /\ UNCHANGED <<local, server, handle>>)
    BY <1>1, <1>3, <1>5, HeldFacts, HeldCluster
  <2>2. Cordon(n) /\ UNCHANGED <<local, server, handle>> =>
            Whole(n)' /\ KnownHandle(n)' /\ Uncordonable(n)'
    BY <1>1, <1>2, <1>5, HeldFacts DEF Cordon, SetCordoned, Whole, KnownHandle,
       RancherApiEnabled, Uncordonable,
       IsNodeWorker, server, handle, ClusterOK
  <2>. QED
    BY <1>1, <1>3, <2>1, <2>2, FailedAfter, ComputeHeldStep
<1>. QED
  BY <1>4, <1>5 DEF ComputeDrain, Try

LEMMA ComputeStopStep ==
    ASSUME NEW n \in Node, Before(n), ComputeStop(n), UNCHANGED <<plan, task>>
    PROVE  After(n)
<1>1. pc[n] \in Held /\ pc[n] = "compute_stop"
  BY DEF ComputeStop, Held
<1>2. Whole(n) /\ KnownHandle(n) /\ Uncordonable(n)
  BY <1>1 DEF Before, NodeInv, ComputeInv
<1>3. "compute_blade" \in Held /\ "compute_blade" \in ComputePoints
  BY DEF Held, ComputePoints
<1>4. Failed(n) \/ (GoesOn(n, "compute_blade") /\ UNCHANGED <<local, disk, cluster, handle>>)
  BY <1>1, <1>3, HeldFacts, HeldStop DEF ComputeStop
<1>5. UNCHANGED <<disk, cluster, handle>> => Whole(n)' /\ KnownHandle(n)' /\ Uncordonable(n)'
  BY <1>2 DEF Whole, KnownHandle, RancherApiEnabled, Uncordonable, IsNodeWorker, cluster, handle
<1>. QED
  BY <1>1, <1>3, <1>4, <1>5, FailedAfter, ComputeHeldStep

LEMMA ComputeBladeStep ==
    ASSUME NEW n \in Node, Before(n), ComputeBlade(n), UNCHANGED <<plan, task>>
    PROVE  After(n)
<1>1. pc[n] \in Held /\ pc[n] = "compute_blade"
  BY DEF ComputeBlade, Held
<1>2. Whole(n) /\ KnownHandle(n) /\ Uncordonable(n)
  BY <1>1 DEF Before, NodeInv, ComputeInv
<1>3. "compute_start" \in Held /\ "compute_start" \in ComputePoints
  BY DEF Held, ComputePoints
<1>4. Try(n, "compute_start")
  BY <1>1, HeldFacts DEF ComputeBlade, Try
<1>5. Failed(n) \/ (GoesOn(n, "compute_start") /\ UNCHANGED <<local, server, cluster, handle>>)
  BY <1>1, <1>3, <1>4, HeldFacts, HeldTry
<1>6. UNCHANGED <<server, cluster, handle>> => Whole(n)' /\ KnownHandle(n)' /\ Uncordonable(n)'
  BY <1>2 DEF Whole, KnownHandle, RancherApiEnabled, Uncordonable, IsNodeWorker, server,
     cluster, handle
<1>. QED
  BY <1>1, <1>3, <1>5, <1>6, FailedAfter, ComputeHeldStep

LEMMA ComputeStartStep ==
    ASSUME NEW n \in Node, Before(n), ComputeStart(n), UNCHANGED <<plan, task>>
    PROVE  After(n)
<1>1. pc[n] \in Held /\ pc[n] = "compute_start"
  BY DEF ComputeStart, Held
<1>2. Whole(n) /\ KnownHandle(n) /\ Uncordonable(n)
  BY <1>1 DEF Before, NodeInv, ComputeInv
<1>3. "compute_ssh" \in Held /\ "compute_ssh" \in ComputePoints
  BY DEF Held, ComputePoints
<1>4. \/ Failed(n)
      \/ GoesOn(n, "compute_ssh") /\ UNCHANGED <<local, booted, disk, cluster, handle>>
  BY <1>1, <1>3, HeldFacts, HeldStart DEF ComputeStart
<1>5. UNCHANGED <<disk, cluster, handle>> => Whole(n)' /\ KnownHandle(n)' /\ Uncordonable(n)'
  BY <1>2 DEF Whole, KnownHandle, RancherApiEnabled, Uncordonable, IsNodeWorker, cluster, handle
<1>. QED
  BY <1>1, <1>3, <1>4, <1>5, FailedAfter, ComputeHeldStep

LEMMA ComputeSSHStep ==
    ASSUME NEW n \in Node, Before(n), ComputeSSH(n), UNCHANGED <<plan, task>>
    PROVE  After(n)
<1>1. pc[n] \in Held /\ pc[n] = "compute_ssh"
  BY DEF ComputeSSH, Held
<1>2. Whole(n) /\ KnownHandle(n) /\ Uncordonable(n)
  BY <1>1 DEF Before, NodeInv, ComputeInv
<1>3. "compute_uncordon" \in Held /\ "compute_uncordon" \in ComputePoints
  BY DEF Held, ComputePoints
<1>4. \/ Failed(n)
      \/ /\ GoesOn(n, "compute_uncordon") /\ booted[n]
         /\ UNCHANGED <<local, server, cluster, handle>>
  BY <1>1, <1>3, HeldFacts, HeldSSH DEF ComputeSSH
<1>5. booted[n] /\ UNCHANGED <<server, cluster, handle>> =>
          Whole(n)' /\ KnownHandle(n)' /\ Uncordonable(n)' /\ booted'[n]
  BY <1>2 DEF Whole, KnownHandle, RancherApiEnabled, Uncordonable, IsNodeWorker, server,
     cluster, handle
<1>. QED
  BY <1>1, <1>3, <1>4, <1>5, FailedAfter, ComputeHeldStep

(* Uncordoning undoes every cordon, since only workers are cordoned.       *)
LEMMA UncordonReturns ==
    ASSUME ClusterOK, NEW n \in Node, Whole(n), Uncordonable(n), booted[n], power[n] = "up",
           UNCHANGED server,
           Uncordon(n) \/ (~IsNodeWorker(n) /\ UNCHANGED cluster)
    PROVE  InService(n)'
BY DEF ClusterOK, Whole, Uncordonable, Uncordon, SetCordoned, InService, server, cluster

LEMMA ComputeUncordonStep ==
    ASSUME NEW n \in Node, Before(n), ComputeUncordon(n), UNCHANGED <<plan, task>>
    PROVE  After(n)
<1>1. pc[n] \in Held /\ pc[n] = "compute_uncordon"
  BY DEF ComputeUncordon, Held
<1>2. Whole(n) /\ Uncordonable(n) /\ booted[n] /\ power[n] = "up"
  BY <1>1 DEF Before, NodeInv, ComputeInv, ServiceInv
<1>3. "compute_active" \in Held
  BY DEF Held
<1>4. CASE ~IsNodeWorker(n) /\ Skip(n, "compute_active")
  <2>1. \/ Failed(n)
        \/ GoesOn(n, "compute_active") /\ UNCHANGED <<local, server, cluster, handle>>
    BY <1>1, <1>3, <1>4, HeldFacts, HeldTry
  <2>. QED
    BY <1>1, <1>2, <1>4, <2>1, HeldFacts, UncordonReturns, FailedAfter, HeldRestStep
<1>5. CASE ClusterCall(n, Uncordon(n), "compute_active")
  <2>1. \/ Failed(n)
        \/ GoesOn(n, "compute_active") /\ Uncordon(n) /\ UNCHANGED <<local, server, handle>>
    BY <1>1, <1>3, <1>5, HeldFacts, HeldCluster
  <2>. QED
    BY <1>1, <1>2, <2>1, HeldFacts, UncordonReturns, FailedAfter, HeldRestStep
<1>. QED
  BY <1>4, <1>5 DEF ComputeUncordon

LEMMA ComputeActiveStep ==
    ASSUME NEW n \in Node, Before(n), ComputeActive(n), UNCHANGED <<plan, task>>
    PROVE  After(n)
<1>1. pc[n] \in Held /\ pc[n] \in Rest
  BY DEF ComputeActive, Held, Rest
<1>2. InService(n)
  BY <1>1 DEF Before, NodeInv, ServiceInv
<1>3. \/ Failed(n)
      \/ GoesOn(n, "compute_attributes") /\ UNCHANGED <<local, server, cluster, handle>>
  BY <1>1, HeldFacts, HeldTry DEF ComputeActive
<1>. QED
  BY <1>1, <1>2, <1>3, InServiceUnchanged, FailedAfter, HeldRestStep

(* The only program point reached both with and without the mutex.         *)
LEMMA ComputeAttributesStep ==
    ASSUME NEW n \in Node, Before(n), ComputeAttributes(n), UNCHANGED <<plan, task>>
    PROVE  After(n)
<1>1. pc[n] = "compute_attributes" /\ pc[n] \in Rest
  BY DEF ComputeAttributes, Rest
<1>2. UNCHANGED <<server, cluster>>
  BY DEF ComputeAttributes
<1>3. InService(n) /\ InService(n)' /\ PoweredIfBooted(n)'
  BY <1>1, <1>2, InServiceUnchanged, PoweredUnchanged
     DEF Before, NodeInv, ServiceInv, PoweredIfBooted
<1>4. LastError => LastError'
  BY DEF ComputeAttributes, EndHandler, ReturnError, ErrorAfterSet
<1>5. pc'[n] \in {"storage", "done"} /\ Sync' = HolderAfterRelease(n)
  BY DEF ComputeAttributes, EndHandler, ReturnError, Before, StateOK, ControlOK
<1>6. Sync' # n
  BY <1>5, NoNodeAssumption DEF HolderAfterRelease
<1>7. EndTurn(n) \/ NoTurn(n)
  BY <1>3, <1>4, <1>5 DEF HolderAfterRelease, EndTurn, NoTurn
<1>8. MutexInv(n)'
  BY <1>5, <1>6 DEF MutexInv, Held
<1>. QED
  BY <1>3, <1>5, <1>7, <1>8, EnterRest DEF Arrival, After, TurnStep

LEMMA ComputeAcquireStep ==
    ASSUME NEW n \in Node, Before(n), ComputeAcquire(n), UNCHANGED <<plan, task>>
    PROVE  After(n)
<1>1. pc[n] = "compute_acquire" /\ "compute_acquire" \in Free /\ "compute_check" \in Held
  BY DEF ComputeAcquire, Acquire, Free, Rest, Held
<1>2. UNCHANGED <<local, server, cluster>>
  BY DEF ComputeAcquire, Acquire
<1>3. InService(n) /\ InService(n)' /\ PoweredIfBooted(n)' /\ seen'[n] = "up"
  BY <1>1, <1>2, InServiceUnchanged, PoweredUnchanged
     DEF Before, NodeInv, ServiceInv, ComputeInv, Free, PoweredIfBooted, local
<1>4. \/ NodeInv(n)' /\ NoTurn(n)
      \/ MutexInv(n)' /\ BeginTurn(n) /\ pc'[n] = "compute_check"
  BY <1>1, <1>3, FreeAcquire DEF ComputeAcquire, Before, StateOK, NodeInv
<1>. QED
  BY <1>3, <1>4 DEF After, TurnStep, NodeInv, ServiceInv, ComputeInv, StorageInv,
     MaintenanceInv, PoweredIfBooted

LEMMA ComputeSteps ==
    ASSUME NEW n \in Node, Before(n), ComputeStep(n)
    PROVE  After(n)
BY ComputeEntry, ComputeAcquireStep, ComputeCheckStep, ComputeDrainStep, ComputeStopStep,
   ComputeBladeStep, ComputeStartStep, ComputeSSHStep, ComputeUncordonStep,
   ComputeActiveStep, ComputeAttributesStep DEF ComputeStep

-----------------------------------------------------------------------------
(* The storage handler.                                                    *)

LEMMA StorageEntry ==
    ASSUME NEW n \in Node, Before(n), Storage(n), UNCHANGED <<plan, task>>
    PROVE  After(n)
<1>0. pc[n] \in Free /\ pc[n] = "storage" /\ "storage_acquire" \in Free
  BY DEF Storage, Free, Rest, Held
<1>1. CASE plan[n].storage \in {"none", "resize"}
  BY <1>0, <1>1, FreeTry DEF Storage
<1>2. CASE plan[n].storage \notin {"none", "resize"}
  <2>1. plan[n].storage = "image"
    BY <1>2, PlanRole DEF Before, PlanType
  <2>2. UNCHANGED <<server, cluster>>
    BY <1>2 DEF Storage
  <2>3. InService(n) /\ InService(n)' /\ PoweredIfBooted(n)'
    BY <1>0, <2>2, InServiceUnchanged, PoweredUnchanged
       DEF Before, NodeInv, ServiceInv, Free, PoweredIfBooted
  <2>4. CASE ReturnError(n)
    BY <1>0, <2>3, <2>4, FreeError DEF Before, StateOK, NodeInv, After, TurnStep
  <2>5. CASE Goto(n, "storage_acquire")
    <3>1. MutexInv(n)' /\ NoTurn(n) /\ pc'[n] = "storage_acquire"
      BY <1>0, <2>3, <2>5, FreeGoto DEF Before, StateOK, NodeInv
    <3>. QED
      BY <2>1, <2>3, <3>1 DEF After, TurnStep, NodeInv, ServiceInv, ComputeInv, StorageInv,
         MaintenanceInv, PoweredIfBooted
  <2>. QED
    BY <1>2, <2>4, <2>5 DEF Storage
<1>. QED
  BY <1>1, <1>2

LEMMA StorageAcquireStep ==
    ASSUME NEW n \in Node, Before(n), StorageAcquire(n), UNCHANGED <<plan, task>>
    PROVE  After(n)
<1>1. pc[n] = "storage_acquire" /\ "storage_acquire" \in Free /\ "storage_check" \in Held
  BY DEF StorageAcquire, Acquire, Free, Rest, Held
<1>2. UNCHANGED <<server, cluster>>
  BY DEF StorageAcquire, Acquire
<1>3. InService(n) /\ InService(n)' /\ PoweredIfBooted(n)' /\ plan[n].storage = "image"
  BY <1>1, <1>2, InServiceUnchanged, PoweredUnchanged
     DEF Before, NodeInv, ServiceInv, StorageInv, Free, PoweredIfBooted
<1>4. \/ NodeInv(n)' /\ NoTurn(n)
      \/ MutexInv(n)' /\ BeginTurn(n) /\ pc'[n] = "storage_check"
  BY <1>1, <1>3, FreeAcquire DEF StorageAcquire, Before, StateOK, NodeInv
<1>. QED
  BY <1>3, <1>4 DEF After, TurnStep, NodeInv, ServiceInv, ComputeInv, StorageInv,
     MaintenanceInv, PoweredIfBooted

LEMMA StorageCheckStep ==
    ASSUME NEW n \in Node, Before(n), StorageCheck(n), UNCHANGED <<plan, task>>
    PROVE  After(n)
<1>1. pc[n] \in Held /\ pc[n] \in Rest /\ pc[n] = "storage_check"
  BY DEF StorageCheck, Held, Rest
<1>2. InService(n) /\ plan[n].storage = "image"
  BY <1>1 DEF Before, NodeInv, ServiceInv, StorageInv
<1>3. PoweredIfBooted(n)'
  BY <1>1, HeldFacts, PoweredUnchanged DEF StorageCheck
<1>4. CASE ReturnError(n)
  BY <1>1, <1>3, <1>4, HeldFacts, HeldError, FailedAfter DEF Failed
<1>5. CASE InitializeHandle(n) /\ Goto(n, "storage_drain")
  <2>1. MutexInv(n)' /\ WorkTurn(n) /\ pc'[n] = "storage_drain"
    BY <1>1, <1>5, HeldFacts, HeldGoto DEF Held
  <2>2. UNCHANGED <<server, cluster>>
    BY <1>5 DEF StorageCheck, InitializeHandle
  <2>3. InService(n)'
    BY <1>2, <2>2, InServiceUnchanged
  <2>4. KnownHandle(n)'
    BY <1>2, <1>5, InitializeKnown DEF InService, Before
  <2>. QED
    BY <1>2, <1>3, <2>1, <2>3, <2>4 DEF After, TurnStep, NodeInv, ServiceInv, ComputeInv,
       StorageInv, MaintenanceInv, PoweredIfBooted
<1>. QED
  BY <1>4, <1>5 DEF StorageCheck

LEMMA StorageHeldStep ==
    ASSUME NEW n \in Node, Before(n), pc[n] \in Held, NEW l \in StoragePoints,
           plan[n].storage = "image", UNCHANGED plan, GoesOn(n, l), KnownHandle(n)',
           l # "storage_leave" => (plan'[n].provider = "rke2" => ~cordoned'[n]),
           l \in {"storage_start", "storage_ssh", "storage_rejoin", "storage_uncordon",
                  "storage_active"} => disk'[n] = "new"
    PROVE  After(n)
<1>1. pc'[n] = l /\ Arrival(n) /\ WorkTurn(n)
  BY DEF GoesOn
<1>2. NodeInv(n)'
  BY <1>1, EnterStorage
<1>. QED
  BY <1>1, <1>2 DEF After, TurnStep

LEMMA StorageDrainStep ==
    ASSUME NEW n \in Node, Before(n), StorageDrain(n), UNCHANGED <<plan, task>>
    PROVE  After(n)
<1>1. pc[n] \in Held /\ pc[n] = "storage_drain"
  BY DEF StorageDrain, Held
<1>2. KnownHandle(n) /\ plan[n].storage = "image"
  BY <1>1 DEF Before, NodeInv, StorageInv
<1>3. "storage_leave" \in Held /\ "storage_leave" \in StoragePoints
  BY DEF Held, StoragePoints
<1>4. UNCHANGED handle => KnownHandle(n)'
  BY <1>2 DEF KnownHandle, RancherApiEnabled, handle
<1>5. Failed(n) \/ (GoesOn(n, "storage_leave") /\ UNCHANGED handle)
  BY <1>1, <1>3, HeldFacts, HeldTry, HeldCluster DEF StorageDrain
<1>. QED
  BY <1>1, <1>2, <1>3, <1>4, <1>5, FailedAfter, StorageHeldStep

(* With rke2 every node leaves the cluster, which also ends its cordon.    *)
LEMMA StorageLeaveStep ==
    ASSUME NEW n \in Node, Before(n), StorageLeave(n), UNCHANGED <<plan, task>>
    PROVE  After(n)
<1>1. pc[n] \in Held /\ pc[n] = "storage_leave"
  BY DEF StorageLeave, Held
<1>2. KnownHandle(n) /\ plan[n].storage = "image"
  BY <1>1 DEF Before, NodeInv, StorageInv
<1>3. UNCHANGED handle => KnownHandle(n)'
  BY <1>2 DEF KnownHandle, RancherApiEnabled, handle
<1>4. PICK l \in {"storage_stop", "storage_snapshot"} :
         IF ReRegisters(n) THEN ClusterCall(n, NodeDelete(n), l) ELSE Skip(n, l)
  BY DEF StorageLeave
<1>5. l \in Held /\ l \in StoragePoints
  BY DEF Held, StoragePoints
<1>6. CASE ReRegisters(n)
  <2>1. Failed(n) \/ (GoesOn(n, l) /\ NodeDelete(n) /\ UNCHANGED handle)
    BY <1>1, <1>4, <1>5, <1>6, HeldFacts, HeldCluster
  <2>2. NodeDelete(n) => (plan'[n].provider = "rke2" => ~cordoned'[n])
    BY <1>1, <1>2, HeldFacts DEF NodeDelete, LeaveCluster, RkApi, KnownHandle,
       RancherApiEnabled,
       ClusterOK
  <2>. QED
    BY <1>1, <1>2, <1>3, <1>5, <2>1, <2>2, FailedAfter, StorageHeldStep
<1>7. CASE ~ReRegisters(n)
  <2>1. Failed(n) \/ (GoesOn(n, l) /\ UNCHANGED <<local, server, cluster, handle>>)
    BY <1>1, <1>4, <1>5, <1>7, HeldFacts, HeldTry
  <2>2. plan[n].role # {}
    BY PlanRole DEF Before, PlanType
  <2>3. plan[n].provider # "rke2"
    BY <1>2, <1>7, <2>2 DEF ReRegisters, IsProviderRKE2, RKE2Cluster, KnownHandle,
       RancherApiEnabled
  <2>. QED
    BY <1>1, <1>2, <1>3, <1>5, <2>1, <2>3, FailedAfter, StorageHeldStep
<1>. QED
  BY <1>6, <1>7

(* What the rest of the handler, up to the new image, has in common.       *)
LEMMA StorageFacts ==
    ASSUME NEW n \in Node, Before(n), pc[n] \in StoragePoints
    PROVE  /\ pc[n] \in Held
           /\ plan[n].storage = "image" /\ KnownHandle(n)
           /\ UNCHANGED <<handle, plan>> => KnownHandle(n)'
           /\ pc[n] # "storage_leave" => (plan[n].provider = "rke2" => ~cordoned[n])
           /\ pc[n] \in {"storage_start", "storage_ssh", "storage_rejoin",
                         "storage_uncordon", "storage_active"} => disk[n] = "new"
<1>1. StorageInv(n)
  BY DEF Before, NodeInv
<1>2. pc[n] \in Held
  BY DEF Held, StoragePoints
<1>3. plan[n].storage = "image" /\ KnownHandle(n)
  BY <1>1 DEF StorageInv, StoragePoints
<1>4. UNCHANGED <<handle, plan>> => KnownHandle(n)'
  BY <1>3 DEF KnownHandle, RancherApiEnabled, handle
<1>. QED
  BY <1>1, <1>2, <1>3, <1>4 DEF StorageInv, StoragePoints

LEMMA StorageStopStep ==
    ASSUME NEW n \in Node, Before(n), StorageStop(n), UNCHANGED <<plan, task>>
    PROVE  After(n)
<1>1. pc[n] \in StoragePoints /\ pc[n] # "storage_leave"
  BY DEF StorageStop, StoragePoints
<1>2. "storage_snapshot" \in Held /\ "storage_snapshot" \in StoragePoints
  BY DEF Held, StoragePoints
<1>3. \/ Failed(n)
      \/ GoesOn(n, "storage_snapshot") /\ UNCHANGED <<local, disk, cluster, handle>>
  BY <1>1, <1>2, StorageFacts, HeldFacts, HeldStop DEF StorageStop
<1>. QED
  BY <1>1, <1>2, <1>3, StorageFacts, FailedAfter, StorageHeldStep DEF cluster

LEMMA StorageSnapshotStep ==
    ASSUME NEW n \in Node, Before(n), StorageSnapshot(n), UNCHANGED <<plan, task>>
    PROVE  After(n)
<1>1. pc[n] \in StoragePoints /\ pc[n] # "storage_leave"
  BY DEF StorageSnapshot, StoragePoints
<1>2. "storage_image" \in Held /\ "storage_image" \in StoragePoints
  BY DEF Held, StoragePoints
<1>3. \/ Failed(n)
      \/ GoesOn(n, "storage_image") /\ UNCHANGED <<local, server, cluster, handle>>
  BY <1>1, <1>2, StorageFacts, HeldFacts, HeldTry DEF StorageSnapshot
<1>. QED
  BY <1>1, <1>2, <1>3, StorageFacts, FailedAfter, StorageHeldStep DEF cluster

LEMMA StorageImageStep ==
    ASSUME NEW n \in Node, Before(n), StorageImage(n), UNCHANGED <<plan, task>>
    PROVE  After(n)
<1>1. pc[n] \in StoragePoints /\ pc[n] # "storage_leave"
  BY DEF StorageImage, StoragePoints
<1>2. "storage_start" \in Held /\ "storage_start" \in StoragePoints
  BY DEF Held, StoragePoints
<1>3. PoweredIfBooted(n)'
  BY <1>1, StorageFacts, HeldFacts DEF StorageImage, PoweredIfBooted
<1>4. CASE ReturnError(n)
  BY <1>1, <1>3, <1>4, StorageFacts, HeldFacts, HeldError, FailedAfter DEF Failed
<1>5. CASE disk' = [disk EXCEPT ![n] = "new"] /\ Goto(n, "storage_start")
  <2>1. GoesOn(n, "storage_start")
    BY <1>1, <1>2, <1>3, <1>5, StorageFacts, HeldFacts, HeldGoto DEF GoesOn, Arrival
  <2>2. disk'[n] = "new"
    BY <1>1, <1>5, StorageFacts, HeldFacts DEF ServerOK
  <2>3. UNCHANGED <<cluster, handle>>
    BY DEF StorageImage
  <2>. QED
    BY <1>1, <1>2, <2>1, <2>2, <2>3, StorageFacts, StorageHeldStep DEF cluster
<1>6. ~RkApi(n)
  BY DEF Before, SerialisedPlan, RkApi
<1>. QED
  BY <1>4, <1>5, <1>6 DEF StorageImage

LEMMA StorageForceStep ==
    ASSUME NEW n \in Node, Before(n), StorageForce(n)
    PROVE  FALSE
BY DEF StorageForce, Before, NodeInv, StorageInv

LEMMA StorageStartStep ==
    ASSUME NEW n \in Node, Before(n), StorageStart(n), UNCHANGED <<plan, task>>
    PROVE  After(n)
<1>1. pc[n] \in StoragePoints /\ pc[n] = "storage_start"
  BY DEF StorageStart, StoragePoints
<1>2. "storage_ssh" \in Held /\ "storage_ssh" \in StoragePoints
  BY DEF Held, StoragePoints
<1>3. \/ Failed(n)
      \/ GoesOn(n, "storage_ssh") /\ UNCHANGED <<local, booted, disk, cluster, handle>>
  BY <1>1, <1>2, StorageFacts, HeldFacts, HeldStart DEF StorageStart
<1>. QED
  BY <1>1, <1>2, <1>3, StorageFacts, FailedAfter, StorageHeldStep DEF cluster

(* The dropped error does no harm here: storage_active looks again.        *)
LEMMA StorageSSHStep ==
    ASSUME NEW n \in Node, Before(n), StorageSSH(n), UNCHANGED <<plan, task>>
    PROVE  After(n)
<1>1. pc[n] \in StoragePoints /\ pc[n] = "storage_ssh"
  BY DEF StorageSSH, StoragePoints
<1>2. "storage_rejoin" \in Held /\ "storage_rejoin" \in StoragePoints
  BY DEF Held, StoragePoints
<1>3. PoweredIfBooted(n)'
  BY <1>1, StorageFacts, HeldFacts, SSHTimesOutPowered, PoweredUnchanged DEF StorageSSH
<1>4. CASE ReturnError(n)
  BY <1>1, <1>3, <1>4, StorageFacts, HeldFacts, HeldError, FailedAfter DEF Failed
<1>5. CASE Goto(n, "storage_rejoin")
  <2>1. GoesOn(n, "storage_rejoin")
    BY <1>1, <1>2, <1>3, <1>5, StorageFacts, HeldFacts, HeldGoto DEF GoesOn, Arrival
  <2>2. UNCHANGED <<disk, cluster, handle>>
    BY DEF StorageSSH, SSHTimesOut, server
  <2>. QED
    BY <1>1, <1>2, <2>1, <2>2, StorageFacts, StorageHeldStep DEF cluster
<1>. QED
  BY <1>4, <1>5 DEF StorageSSH

LEMMA StorageRejoinStep ==
    ASSUME NEW n \in Node, Before(n), StorageRejoin(n), UNCHANGED <<plan, task>>
    PROVE  After(n)
<1>1. pc[n] \in StoragePoints /\ pc[n] = "storage_rejoin"
  BY DEF StorageRejoin, StoragePoints
<1>2. "storage_uncordon" \in Held /\ "storage_uncordon" \in StoragePoints
  BY DEF Held, StoragePoints
<1>3. PoweredIfBooted(n)'
  BY <1>1, StorageFacts, HeldFacts, PoweredUnchanged DEF StorageRejoin
<1>4. CASE ReturnError(n)
  BY <1>1, <1>3, <1>4, StorageFacts, HeldFacts, HeldError, FailedAfter DEF Failed
<1>5. CASE Goto(n, "storage_uncordon") /\ (UNCHANGED handle \/ (ReRegisters(n) /\ GetID(n)))
  <2>1. GoesOn(n, "storage_uncordon")
    BY <1>1, <1>2, <1>3, <1>5, StorageFacts, HeldFacts, HeldGoto DEF GoesOn, Arrival
  <2>2. UNCHANGED <<disk, cluster>>
    BY DEF StorageRejoin, server
  <2>3. KnownHandle(n)'
    <3>1. CASE UNCHANGED handle
      BY <1>1, <3>1, StorageFacts
    <3>2. CASE ReRegisters(n) /\ GetID(n)
      <4>1. plan[n].provider = "rke2"
        BY <1>1, <3>2, StorageFacts DEF Before, SerialisedPlan, ReRegisters, IsProviderRKE2,
           RKE2Cluster, RkApi, KnownHandle, RancherApiEnabled
      <4>. QED
        BY <1>1, <3>2, <4>1, StorageFacts, HeldFacts DEF GetID, KnownHandle, HandleOK,
           RancherApiEnabled, RkApi
    <3>. QED
      BY <1>5, <3>1, <3>2
  <2>. QED
    BY <1>1, <1>2, <2>1, <2>2, <2>3, StorageFacts, StorageHeldStep DEF cluster
<1>. QED
  BY <1>4, <1>5 DEF StorageRejoin

LEMMA StorageUncordonStep ==
    ASSUME NEW n \in Node, Before(n), StorageUncordon(n), UNCHANGED <<plan, task>>
    PROVE  After(n)
<1>1. pc[n] \in StoragePoints /\ pc[n] = "storage_uncordon"
  BY DEF StorageUncordon, StoragePoints
<1>2. "storage_active" \in Held /\ "storage_active" \in StoragePoints
  BY DEF Held, StoragePoints
<1>3. CASE Skip(n, "storage_active")
  <2>1. \/ Failed(n)
        \/ GoesOn(n, "storage_active") /\ UNCHANGED <<local, server, cluster, handle>>
    BY <1>1, <1>2, <1>3, StorageFacts, HeldFacts, HeldTry
  <2>. QED
    BY <1>1, <1>2, <2>1, StorageFacts, FailedAfter, StorageHeldStep DEF cluster, server
<1>4. CASE ClusterCall(n, Uncordon(n), "storage_active")
  <2>1. \/ Failed(n)
        \/ GoesOn(n, "storage_active") /\ Uncordon(n) /\ UNCHANGED <<local, server, handle>>
    BY <1>1, <1>2, <1>4, StorageFacts, HeldFacts, HeldCluster
  <2>2. Uncordon(n) => (~cordoned[n] => ~cordoned'[n])
    BY <1>1, StorageFacts, HeldFacts DEF Uncordon, SetCordoned, ClusterOK
  <2>. QED
    BY <1>1, <1>2, <2>1, <2>2, StorageFacts, FailedAfter, StorageHeldStep DEF server
<1>. QED
  BY <1>3, <1>4 DEF StorageUncordon

(* NodeWaitForState sees the node up, registered and schedulable again.    *)
LEMMA StorageActiveStep ==
    ASSUME NEW n \in Node, Before(n), StorageActive(n), UNCHANGED <<plan, task>>
    PROVE  After(n)
<1>1. pc[n] \in StoragePoints /\ pc[n] = "storage_active"
  BY DEF StorageActive, StoragePoints
<1>2. "maintenance" \in Free
  BY DEF Free, Rest, Held
<1>3. UNCHANGED <<server, cluster>> /\ PoweredIfBooted(n)'
  BY <1>1, StorageFacts, HeldFacts, PoweredUnchanged DEF StorageActive
<1>4. CASE ReturnError(n)
  BY <1>1, <1>3, <1>4, StorageFacts, HeldFacts, HeldError, FailedAfter DEF Failed
<1>5. CASE NodeWaitForState(n, {"active"}) /\ EndHandler(n, "maintenance")
  <2>1. disk[n] = "new" /\ nodeID[n] /\ plan[n].provider \in {"rke2", "rancher2-rke1"}
    BY <1>1, StorageFacts DEF KnownHandle, RancherApiEnabled, Before, SerialisedPlan
  <2>2. plan[n].provider = "rke2" => ~cordoned[n]
    BY <1>1, StorageFacts
  <2>3. booted[n] /\ member[n] /\ ~cordoned[n]
    BY <1>5, <2>1, <2>2 DEF NodeWaitForState, Rancher2, Rke2NodeWaitForState, Rke2NodeState,
       Rancher2NodeWaitForState, Rancher2NodeState, RkApi
  <2>4. InService(n)
    BY <1>1, <2>1, <2>3, StorageFacts, HeldFacts DEF InService, PoweredIfBooted
  <2>5. InService(n)'
    BY <1>3, <2>4, InServiceUnchanged
  <2>6. MutexInv(n)' /\ EndTurn(n) /\ pc'[n] = "maintenance"
    BY <1>1, <1>2, <1>5, <2>5, StorageFacts, HeldFacts, HeldEnd
  <2>. QED
    BY <1>3, <2>5, <2>6, EnterRest DEF Arrival, After, TurnStep
<1>. QED
  BY <1>4, <1>5 DEF StorageActive

LEMMA StorageSteps ==
    ASSUME NEW n \in Node, Before(n), StorageStep(n)
    PROVE  After(n)
BY StorageEntry, StorageAcquireStep, StorageCheckStep, StorageDrainStep, StorageLeaveStep,
   StorageStopStep, StorageSnapshotStep, StorageImageStep, StorageForceStep, StorageStartStep,
   StorageSSHStep, StorageRejoinStep, StorageUncordonStep, StorageActiveStep DEF StorageStep

-----------------------------------------------------------------------------
(* The maintenance handler.                                                *)

LEMMA MaintenanceEntry ==
    ASSUME NEW n \in Node, Before(n), Maintenance(n), UNCHANGED plan
    PROVE  After(n)
<1>0. /\ pc[n] \in Free /\ pc[n] = "maintenance" /\ "maintenance_init" \in Free
  BY DEF Maintenance, Free, Rest, Held
<1>1. CASE Try(n, "restore") \/ Skip(n, "restore")
  BY <1>0, <1>1, FreeTry
<1>2. CASE plan[n].tasks # <<>> /\ Try(n, "maintenance_init")
  <2>1. UNCHANGED <<server, cluster>>
    BY <1>2 DEF Try
  <2>2. InService(n) /\ InService(n)' /\ PoweredIfBooted(n)'
    BY <1>0, <2>1, InServiceUnchanged, PoweredUnchanged
       DEF Before, NodeInv, ServiceInv, Free, PoweredIfBooted
  <2>3. CASE ReturnError(n)
    BY <1>0, <2>2, <2>3, FreeError DEF Before, StateOK, NodeInv, After, TurnStep
  <2>4. CASE Goto(n, "maintenance_init")
    <3>1. MutexInv(n)' /\ NoTurn(n) /\ pc'[n] = "maintenance_init"
      BY <1>0, <2>2, <2>4, FreeGoto DEF Before, StateOK, NodeInv
    <3>. QED
      BY <1>2, <2>2, <3>1 DEF After, TurnStep, NodeInv, ServiceInv, ComputeInv, StorageInv,
         MaintenanceInv, PoweredIfBooted
  <2>. QED
    BY <1>2, <2>3, <2>4 DEF Try
<1>. QED
  BY <1>1, <1>2 DEF Maintenance

LEMMA MaintenanceInitStep ==
    ASSUME NEW n \in Node, Before(n), MaintenanceInit(n), UNCHANGED plan
    PROVE  After(n)
<1>0. pc[n] \in Free /\ pc[n] = "maintenance_init" /\ "maintenance_acquire" \in Free
  BY DEF MaintenanceInit, Free, Rest, Held
<1>1. UNCHANGED <<server, cluster>>
  BY DEF MaintenanceInit, InitializeHandle
<1>2. InService(n) /\ InService(n)' /\ PoweredIfBooted(n)' /\ plan[n].tasks # <<>>
  BY <1>0, <1>1, InServiceUnchanged, PoweredUnchanged
     DEF Before, NodeInv, ServiceInv, MaintenanceInv, Free, PoweredIfBooted
<1>3. plan[n].sync
  BY <1>2 DEF Before, SerialisedPlan
<1>4. CASE ReturnError(n)
  BY <1>0, <1>2, <1>4, FreeError DEF Before, StateOK, NodeInv, After, TurnStep
<1>5. CASE InitializeHandle(n) /\ Goto(n, "maintenance_acquire")
  <2>1. MutexInv(n)' /\ NoTurn(n) /\ pc'[n] = "maintenance_acquire"
    BY <1>0, <1>2, <1>5, FreeGoto DEF Before, StateOK, NodeInv
  <2>2. KnownHandle(n)'
    BY <1>2, <1>5, InitializeKnown DEF InService, Before
  <2>3. Whole(n)' /\ Uncordonable(n)' /\ UncordonPending(n)'
    BY <1>2 DEF InService, Whole, Uncordonable, UncordonPending
  <2>. QED
    BY <1>2, <2>1, <2>2, <2>3 DEF After, TurnStep, NodeInv, ServiceInv, ComputeInv,
       StorageInv, MaintenanceInv, PoweredIfBooted
<1>. QED
  BY <1>3, <1>4, <1>5 DEF MaintenanceInit

LEMMA MaintenanceAcquireStep ==
    ASSUME NEW n \in Node, Before(n), MaintenanceAcquire(n), UNCHANGED plan
    PROVE  After(n)
<1>1. /\ pc[n] = "maintenance_acquire" /\ "maintenance_acquire" \in Free
      /\ "maintenance_task" \in Held
  BY DEF MaintenanceAcquire, Acquire, Free, Rest, Held
<1>2. UNCHANGED <<server, cluster, handle, plan, task>>
  BY DEF MaintenanceAcquire, Acquire
<1>3. InService(n) /\ InService(n)' /\ PoweredIfBooted(n)'
  BY <1>1, <1>2, InServiceUnchanged, PoweredUnchanged
     DEF Before, NodeInv, ServiceInv, Free, PoweredIfBooted
<1>4. /\ plan[n].tasks # <<>> /\ Whole(n) /\ KnownHandle(n)
      /\ Uncordonable(n) /\ UncordonPending(n)
  BY <1>1 DEF Before, NodeInv, MaintenanceInv
<1>5. /\ plan'[n].tasks # <<>> /\ Whole(n)' /\ KnownHandle(n)'
      /\ Uncordonable(n)' /\ UncordonPending(n)'
  BY <1>2, <1>4 DEF Whole, KnownHandle, RancherApiEnabled, Uncordonable, UncordonPending,
     IsNodeWorker, server,
     cluster, handle
<1>6. \/ NodeInv(n)' /\ NoTurn(n)
      \/ MutexInv(n)' /\ BeginTurn(n) /\ pc'[n] = "maintenance_task"
  BY <1>1, <1>3, FreeAcquire DEF MaintenanceAcquire, Before, StateOK, NodeInv
<1>7. booted'[n]
  BY <1>3 DEF InService
<1>. QED
  BY <1>3, <1>5, <1>6, <1>7, EnterMaintenance DEF After, TurnStep, Arrival

MaintenancePoints == {"maintenance_task", "maintenance_start", "maintenance_ssh"}

LEMMA MaintenanceFacts ==
    ASSUME NEW n \in Node, Before(n), pc[n] \in MaintenancePoints
    PROVE  /\ pc[n] \in Held
           /\ plan[n].tasks # <<>> /\ Whole(n) /\ KnownHandle(n)
           /\ Uncordonable(n) /\ UncordonPending(n)
           /\ plan[n].tasks \in Seq(Task) /\ task[n] \in Nat \ {0}
           /\ ReturnsToService(plan[n].tasks)
           /\ UNCHANGED <<disk, cluster, handle, plan>> =>
                 Whole(n)' /\ KnownHandle(n)' /\ Uncordonable(n)'
<1>1. pc[n] \in Held
  BY DEF Held, MaintenancePoints
<1>2. /\ plan[n].tasks # <<>> /\ Whole(n) /\ KnownHandle(n)
      /\ Uncordonable(n) /\ UncordonPending(n)
  BY DEF Before, NodeInv, MaintenanceInv, MaintenancePoints
<1>3. plan[n].tasks \in Seq(Task) /\ task[n] \in Nat \ {0}
  BY PlanRole DEF Before, PlanOK, PlanType
<1>4. ReturnsToService(plan[n].tasks)
  BY <1>2 DEF Before, SerialisedPlan
<1>5. UNCHANGED <<disk, cluster, handle, plan>> =>
          Whole(n)' /\ KnownHandle(n)' /\ Uncordonable(n)'
  BY <1>2 DEF Whole, KnownHandle, RancherApiEnabled, Uncordonable, IsNodeWorker, cluster, handle
<1>. QED
  BY <1>1, <1>2, <1>3, <1>4, <1>5

LEMMA MaintenanceHeldStep ==
    ASSUME NEW n \in Node, Before(n), pc[n] \in MaintenancePoints, UNCHANGED plan,
           NEW l \in MaintenancePoints, GoesOn(n, l), Whole(n)', KnownHandle(n)',
           Uncordonable(n)', UncordonPending(n)', l = "maintenance_task" => booted'[n]
    PROVE  After(n)
<1>1. plan'[n].tasks # <<>>
  BY MaintenanceFacts
<1>2. pc'[n] = l /\ Arrival(n) /\ WorkTurn(n)
  BY DEF GoesOn
<1>3. NodeInv(n)'
  BY <1>1, <1>2, EnterMaintenance DEF MaintenancePoints
<1>. QED
  BY <1>2, <1>3 DEF After, TurnStep

(* The cordon that a task leaves behind is undone by a later task.         *)
LEMMA PendingAfterTask ==
    ASSUME NEW n \in Node, Before(n), pc[n] = "maintenance_task",
           task[n] <= Len(plan[n].tasks), UNCHANGED plan,
           task' = [task EXCEPT ![n] = @ + 1],
           \/ plan[n].tasks[task[n]] \in {"cordon", "drain"}
           \/ plan[n].tasks[task[n]] # "uncordon" /\ cordoned'[n] = cordoned[n]
           \/ ~cordoned'[n]
    PROVE  UncordonPending(n)'
<1>. DEFINE T == plan[n].tasks
<1>1. T \in Seq(Task) /\ task[n] \in Nat \ {0} /\ UncordonPending(n) /\ ReturnsToService(T)
  BY MaintenanceFacts DEF MaintenancePoints
<1>2. task'[n] = task[n] + 1
  BY DEF Before, PlanOK
<1>3. DOMAIN T \subseteq Nat /\ task[n] \in DOMAIN T
  BY <1>1
<1>4. CASE T[task[n]] \in {"cordon", "drain"}
  <2>1. PICK j \in DOMAIN T : task[n] < j /\ T[j] = "uncordon"
    BY <1>1, <1>3, <1>4 DEF ReturnsToService
  <2>2. task'[n] <= j
    BY <1>1, <1>2, <1>3, <2>1
  <2>. QED
    BY <2>1, <2>2 DEF UncordonPending
<1>5. CASE T[task[n]] # "uncordon" /\ cordoned'[n] = cordoned[n] /\ cordoned[n]
  <2>1. PICK j \in DOMAIN T : task[n] <= j /\ T[j] = "uncordon"
    BY <1>1, <1>5 DEF UncordonPending
  <2>2. task'[n] <= j
    BY <1>1, <1>2, <1>3, <1>5, <2>1
  <2>. QED
    BY <2>1, <2>2 DEF UncordonPending
<1>6. CASE ~cordoned'[n]
  BY <1>6 DEF UncordonPending
<1>. QED
  BY <1>4, <1>5, <1>6

LEMMA MaintenanceTaskStep ==
    ASSUME NEW n \in Node, Before(n), MaintenanceTask(n), UNCHANGED plan
    PROVE  After(n)
<1>0. pc[n] = "maintenance_task" /\ pc[n] \in MaintenancePoints
  BY DEF MaintenanceTask, MaintenancePoints
<1>1. /\ MaintenancePoints \subseteq Held /\ "maintenance_task" \in MaintenancePoints
      /\ "maintenance_start" \in MaintenancePoints
  BY DEF MaintenancePoints, Held
<1>2. booted[n] /\ power[n] = "up" /\ Whole(n) /\ KnownHandle(n) /\ Uncordonable(n)
  BY <1>0, MaintenanceFacts DEF Before, NodeInv, MaintenanceInv, ServiceInv
<1>3. CASE task[n] > Len(plan[n].tasks) /\ Skip(n, "maintenance_wait")
  <2>1. ~cordoned[n]
    BY <1>0, <1>3, MaintenanceFacts DEF UncordonPending
  <2>2. InService(n) /\ UNCHANGED <<server, cluster>>
    BY <1>2, <1>3, <2>1 DEF InService, Whole, Skip
  <2>3. MutexInv(n)' /\ WorkTurn(n) /\ pc'[n] = "maintenance_wait"
    BY <1>0, <1>3, MaintenanceFacts, HeldFacts, HeldGoto DEF Skip, Held
  <2>4. InService(n)' /\ PoweredIfBooted(n)' /\ plan'[n].tasks # <<>>
    BY <1>0, <2>2, InServiceUnchanged, PoweredUnchanged, MaintenanceFacts, HeldFacts
  <2>. QED
    BY <2>3, <2>4 DEF After, TurnStep, NodeInv, ServiceInv, ComputeInv, StorageInv,
       MaintenanceInv, PoweredIfBooted
<1>4. ASSUME task[n] <= Len(plan[n].tasks), RunTask(n, plan[n].tasks[task[n]]),
             task' = [task EXCEPT ![n] = @ + 1]
      PROVE  After(n)
  <2>. DEFINE t == plan[n].tasks[task[n]]
  <2>1. CASE t \in {"cordon", "drain"} /\ IsNodeWorker(n)
             /\ ClusterCall(n, Cordon(n), "maintenance_task")
    <3>1. \/ Failed(n)
          \/ /\ GoesOn(n, "maintenance_task") /\ Cordon(n)
             /\ UNCHANGED <<local, server, handle>>
      BY <1>0, <1>1, <2>1, MaintenanceFacts, HeldFacts, HeldCluster
    <3>2. Cordon(n) /\ UNCHANGED <<local, server, handle>> =>
              Whole(n)' /\ KnownHandle(n)' /\ Uncordonable(n)' /\ booted'[n]
      BY <1>0, <1>2, <2>1, MaintenanceFacts, HeldFacts DEF Cordon, SetCordoned, Whole,
         KnownHandle, RancherApiEnabled, Uncordonable, IsNodeWorker, server, handle, ClusterOK
    <3>3. UncordonPending(n)'
      BY <1>0, <1>4, <2>1, PendingAfterTask
    <3>. QED
      BY <1>0, <1>1, <3>1, <3>2, <3>3, FailedAfter, MaintenanceHeldStep
  <2>2. CASE t = "uncordon" /\ ClusterCall(n, Uncordon(n), "maintenance_task")
    <3>1. \/ Failed(n)
          \/ /\ GoesOn(n, "maintenance_task") /\ Uncordon(n)
             /\ UNCHANGED <<local, server, handle>>
      BY <1>0, <1>1, <2>2, MaintenanceFacts, HeldFacts, HeldCluster
    <3>2. Uncordon(n) /\ UNCHANGED <<local, server, handle>> =>
              ~cordoned'[n] /\ Whole(n)' /\ KnownHandle(n)' /\ booted'[n]
      BY <1>0, <1>2, MaintenanceFacts, HeldFacts DEF Uncordon, SetCordoned, Whole,
         KnownHandle, RancherApiEnabled, Uncordonable, server, handle, ClusterOK
    <3>3. ~cordoned'[n] => Uncordonable(n)' /\ UncordonPending(n)'
      BY DEF Uncordonable, UncordonPending
    <3>. QED
      BY <1>0, <1>1, <3>1, <3>2, <3>3, FailedAfter, MaintenanceHeldStep
  <2>3. CASE t \in {"cordon", "drain", "uncordon"} /\ ~IsNodeWorker(n)
             /\ Skip(n, "maintenance_task")
    <3>1. \/ Failed(n)
          \/ /\ GoesOn(n, "maintenance_task")
             /\ UNCHANGED <<local, server, cluster, handle>>
      BY <1>0, <1>1, <2>3, MaintenanceFacts, HeldFacts, HeldTry
    <3>2. ~cordoned'[n]
      BY <1>2, <2>3 DEF Uncordonable, Skip, cluster
    <3>3. UncordonPending(n)'
      BY <3>2 DEF UncordonPending
    <3>4. UNCHANGED server => booted'[n] /\ disk' = disk
      BY <1>2 DEF server
    <3>. QED
      BY <1>0, <1>1, <3>1, <3>3, <3>4, MaintenanceFacts, FailedAfter, MaintenanceHeldStep
  <2>4. CASE t = "restart" /\ StopServer(n, "maintenance_start")
    <3>1. \/ Failed(n)
          \/ GoesOn(n, "maintenance_start") /\ UNCHANGED <<local, disk, cluster, handle>>
      BY <1>0, <1>1, <2>4, MaintenanceFacts, HeldFacts, HeldStop
    <3>2. cordoned'[n] = cordoned[n]
      BY <2>4 DEF StopServer, cluster
    <3>3. UncordonPending(n)'
      BY <1>0, <1>4, <2>4, <3>2, PendingAfterTask
    <3>. QED
      BY <1>0, <1>1, <3>1, <3>3, MaintenanceFacts, FailedAfter, MaintenanceHeldStep
  <2>5. CASE t = "upgrade" /\ Try(n, "maintenance_task")
    <3>1. \/ Failed(n)
          \/ /\ GoesOn(n, "maintenance_task")
             /\ UNCHANGED <<local, server, cluster, handle>>
      BY <1>0, <1>1, <2>5, MaintenanceFacts, HeldFacts, HeldTry
    <3>2. cordoned'[n] = cordoned[n]
      BY <2>5 DEF Try, cluster
    <3>3. UncordonPending(n)'
      BY <1>0, <1>4, <2>5, <3>2, PendingAfterTask
    <3>4. UNCHANGED server => booted'[n] /\ disk' = disk
      BY <1>2 DEF server
    <3>. QED
      BY <1>0, <1>1, <3>1, <3>3, <3>4, MaintenanceFacts, FailedAfter, MaintenanceHeldStep
  <2>. QED
    BY <1>4, <2>1, <2>2, <2>3, <2>4, <2>5 DEF RunTask
<1>5. task[n] \in Nat /\ Len(plan[n].tasks) \in Nat
  BY <1>0, MaintenanceFacts
<1>. QED
  BY <1>3, <1>4, <1>5 DEF MaintenanceTask

LEMMA MaintenanceStartStep ==
    ASSUME NEW n \in Node, Before(n), MaintenanceStart(n), UNCHANGED plan
    PROVE  After(n)
<1>1. pc[n] \in MaintenancePoints
  BY DEF MaintenanceStart, MaintenancePoints
<1>2. "maintenance_ssh" \in Held /\ "maintenance_ssh" \in MaintenancePoints
  BY DEF Held, MaintenancePoints
<1>3. \/ Failed(n)
      \/ GoesOn(n, "maintenance_ssh") /\ UNCHANGED <<local, booted, disk, cluster, handle>>
  BY <1>1, <1>2, MaintenanceFacts, HeldFacts, HeldStart DEF MaintenanceStart
<1>4. UNCHANGED cluster => UncordonPending(n)'
  BY <1>1, MaintenanceFacts DEF MaintenanceStart, UncordonPending, cluster
<1>. QED
  BY <1>1, <1>2, <1>3, <1>4, MaintenanceFacts, FailedAfter, MaintenanceHeldStep

LEMMA MaintenanceSSHStep ==
    ASSUME NEW n \in Node, Before(n), MaintenanceSSH(n), UNCHANGED plan
    PROVE  After(n)
<1>1. pc[n] \in MaintenancePoints
  BY DEF MaintenanceSSH, MaintenancePoints
<1>2. "maintenance_task" \in Held /\ "maintenance_task" \in MaintenancePoints
  BY DEF Held, MaintenancePoints
<1>3. \/ Failed(n)
      \/ /\ GoesOn(n, "maintenance_task") /\ booted[n]
         /\ UNCHANGED <<local, server, cluster, handle>>
  BY <1>1, <1>2, MaintenanceFacts, HeldFacts, HeldSSH DEF MaintenanceSSH
<1>4. UNCHANGED cluster => UncordonPending(n)'
  BY <1>1, MaintenanceFacts DEF MaintenanceSSH, UncordonPending, cluster
<1>5. booted[n] /\ UNCHANGED server => booted'[n] /\ disk' = disk
  BY DEF server
<1>. QED
  BY <1>1, <1>2, <1>3, <1>4, <1>5, MaintenanceFacts, FailedAfter, MaintenanceHeldStep

LEMMA MaintenanceWaitStep ==
    ASSUME NEW n \in Node, Before(n), MaintenanceWait(n), UNCHANGED plan
    PROVE  After(n)
<1>1. pc[n] \in Held /\ pc[n] \in Rest /\ "restore" \in Free
  BY DEF MaintenanceWait, Held, Rest, Free
<1>2. UNCHANGED <<server, cluster>>
  BY DEF MaintenanceWait
<1>3. InService(n)' /\ PoweredIfBooted(n)'
  BY <1>1, <1>2, InServiceUnchanged, PoweredUnchanged
     DEF Before, NodeInv, ServiceInv, PoweredIfBooted
<1>4. CASE ReturnError(n)
  BY <1>1, <1>3, <1>4, HeldFacts, HeldError, FailedAfter DEF Failed
<1>5. CASE EndHandler(n, "restore")
  <2>1. MutexInv(n)' /\ EndTurn(n) /\ pc'[n] = "restore"
    BY <1>1, <1>3, <1>5, HeldFacts, HeldEnd
  <2>. QED
    BY <1>3, <2>1, EnterRest DEF Arrival, After, TurnStep
<1>. QED
  BY <1>4, <1>5 DEF MaintenanceWait

LEMMA MaintenanceSteps ==
    ASSUME NEW n \in Node, Before(n), MaintenanceStep(n)
    PROVE  After(n)
BY MaintenanceEntry, MaintenanceInitStep, MaintenanceAcquireStep, MaintenanceTaskStep,
   MaintenanceStartStep, MaintenanceSSHStep, MaintenanceWaitStep DEF MaintenanceStep

-----------------------------------------------------------------------------
(* Restore does not happen in a Serialised plan; the end of the update.    *)

LEMMA RestoreSteps ==
    ASSUME NEW n \in Node, Before(n), RestoreStep(n)
    PROVE  After(n)
<1>1. CASE Restore(n)
  <2>1. Skip(n, "metadata") /\ pc[n] \in Free
    BY <1>1 DEF Restore, Before, SerialisedPlan, Free, Rest, Held
  <2>. QED
    BY <2>1, FreeTry
<1>2. pc[n] \notin {"restore_stop", "restore_image", "restore_start", "restore_ssh"}
  BY DEF Before, NodeInv, ServiceInv
<1>. QED
  BY <1>1, <1>2 DEF RestoreStep, RestoreStop, RestoreImage, RestoreStart, RestoreSSH

LEMMA MetadataStep ==
    ASSUME NEW n \in Node, Before(n), Metadata(n)
    PROVE  After(n)
<1>1. pc[n] \in Free
  BY DEF Metadata, Free, Rest, Held
<1>2. UNCHANGED <<server, cordoned, member>>
  BY DEF Metadata, SetAnnotationsLabelsTaints, cluster
<1>3. InService(n) /\ InService(n)' /\ PoweredIfBooted(n)'
  BY <1>1, <1>2, PoweredUnchanged DEF Before, NodeInv, ServiceInv, Free, PoweredIfBooted,
     InService, server
<1>4. CASE ReturnError(n)
  BY <1>1, <1>3, <1>4, FreeError DEF Before, StateOK, NodeInv, After, TurnStep
<1>5. CASE Goto(n, "done")
  <2>1. MutexInv(n)' /\ NoTurn(n) /\ pc'[n] = "done"
    BY <1>1, <1>3, <1>5, FreeGoto DEF Before, StateOK, NodeInv
  <2>. QED
    BY <1>3, <2>1, EnterRest DEF Arrival, After, TurnStep
<1>. QED
  BY <1>4, <1>5 DEF Metadata

LEMMA NodeSteps ==
    ASSUME NEW n \in Node, Before(n), Step(n)
    PROVE  After(n)
BY SnapshotStep, ComputeSteps, StorageSteps, MaintenanceSteps, RestoreSteps, MetadataStep
   DEF Step

-----------------------------------------------------------------------------
(* A handler touches its own node only.                                    *)

ControlSame(m) == pc'[m] = pc[m] /\ failed'[m] = failed[m]

ServerSame(m) == power'[m] = power[m] /\ booted'[m] = booted[m] /\ disk'[m] = disk[m]

LocalSame(m) == seen'[m] = seen[m] /\ change'[m] = change[m]

ClusterSame(m) ==
    /\ cordoned'[m] = cordoned[m] /\ member'[m] = member[m]
    /\ labelled'[m] = labelled[m] /\ machine'[m] = machine[m]

HandleSame(m) == nodeID'[m] = nodeID[m] /\ roles'[m] = roles[m]

AllSame(m) ==
    ControlSame(m) /\ LocalSame(m) /\ ServerSame(m) /\ ClusterSame(m) /\ HandleSame(m)

LEMMA UnchangedSame ==
    ASSUME NEW m \in Node
    PROVE  /\ UNCHANGED local => LocalSame(m)
           /\ UNCHANGED server => ServerSame(m)
           /\ UNCHANGED cluster => ClusterSame(m)
           /\ UNCHANGED handle => HandleSame(m)
BY DEF local, server, cluster, handle, LocalSame, ServerSame, ClusterSame, HandleSame

LEMMA ControlFrame ==
    ASSUME StateOK, NEW n \in Node, NEW m \in Node \ {n}, NEW l
    PROVE  /\ Goto(n, l) => ControlSame(m)
           /\ ReturnError(n) => ControlSame(m)
           /\ EndHandler(n, l) => ControlSame(m)
BY DEF StateOK, ControlOK, Goto, ReturnError, EndHandler, ControlSame

LEMMA CallFrame ==
    ASSUME StateOK, NEW n \in Node, NEW m \in Node \ {n}, NEW l
    PROVE  /\ Try(n, l) => AllSame(m)
           /\ Skip(n, l) => AllSame(m)
           /\ StopServer(n, l) => AllSame(m)
           /\ StartServer(n, l) => AllSame(m)
           /\ WaitForSSH(n, l) => AllSame(m)
           /\ ClusterCall(n, Cordon(n), l) => AllSame(m)
           /\ ClusterCall(n, Uncordon(n), l) => AllSame(m)
           /\ ClusterCall(n, NodeDelete(n), l) => AllSame(m)
           /\ ClusterCall(n, ForceDelete(n), l) => AllSame(m)
<1>1. Try(n, l) \/ Skip(n, l) => AllSame(m)
  BY ControlFrame, UnchangedSame DEF Try, Skip, AllSame
<1>2. StopServer(n, l) => AllSame(m)
  <2>1. StopServer(n, l) => ServerSame(m)
    BY DEF StopServer, ServerSame, StateOK, ServerOK
  <2>. QED
    BY <2>1, ControlFrame, UnchangedSame DEF StopServer, AllSame
<1>3. StartServer(n, l) => AllSame(m)
  <2>1. StartServer(n, l) => ServerSame(m)
    BY DEF StartServer, ServerSame, StateOK, ServerOK
  <2>. QED
    BY <2>1, ControlFrame, UnchangedSame DEF StartServer, AllSame
<1>4. WaitForSSH(n, l) => AllSame(m)
  <2>1. WaitForSSH(n, l) => ServerSame(m)
    BY DEF WaitForSSH, SSHTimesOut, server, ServerSame, StateOK, ServerOK
  <2>. QED
    BY <2>1, ControlFrame, UnchangedSame DEF WaitForSSH, AllSame
<1>5. Cordon(n) \/ Uncordon(n) \/ NodeDelete(n) \/ ForceDelete(n) => ClusterSame(m)
  BY DEF Cordon, Uncordon, SetCordoned, NodeDelete, LeaveCluster, DeleteMachine, ForceDelete,
     cluster, ClusterSame, StateOK, ClusterOK
<1>6. /\ ClusterCall(n, Cordon(n), l) => AllSame(m)
      /\ ClusterCall(n, Uncordon(n), l) => AllSame(m)
      /\ ClusterCall(n, NodeDelete(n), l) => AllSame(m)
      /\ ClusterCall(n, ForceDelete(n), l) => AllSame(m)
  BY <1>5, ControlFrame, UnchangedSame DEF ClusterCall, AllSame
<1>. QED
  BY <1>1, <1>2, <1>3, <1>4, <1>6

LEMMA InitializeFrame ==
    ASSUME StateOK, NEW n \in Node, NEW m \in Node \ {n}, NEW r, NEW w
    PROVE  /\ RancherAPIInitialize(n, r, w) => HandleSame(m)
           /\ GetID(n) => HandleSame(m)
BY DEF StateOK, HandleOK, RancherAPIInitialize, Rancher2APIInitialize, Rke2APIInitialize,
       RkeAPIInitialize, RkAPIInitialize, Lookup, Handle, GetID, HandleSame

LEMMA AcquireFrame ==
    ASSUME StateOK, NEW n \in Node, NEW m \in Node \ {n}, NEW from, NEW l, Acquire(n, from, l)
    PROVE  AllSame(m)
<1>1. ControlSame(m)
  BY DEF Acquire, ControlSame, StateOK, ControlOK
<1>. QED
  BY <1>1, UnchangedSame DEF Acquire, AllSame

LEMMA ComputeFrame ==
    ASSUME StateOK, NEW n \in Node, NEW m \in Node \ {n}, ComputeStep(n)
    PROVE  AllSame(m)
<1>1. CASE Compute(n)
  <2>1. CASE plan[n].compute
    <3>1. LocalSame(m)
      BY <1>1, <2>1 DEF Compute, local, LocalSame, StateOK, LocalOK
    <3>. QED
      BY <1>1, <2>1, <3>1, ControlFrame, UnchangedSame DEF Compute, AllSame
  <2>. QED
    BY <1>1, <2>1, CallFrame DEF Compute
<1>2. CASE ComputeAcquire(n)
  BY <1>2, AcquireFrame DEF ComputeAcquire
<1>3. CASE ComputeCheck(n)
  BY <1>3, ControlFrame, InitializeFrame, UnchangedSame
     DEF ComputeCheck, InitializeHandle, AllSame
<1>4. CASE ComputeBlade(n)
  BY <1>4, ControlFrame, UnchangedSame DEF ComputeBlade, AllSame
<1>5. CASE ComputeAttributes(n)
  BY <1>5, ControlFrame, UnchangedSame DEF ComputeAttributes, AllSame
<1>6. CASE \/ ComputeDrain(n) \/ ComputeStop(n) \/ ComputeStart(n) \/ ComputeSSH(n)
           \/ ComputeUncordon(n) \/ ComputeActive(n)
  BY <1>6, CallFrame DEF ComputeDrain, Try, ComputeStop, ComputeStart, ComputeSSH,
     ComputeUncordon, ComputeActive
<1>. QED
  BY <1>1, <1>2, <1>3, <1>4, <1>5, <1>6 DEF ComputeStep

LEMMA StorageFrame ==
    ASSUME StateOK, NEW n \in Node, NEW m \in Node \ {n}, StorageStep(n)
    PROVE  AllSame(m)
<1>1. CASE Storage(n)
  <2>1. CASE plan[n].storage \in {"none", "resize"}
    BY <1>1, <2>1, CallFrame DEF Storage
  <2>2. CASE plan[n].storage \notin {"none", "resize"}
    <3>1. LocalSame(m)
      BY <1>1, <2>2 DEF Storage, LocalSame, local, StateOK, LocalOK
    <3>. QED
      BY <1>1, <2>2, <3>1, ControlFrame, UnchangedSame DEF Storage, AllSame
  <2>. QED
    BY <2>1, <2>2
<1>2. CASE StorageAcquire(n)
  BY <1>2, AcquireFrame DEF StorageAcquire
<1>3. CASE StorageCheck(n)
  <2>1. LocalSame(m)
    BY <1>3 DEF StorageCheck, LocalSame, StateOK, LocalOK
  <2>. QED
    BY <1>3, <2>1, ControlFrame, InitializeFrame, UnchangedSame
       DEF StorageCheck, InitializeHandle, AllSame
<1>4. CASE StorageImage(n)
  <2>1. ServerSame(m)
    BY <1>4 DEF StorageImage, ServerSame, StateOK, ServerOK
  <2>. QED
    BY <1>4, <2>1, ControlFrame, UnchangedSame DEF StorageImage, AllSame
<1>5. CASE StorageSSH(n)
  <2>1. ServerSame(m)
    BY <1>5 DEF StorageSSH, SSHTimesOut, server, ServerSame, StateOK, ServerOK
  <2>. QED
    BY <1>5, <2>1, ControlFrame, UnchangedSame DEF StorageSSH, AllSame
<1>6. CASE StorageRejoin(n)
  BY <1>6, ControlFrame, InitializeFrame, UnchangedSame DEF StorageRejoin, AllSame
<1>7. CASE StorageActive(n)
  BY <1>7, ControlFrame, UnchangedSame DEF StorageActive, AllSame
<1>8. CASE \/ StorageDrain(n) \/ StorageStop(n) \/ StorageSnapshot(n) \/ StorageStart(n)
           \/ StorageUncordon(n)
  BY <1>8, CallFrame DEF StorageDrain, StorageStop, StorageSnapshot, StorageStart,
     StorageUncordon
<1>9. CASE StorageLeave(n) \/ StorageForce(n)
  BY <1>9, CallFrame DEF StorageLeave, StorageForce
<1>. QED
  BY <1>1, <1>2, <1>3, <1>4, <1>5, <1>6, <1>7, <1>8, <1>9 DEF StorageStep

LEMMA MaintenanceFrame ==
    ASSUME StateOK, NEW n \in Node, NEW m \in Node \ {n}, MaintenanceStep(n)
    PROVE  AllSame(m)
<1>1. CASE Maintenance(n)
  BY <1>1, CallFrame DEF Maintenance
<1>2. CASE MaintenanceInit(n)
  BY <1>2, ControlFrame, InitializeFrame, UnchangedSame
     DEF MaintenanceInit, InitializeHandle, AllSame
<1>3. CASE MaintenanceAcquire(n)
  BY <1>3, AcquireFrame DEF MaintenanceAcquire
<1>4. CASE MaintenanceTask(n)
  <2>1. ASSUME RunTask(n, plan[n].tasks[task[n]])
        PROVE  AllSame(m)
    BY <2>1, CallFrame DEF RunTask
  <2>. QED
    BY <1>4, <2>1, CallFrame DEF MaintenanceTask
<1>5. CASE MaintenanceStart(n) \/ MaintenanceSSH(n)
  BY <1>5, CallFrame DEF MaintenanceStart, MaintenanceSSH
<1>6. CASE MaintenanceWait(n)
  BY <1>6, ControlFrame, UnchangedSame DEF MaintenanceWait, AllSame
<1>. QED
  BY <1>1, <1>2, <1>3, <1>4, <1>5, <1>6 DEF MaintenanceStep

LEMMA RestoreFrame ==
    ASSUME StateOK, NEW n \in Node, NEW m \in Node \ {n}, RestoreStep(n)
    PROVE  AllSame(m)
<1>1. CASE Restore(n)
  <2>1. CASE plan[n].restore
    <3>1. LocalSame(m)
      BY <1>1, <2>1 DEF Restore, LocalSame, StateOK, LocalOK
    <3>. QED
      BY <1>1, <2>1, <3>1, ControlFrame, UnchangedSame DEF Restore, AllSame
  <2>. QED
    BY <1>1, <2>1, CallFrame DEF Restore
<1>2. CASE RestoreStop(n) \/ RestoreStart(n)
  BY <1>2, CallFrame DEF RestoreStop, RestoreStart
<1>3. CASE RestoreImage(n)
  <2>1. ServerSame(m)
    BY <1>3 DEF RestoreImage, ServerSame, StateOK, ServerOK
  <2>. QED
    BY <1>3, <2>1, ControlFrame, UnchangedSame DEF RestoreImage, AllSame
<1>4. CASE RestoreSSH(n)
  <2>1. ServerSame(m)
    BY <1>4 DEF RestoreSSH, SSHTimesOut, server, ServerSame, StateOK, ServerOK
  <2>2. LocalSame(m)
    BY <1>4 DEF RestoreSSH, LocalSame, StateOK, LocalOK
  <2>. QED
    BY <1>4, <2>1, <2>2, ControlFrame, UnchangedSame DEF RestoreSSH, AllSame
<1>. QED
  BY <1>1, <1>2, <1>3, <1>4 DEF RestoreStep

LEMMA StepFrame ==
    ASSUME StateOK, PlanOK, NEW n \in Node, NEW m \in Node \ {n}, Step(n)
    PROVE  AllSame(m) /\ plan' = plan /\ task'[m] = task[m]
<1>1. AllSame(m)
  <2>1. CASE Snapshot(n)
    BY <2>1, CallFrame DEF Snapshot
  <2>2. CASE Metadata(n)
    <3>1. ClusterSame(m)
      BY <2>2 DEF Metadata, SetAnnotationsLabelsTaints, cluster, ClusterSame,
         StateOK, ClusterOK
    <3>. QED
      BY <2>2, <3>1, ControlFrame, InitializeFrame, UnchangedSame DEF Metadata, AllSame
  <2>. QED
    BY <2>1, <2>2, ComputeFrame, StorageFrame, MaintenanceFrame, RestoreFrame DEF Step
<1>2. plan' = plan
  BY DEF Step, ComputeStep, StorageStep, MaintenanceStep, RestoreStep, Metadata
<1>3. task'[m] = task[m]
  <2>1. CASE MaintenanceStep(n)
    BY <2>1 DEF MaintenanceStep, Maintenance, MaintenanceInit, MaintenanceAcquire,
       MaintenanceTask, MaintenanceStart, MaintenanceSSH, MaintenanceWait, PlanOK
  <2>. QED
    BY <2>1 DEF Step, ComputeStep, StorageStep, RestoreStep, Metadata
<1>. QED
  BY <1>1, <1>2, <1>3

-----------------------------------------------------------------------------
(* The invariant of the whole system.                                      *)

(* Out of service without the mutex: only after a failed update.           *)
LEMMA OutMeansFailed ==
    ASSUME ControlOK, NEW m \in Node, NodeInv(m), Sync # m, ~InService(m)
    PROVE  pc[m] = "done" /\ failed[m] /\ LastError
<1>1. pc[m] \in Label
  BY DEF ControlOK
<1>2. pc[m] \notin Held /\ pc[m] \notin Rest
  BY DEF NodeInv, MutexInv, ServiceInv
<1>3. pc[m] = "done"
  BY <1>1, <1>2 DEF Label, Held, Rest, NodeInv, ServiceInv
<1>. QED
  BY <1>3 DEF NodeInv, ServiceInv

LEMMA InServiceSame ==
    ASSUME NEW m \in Node, AllSame(m)
    PROVE  InService(m)' <=> InService(m)
BY DEF InService, AllSame, ServerSame, ClusterSame

(* A step of node n's handlers leaves another node's part as it is.        *)
LEMMA OtherNode ==
    ASSUME NEW n \in Node, NEW m \in Node \ {n}, NodeInv(m), TurnStep(n),
           AllSame(m), plan' = plan, task'[m] = task[m]
    PROVE  NodeInv(m)'
<1>1. (Sync' = m <=> Sync = m) /\ (LastError => LastError')
  BY NoNodeAssumption DEF TurnStep, BeginTurn, WorkTurn, EndTurn, NoTurn
<1>2. InService(m)' <=> InService(m)
  BY InServiceSame
<1>3. pc'[m] = pc[m] /\ failed'[m] = failed[m] /\ seen'[m] = seen[m]
  BY DEF AllSame, ControlSame, LocalSame
<1>4. ServerSame(m) /\ ClusterSame(m) /\ HandleSame(m)
  BY DEF AllSame
<1>5. /\ Whole(m) => Whole(m)'
      /\ KnownHandle(m) => KnownHandle(m)'
      /\ Uncordonable(m) => Uncordonable(m)'
      /\ UncordonPending(m) => UncordonPending(m)'
  BY <1>4 DEF ServerSame, ClusterSame, HandleSame, Whole, KnownHandle, RancherApiEnabled,
     Uncordonable,
     UncordonPending, IsNodeWorker
<1>6. booted'[m] = booted[m] /\ power'[m] = power[m] /\ disk'[m] = disk[m]
      /\ cordoned'[m] = cordoned[m] /\ plan'[m] = plan[m]
  BY <1>4 DEF ServerSame, ClusterSame
<1>7. MutexInv(m)'
  BY <1>1, <1>3 DEF NodeInv, MutexInv
<1>8. ServiceInv(m)'
  BY <1>1, <1>2, <1>3, <1>6 DEF NodeInv, ServiceInv
<1>9. ComputeInv(m)' /\ StorageInv(m)' /\ MaintenanceInv(m)'
  <2>1. ComputeInv(m)'
    BY <1>3, <1>5, <1>6 DEF NodeInv, ComputeInv
  <2>2. StorageInv(m)'
    BY <1>3, <1>5, <1>6 DEF NodeInv, StorageInv
  <2>3. MaintenanceInv(m)'
    BY <1>3, <1>5, <1>6 DEF NodeInv, MaintenanceInv
  <2>. QED
    BY <2>1, <2>2, <2>3
<1>. QED
  BY <1>7, <1>8, <1>9 DEF NodeInv

Global ==
    StateOK /\ PlanOK /\ OneNodeOut /\ OthersInService /\ \A n \in Node : NodeInv(n)

LEMMA GlobalIsUpdateInv == Global <=> UpdateInv
BY TypeParts DEF Global, UpdateInv, StateOK

(* A handler's step as seen from all nodes.                                *)
LEMMA StepOutcome ==
    ASSUME Serialised, Global, NEW n \in Node, Step(n)
    PROVE  /\ NodeInv(n)' /\ TurnStep(n)
           /\ \A m \in Node \ {n} : NodeInv(m)' /\ (InService(m)' <=> InService(m))
<1>1. plan[n] \in Plans
  BY DEF Global, PlanOK
<1>2. Before(n)
  BY <1>1 DEF Before, Global, Serialised
<1>3. NodeInv(n)' /\ TurnStep(n)
  BY <1>2, NodeSteps DEF After
<1>4. ASSUME NEW m \in Node \ {n}
      PROVE  NodeInv(m)' /\ (InService(m)' <=> InService(m))
  <2>1. AllSame(m) /\ plan' = plan /\ task'[m] = task[m]
    BY StepFrame DEF Global
  <2>. QED
    BY <1>3, <2>1, OtherNode, InServiceSame DEF Global
<1>. QED
  BY <1>3, <1>4

LEMMA StepKeeps ==
    ASSUME Serialised, Global, NEW n \in Node, Step(n)
    PROVE  OneNodeOut' /\ OthersInService' /\ \A m \in Node : NodeInv(m)'
<1>1. /\ NodeInv(n)' /\ TurnStep(n)
      /\ \A m \in Node \ {n} : NodeInv(m)' /\ (InService(m)' <=> InService(m))
  BY StepOutcome
<1>2. Sync = n => \A m \in Node \ {n} : InService(m)
  BY DEF Global, OthersInService
<1>3. OneNodeOut'
  <2>1. ASSUME ~InService(n)'
        PROVE  Sync = n
    BY <1>1, <2>1 DEF TurnStep, BeginTurn, WorkTurn, EndTurn, NoTurn
  <2>2. ASSUME NEW a \in Node, NEW b \in Node, ~InService(a)', ~InService(b)'
        PROVE  a = b
    <3>1. CASE a # n /\ b # n
      BY <1>1, <2>2, <3>1 DEF Global, OneNodeOut
    <3>2. CASE a = n \/ b = n
      BY <1>1, <1>2, <2>1, <2>2, <3>2
    <3>. QED
      BY <3>1, <3>2
  <2>. QED
    BY <2>2 DEF OneNodeOut
<1>4. OthersInService'
  <2>1. ASSUME NEW k \in Node, NEW m \in Node, Sync' = k, m # k
        PROVE  InService(m)'
    <3>1. CASE BeginTurn(n)
      <4>1. k = n /\ m # n /\ Sync # m /\ ~LastError
        BY <2>1, <3>1, NoNodeAssumption DEF BeginTurn
      <4>2. InService(m)
        BY <4>1, OutMeansFailed DEF Global, StateOK
      <4>. QED
        BY <1>1, <4>1, <4>2
    <3>2. CASE WorkTurn(n)
      BY <1>1, <1>2, <2>1, <3>2 DEF WorkTurn
    <3>3. CASE EndTurn(n)
      BY <2>1, <3>3, NoNodeAssumption DEF EndTurn
    <3>4. CASE NoTurn(n)
      BY <1>1, <2>1, <3>4 DEF NoTurn, Global, OthersInService
    <3>. QED
      BY <1>1, <3>1, <3>2, <3>3, <3>4 DEF TurnStep
  <2>. QED
    BY <2>1 DEF OthersInService
<1>. QED
  BY <1>1, <1>3, <1>4

(* A server that boots or a node that registers does no harm.              *)
LEMMA RecoverOutcome ==
    ASSUME Global, NEW n \in Node, Boot(n) \/ Join(n)
    PROVE  /\ UNCHANGED lock
           /\ \A m \in Node : (InService(m) => InService(m)') /\ NodeInv(m)'
           /\ \A m \in Node \ {n} : InService(m)' <=> InService(m)
<1>1. UNCHANGED <<lock, plan, pc, failed, local, task, power, disk, cordoned, handle>>
  BY DEF Boot, Join, Register, cluster
<1>2. \/ booted' = [booted EXCEPT ![n] = TRUE] /\ power[n] = "up" /\ member' = member
      \/ member' = [member EXCEPT ![n] = TRUE] /\ booted' = booted
  BY DEF Boot, Join, Register, cluster
<1>3. ASSUME NEW m \in Node
      PROVE  /\ booted[m] => booted'[m]
             /\ member[m] => member'[m]
             /\ m # n => booted'[m] = booted[m] /\ member'[m] = member[m]
             /\ booted'[m] => booted[m] \/ power[m] = "up"
  BY <1>2 DEF Global, StateOK, ServerOK, ClusterOK
<1>4. /\ Sync' = Sync /\ LastError' = LastError /\ plan' = plan /\ pc' = pc
      /\ failed' = failed /\ seen' = seen /\ task' = task /\ power' = power
      /\ disk' = disk /\ cordoned' = cordoned /\ nodeID' = nodeID /\ roles' = roles
  BY <1>1 DEF lock, local, handle
<1>5. ASSUME NEW m \in Node
      PROVE  /\ InService(m) => InService(m)'
             /\ m # n => (InService(m)' <=> InService(m))
  BY <1>3, <1>4 DEF InService
<1>6. ASSUME NEW m \in Node
      PROVE  NodeInv(m)'
  <2>1. NodeInv(m)
    BY DEF Global
  <2>2. /\ Whole(m) => Whole(m)'
        /\ KnownHandle(m) => KnownHandle(m)'
        /\ Uncordonable(m) => Uncordonable(m)'
        /\ UncordonPending(m) => UncordonPending(m)'
    BY <1>3, <1>4 DEF Whole, KnownHandle, RancherApiEnabled, Uncordonable, UncordonPending,
       IsNodeWorker
  <2>3. MutexInv(m)'
    BY <1>4, <2>1 DEF NodeInv, MutexInv
  <2>4. ServiceInv(m)'
    BY <1>3, <1>4, <1>5, <2>1 DEF NodeInv, ServiceInv
  <2>5. ComputeInv(m)'
    BY <1>3, <1>4, <2>1, <2>2 DEF NodeInv, ComputeInv
  <2>6. StorageInv(m)'
    BY <1>4, <2>1, <2>2 DEF NodeInv, StorageInv
  <2>7. MaintenanceInv(m)'
    BY <1>3, <1>4, <2>1, <2>2 DEF NodeInv, MaintenanceInv
  <2>. QED
    BY <2>3, <2>4, <2>5, <2>6, <2>7 DEF NodeInv
<1>. QED
  BY <1>1, <1>5, <1>6

(* Nothing leaves the cluster by itself: that is how rk-api deletes.       *)
LEMMA NoMachineLeaves ==
    ASSUME Serialised, Global, NEW n \in Node
    PROVE  ~MachineLeaves(n)
<1>1. SerialisedPlan(plan[n])
  BY DEF Serialised, Global, PlanOK
<1>. QED
  BY <1>1 DEF SerialisedPlan, MachineLeaves, MachineDeleted, RkApi

LEMMA InitGlobal ==
    ASSUME Serialised, Init
    PROVE  Global
<1>1. StateOK /\ PlanOK
  BY InitType
<1>2. ASSUME NEW n \in Node
      PROVE  InService(n) /\ NodeInv(n)
  <2>1. plan[n].initial = "up" /\ pc[n] = "snapshot" /\ Sync = NoNode
    BY <1>1 DEF PlanOK, Serialised, SerialisedPlan, Init, LockInit
  <2>2. InService(n)
    BY <2>1 DEF Init, InService
  <2>3. Sync # n
    BY <2>1, NoNodeAssumption
  <2>. QED
    BY <2>1, <2>2, <2>3 DEF NodeInv, MutexInv, ServiceInv, ComputeInv, StorageInv,
       MaintenanceInv, Held, InService
<1>. QED
  BY <1>1, <1>2 DEF Global, OneNodeOut, OthersInService

LEMMA NextGlobal ==
    ASSUME Serialised, Global, [Next]_vars
    PROVE  Global'
<1>1. StateOK' /\ PlanOK'
  BY NextType DEF Global
<1>2. CASE UNCHANGED vars
  <2>1. UNCHANGED <<lock, plan, pc, failed, local, task, server, cluster, handle>>
    BY <1>2 DEF vars
  <2>2. OneNodeOut' /\ OthersInService'
    BY <2>1 DEF Global, OneNodeOut, OthersInService, InService, lock, server, cluster
  <2>3. ASSUME NEW m \in Node
        PROVE  NodeInv(m)'
    <3>1. NodeInv(m)
      BY DEF Global
    <3>2. /\ InService(m)' <=> InService(m)
          /\ Whole(m)' <=> Whole(m)
          /\ KnownHandle(m)' <=> KnownHandle(m)
          /\ Uncordonable(m)' <=> Uncordonable(m)
          /\ UncordonPending(m)' <=> UncordonPending(m)
      BY <2>1 DEF InService, Whole, KnownHandle, RancherApiEnabled, Uncordonable,
         UncordonPending, IsNodeWorker,
         server, cluster, handle
    <3>3. MutexInv(m)' /\ ServiceInv(m)'
      BY <2>1, <3>1, <3>2 DEF NodeInv, MutexInv, ServiceInv, lock, server
    <3>4. ComputeInv(m)' /\ StorageInv(m)' /\ MaintenanceInv(m)'
      BY <2>1, <3>1, <3>2 DEF NodeInv, ComputeInv, StorageInv, MaintenanceInv, local, server,
         cluster
    <3>. QED
      BY <3>3, <3>4 DEF NodeInv
  <2>. QED
    BY <1>1, <2>2, <2>3 DEF Global
<1>3. ASSUME NEW n \in Node, Step(n)
      PROVE  Global'
  BY <1>1, <1>3, StepKeeps DEF Global
<1>4. ASSUME NEW n \in Node, Boot(n) \/ Join(n)
      PROVE  Global'
  <2>1. /\ UNCHANGED lock
        /\ \A m \in Node : (InService(m) => InService(m)') /\ NodeInv(m)'
    BY <1>4, RecoverOutcome
  <2>2. OneNodeOut' /\ OthersInService'
    BY <2>1 DEF Global, OneNodeOut, OthersInService, lock
  <2>. QED
    BY <1>1, <2>1, <2>2 DEF Global
<1>. QED
  BY <1>2, <1>3, <1>4, NoMachineLeaves DEF Next, Terminated

(* The strengthening of OneNodeOut holds in every reachable state.         *)
THEOREM Invariance ==
    ASSUME Serialised
    PROVE  Spec => []UpdateInv
<1>1. Init => Global
  BY InitGlobal
<1>2. Global /\ [Next]_vars => Global'
  BY NextGlobal
<1>3. Global => UpdateInv
  BY GlobalIsUpdateInv
<1>. QED
  BY <1>1, <1>2, <1>3, PTL DEF Spec

(* However many nodes one apply updates, and whatever fails in whichever   *)
(* order, no two of them are ever out of service together: compute,        *)
(* storage and maintenance under the UpdateManager keep to one node.       *)
THEOREM OneAtATime ==
    ASSUME Serialised
    PROVE  Spec => []OneNodeOut
<1>1. Spec => []UpdateInv
  BY Invariance
<1>2. UpdateInv => OneNodeOut
  BY DEF UpdateInv
<1>. QED
  BY <1>1, <1>2, PTL

(* An update without an error diagnostic has put its node back to work.    *)
THEOREM SuccessMeansInService ==
    ASSUME Serialised
    PROVE  Spec => []OkMeansInService
<1>1. Spec => []UpdateInv
  BY Invariance
<1>2. UpdateInv => OkMeansInService
  BY DEF UpdateInv, NodeInv, ServiceInv, OkMeansInService
<1>. QED
  BY <1>1, <1>2, PTL

(* Once an error is recorded in the UpdateManager, no handler that does    *)
(* not hold the mutex gets it or takes its node out of service.            *)
THEOREM FailureHalts ==
    ASSUME Serialised
    PROVE  Spec => HaltAfterFailure
<1>. DEFINE Kept(n) == Sync' # n /\ (InService(n) => InService(n)')
            Act == \A n \in Node : LastError /\ Sync # n => Kept(n)
<1>1. Init => Global
  BY InitGlobal
<1>2. Global /\ [Next]_vars => Global'
  BY NextGlobal
<1>3. ASSUME Global, Next
      PROVE  Act
  <2>1. ASSUME NEW k \in Node, Step(k), NEW n \in Node, LastError, Sync # n
        PROVE  Kept(n)
    <3>1. /\ TurnStep(k)
          /\ \A m \in Node \ {k} : InService(m)' <=> InService(m)
      BY <1>3, <2>1, StepOutcome
    <3>2. Sync' # n
      BY <2>1, <3>1, NoNodeAssumption DEF TurnStep, BeginTurn, WorkTurn, EndTurn, NoTurn
    <3>3. CASE n = k
      BY <2>1, <3>1, <3>2, <3>3 DEF TurnStep, BeginTurn, WorkTurn, EndTurn, NoTurn
    <3>4. CASE n # k
      BY <3>1, <3>2, <3>4
    <3>. QED
      BY <3>3, <3>4
  <2>2. ASSUME NEW k \in Node, Boot(k) \/ Join(k), NEW n \in Node, LastError, Sync # n
        PROVE  Kept(n)
    BY <1>3, <2>2, RecoverOutcome DEF lock
  <2>3. CASE Terminated
    BY <2>3 DEF Terminated, vars, lock, server, cluster, InService
  <2>. QED
    BY <1>3, <2>1, <2>2, <2>3, NoMachineLeaves DEF Next
<1>4. Global /\ [Next]_vars => [Act]_vars
  BY <1>3
<1>. QED
  BY <1>1, <1>2, <1>4, PTL DEF Spec, HaltAfterFailure

-----------------------------------------------------------------------------
(* The refinement of Rollout.                                              *)

Out == {n \in Node : ~InService(n)}

LEMMA InitRollout ==
    ASSUME Serialised, Init
    PROVE  R!Init
<1>1. Global /\ Sync = NoNode /\ LastError = FALSE
  BY InitGlobal DEF Init, LockInit
<1>2. \A n \in Node : InService(n)
  BY <1>1, OutMeansFailed, NoNodeAssumption DEF Global, StateOK
<1>. QED
  BY <1>1, <1>2 DEF R!Init

LEMMA StepRollout ==
    ASSUME Serialised, Global, NEW n \in Node, Step(n)
    PROVE  [R!Next]_(R!vars)
<1>1. /\ TurnStep(n)
      /\ \A m \in Node \ {n} : InService(m)' <=> InService(m)
  BY StepOutcome
<1>2. LastError \in BOOLEAN /\ LastError' \in BOOLEAN
  BY NextType DEF Global, StateOK, ControlOK, LockTypeOK, Next
<1>3. Sync = n => Out \subseteq {n} /\ Out' \subseteq {n}
  BY <1>1 DEF Global, OthersInService, Out
<1>4. CASE BeginTurn(n)
  <2>1. \A m \in Node : InService(m)
    BY <1>4, OutMeansFailed, NoNodeAssumption DEF BeginTurn, Global, StateOK
  <2>2. Out = {} /\ Out' = {}
    BY <1>1, <1>4, <2>1 DEF BeginTurn, Out
  <2>3. R!Begin(n)
    BY <1>4, <2>2 DEF BeginTurn, R!Begin, Out
  <2>. QED
    BY <2>3 DEF R!Next
<1>5. CASE WorkTurn(n)
  <2>1. Out' \in {{}, {n}}
    BY <1>3, <1>5 DEF WorkTurn
  <2>2. R!Work(n)
    BY <1>5, <2>1 DEF WorkTurn, R!Work, Out
  <2>. QED
    BY <2>2 DEF R!Next
<1>6. CASE EndTurn(n)
  <2>1. Out' \in {{}, {n}}
    BY <1>3, <1>6 DEF EndTurn
  <2>2. Out' # {} => LastError'
    BY <1>3, <1>6 DEF EndTurn, Out
  <2>3. R!End(n)
    BY <1>2, <1>6, <2>1, <2>2 DEF EndTurn, R!End, Out
  <2>. QED
    BY <2>3 DEF R!Next
<1>7. CASE NoTurn(n)
  <2>1. Out' = Out
    BY <1>1, <1>7 DEF NoTurn, Out
  <2>2. CASE LastError' = LastError
    BY <1>7, <2>1, <2>2 DEF NoTurn, R!vars, Out
  <2>3. CASE LastError' # LastError
    <3>1. R!Halt
      BY <1>2, <1>7, <2>1, <2>3 DEF NoTurn, R!Halt, Out
    <3>. QED
      BY <3>1 DEF R!Next
  <2>. QED
    BY <2>2, <2>3
<1>. QED
  BY <1>1, <1>4, <1>5, <1>6, <1>7 DEF TurnStep

LEMMA RecoverRollout ==
    ASSUME Serialised, Global, NEW n \in Node, Boot(n) \/ Join(n)
    PROVE  [R!Next]_(R!vars)
<1>1. /\ UNCHANGED lock
      /\ \A m \in Node : InService(m) => InService(m)'
  BY RecoverOutcome
<1>2. Out' \subseteq Out /\ \A a, b \in Out : a = b
  BY <1>1 DEF Out, Global, OneNodeOut
<1>3. CASE Out' = Out
  BY <1>1, <1>3 DEF lock, R!vars, Out
<1>4. CASE Out' # Out
  <2>1. Out' = {}
    BY <1>2, <1>4
  <2>2. R!Recover
    BY <1>1, <2>1 DEF lock, R!Recover, Out
  <2>. QED
    BY <2>2 DEF R!Next
<1>. QED
  BY <1>3, <1>4

(* The handlers, with the mutex holder for the turn and the recorded error *)
(* for the end of the rollout, implement the abstract rollout.             *)
THEOREM ImplementsRollout ==
    ASSUME Serialised
    PROVE  Spec => Rollout
<1>1. Init => Global /\ R!Init
  BY InitGlobal, InitRollout
<1>2. Global /\ [Next]_vars => Global'
  BY NextGlobal
<1>3. ASSUME Global, [Next]_vars
      PROVE  [R!Next]_(R!vars)
  <2>1. CASE UNCHANGED vars
    <3>1. UNCHANGED <<Sync, LastError>> /\ Out' = Out
      BY <2>1 DEF vars, lock, server, cluster, InService, Out
    <3>. QED
      BY <3>1 DEF R!vars, Out
  <2>. QED
    BY <1>3, <2>1, StepRollout, RecoverRollout, NoMachineLeaves DEF Next, Terminated
<1>. QED
  BY <1>1, <1>2, <1>3, PTL DEF Spec, Rollout, R!Spec

-----------------------------------------------------------------------------
(* The labels and taints of the nodes, which a re-image has to set again. *)

(* Neither at the end of an update nor in the middle of a re-image.        *)
Elsewhere(n) == pc'[n] # "done" /\ pc'[n] \notin Imaging

LEMMA LabelArrivals ==
    ASSUME ControlOK, NEW n \in Node, NEW l
    PROVE  /\ Goto(n, l) => pc'[n] = l
           /\ ReturnError(n) => pc'[n] = "done" /\ failed'[n]
           /\ EndHandler(n, l) => pc'[n] = l
           /\ \A from : Acquire(n, from, l) =>
                  pc[n] = from /\ (pc'[n] = l \/ (pc'[n] = "done" /\ failed'[n]))
           /\ Try(n, l) \/ Skip(n, l) => pc'[n] = l \/ (pc'[n] = "done" /\ failed'[n])
BY DEF ControlOK, Goto, ReturnError, EndHandler, Acquire, Try, Skip

(* Most steps leave the labels alone and ChangeStatus no smaller.          *)
LEMMA LabelsKept ==
    ASSUME NEW n \in Node, LabelNode(n),
           labelled'[n] = labelled[n], plan'[n] = plan[n],
           "image" \in change[n] => "image" \in change'[n],
           pc'[n] \in Imaging => pc[n] \in Imaging,
           pc'[n] = "done" => failed'[n]
    PROVE  LabelNode(n)'
BY DEF LabelNode

LEMMA ComputeLabels ==
    ASSUME NEW n \in Node, StateOK, LabelNode(n), ComputeStep(n)
    PROVE  LabelNode(n)'
<1>1. UNCHANGED <<labelled, plan>>
  BY DEF ComputeStep, Compute, ComputeAcquire, ComputeCheck, ComputeDrain, ComputeStop,
     ComputeBlade, ComputeStart, ComputeSSH, ComputeUncordon, ComputeActive,
     ComputeAttributes, InitializeHandle, Acquire, Try, Skip, StopServer, StartServer,
     WaitForSSH, ClusterCall, Cordon, Uncordon, SetCordoned, cluster
<1>2. "image" \in change[n] => "image" \in change'[n]
  <2>1. CASE Compute(n)
    BY <2>1 DEF Compute, Skip, local, StateOK, LocalOK
  <2>2. CASE ~Compute(n)
    BY <2>2 DEF ComputeStep, ComputeAcquire, ComputeCheck, ComputeDrain, ComputeStop,
       ComputeBlade, ComputeStart, ComputeSSH, ComputeUncordon, ComputeActive,
       ComputeAttributes, Acquire, Try, Skip, StopServer, StartServer, WaitForSSH,
       ClusterCall, local
  <2>. QED
    BY <2>1, <2>2
<1>3. Elsewhere(n) \/ (pc'[n] = "done" /\ failed'[n])
  BY LabelArrivals DEF StateOK, Elsewhere, Imaging, ComputeStep, Compute, ComputeAcquire,
     ComputeCheck, ComputeDrain, ComputeStop, ComputeBlade, ComputeStart, ComputeSSH,
     ComputeUncordon, ComputeActive, ComputeAttributes, StopServer, StartServer, WaitForSSH,
     ClusterCall
<1>. QED
  BY <1>1, <1>2, <1>3, LabelsKept DEF Elsewhere, Imaging

(* The storage handler notes the new image before it does anything.        *)
LEMMA StorageEntryLabels ==
    ASSUME NEW n \in Node, StateOK, LabelNode(n), Storage(n), UNCHANGED plan
    PROVE  LabelNode(n)'
<1>1. UNCHANGED labelled
  BY DEF Storage, Try, Skip, cluster
<1>2. CASE plan[n].storage \in {"none", "resize"}
  <2>1. pc'[n] = "maintenance" \/ (pc'[n] = "done" /\ failed'[n])
    BY <1>2, LabelArrivals DEF Storage, StateOK
  <2>2. UNCHANGED change
    BY <1>2 DEF Storage, Try, Skip, local
  <2>. QED
    BY <1>1, <2>1, <2>2, LabelsKept DEF Imaging
<1>3. CASE plan[n].storage \notin {"none", "resize"}
  <2>1. \/ change' = [change EXCEPT ![n] = @ \cup {"image"}] /\ Goto(n, "storage_acquire")
        \/ UNCHANGED local /\ ReturnError(n)
    BY <1>3 DEF Storage
  <2>2. CASE UNCHANGED local /\ ReturnError(n)
    BY <1>1, <2>2, LabelArrivals, LabelsKept DEF StateOK, local, Imaging
  <2>3. CASE change' = [change EXCEPT ![n] = @ \cup {"image"}] /\ Goto(n, "storage_acquire")
    <3>1. "image" \in change'[n] /\ pc'[n] = "storage_acquire"
      BY <2>3, LabelArrivals DEF StateOK, LocalOK
    <3>. QED
      BY <1>1, <3>1 DEF LabelNode
  <2>. QED
    BY <2>1, <2>2, <2>3
<1>. QED
  BY <1>2, <1>3

(* The node that leaves its cluster is one with a new image.               *)
LEMMA StorageLeaveLabels ==
    ASSUME NEW n \in Node, Before(n), LabelNode(n), StorageLeave(n), UNCHANGED plan
    PROVE  LabelNode(n)'
<1>1. pc[n] \in Imaging /\ plan[n].storage = "image" /\ "image" \in change[n]
  BY DEF StorageLeave, LabelNode, Imaging, Before, NodeInv, StorageInv
<1>2. UNCHANGED change
  BY DEF StorageLeave, ClusterCall, Skip, local
<1>3. pc'[n] \in {"storage_stop", "storage_snapshot"} \/ (pc'[n] = "done" /\ failed'[n])
  BY LabelArrivals DEF StorageLeave, ClusterCall, Before, StateOK
<1>. QED
  BY <1>1, <1>2, <1>3 DEF LabelNode

LEMMA StorageLabels ==
    ASSUME NEW n \in Node, Before(n), LabelNode(n), StorageStep(n)
    PROVE  LabelNode(n)'
<1>. DEFINE Quiet ==
         \/ StorageAcquire(n) \/ StorageCheck(n) \/ StorageDrain(n) \/ StorageStop(n)
         \/ StorageSnapshot(n) \/ StorageImage(n) \/ StorageStart(n) \/ StorageSSH(n)
         \/ StorageRejoin(n) \/ StorageUncordon(n) \/ StorageActive(n)
<1>1. UNCHANGED plan /\ ~StorageForce(n)
  BY StorageForceStep DEF StorageStep
<1>2. CASE Quiet
  <2>1. UNCHANGED <<labelled, change>>
    BY <1>2 DEF StorageAcquire, StorageCheck, StorageDrain, StorageStop, StorageSnapshot,
       StorageImage, StorageStart, StorageSSH, StorageRejoin, StorageUncordon, StorageActive,
       InitializeHandle, Acquire, Try, Skip, StopServer, StartServer, ClusterCall, Cordon,
       Uncordon, SetCordoned, cluster, local
  <2>2. pc[n] \in Imaging
    BY <1>2 DEF StorageAcquire, StorageCheck, StorageDrain, StorageStop, StorageSnapshot,
       StorageImage, StorageStart, StorageSSH, StorageRejoin, StorageUncordon, StorageActive,
       Acquire, Imaging
  <2>3. pc'[n] = "done" => failed'[n]
    BY <1>2, LabelArrivals DEF Before, StateOK, StorageAcquire, StorageCheck, StorageDrain,
       StorageStop, StorageSnapshot, StorageImage, StorageStart, StorageSSH, StorageRejoin,
       StorageUncordon, StorageActive, StopServer, StartServer, ClusterCall
  <2>. QED
    BY <1>1, <2>1, <2>2, <2>3, LabelsKept
<1>. QED
  BY <1>1, <1>2, StorageEntryLabels, StorageLeaveLabels DEF StorageStep, Before

LEMMA MaintenanceLabels ==
    ASSUME NEW n \in Node, StateOK, LabelNode(n), MaintenanceStep(n)
    PROVE  LabelNode(n)'
<1>1. UNCHANGED <<labelled, change, plan>>
  BY DEF MaintenanceStep, Maintenance, MaintenanceInit, MaintenanceAcquire, MaintenanceTask,
     RunTask, MaintenanceStart, MaintenanceSSH, MaintenanceWait, InitializeHandle, Acquire,
     Try, Skip, StopServer, StartServer, WaitForSSH, ClusterCall, Cordon, Uncordon,
     SetCordoned, cluster, local
<1>2. Elsewhere(n) \/ (pc'[n] = "done" /\ failed'[n])
  <2>1. CASE MaintenanceTask(n)
    BY <2>1, LabelArrivals DEF StateOK, Elsewhere, Imaging, MaintenanceTask, RunTask,
       ClusterCall, StopServer
  <2>2. CASE ~MaintenanceTask(n)
    BY <2>2, LabelArrivals DEF StateOK, Elsewhere, Imaging, MaintenanceStep, Maintenance,
       MaintenanceInit, MaintenanceAcquire, MaintenanceStart, MaintenanceSSH,
       MaintenanceWait, StartServer, WaitForSSH
  <2>. QED
    BY <2>1, <2>2
<1>. QED
  BY <1>1, <1>2, LabelsKept DEF Elsewhere, Imaging

(* The node is registered when its labels are written again, and the       *)
(* lookup before that cannot miss it.                                      *)
LEMMA MetadataLabels ==
    ASSUME NEW n \in Node, Before(n), LabelNode(n), Metadata(n)
    PROVE  LabelNode(n)'
<1>1. /\ pc[n] = "metadata" /\ UNCHANGED <<plan, change>>
      /\ plan[n].provider \in Providers /\ plan[n].provider # "rk-api"
  BY PlanRole DEF Metadata, local, Before, PlanType, SerialisedPlan
<1>2. member[n]
  BY <1>1 DEF Before, NodeInv, ServiceInv, Rest, InService
<1>3. CASE UNCHANGED <<cluster, handle>> /\ ReturnError(n)
  BY <1>1, <1>3, LabelArrivals, LabelsKept DEF cluster, Before, StateOK, Imaging
<1>4. ASSUME /\ RancherAPIInitialize(n, plan[n].role, RewritesMetadata(n) => power[n] = "up")
             /\ SetAnnotationsLabelsTaints(n)
             /\ Goto(n, "done")
      PROVE  LabelNode(n)'
  <2>1. pc'[n] = "done"
    BY <1>4, LabelArrivals DEF Before, StateOK
  <2>2. plan[n].provider # "disabled" => nodeID'[n]
    BY <1>1, <1>2, <1>4 DEF RancherAPIInitialize, Rancher2APIInitialize, Rke2APIInitialize,
       RkeAPIInitialize, Lookup, Handle, Providers, Rancher2, RkApi, Before, StateOK, HandleOK
  <2>3. ~labelled[n] => plan[n].provider # "disabled"
    <3>1. plan[n].storage = "image" => plan[n].provider # "disabled"
      BY DEF Before, SerialisedPlan
    <3>. QED
      BY <3>1 DEF LabelNode
  <2>4. labelled'[n]
    BY <1>4, <2>2, <2>3 DEF SetAnnotationsLabelsTaints, Before, StateOK, ClusterOK, HandleOK
  <2>. QED
    BY <2>1, <2>4 DEF LabelNode, Imaging
<1>5. CASE /\ ~RewritesMetadata(n)
           /\ UNCHANGED <<cluster, handle>> /\ Goto(n, "done")
  <2>1. labelled[n]
    BY <1>5 DEF RewritesMetadata, LabelNode
  <2>2. labelled'[n] /\ pc'[n] = "done"
    BY <1>5, <2>1, LabelArrivals DEF cluster, Before, StateOK
  <2>. QED
    BY <2>2 DEF LabelNode, Imaging
<1>. QED
  BY <1>3, <1>4, <1>5 DEF Metadata

LEMMA StepLabels ==
    ASSUME NEW n \in Node, Before(n), LabelNode(n), Step(n)
    PROVE  LabelNode(n)'
<1>1. CASE Snapshot(n) /\ UNCHANGED <<plan, task>>
  <2>1. UNCHANGED <<labelled, change, plan>>
    BY <1>1 DEF Snapshot, Try, Skip, cluster, local
  <2>2. pc'[n] = "compute" \/ (pc'[n] = "done" /\ failed'[n])
    BY <1>1, LabelArrivals DEF Snapshot, Before, StateOK
  <2>. QED
    BY <2>1, <2>2, LabelsKept DEF Imaging
<1>2. CASE RestoreStep(n)
  <2>1. pc[n] = "restore" /\ ~plan[n].restore
    BY <1>2 DEF RestoreStep, Restore, RestoreStop, RestoreImage, RestoreStart, RestoreSSH,
       Before, NodeInv, ServiceInv, SerialisedPlan
  <2>2. Skip(n, "metadata") /\ UNCHANGED plan
    BY <1>2, <2>1 DEF RestoreStep, Restore, RestoreStop, RestoreImage, RestoreStart,
       RestoreSSH
  <2>3. pc'[n] = "metadata" /\ UNCHANGED <<labelled, change>>
    BY <2>2, LabelArrivals DEF Skip, Goto, Before, StateOK, ControlOK, cluster, local
  <2>. QED
    BY <2>2, <2>3, LabelsKept DEF Imaging
<1>. QED
  BY <1>1, <1>2, ComputeLabels, StorageLabels, MaintenanceLabels, MetadataLabels
     DEF Step, Before

-----------------------------------------------------------------------------
(* The invariant.                                                          *)

Labels == Global /\ \A n \in Node : LabelNode(n)

LEMMA NextLabels ==
    ASSUME Serialised, Labels, [Next]_vars
    PROVE  Labels'
<1>1. Global'
  BY NextGlobal DEF Labels
<1>2. CASE UNCHANGED vars
  BY <1>1, <1>2 DEF Labels, LabelNode, vars, local, cluster
<1>3. ASSUME NEW k \in Node, Step(k), NEW n \in Node
      PROVE  LabelNode(n)'
  <2>1. CASE n = k
    <3>1. Before(n)
      BY DEF Labels, Global, Before, Serialised, PlanOK
    <3>. QED
      BY <1>3, <2>1, <3>1, StepLabels DEF Labels
  <2>2. CASE n # k
    <3>1. AllSame(n) /\ plan' = plan
      BY <1>3, <2>2, StepFrame DEF Labels, Global
    <3>. QED
      BY <3>1 DEF Labels, LabelNode, AllSame, ControlSame, LocalSame, ClusterSame
  <2>. QED
    BY <2>1, <2>2
<1>4. ASSUME NEW k \in Node, Boot(k) \/ Join(k), NEW n \in Node
      PROVE  LabelNode(n)'
  BY <1>4 DEF Boot, Join, Register, Labels, LabelNode, cluster, local
<1>. QED
  BY <1>1, <1>2, <1>3, <1>4, NoMachineLeaves DEF Next, Terminated, Labels

(* The strengthening of OkMeansLabelled holds in every reachable state.    *)
THEOREM LabelInvariance ==
    ASSUME Serialised
    PROVE  Spec => []LabelInv
<1>1. Init => Labels
  <2>1. ASSUME Init, NEW n \in Node
        PROVE  LabelNode(n)
    BY <2>1 DEF Init, LabelNode, Imaging
  <2>. QED
    BY <2>1, InitGlobal DEF Labels
<1>2. Labels /\ [Next]_vars => Labels'
  BY NextLabels
<1>3. Labels => LabelInv
  BY GlobalIsUpdateInv DEF Labels, LabelInv
<1>. QED
  BY <1>1, <1>2, <1>3, PTL DEF Spec

(* An update that ends without an error leaves its node with the labels    *)
(* and taints of its configuration: when the node was registered anew, the *)
(* end of resourceUpdateServer finds it and writes them again.             *)
THEOREM SuccessMeansLabelled ==
    ASSUME Serialised
    PROVE  Spec => []OkMeansLabelled
<1>1. Spec => []LabelInv
  BY LabelInvariance
<1>2. LabelInv => OkMeansLabelled
  BY DEF LabelInv, LabelNode, OkMeansLabelled
<1>. QED
  BY <1>1, <1>2, PTL

=============================================================================

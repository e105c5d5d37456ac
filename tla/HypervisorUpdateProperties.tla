--------------------- MODULE HypervisorUpdateProperties ---------------------
(***************************************************************************)
(* What correct updates of harvester nodes and ESX hosts have to guarantee.*)
(***************************************************************************)
EXTENDS HypervisorUpdate

InService(n) ==
    /\ power[n] = "up" /\ os[n] = "running"
    /\ disk[n] \in {"old", "new"}
    /\ member[n]
    /\ maint[n] = "off"

(* The provider is able to see that the node or host works: through the    *)
(* cluster, or by SSH if it has no part in it; through the SDK of a host.  *)
Visible(n) ==
    IF plan[n].kind = "harvester"
    THEN IF provider.rancher THEN provider.wait ELSE plan[n].ssh
    ELSE provider.vmware = "enabled"

(* Up before and after the update, and visibly so.  Not the installation   *)
(* of an ESX host: see HostIsInstalled.                                    *)
Awaited(n) ==
    /\ plan[n].initial = "up" /\ plan[n].powerstate = "up"
    /\ Visible(n)
    /\ ~(plan[n].kind = "esx" /\ plan[n].storage)

Out == {n \in Node : Awaited(n) /\ ~InService(n)}

(* An update that ends without an error leaves the node or host in         *)
(* service: started, out of maintenance and back in its cluster            *)
(* (resourceUpdateHarvesterNode, resourceUpdateEsxHost).                   *)
OkMeansInService ==
    \A n \in Node : pc[n] = "done" /\ ~failed[n] /\ Awaited(n) => InService(n)

(* The handlers of both kinds together implement the rollout: one node or  *)
(* host out at a time, and none any more after a failure, even if the      *)
(* process ends in a panic.                                                *)
R == INSTANCE Rollout WITH turn <- Sync, halted <- LastError, out <- Out

Rollout == R!Spec

(* LUNs are only deleted, created and mapped anew while the server is off, *)
(* also between the two stages of the Harvester installation.              *)
OffBeforeRewrite ==
    [][\A n \in Node :
          disk[n]' # disk[n] /\ pc[n]' # pc[n] => power[n] = "down" /\ os[n] = "halted"]_vars

(* A node or host found "ok" is only taken down by the compute handlers,   *)
(* and by the storage handler of ESX hosts, once its virtual machines have *)
(* left it.                                                                *)
EvacuatedBeforeOff ==
    [][\A n \in Node :
          /\ os[n] = "running" /\ os[n]' = "halted" /\ pc[n] # pc[n]'
          /\ seen[n] = "ok"
          /\ \/ plan[n].kind = "harvester" /\ provider.rancher /\ pc[n] = "compute_stop"
             \/ plan[n].kind = "esx" /\ provider.vmware = "enabled"
          => maint[n] = "completed"]_vars

(* Every update comes to an end, whatever fails and however long a server, *)
(* an installer or a cluster takes.                                        *)
EveryUpdateEnds == \A n \in Node : <>(pc[n] = "done")

-----------------------------------------------------------------------------
(* What the code says and does not do.                                     *)

(* waitForEsxHost waits "to make sure it's not kickstart": when the update *)
(* of a host with a new image ends without an error, it is installed.      *)
HostIsInstalled ==
    \A n \in Node :
        /\ pc[n] = "done" /\ ~failed[n]
        /\ plan[n].kind = "esx" /\ plan[n].storage /\ provider.vmware = "enabled"
        => disk[n] = "new"

-----------------------------------------------------------------------------
(* Why they hold: the inductive invariant of HypervisorUpdate.             *)

(* What a handler does while its server is off it does not do by mistake.  *)
PowerInv(n) ==
    /\ power[n] = "down" => os[n] = "halted"
    /\ pc[n] \in {"storage_image", "storage_remap"} => power[n] = "down"
    /\ pc[n] \in {"storage_find", "storage_maintain", "storage_leave"} /\ seen[n] = "down" =>
          power[n] = "down"

EvacuationInv(n) ==
    seen[n] = "ok" =>
        /\ plan[n].kind = "harvester" /\ provider.rancher /\ pc[n] = "compute_stop" =>
              maint[n] = "completed"
        /\ plan[n].kind = "esx" /\ provider.vmware = "enabled"
              /\ pc[n] \in {"compute_stop", "storage_stop"} => os[n] = "halted"

(* The handlers are before, between or after their work on the node.       *)
Rest ==
    { "compute", "compute_acquire", "compute_check", "compute_grace", "compute_attributes",
      "storage", "storage_acquire", "storage_check", "storage_find" }

InCompute ==
    { "compute_maintain", "compute_halt", "compute_stop", "compute_blade", "compute_start",
      "compute_wait", "compute_ready", "compute_resume" }

(* Nobody is in the middle of entering maintenance any more, which the     *)
(* loop that ends it would pass over.                                      *)
ComputeInv(n) ==
    /\ pc[n] \in InCompute => disk[n] \in {"old", "new"} /\ member[n]
    /\ pc[n] \in InCompute \ {"compute_maintain"} => maint[n] # "running"
    /\ pc[n] \in {"compute_wait", "compute_ready", "compute_resume"} => power[n] = "up"
    /\ pc[n] = "compute_ready" /\ plan[n].ssh => os[n] = "running"
    /\ pc[n] = "compute_resume" => os[n] = "running"

StorageInv(n) ==
    /\ plan[n].kind = "esx" =>
          pc[n] \in InCompute \cup { "compute", "compute_acquire", "compute_check",
                                    "compute_attributes", "storage", "done" }
    /\ pc[n] \in { "storage_stop", "storage_image", "storage_start", "storage_network",
                   "storage_installer", "storage_off", "storage_remap", "storage_restart",
                   "storage_wait", "storage_ready" } => maint[n] = "off"
    /\ pc[n] \in {"storage_restart", "storage_wait", "storage_ready"} => disk[n] = "new"
    /\ pc[n] \in {"storage_wait", "storage_ready"} => power[n] = "up"
    /\ pc[n] = "storage_ready" /\ plan[n].ssh => os[n] = "running"

ServiceInv(n) ==
    Awaited(n) =>
        /\ pc[n] \in Rest \/ (pc[n] = "done" /\ ~failed[n]) => InService(n)
        /\ plan[n].kind = "harvester" /\ ~provider.rancher => maint[n] = "off" /\ member[n]
        /\ ComputeInv(n) /\ StorageInv(n)

HandlerInv == TypeOK /\ \A n \in Node : PowerInv(n) /\ EvacuationInv(n) /\ ServiceInv(n)

(* Between Acquire and the return that releases the mutex.                 *)
Held == Label \ (Unrecorded \cup {"done"})

(* With synchronized_updates: who is out holds the mutex, or has left an   *)
(* error to whoever comes after it.                                        *)
TurnInv ==
    /\ \A n \in Node : pc[n] \in Held => Sync = n
    /\ \A n \in Node : failed[n] => pc[n] = "done"
    /\ \A m, n \in Out : m = n
    /\ Sync \in Node => Out \subseteq {Sync}
    /\ Sync = NoNode /\ Out # {} => LastError

=============================================================================

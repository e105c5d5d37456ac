----------------------------- MODULE Hypervisor -----------------------------
(***************************************************************************)
(* What the updates of harvester nodes (flexbot/resource_flexbot_harvester *)
(* _node.go) and of ESX hosts (flexbot/resource_flexbot_esx_host.go) have  *)
(* in common: the servers they work on, the handlers' control, and the     *)
(* mutex of the provider process, which they share with each other.        *)
(*                                                                         *)
(* As in ServerUpdate every instance has a plan chosen in Init, a step is  *)
(* one remote call, and every call may fail.                               *)
(***************************************************************************)
EXTENDS UpdateManager, Naturals

CONSTANTS
    Plans,      \* the updates the operator may have asked for
    Providers,  \* the provider blocks rancher_api and vmware_api
    Probes      \* bound: probes of an ESX host in 60 seconds (twelve in the code)

PlanType ==
    [ kind       : {"harvester", "esx"},
      initial    : {"up", "down"},      \* power state when the apply starts
      faulty     : BOOLEAN,             \* UCS may report it up but not "ok"
      ssh        : BOOLEAN,             \* ssh_user, ssh_private_key
      safe       : BOOLEAN,             \* safe_removal
      compute    : BOOLEAN,             \* HasChange("compute")
      blade      : BOOLEAN,             \* ... and the assigned blade no longer matches
      powerstate : {"up", "down"},      \* power state asked for
      storage    : BOOLEAN ]            \* another image, size or template

ProviderType ==
    [ rancher : BOOLEAN,                \* rancher_api with enabled = true
      wait    : BOOLEAN,                \* wait_for_node_timeout > 0
      grace   : BOOLEAN,                \* node_grace_timeout > 0
      vmware  : {"absent", "disabled", "enabled"} ]     \* vmware_api

ASSUME HypervisorPlansAssumption == Plans \subseteq PlanType
ASSUME ProvidersAssumption == Providers \subseteq ProviderType
ASSUME ProbesAssumption == Probes \in Nat \ {0}

VARIABLES
    provider,   \* the configuration of the provider
    plan,       \* what terraform asks of each node
    pc,         \* where each node's goroutine is
    failed,     \* the update returned an error, or the process has ended
    seen,       \* local powerState and operState: down, up but not ok, ok
    probe,      \* probes in the present 60 seconds of waitForEsxHost
    streak,     \* consecutive probes that found the host connected (history)
    power,      \* UCS: power state of the service profile
    os,         \* what runs on the server
    disk,       \* what the server boots from
    maint,      \* maintenance mode of the node or host
    member      \* the harvester cluster has the node

local  == <<seen, probe, streak>>
node   == <<power, os, disk, maint, member>>
config == <<provider, plan>>
vars   == <<lock, config, pc, failed, local, node>>

Label ==
    { "compute", "compute_acquire", "compute_check", "compute_maintain",
      "compute_halt", "compute_stop", "compute_blade", "compute_start",
      "compute_wait", "compute_ready", "compute_resume", "compute_grace",
      "compute_attributes",
      "storage", "storage_acquire", "storage_check", "storage_find",
      "storage_maintain", "storage_leave", "storage_halt", "storage_stop",
      "storage_image", "storage_start", "storage_network",
      "storage_installer", "storage_off", "storage_remap", "storage_restart",
      "storage_wait", "storage_ready", "done" }

(* "installer": the bootstrap LUN of a harvester node, or a boot LUN that  *)
(* holds the ESX installer, comes first; "installed": the system is on the *)
(* boot LUN of the harvester node, which still boots from the other one.   *)
Disk == {"old", "none", "installer", "installed", "new"}

TypeOK ==
    /\ LockTypeOK
    /\ provider \in Providers
    /\ plan \in [Node -> Plans]
    /\ pc \in [Node -> Label]
    /\ failed \in [Node -> BOOLEAN]
    /\ seen \in [Node -> {"down", "degraded", "ok"}]
    /\ probe \in [Node -> 0 .. Probes - 1]
    /\ streak \in [Node -> 0 .. Probes]
    /\ power \in [Node -> {"up", "down"}]
    /\ os \in [Node -> {"halted", "booting", "running"}]
    /\ disk \in [Node -> Disk]
    /\ maint \in [Node -> {"off", "running", "completed"}]
    /\ member \in [Node -> BOOLEAN]

(* A node that is down was put into maintenance before it was powered off. *)
Init ==
    /\ LockInit
    /\ provider \in Providers
    /\ plan \in [Node -> Plans]
    /\ pc = [n \in Node |-> "compute"]
    /\ failed = [n \in Node |-> FALSE]
    /\ seen = [n \in Node |-> "down"]
    /\ probe = [n \in Node |-> 0]
    /\ streak = [n \in Node |-> 0]
    /\ power = [n \in Node |-> plan[n].initial]
    /\ os = [n \in Node |-> IF plan[n].initial = "up" THEN "running" ELSE "halted"]
    /\ disk = [n \in Node |-> "old"]
    /\ maint = [n \in Node |-> IF plan[n].initial = "up" THEN "off" ELSE "completed"]
    /\ member = [n \in Node |-> TRUE]

-----------------------------------------------------------------------------
(* Control, as in ServerUpdate.  Where an error is only returned, not      *)
(* stored with UpdateManagerSetError, the program point is in Unrecorded.  *)

Unrecorded ==
    {"compute", "compute_acquire", "compute_attributes", "storage", "storage_acquire"}

Goto(n, l) ==
    /\ pc' = [pc EXCEPT ![n] = l]
    /\ UNCHANGED <<lock, failed>>

ReturnError(n) ==
    /\ pc' = [pc EXCEPT ![n] = "done"]
    /\ failed' = [failed EXCEPT ![n] = TRUE]
    /\ LastError' = IF pc[n] \in Unrecorded THEN LastError ELSE ErrorAfterSet
    /\ Sync' = HolderAfterRelease(n)

EndHandler(n, l) ==
    /\ pc' = [pc EXCEPT ![n] = l]
    /\ Sync' = HolderAfterRelease(n)
    /\ UNCHANGED <<LastError, failed>>

(* A nil pointer is dereferenced: the provider process ends, and with it   *)
(* every update it runs, wherever they are.                                *)
Panic ==
    /\ pc' = [n \in Node |-> "done"]
    /\ failed' = [n \in Node |-> failed[n] \/ pc[n] # "done"]
    /\ UNCHANGED lock

Acquire(n, from, l) ==
    /\ pc[n] = from
    /\ \/ AcquireGranted(n) /\ pc' = [pc EXCEPT ![n] = l] /\ UNCHANGED failed
       \/ /\ AcquireRefused
          /\ pc' = [pc EXCEPT ![n] = "done"]
          /\ failed' = [failed EXCEPT ![n] = TRUE]
    /\ UNCHANGED <<local, node>>

Skip(n, l) == Goto(n, l) /\ UNCHANGED <<local, node>>

(* A call that changes nothing the model keeps.                            *)
Try(n, l) == (Goto(n, l) \/ ReturnError(n)) /\ UNCHANGED <<local, node>>

-----------------------------------------------------------------------------
(* UCS.                                                                    *)

(* GetServerPowerState and GetServerOperationalState, in this order.       *)
Reading(n) ==
    IF power[n] = "down" THEN {"down"}
    ELSE IF plan[n].faulty THEN {"ok", "degraded"} ELSE {"ok"}

(* ucsm.StopServer, and shutdownServer, which ends in it; a call that      *)
(* fails may have powered the server off all the same.                     *)
StopServer(n, l) ==
    /\ \/ power' = [power EXCEPT ![n] = "down"] /\ os' = [os EXCEPT ![n] = "halted"]
          /\ (Goto(n, l) \/ ReturnError(n))
       \/ UNCHANGED <<power, os>> /\ ReturnError(n)
    /\ UNCHANGED <<local, disk, maint, member>>

(* ucsm.StartServer has no effect on a server that is powered up.          *)
StartServer(n, l) ==
    /\ \/ /\ power' = [power EXCEPT ![n] = "up"]
          /\ os' = [os EXCEPT ![n] = IF power[n] = "down" THEN "booting" ELSE @]
          /\ Goto(n, l)
       \/ UNCHANGED <<power, os>> /\ ReturnError(n)
    /\ UNCHANGED <<local, disk, maint, member>>

(* waitForSSH times out; while it waits it restarts the server.            *)
WaitForSSH(n, l) ==
    /\ \/ (plan[n].ssh => os[n] = "running") /\ Goto(n, l) /\ UNCHANGED <<power, os>>
       \/ /\ plan[n].ssh /\ ReturnError(n)
          /\ \/ UNCHANGED <<power, os>>
             \/ power' = [power EXCEPT ![n] = "down"] /\ os' = [os EXCEPT ![n] = "halted"]
             \/ power' = [power EXCEPT ![n] = "up"] /\ os' = [os EXCEPT ![n] = "booting"]
    /\ UNCHANGED <<local, disk, maint, member>>

-----------------------------------------------------------------------------
(* The steps that the two update handlers share, statement by statement.   *)

Reasons(n, reading) ==
    (IF plan[n].blade THEN {"blade"} ELSE {})
        \cup (IF (plan[n].powerstate = "up") # (reading # "down") THEN {"power"} ELSE {})

(* The states are read before the mutex is taken.                          *)
ReadStates(n) ==
    IF ~plan[n].compute THEN Skip(n, "storage")
    ELSE /\ \/ \E r \in Reading(n) :
                 /\ seen' = [seen EXCEPT ![n] = r]
                 /\ Goto(n, IF Reasons(n, r) = {} THEN "compute_attributes"
                                                  ELSE "compute_acquire")
            \/ ReturnError(n) /\ UNCHANGED seen
         /\ UNCHANGED <<probe, streak, node>>

(* ucsm.UpdateServer refuses to touch a server that is powered up.         *)
ChangeBlade(n) ==
    LET next == IF plan[n].powerstate = "up" THEN "compute_start" ELSE "compute_attributes"
    IN  /\ \/ (plan[n].blade => power[n] = "down") /\ Goto(n, next)
           \/ plan[n].blade /\ ReturnError(n)
        /\ UNCHANGED <<local, node>>

(* ucsm.UpdateServerAttributes: its error is returned but not recorded.    *)
ChangeAttributes(n) ==
    (EndHandler(n, "storage") \/ ReturnError(n)) /\ UNCHANGED <<local, node>>

(* Delete and create the storage, a few times over (StorageRetryAttempts); *)
(* after the last failure it is as it was, incomplete, or new after all.   *)
Reimage(n) ==
    /\ \/ disk' = [disk EXCEPT ![n] = "installer"] /\ Goto(n, "storage_start")
       \/ /\ \E d \in {disk[n], "none", "installer"} : disk' = [disk EXCEPT ![n] = d]
          /\ ReturnError(n)
    /\ UNCHANGED <<local, power, os, maint, member>>

(* The request for maintenance mode, and its end.                          *)
RequestMaintenance(n) ==
    maint' = [maint EXCEPT ![n] = IF @ = "off" THEN "running" ELSE @]

CancelMaintenance(n) == maint' = [maint EXCEPT ![n] = "off"]

Maintained(n) == maint[n] = "completed"

=============================================================================

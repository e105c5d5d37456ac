-------------------------- MODULE HypervisorUpdate --------------------------
(***************************************************************************)
(* One terraform apply that updates harvester nodes and ESX hosts at once: *)
(* the handlers of both kinds run in one provider process and share its    *)
(* UpdateManager.                                                          *)
(***************************************************************************)
EXTENDS HarvesterUpdate, EsxUpdate

Step(n) == (NodeStep(n) \/ HostStep(n)) /\ UNCHANGED config

-----------------------------------------------------------------------------
(* External to both kinds.                                                 *)

Boot(n) ==
    /\ os[n] = "booting" /\ disk[n] # "none"
    /\ os' = [os EXCEPT ![n] = "running"]
    /\ UNCHANGED <<pc, failed, lock, local, power, disk, maint, member>>

Evacuated(n) ==
    /\ maint[n] = "running" /\ os[n] = "running"
    /\ maint' = [maint EXCEPT ![n] = "completed"]
    /\ UNCHANGED <<pc, failed, lock, local, power, os, disk, member>>

External(n) ==
    /\ Boot(n) \/ Evacuated(n) \/ NodeInstalled(n) \/ NodeJoins(n) \/ HostInstalled(n)
    /\ UNCHANGED config

Terminated ==
    /\ \A n \in Node : pc[n] = "done"
    /\ UNCHANGED vars

Next ==
    \/ \E n \in Node : Step(n) \/ External(n)
    \/ Terminated

Spec == Init /\ [][Next]_vars

(* Goroutines that can run do run, and the time of waitForEsxHost runs out *)
(* however many probes it makes; nothing is assumed of servers, installers *)
(* and clusters.                                                           *)
FairSpec ==
    /\ Spec
    /\ \A n \in Node : WF_vars(Step(n)) /\ WF_vars(GiveUp(n) /\ UNCHANGED config)

=============================================================================

--------------------- MODULE ServerLifecycleProperties ----------------------
(***************************************************************************)
(* What terraform runs may rely on when servers come and go.               *)
(***************************************************************************)
EXTENDS ServerLifecycle, FiniteSets

Whole(s) ==
    /\ profile[s] = "ready" /\ blade[s] # NoBlade
    /\ kind[s] # "esx" => power[s] = "up"
    /\ storage[s] = "whole"
    /\ \A i \in Interface : record[s][i] # NoAddress

Gone(s) ==
    /\ profile[s] = "none" /\ blade[s] = NoBlade
    /\ storage[s] = "none"
    /\ \A i \in Interface : record[s][i] = NoAddress

(* A server in the state that no error was reported for is complete: it    *)
(* has a configured profile with a blade that is on, boot and seed LUN,    *)
(* and an address for every interface (resourceCreateServer,               *)
(* -HarvesterNode, -EsxHost).  Not that an ESX host is on: the error       *)
(* of its StartServer is lost.                                             *)
KeptIsWhole == \A s \in Server : pc[s] = "idle" /\ InState(s) /\ ~reported[s] => Whole(s)

(* A server that left the state without an error ever being reported for   *)
(* it has left nothing behind: neither a delete that succeeded nor a       *)
(* refresh that dropped it leaks anything silently (resourceDeleteServer,  *)
(* resourceReadServer and those of the other two kinds).                   *)
DroppedIsGone ==
    \A s \in Server : pc[s] = "idle" /\ ~InState(s) /\ ~reported[s] => Gone(s)

(* The storage of a server is only taken away while the server is off,     *)
(* whether a delete does it, the cleanup of a create that failed, or the   *)
(* remap between the two stages of the Harvester installation.             *)
OffBeforeDelete ==
    [][\A s \in Server :
          storage[s] = "whole" /\ storage'[s] # "whole" => power'[s] = "down"]_vars

(* A profile that terraform does not know of is not touched by a create of *)
(* the same name: nor is its storage, nor are its addresses ("already      *)
(* exists").  Except for the blade: DiscoverServer assigns one.  An ESX    *)
(* host is not in the state until it has been created.                     *)
Making(s) ==
    /\ kind[s] = "esx"
    /\ \/ pc[s] \in {"create_configure", "create_id", "create_undo", "undo_profile", "undo_records"}
       \/ back[s] = "create_id"

UnknownKept ==
    [][\A s \in Server :
          ~InState(s) /\ profile[s] # "none" /\ ~Making(s) =>
             UNCHANGED <<profile[s], power[s], storage[s], record[s]>>]_vars

(* When there are enough blades, and every server can lose the race for a  *)
(* blade to every other, no server goes without because of the races       *)
(* between AssignBlade's query and its assignment.                         *)
RacesAreWon ==
    Tries >= Cardinality(Server) /\ Cardinality(Blade) >= Cardinality(Server) =>
        \A s \in Server : pc[s] = "assign_failed" => fault

(* Every run ends.                                                         *)
EveryRunEnds == run # "idle" ~> run = "idle"

(* A server that was created without an error is made from the template    *)
(* that the configuration names ("sp_template", for whose sake it may have *)
(* been replaced: ForceNew).  The code does not keep this: the create of a *)
(* replacement finds the NodeConfig of the delete (setFlexbotServerInput). *)
CreatedFromTemplate ==
    [][\A s \in Server :
          pc[s] = "create_rest" /\ pc'[s] = "idle" /\ s \notin tainted' =>
             template[s] = want[s].template]_vars

-----------------------------------------------------------------------------
(* Why they hold: the inductive invariant of ServerLifecycle.              *)

Assigning == {"pick", "bind", "assign_failed"}
Reading   == {"read_server", "read_storage", "read_records"}
Deleting  ==
    { "delete_check", "delete_node", "delete_stop", "delete_force",
      "delete_profile", "delete_storage", "delete_records" }
Unprofiled == {"create_preflight", "create_allocate", "create_boot", "create_profile"}
Undoing    == {"create_undo", "undo_profile", "undo_records"}
Finishing  ==
    { "create_start", "create_stage", "create_halt", "create_remap", "create_restart",
      "create_rest" }

(* AssignBlade is called in these creates, which have configured a profile.*)
ForCreate(s) == back[s] \in {"create_seed", "create_id"}

(* AssignBlade knows its caller and its tries; a create has a              *)
(* configuration to create from.                                           *)
CallInv(s) ==
    /\ pc[s] \in Assigning <=> back[s] # "idle"
    /\ pc[s] \in {"pick", "bind"} => tries[s] < Tries
    /\ pc[s] \notin Assigning => tries[s] = 0
    /\ pc[s] = "create_discover" => want[s] # Absent
    /\ \/ pc[s] \in Unprofiled \cup Undoing \cup Finishing
       \/ pc[s] \in {"create_configure", "create_seed", "create_id"} \/ ForCreate(s)
       => want[s] # Absent /\ cache[s] # Absent
    /\ pc[s] = "create_seed" \/ back[s] = "create_seed" => kind[s] # "esx"
    /\ pc[s] \in {"create_id", "undo_profile", "undo_records"} \/ back[s] = "create_id" =>
          kind[s] = "esx"

(* Who is in the state.                                                    *)
PlaceInv(s) ==
    /\ pc[s] \in Reading \cup Deleting \cup Finishing \/ back[s] = "read_storage" => InState(s)
    /\ \/ pc[s] \in {"create_boot", "create_profile", "create_configure", "create_seed", "create_undo"}
       \/ back[s] = "create_seed"
       => kind[s] = "esx" \/ InState(s)

(* Who is off.                                                             *)
OffInv(s) ==
    /\ profile[s] # "ready" => power[s] = "down"
    /\ \/ pc[s] \in Unprofiled \cup Undoing \/ ForCreate(s)
       \/ pc[s] \in { "create_configure", "create_seed", "create_id", "create_remap",
                      "delete_force", "delete_profile", "delete_storage" }
       => power[s] = "down"

(* What a create has come to.                                              *)
CreateInv(s) ==
    /\ pc[s] \in Unprofiled => profile[s] = "none"
    /\ pc[s] = "create_allocate" => \A i \in Interface : i < next[s] => record[s][i] # NoAddress
    /\ \/ pc[s] \in Finishing \/ ForCreate(s)
       \/ pc[s] \in {"create_boot", "create_profile", "create_configure", "create_seed", "create_id"}
       => \A i \in Interface : record[s][i] # NoAddress
    /\ ForCreate(s) => profile[s] = "ready"
    /\ pc[s] \in Finishing \cup {"create_seed", "create_id"} =>
          profile[s] = "ready" /\ blade[s] # NoBlade
    /\ \/ pc[s] \in Finishing
       \/ /\ kind[s] = "esx"
          /\ pc[s] \in {"create_profile", "create_configure", "create_id"} \/ back[s] = "create_id"
       => storage[s] = "whole"
    /\ pc[s] = "create_rest" => power[s] = "up"

(* What a delete that has met no error has come to.                        *)
DeleteInv(s) ==
    /\ pc[s] \in {"delete_storage", "delete_records"} /\ ~diag[s] =>
          profile[s] = "none" /\ blade[s] = NoBlade
    /\ pc[s] = "delete_records" /\ ~diag[s] => storage[s] = "none"
    /\ pc[s] = "delete_records" => \A i \in Interface : i < next[s] => record[s][i] = NoAddress

(* What the others find between two handlers, if nothing was reported.     *)
RestInv(s) ==
    /\ ~reported[s] /\ InState(s) /\ pc[s] \in Reading \cup {"idle"} => Whole(s)
    /\ ~reported[s] /\ ~InState(s) /\ pc[s] = "idle" => Gone(s)
    /\ back[s] = "read_storage" => reported[s]

RunInv ==
    /\ run = "idle" => NoHandler
    /\ \A s \in todo : pc[s] = "idle"
    /\ run = "refresh" => \A s \in todo : InState(s)

LifeInv ==
    /\ TypeOK /\ RunInv
    /\ \A s \in Server :
          /\ CallInv(s) /\ PlaceInv(s) /\ OffInv(s)
          /\ CreateInv(s) /\ DeleteInv(s) /\ RestInv(s)

(* Why races are won: who has come to a blade in this half of a run keeps  *)
(* it as long as no request fails, so AssignBlade loses to each at most    *)
(* once.                                                                   *)
Releasing ==
    Undoing \cup {"delete_check", "delete_node", "delete_stop", "delete_force", "delete_profile"}

Owners == {t \in Server \ todo : blade[t] # NoBlade /\ pc[t] \notin Releasing}

(* The races lost, the one that BindRefused will find lost included.       *)
Lost(s) == IF pc[s] = "bind" /\ pick[s] \notin Available THEN tries[s] + 1 ELSE tries[s]

BladeInv(s) ==
    /\ profile[s] = "none" => blade[s] = NoBlade
    /\ pc[s] \in Assigning => profile[s] = "ready"
    /\ pc[s] \in Unprofiled \cup {"create_configure"} => blade[s] = NoBlade
    /\ pc[s] \in {"pick", "bind"} => blade[s] = NoBlade \/ fault
    /\ pc[s] \in Undoing \cup {"assign_failed"} => fault

EnoughForAll == Tries >= Cardinality(Server) /\ Cardinality(Blade) >= Cardinality(Server)

RaceInv ==
    EnoughForAll =>
        \A s \in Server :
            /\ BladeInv(s)
            /\ pc[s] \in {"pick", "bind"} => Lost(s) <= Cardinality(Owners \ {s}) \/ fault

=============================================================================

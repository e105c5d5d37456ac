--------------------------- MODULE MCBootStorage ----------------------------
(***************************************************************************)
(* Configurations for the TLC runs of BootStorage.                         *)
(***************************************************************************)
EXTENDS BootStorageProperties

Config(a, d, n) == [kind |-> "server", api |-> a, data |-> d, nvme |-> n]
Hypervisor(k, a) == [Config(a, FALSE, "none") EXCEPT !.kind = k]

(* A harvester node by either wire protocol, an ESX host by REST: ZAPI     *)
(* does not upload its image.                                              *)
Hypervisors == {Hypervisor("harvester", "zapi"), Hypervisor("harvester", "rest"), Hypervisor("esx", "rest")}

(* Both wire protocols, with and without each kind of data disk.           *)
AllDisks ==
    Hypervisors \cup
    { Config("zapi", TRUE, "none"), Config("rest", FALSE, "none"),
      Config("rest", TRUE, "hosts"), Config("rest", FALSE, "disk") }

=============================================================================

------------------------- MODULE MCHypervisorUpdate -------------------------
(***************************************************************************)
(* Plans and providers for the TLC runs of HypervisorUpdate.               *)
(***************************************************************************)
EXTENDS HypervisorUpdateProperties

Harvester ==
    [ kind |-> "harvester", initial |-> "up", faulty |-> FALSE, ssh |-> TRUE,
      safe |-> FALSE, compute |-> TRUE, blade |-> TRUE, powerstate |-> "up",
      storage |-> FALSE ]

Esx == [Harvester EXCEPT !.kind = "esx"]
Image(p) == [p EXCEPT !.storage = TRUE, !.compute = FALSE]

Mixed ==
    { Harvester,
      [Harvester EXCEPT !.faulty = TRUE, !.ssh = FALSE, !.storage = TRUE],
      [Harvester EXCEPT !.initial = "down", !.blade = FALSE],
      [Image(Harvester) EXCEPT !.initial = "down", !.safe = TRUE],
      [Harvester EXCEPT !.powerstate = "down", !.storage = TRUE],
      Esx,
      [Esx EXCEPT !.faulty = TRUE, !.storage = TRUE],
      [Image(Esx) EXCEPT !.initial = "down", !.safe = TRUE],
      [Esx EXCEPT !.powerstate = "down", !.blade = FALSE] }

AllProviders ==
    { [rancher |-> TRUE, wait |-> TRUE, grace |-> TRUE, vmware |-> "enabled"],
      [rancher |-> FALSE, wait |-> FALSE, grace |-> FALSE, vmware |-> "disabled"],
      [rancher |-> TRUE, wait |-> FALSE, grace |-> FALSE, vmware |-> "absent"] }

EsxImages == {Image(Esx)}
Enabled == {[rancher |-> TRUE, wait |-> TRUE, grace |-> TRUE, vmware |-> "enabled"]}

=============================================================================

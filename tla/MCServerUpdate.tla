--------------------------- MODULE MCServerUpdate ---------------------------
(***************************************************************************)
(* Plans for the TLC runs of ServerUpdate.                                 *)
(***************************************************************************)
EXTENDS ServerUpdateProperties

(* Nothing to do; the plans below change a few fields of it.               *)
Idle ==
    [ provider |-> "rke2", role |-> {"worker"}, initial |-> "up",
      ssh |-> TRUE, safe |-> FALSE, snapshot |-> FALSE, compute |-> FALSE,
      blade |-> FALSE, powerstate |-> "up", storage |-> "none", autosnap |-> FALSE,
      tasks |-> <<>>, sync |-> FALSE, wait |-> FALSE, restore |-> FALSE,
      labels |-> FALSE ]

NewBlade == [Idle EXCEPT !.compute = TRUE, !.blade = TRUE]
NewImage == [Idle EXCEPT !.storage = "image", !.autosnap = TRUE]
Master(p) == [p EXCEPT !.role = {"master"}]

Upgrade ==
    [Idle EXCEPT !.tasks = <<"drain", "restart", "upgrade", "uncordon">>,
                 !.sync = TRUE, !.wait = TRUE]

(* Rolling updates that keep to the documented way: see Serialised.        *)
SerialisedPlans ==
    { [NewBlade EXCEPT !.role = Role, !.storage = "image"],
      [Upgrade EXCEPT !.labels = TRUE] }

(* Everything else: servers found off or to be left off, safe removal, no  *)
(* SSH, sizes, snapshots, restores and maintenance without the mutex.      *)
Mixed ==
    { [NewBlade EXCEPT !.powerstate = "down", !.snapshot = TRUE],
      [NewBlade EXCEPT !.initial = "down", !.storage = "image", !.ssh = FALSE],
      [Master(NewImage) EXCEPT !.safe = TRUE, !.initial = "down", !.role = Role],
      [NewImage EXCEPT !.restore = TRUE, !.snapshot = TRUE],
      [Idle EXCEPT !.compute = TRUE, !.storage = "resize", !.restore = TRUE,
                   !.ssh = FALSE, !.labels = TRUE,
                   !.tasks = <<"cordon", "restart">>, !.wait = TRUE] }

(* ... under every provider.                                               *)
MixedPlans == {[p EXCEPT !.provider = r] : p \in Mixed, r \in Providers}

MasterImages == {[Master(NewImage) EXCEPT !.provider = "rancher2-rke1"]}

=============================================================================

----------------------- MODULE BootStorageProperties ------------------------
(***************************************************************************)
(* What the handlers may rely on when the storage functions have returned. *)
(***************************************************************************)
EXTENDS BootStorage

Ended(o, r) == op = o /\ result = r

Remapped == fn = "RemapHarvesterStorage"

(* The LUNs that the handlers promise, and the one to boot from.           *)
Wanted ==
    CASE want.kind = "esx" \/ Remapped        -> {"boot"}
      [] want.kind = "harvester" /\ ~Remapped -> {"boot", "bootstrap", "seed"}
      [] OTHER                                -> {"boot", "seed"} \cup (IF want.data THEN {"data"} ELSE {})

BootLun == IF want.kind = "harvester" /\ ~Remapped THEN "bootstrap" ELSE "boot"

(* A re-image that reports success leaves no part of the old system: the   *)
(* LUNs are complete and new, there is none beside them, all of them are   *)
(* mapped, and it is the right one that the next power-on boots, also      *)
(* between the two stages of the Harvester installation                    *)
(* (resourceUpdateServerStorage, -HarvesterNodeStorage, -EsxHostStorage).  *)
ReimagedIsNew ==
    Ended("reimage", "ok") =>
        /\ volume
        /\ lun = [l \in LUN |-> IF l \in Wanted THEN "new" ELSE "none"]
        /\ mapped = Wanted /\ first = BootLun

(* A creation that reports success leaves a service profile, all of the    *)
(* LUNs mapped, the right one to boot from, and a seed or an installer of  *)
(* its own, whatever earlier operations left behind (resourceCreateServer, *)
(* -HarvesterNode, -EsxHost).                                              *)
CreatedIsComplete ==
    Ended("create", "ok") =>
        /\ sp /\ volume /\ igroup # "none"
        /\ \A l \in Wanted : lun[l] # "none" /\ l \in mapped
        /\ first = BootLun
        /\ lun["seed"] = IF "seed" \in Wanted THEN "new" ELSE "none"
        /\ want.kind = "esx" => lun["boot"] = "new"

(* What a failed attempt leaves never makes the next one fail: a re-image  *)
(* gives up only when each of its attempts met a fault of its own, and a   *)
(* remap, which is not repeated, only for such a fault.  The array refuses *)
(* to destroy what is mapped, to map twice or under an ID that is taken,   *)
(* and to overwrite a file; the functions must have cleared that away.     *)
EveryAttemptCounts ==
    /\ Ended("reimage", "error") => faults >= IF Remapped THEN 1 ELSE Attempts
    /\ Remapped /\ result = "error" => faults >= 1

(* A deletion that reports success leaves nothing on the array, also when  *)
(* an earlier creation, re-image or deletion stopped half-way.             *)
DeletedIsGone ==
    Ended("delete", "ok") =>
        /\ ~volume /\ igroup = "none" /\ subsystem = "none"
        /\ mapped = {} /\ namespace = "none" /\ \A l \in LUN : lun[l] = "none"

(* A re-image of a server never gives up the volume or the igroup: the     *)
(* snapshots that restore falls back on are in the volume ("preserving     *)
(* hosting volumes", boot-storage.go:223).                                 *)
VolumeKept ==
    [][want.kind = "server" /\ op = "reimage" /\ result = "running"
       => volume' = volume /\ igroup' = igroup]_vars

(* Every operation ends, however many requests fail: the retry loops are   *)
(* bounded.                                                                *)
EveryOperationEnds == result = "running" ~> result # "running"

-----------------------------------------------------------------------------
(* Why they hold: the inductive invariant of BootStorage.                  *)

Creators == {"CreateBootStorage", "CreateHarvesterStorage", "CreateEsxStorage"}
Deleters ==
    {"DeleteBootStorage", "DeleteHarvesterStorage", "DeleteEsxStorage", "DeleteBootLUNs"}

Running(fs) == result = "running" /\ fn \in fs

Nvme == {"CreateNvmeStorage", "DeleteNvmeStorage", "DeleteBootStorage", "DeleteBootLUNs"}

(* Which function makes which request.                                     *)
Makes(f, r) ==
    /\ r \in {"volume_create", "igroup_create", "igroup_initiators", "discover"} => f \in Creators
    /\ r \in {"image_copy", "image_resize", "image_map"} => f \in Creators \ {"CreateEsxStorage"}
    /\ r \in {"boot_create", "boot_map"} => f \in Creators \ {"CreateBootStorage"}
    /\ r \in {"data_create", "data_map"} => f = "CreateBootStorage"
    /\ r = "boot_upload" => f = "CreateEsxStorage"
    /\ r = "namespace_unmap" => f \in Nvme \cup {"DeleteHarvesterStorage"}
    /\ r \in {"namespace_destroy", "subsystem_destroy"} => f \in Nvme
    /\ r \in {"namespace_create", "subsystem_create", "subsystem_host", "namespace_map", "nvme_discover"}
       => f = "CreateNvmeStorage"
    /\ r \in {"seed_unmap", "seed_destroy", "file_upload", "seed_create", "seed_write", "seed_map"}
       => f = "CreateSeedStorage"
    /\ r = "file_delete" => f \in {"CreateSeedStorage", "DeleteBootLUNs"}
    /\ r \in {"lun_unmap", "lun_destroy"} => f \in Deleters \cup {"RemapHarvesterStorage"}
    /\ r = "boot_remap" => f = "RemapHarvesterStorage"
    /\ r \in {"igroup_destroy", "volume_destroy"} => f \in Deleters \ {"DeleteBootLUNs"}
    /\ r = "server_create" => f = "CreateServer"
    /\ r = "server_delete" => f = "DeleteServer"

(* Those that are only made if NvmeApplies.                                *)
NvmeRequests ==
    { "namespace_destroy", "namespace_create", "subsystem_destroy", "subsystem_create",
      "subsystem_host", "namespace_map", "nvme_discover" }

(* Which handler calls which function in which of its loops.               *)
CreateCalls ==
    IF want.kind = "esx"
    THEN \/ phase = "boot" /\ fn \in {"CreateEsxStorage", "CreateServer"}
         \/ phase = "cleanup" /\ fn \in {"DeleteEsxStorage", "DeleteServer"}
    ELSE \/ phase = "boot" /\ fn \in {CreateStorage, DeleteStorage}
         \/ phase = "seed" /\ fn \in {"CreateServer", "CreateSeedStorage"}
         \/ phase = "seed" /\ want.kind = "server" /\ fn \in {"CreateNvmeStorage", "DeleteNvmeStorage"}
         \/ phase = "cleanup" /\ fn = DeleteStorage

ReimageCalls ==
    \/ /\ want.kind = "server" /\ phase = "boot"
       /\ fn \in {"DeleteBootLUNs", "CreateBootStorage", "CreateNvmeStorage", "CreateSeedStorage"}
    \/ want.kind # "server" /\ phase = "boot" /\ fn \in {DeleteStorage, CreateStorage}
    \/ want.kind # "server" /\ phase = "cleanup" /\ fn = DeleteStorage
    \/ want.kind = "harvester" /\ phase = "boot" /\ fn = "CreateSeedStorage"

ControlInv ==
    /\ Makes(fn, at)
    /\ lunNo <= Len(LunNames)
    /\ at \in NvmeRequests => want.api = "rest" /\ want.nvme # "none"
    /\ Remapped => want.kind = "harvester" /\ op # "delete"
    /\ ~Remapped => CASE op = "create"  -> CreateCalls
                      [] op = "reimage" -> ReimageCalls
                      [] op = "delete"  -> fn = DeleteStorage /\ phase = "boot"

(* What holds of the array at any time: what is mapped exists, nothing     *)
(* exists without the volume, the first LUN is the one to boot from.       *)
ArrayInv ==
    /\ \A l \in mapped : lun[l] # "none" /\ igroup # "none"
    /\ want.kind # "server" => lun["data"] = "none"
    /\ want.kind # "harvester" => lun["bootstrap"] = "none" /\ ("boot" \in mapped => first = "boot")
    /\ want.kind = "harvester" => ("bootstrap" \in mapped => first = "bootstrap")
    /\ want.kind = "esx" => lun["seed"] = "none"
    /\ want.kind = "server" /\ lun["seed"] # "none" => igroup # "none"
    /\ ~volume => /\ \A l \in LUN : lun[l] = "none"
                  /\ ~file /\ namespace = "none" /\ subsystem = "none"
    /\ want.api # "rest" \/ want.nvme = "none" => namespace = "none" /\ subsystem = "none" /\ ~served

(* How far a delete function has come.                                     *)
DeleteInv ==
    Running(Deleters) =>
        /\ lunNo > 1 => lun["boot"] = "none"
        /\ lunNo > 2 => lun["data"] = "none" /\ lun["bootstrap"] = "none"
        /\ at = "lun_destroy" => LunAt \notin mapped
        /\ at \notin {"lun_unmap", "lun_destroy"} => \A l \in LUN : lun[l] = "none"
        /\ fn # "DeleteBootLUNs" /\ at \notin {"lun_unmap", "lun_destroy", "igroup_destroy"} =>
              igroup = "none"
        /\ at = "volume_destroy" => subsystem = "none"

RemapInv ==
    Running({"RemapHarvesterStorage"}) =>
        /\ volume /\ igroup # "none" /\ lun["boot"] # "none"
        /\ op = "reimage" => lun["boot"] = "new"
        /\ op = "create" => sp
        /\ lunNo > 1 => "boot" \notin mapped
        /\ lunNo > 2 => lun["bootstrap"] = "none"
        /\ at = "lun_destroy" => LunAt \notin mapped /\ lunNo > 1
        /\ at = "boot_remap" => lunNo = 3 /\ lun["seed"] = "none"

(* ZAPI does not write the boot LUN of an ESX host.                        *)
Uploaded == want.kind = "esx" => want.api = "rest"

(* How far a create function has come, whatever it has found: what it has  *)
(* passed is mapped.                                                       *)
CreateInv ==
    /\ Running(Creators) =>
        /\ at # "volume_create" => volume
        /\ at \in {"data_create", "data_map", "boot_map"} /\ fn # "CreateEsxStorage" =>
              ImageLun \in mapped
        /\ at \in {"boot_create", "discover"} /\ fn # "CreateEsxStorage" => ImageLun \in mapped
        /\ at = "discover" /\ fn = "CreateHarvesterStorage" => "boot" \in mapped
        /\ at = "discover" /\ want.data => "data" \in mapped
        /\ fn = "CreateEsxStorage" /\ at \in {"igroup_create", "igroup_initiators", "boot_map"} =>
              (Uploaded => lun["boot"] = "new")
    /\ Running({"CreateServer", "CreateNvmeStorage", "CreateSeedStorage", "DeleteNvmeStorage"}) =>
        /\ volume /\ igroup # "none"
        /\ \A l \in Wanted \ {"seed"} : l \in mapped
        /\ want.kind = "esx" /\ Uploaded => lun["boot"] = "new"
        /\ op = "create" /\ fn # "CreateServer" => sp
    /\ Running({"CreateSeedStorage"}) /\ at = "seed_map" => lun["seed"] = "new"

(* In a re-image, what exists is known exactly.                            *)
Exactly(new, unfinished, attached) ==
    /\ \A l \in LUN : lun[l] = IF l \in new THEN "new" ELSE IF l \in unfinished THEN "part" ELSE "none"
    /\ mapped = attached

ReimagedServer ==
    fn = "CreateBootStorage" =>
        /\ at \in {"volume_create", "igroup_create", "image_copy"} => Exactly({}, {}, {})
        /\ at = "image_resize" => Exactly({}, {"boot"}, {})
        /\ at = "image_map"    => Exactly({"boot"}, {}, {})
        /\ at = "data_create"  => Exactly({"boot"}, {}, {"boot"})
        /\ at = "data_map"     => Exactly({"boot", "data"}, {}, {"boot"})
        /\ at = "discover"     => Exactly(Wanted \ {"seed"}, {}, Wanted \ {"seed"})
        /\ at \in {"data_create", "data_map"} => want.data

ReimagedNode ==
    fn = "CreateHarvesterStorage" =>
        /\ at \in {"volume_create", "igroup_create", "igroup_initiators", "image_copy"} =>
              Exactly({}, {}, {})
        /\ at = "image_resize" => Exactly({}, {"bootstrap"}, {})
        /\ at = "image_map"    => Exactly({"bootstrap"}, {}, {})
        /\ at = "boot_create"  => Exactly({"bootstrap"}, {}, {"bootstrap"})
        /\ at = "boot_map"     => Exactly({"bootstrap", "boot"}, {}, {"bootstrap"})
        /\ at = "discover"     => Exactly({"bootstrap", "boot"}, {}, {"bootstrap", "boot"})

ReimagedHost ==
    fn = "CreateEsxStorage" =>
        /\ at \in {"volume_create", "boot_create"} => Exactly({}, {}, {})
        /\ at \in {"discover", "boot_upload"} => Exactly({}, {"boot"}, {})
        /\ at \in {"igroup_create", "igroup_initiators", "boot_map"} =>
              IF Uploaded THEN Exactly({"boot"}, {}, {}) ELSE Exactly({}, {"boot"}, {})

ReimagedSeed ==
    LET others == Wanted \ {"seed"}
    IN  fn \in {"CreateNvmeStorage", "CreateSeedStorage"} =>
            CASE at = "seed_write" -> Exactly(others, {"seed"}, others)
              [] at = "seed_map"   -> Exactly(others \cup {"seed"}, {}, others)
              [] OTHER             -> Exactly(others, {}, others)

ReimageInv ==
    /\ op = "reimage" /\ result = "running" =>
           ReimagedServer /\ ReimagedNode /\ ReimagedHost /\ ReimagedSeed
    /\ op = "reimage" /\ want.kind = "server" =>
           volume /\ igroup # "none" /\ at # "igroup_initiators"

(* What the array would refuse a request for is out of the way, if no      *)
(* request has failed since the attempt began.                             *)
ClearedInv ==
    /\ fn = "CreateHarvesterStorage" /\ at \notin {"volume_create", "igroup_create"} =>
          igroup # "none"
    /\ fn = "CreateEsxStorage" /\ at \in {"igroup_initiators", "boot_map"} => igroup # "none"
    /\ at = "file_upload" => ~file
    /\ at \in {"namespace_destroy", "namespace_create", "subsystem_destroy"} => ~served
    /\ at = "subsystem_host" => subsystem # "none"
    /\ /\ fn = "CreateNvmeStorage"
       /\ at \in { "subsystem_destroy", "subsystem_create", "subsystem_host", "namespace_map",
                   "nvme_discover" }
       => namespace # "none"

FaultInv ==
    /\ op = "reimage" /\ ~Remapped =>
        /\ result = "running" =>
              /\ faults >= attempt
              /\ phase = "cleanup" => faults > attempt
              /\ phase = "boot" /\ faults = attempt => ClearedInv
        /\ result = "error" => faults >= Attempts
    /\ Remapped /\ result = "error" => faults >= 1

ResultInv ==
    /\ Uploaded => ReimagedIsNew /\ CreatedIsComplete
    /\ DeletedIsGone

StorageInv ==
    /\ TypeOK /\ ControlInv /\ ArrayInv
    /\ DeleteInv /\ RemapInv /\ CreateInv /\ ReimageInv
    /\ FaultInv /\ ResultInv

=============================================================================

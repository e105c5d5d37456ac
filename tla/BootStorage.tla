---------------------------- MODULE BootStorage ----------------------------
(***************************************************************************)
(* The storage of one server, harvester node or ESX host: boot-storage.go, *)
(* seed-storage.go, nvme-storage.go, harvester-storage.go, esx-storage.go  *)
(* of pkg/ontap, with the retry loops of the handlers that call them.      *)
(*                                                                         *)
(*   create   resourceCreateServer, -HarvesterNode: loops around           *)
(*            ucsm.CreateServer; resourceCreateEsxHost: one attempt        *)
(*   reimage  the storage update: delete and create in one loop            *)
(*   delete   resourceDeleteServer, -HarvesterNode, -EsxHost               *)
(*                                                                         *)
(* A harvester node boots an installer from its bootstrap LUN; create and  *)
(* reimage then end with RemapHarvesterStorage, which leaves the boot LUN. *)
(* One operation follows the other for ever, each in the state its         *)
(* predecessor has left.  Every request to the array is a step; it fails   *)
(* before or after it took effect, or is refused by the array for what an  *)
(* earlier step has left.                                                  *)
(***************************************************************************)
EXTENDS Naturals, Sequences

CONSTANTS
    Attempts,   \* StorageRetryAttempts: 5 in the code
    MaxFaults,  \* faults are counted up to this number, then only allowed
    Configs     \* what a server's storage may be configured to be

LUN == {"boot", "data", "bootstrap", "seed"}

ConfigType ==
    [ kind : {"server", "harvester", "esx"},
      api  : {"rest", "zapi"},              \* cdot_credentials.api_method
      data : BOOLEAN,                       \* data_lun size > 0
      nvme : {"none", "hosts", "disk"} ]    \* nvme_host; and data_nvme size > 0

ASSUME AttemptsAssumption == Attempts \in Nat \ {0}
ASSUME MaxFaultsAssumption == MaxFaults \in Nat /\ MaxFaults >= Attempts
ASSUME ConfigsAssumption ==
    /\ Configs \subseteq ConfigType
    /\ \A c \in Configs : c.kind # "server" => ~c.data /\ c.nvme = "none"

VARIABLES
    \* the array
    volume,     \* the server's volume exists
    igroup,     \* none, bare (without all its initiators) or ready
    lun,        \* none, old, part (copied or created, not finished) or new
    mapped,     \* the LUNs mapped to the igroup
    first,      \* the one among them with ID 0, which is booted, or "none"
    file,       \* /seed, the file a ZAPI seed LUN is made from
    namespace,  \* none, old or new
    subsystem,  \* none, bare (without its host) or ready
    served,     \* the namespace is mapped to the subsystem
    sp,         \* UCS: the service profile exists
    \* the handler
    want,       \* the configuration
    op,         \* create, reimage or delete
    fn,         \* the function the handler is in
    at,         \* the request it makes next
    lunNo,      \* the LUN that a delete function has come to
    phase,      \* create: boot (first loop), seed (second) or cleanup
    attempt,    \* loop counter, from 0
    result,     \* running, ok or error
    faults      \* the requests that have failed in this operation

luns    == <<volume, igroup, lun, mapped, first, file>>
nvme    == <<namespace, subsystem, served>>
array   == <<luns, nvme>>
control == <<fn, at, lunNo, phase, attempt, result>>
vars    == <<array, sp, want, op, control, faults>>

Function ==
    { "CreateBootStorage", "CreateNvmeStorage", "CreateSeedStorage",
      "DeleteBootStorage", "DeleteBootLUNs", "DeleteNvmeStorage",
      "CreateHarvesterStorage", "DeleteHarvesterStorage", "RemapHarvesterStorage",
      "CreateEsxStorage", "DeleteEsxStorage", "CreateServer", "DeleteServer" }

Request ==
    { "volume_create", "igroup_create", "igroup_initiators", "image_copy",
      "image_resize", "image_map", "boot_create", "boot_upload", "boot_map",
      "data_create", "data_map", "discover",
      "namespace_unmap", "namespace_destroy", "namespace_create",
      "subsystem_destroy", "subsystem_create", "subsystem_host",
      "namespace_map", "nvme_discover",
      "seed_unmap", "seed_destroy", "file_delete", "file_upload", "seed_create",
      "seed_write", "seed_map",
      "lun_unmap", "lun_destroy", "boot_remap", "igroup_destroy", "volume_destroy",
      "server_create", "server_delete" }

TypeOK ==
    /\ volume \in BOOLEAN /\ file \in BOOLEAN /\ served \in BOOLEAN /\ sp \in BOOLEAN
    /\ igroup \in {"none", "bare", "ready"} /\ subsystem \in {"none", "bare", "ready"}
    /\ lun \in [LUN -> {"none", "old", "part", "new"}]
    /\ mapped \subseteq LUN /\ first \in mapped \cup {"none"}
    /\ namespace \in {"none", "old", "new"}
    /\ want \in Configs
    /\ op \in {"create", "reimage", "delete"}
    /\ fn \in Function /\ at \in Request /\ lunNo \in 1 .. 3
    /\ phase \in {"boot", "seed", "cleanup"}
    /\ attempt \in 0 .. Attempts - 1
    /\ result \in {"running", "ok", "error"}
    /\ faults \in 0 .. MaxFaults

CreateStorage ==
    CASE want.kind = "server"    -> "CreateBootStorage"
      [] want.kind = "harvester" -> "CreateHarvesterStorage"
      [] want.kind = "esx"       -> "CreateEsxStorage"

DeleteStorage ==
    CASE want.kind = "server"    -> "DeleteBootStorage"
      [] want.kind = "harvester" -> "DeleteHarvesterStorage"
      [] want.kind = "esx"       -> "DeleteEsxStorage"

Init ==
    /\ volume = FALSE /\ file = FALSE /\ served = FALSE /\ sp = FALSE
    /\ igroup = "none" /\ subsystem = "none"
    /\ lun = [l \in LUN |-> "none"]
    /\ mapped = {} /\ first = "none"
    /\ namespace = "none"
    /\ want \in Configs
    /\ op = "create" /\ fn = CreateStorage /\ at = "volume_create"
    /\ lunNo = 1 /\ phase = "boot" /\ attempt = 0
    /\ result = "running" /\ faults = 0

-----------------------------------------------------------------------------
(* The handlers: what follows when a function has returned.                *)

Entry(f) ==
    CASE f \in {"CreateBootStorage", "CreateHarvesterStorage", "CreateEsxStorage"} -> "volume_create"
      [] f \in {"CreateNvmeStorage", "DeleteNvmeStorage"} -> "namespace_unmap"
      [] f = "CreateSeedStorage" -> "seed_unmap"
      [] f = "CreateServer" -> "server_create"
      [] f = "DeleteServer" -> "server_delete"
      [] OTHER -> "lun_unmap"

Enter(f) ==
    /\ fn' = f
    /\ at' = Entry(f)
    /\ lunNo' = 1
    /\ result' = "running"

Finish(r) ==
    /\ result' = r
    /\ UNCHANGED <<fn, at, lunNo, phase, attempt>>

(* An operator named ...Bug is not part of the model: it is the definition *)
(* after it with a plausible fault, which some property has to notice.     *)

(* The loop is left with an error after its last attempt.                  *)
LastAttemptBug == attempt = Attempts

LastAttempt == attempt = Attempts - 1

(* Does not count the attempt.                                             *)
TryAgainBug(f, p) == ~LastAttempt /\ Enter(f) /\ phase' = p /\ UNCHANGED attempt

TryAgain(f, p) ==
    /\ ~LastAttempt
    /\ Enter(f)
    /\ attempt' = attempt + 1
    /\ phase' = p

GoOn(f) == Enter(f) /\ UNCHANGED <<phase, attempt>>

Cleanup == Enter(DeleteStorage) /\ phase' = "cleanup" /\ UNCHANGED attempt

(* Boot storage, the service profile, then NVMe and seed storage.  The     *)
(* results of the deletes are ignored.                                     *)
CreateBootLoop(ok) ==
    \/ fn = CreateStorage /\ ok /\ Enter("CreateServer") /\ phase' = "seed" /\ attempt' = 0
    \/ fn = CreateStorage /\ ~ok /\ GoOn(DeleteStorage)
    \/ fn = DeleteStorage /\ TryAgain(CreateStorage, "boot")
    \/ fn = DeleteStorage /\ LastAttempt /\ Cleanup

CreateSeedLoop(ok) ==
    \/ fn = "CreateServer" /\ ok /\ GoOn("CreateNvmeStorage")
    \/ fn = "CreateServer" /\ ~ok /\ Cleanup
    \/ fn = "CreateNvmeStorage" /\ ok /\ GoOn("CreateSeedStorage")
    \/ fn = "CreateSeedStorage" /\ ok /\ Finish("ok")
    \/ fn \in {"CreateNvmeStorage", "CreateSeedStorage"} /\ ~ok /\ GoOn("DeleteNvmeStorage")
    \/ fn = "DeleteNvmeStorage" /\ TryAgain("CreateNvmeStorage", "seed")
    \/ fn = "DeleteNvmeStorage" /\ LastAttempt /\ Cleanup

(* Of a harvester node: no NVMe storage, no delete between two attempts.   *)
CreateNodeSeedLoop(ok) ==
    \/ fn = "CreateServer" /\ ok /\ GoOn("CreateSeedStorage")
    \/ fn = "CreateServer" /\ ~ok /\ Cleanup
    \/ fn = "CreateSeedStorage" /\ ok /\ Finish("ok")
    \/ fn = "CreateSeedStorage" /\ ~ok /\ TryAgain("CreateSeedStorage", "seed")
    \/ fn = "CreateSeedStorage" /\ ~ok /\ LastAttempt /\ Cleanup

(* Of an ESX host: the seed is part of the boot image, nothing is retried, *)
(* and the clean-up takes the service profile as well.                     *)
CreateEsxHost(ok) ==
    \/ phase # "cleanup" /\ ~ok /\ Cleanup
    \/ fn = "CreateEsxStorage" /\ ok /\ GoOn("CreateServer")
    \/ fn = "CreateServer" /\ ok /\ Finish("ok")
    \/ fn = "DeleteEsxStorage" /\ GoOn("DeleteServer")
    \/ fn = "DeleteServer" /\ Finish("error")

CreateReturns(ok) ==
    \/ want.kind = "esx" /\ CreateEsxHost(ok)
    \/ /\ want.kind # "esx"
       /\ \/ phase = "boot" /\ CreateBootLoop(ok)
          \/ phase = "seed" /\ IF want.kind = "server" THEN CreateSeedLoop(ok)
                                                      ELSE CreateNodeSeedLoop(ok)
          \/ phase = "cleanup" /\ Finish("error")

(* A re-image of a server starts over wherever it has failed.              *)

(* Starts over with the next create function, without a delete.            *)
ReimageReturnsBug(ok) ==
    \/ ~ok /\ TryAgain(fn, "boot")
    \/ ~ok /\ LastAttempt /\ Finish("error")
    \/ ok /\ fn = "DeleteBootLUNs" /\ GoOn("CreateBootStorage")
    \/ ok /\ fn = "CreateBootStorage" /\ GoOn("CreateNvmeStorage")
    \/ ok /\ fn = "CreateNvmeStorage" /\ GoOn("CreateSeedStorage")
    \/ ok /\ fn = "CreateSeedStorage" /\ Finish("ok")

ReimageReturns(ok) ==
    \/ ~ok /\ TryAgain("DeleteBootLUNs", "boot")
    \/ ~ok /\ LastAttempt /\ Finish("error")
    \/ ok /\ fn = "DeleteBootLUNs" /\ GoOn("CreateBootStorage")
    \/ ok /\ fn = "CreateBootStorage" /\ GoOn("CreateNvmeStorage")
    \/ ok /\ fn = "CreateNvmeStorage" /\ GoOn("CreateSeedStorage")
    \/ ok /\ fn = "CreateSeedStorage" /\ Finish("ok")

(* That of a harvester node or an ESX host deletes once more when a create *)
(* function has failed; the result of this delete is ignored.              *)
ReimageHypervisorReturns(ok) ==
    \/ /\ fn = DeleteStorage /\ (phase = "cleanup" \/ ~ok)
       /\ TryAgain(DeleteStorage, "boot") \/ (LastAttempt /\ Finish("error"))
    \/ fn = DeleteStorage /\ phase = "boot" /\ ok /\ GoOn(CreateStorage)
    \/ fn = CreateStorage /\ ok /\ IF want.kind = "harvester" THEN GoOn("CreateSeedStorage")
                                                           ELSE Finish("ok")
    \/ fn = "CreateSeedStorage" /\ ok /\ Finish("ok")
    \/ fn \in {CreateStorage, "CreateSeedStorage"} /\ ~ok /\ Cleanup

Return(ok) ==
    \/ op = "create" /\ fn # "RemapHarvesterStorage" /\ CreateReturns(ok)
    \/ /\ op = "reimage" /\ fn # "RemapHarvesterStorage"
       /\ IF want.kind = "server" THEN ReimageReturns(ok) ELSE ReimageHypervisorReturns(ok)
    \/ /\ op = "delete" \/ fn = "RemapHarvesterStorage"
       /\ Finish(IF ok THEN "ok" ELSE "error")

-----------------------------------------------------------------------------
(* Requests.  Do: a request with effect A, after which the function goes   *)
(* on with request r.  Its failure, or that of one of the queries before   *)
(* it, ends the function.                                                  *)

Then(r) ==
    /\ at' = r
    /\ UNCHANGED <<fn, lunNo, phase, attempt, result>>

Fault == faults' = IF faults < MaxFaults THEN faults + 1 ELSE faults

Fails(A) == (A \/ UNCHANGED array) /\ Return(FALSE) /\ Fault

Step == UNCHANGED <<want, op>>

Do(A, r) ==
    /\ \/ A /\ Then(r) /\ UNCHANGED faults
       \/ Fails(A)
    /\ Step /\ UNCHANGED sp

(* The last request of a function.                                         *)
DoLast(A) ==
    /\ \/ A /\ Return(TRUE) /\ UNCHANGED faults
       \/ Fails(A)
    /\ Step /\ UNCHANGED sp

(* A request whose error is lost.                                          *)
DoAndIgnore(A, r) ==
    /\ \/ A /\ UNCHANGED faults
       \/ (A \/ UNCHANGED array) /\ Fault
    /\ Then(r)
    /\ Step /\ UNCHANGED sp

Refused ==
    /\ Return(FALSE)
    /\ UNCHANGED <<array, faults, sp>>
    /\ Step

Nothing == UNCHANGED array

(* The effects.                                                            *)
maps == <<mapped, first>>

SetVolume(v) == volume' = v /\ UNCHANGED <<igroup, lun, maps, file, nvme>>
SetIgroup(g) == igroup' = g /\ UNCHANGED <<volume, lun, maps, file, nvme>>
SetFile(f)   == file' = f /\ UNCHANGED <<volume, igroup, lun, maps, nvme>>
SetLun(l, s) == lun' = [lun EXCEPT ![l] = s] /\ UNCHANGED <<volume, igroup, maps, file, nvme>>
Map(l, id) ==
    /\ mapped' = mapped \cup {l}
    /\ first' = IF id = 0 THEN l ELSE first
    /\ UNCHANGED <<volume, igroup, lun, file, nvme>>
Unmap(l) ==
    /\ mapped' = mapped \ {l}
    /\ first' = IF first = l THEN "none" ELSE first
    /\ UNCHANGED <<volume, igroup, lun, file, nvme>>
SetNamespace(s) == namespace' = s /\ UNCHANGED <<subsystem, served, luns>>
SetSubsystem(s) == subsystem' = s /\ UNCHANGED <<namespace, served, luns>>
Serve(b)        == served' = b /\ UNCHANGED <<namespace, subsystem, luns>>

(* The IDs in the igroup: those of data and seed LUN are never 0.          *)
Id(l) == IF l = "boot" THEN (IF fn = "CreateHarvesterStorage" THEN 1 ELSE 0)
         ELSE IF l = "bootstrap" THEN 0 ELSE 2

CanMap(l) ==
    /\ igroup # "none" /\ lun[l] # "none" /\ l \notin mapped
    /\ Id(l) = 0 => first = "none"

-----------------------------------------------------------------------------
(* CreateBootStorage, CreateHarvesterStorage and CreateEsxStorage.  What   *)
(* exists already is left as it is.                                        *)

VolumeCreate ==
    /\ at = "volume_create"
    /\ Do(IF volume THEN Nothing ELSE SetVolume(TRUE),
          IF fn = "CreateEsxStorage" THEN "boot_create" ELSE "igroup_create")

AfterIgroup == IF fn = "CreateEsxStorage" THEN "boot_map" ELSE "image_copy"

(* The errors of IgroupCreate and IgroupAddInitiator are not assigned.     *)
IgroupCreate ==
    /\ at = "igroup_create"
    /\ IF igroup # "none" THEN Do(Nothing, AfterIgroup)
       ELSE DoAndIgnore(SetIgroup("bare"), "igroup_initiators")

IgroupAddInitiator ==
    /\ at = "igroup_initiators"
    /\ DoAndIgnore(IF igroup = "none" THEN Nothing ELSE SetIgroup("ready"), AfterIgroup)

(* The LUN that is copied from an image of the repository.                 *)
ImageLun == IF fn = "CreateHarvesterStorage" THEN "bootstrap" ELSE "boot"

LunCopy ==
    /\ at = "image_copy"
    /\ IF lun[ImageLun] # "none" THEN Do(Nothing, "image_map")
       ELSE Do(SetLun(ImageLun, "part"), "image_resize")

LunResize == at = "image_resize" /\ Do(SetLun(ImageLun, "new"), "image_map")

LunMap(l, r) ==
    IF l \in mapped THEN Do(Nothing, r)
    ELSE IF CanMap(l) THEN Do(Map(l, Id(l)), r) ELSE Refused

ImageMap ==
    /\ at = "image_map"
    /\ LunMap(ImageLun, CASE fn = "CreateHarvesterStorage" -> "boot_create"
                          [] want.data -> "data_create"
                          [] OTHER     -> "discover")

(* An empty boot LUN, for the installer to write to or to be uploaded.     *)
BootCreate ==
    /\ at = "boot_create"
    /\ IF fn = "CreateEsxStorage"
       THEN Do(IF lun["boot"] # "none" THEN Nothing ELSE SetLun("boot", "part"), "discover")
       ELSE Do(IF lun["boot"] # "none" THEN Nothing ELSE SetLun("boot", "new"), "boot_map")

(* LunUpload writes the installer with the kickstart file; that of the     *)
(* ZAPI client does nothing.                                               *)
BootUpload ==
    /\ at = "boot_upload"
    /\ IF want.api = "zapi" THEN Do(Nothing, "igroup_create")
       ELSE \/ Do(SetLun("boot", "new"), "igroup_create")
            \/ SetLun("boot", "part") /\ Return(FALSE) /\ Fault /\ Step /\ UNCHANGED sp

BootMap ==
    /\ at = "boot_map"
    /\ IF fn = "CreateHarvesterStorage" THEN LunMap("boot", "discover")
       ELSE IF "boot" \in mapped THEN DoLast(Nothing)
       ELSE IF CanMap("boot") THEN DoLast(Map("boot", 0)) ELSE Refused

(* Takes a LUN that exists for a LUN that is mapped.                       *)
DataCreateBug ==
    /\ at = "data_create"
    /\ IF lun["data"] # "none" THEN Do(Nothing, "discover")
       ELSE Do(SetLun("data", "new"), "data_map")

DataCreate ==
    /\ at = "data_create"
    /\ Do(IF lun["data"] # "none" THEN Nothing ELSE SetLun("data", "new"), "data_map")

DataMap == at = "data_map" /\ LunMap("data", "discover")

(* The iSCSI target and its interfaces.                                    *)
Discover ==
    /\ at = "discover"
    /\ IF fn = "CreateEsxStorage" THEN Do(Nothing, "boot_upload") ELSE DoLast(Nothing)

-----------------------------------------------------------------------------
(* CreateNvmeStorage and DeleteNvmeStorage: the namespace and subsystem    *)
(* that exist are destroyed in both.  NvmeNamespaceUnmap, Map and          *)
(* NvmeSubsystemCreate and AddHost assign their errors to a variable of an *)
(* inner scope and return nil; that of NvmeNamespaceCreate is not assigned *)
(* by its caller.                                                          *)

NvmeApplies ==
    /\ want.api = "rest"
    /\ want.nvme \in IF fn = "CreateNvmeStorage" THEN {"disk"} ELSE {"hosts", "disk"}

NvmeSkip ==
    /\ at = "namespace_unmap" /\ ~NvmeApplies
    /\ IF fn = DeleteStorage THEN Then("volume_destroy") ELSE Return(TRUE)
    /\ UNCHANGED <<array, faults, sp>>
    /\ Step

NvmeNamespaceUnmap ==
    /\ at = "namespace_unmap" /\ NvmeApplies
    /\ \/ DoAndIgnore(Serve(FALSE), "namespace_destroy")
       \/ Nothing /\ Return(FALSE) /\ Fault /\ Step /\ UNCHANGED sp

NvmeNamespaceDestroy ==
    LET next == IF fn = "CreateNvmeStorage" THEN "namespace_create" ELSE "subsystem_destroy"
    IN  /\ at = "namespace_destroy"
        /\ IF namespace # "none" /\ served THEN Refused
           ELSE Do(SetNamespace("none"), next)

NvmeNamespaceCreate ==
    at = "namespace_create" /\ DoAndIgnore(SetNamespace("new"), "subsystem_destroy")

NvmeSubsystemDestroy ==
    /\ at = "subsystem_destroy"
    /\ IF subsystem # "none" /\ served THEN Refused
       ELSE CASE fn = "CreateNvmeStorage" -> Do(SetSubsystem("none"), "subsystem_create")
              [] fn = "DeleteBootStorage" -> Do(SetSubsystem("none"), "volume_destroy")
              [] OTHER -> DoLast(SetSubsystem("none"))

NvmeSubsystemCreate ==
    at = "subsystem_create" /\ DoAndIgnore(SetSubsystem("bare"), "subsystem_host")

(* Finds the subsystem first: an error of that is returned.                *)
NvmeSubsystemAddHost ==
    /\ at = "subsystem_host"
    /\ IF subsystem = "none" THEN Refused
       ELSE \/ DoAndIgnore(SetSubsystem("ready"), "namespace_map")
            \/ Nothing /\ Return(FALSE) /\ Fault /\ Step /\ UNCHANGED sp

NvmeNamespaceMap ==
    /\ at = "namespace_map"
    /\ DoAndIgnore(IF namespace = "none" THEN Nothing ELSE Serve(TRUE), "nvme_discover")

(* Whether the interfaces of a namespace that was not created are found is *)
(* up to the array.                                                        *)
NvmeDiscover ==
    /\ at = "nvme_discover"
    /\ DoLast(Nothing) \/ (namespace = "none" /\ Refused)

-----------------------------------------------------------------------------
(* CreateSeedStorage, after the cloud-init ISO image has been made: a seed *)
(* LUN that exists is replaced, an error of LunUnmap being ignored.        *)

SeedUnmap == at = "seed_unmap" /\ DoAndIgnore(Unmap("seed"), "seed_destroy")

SeedDestroy ==
    /\ at = "seed_destroy"
    /\ IF "seed" \in mapped THEN Refused
       ELSE Do(SetLun("seed", "none"), "file_delete")

(* Shared with DeleteBootLUNs; an error of FileExists is lost.             *)
FileDeleteNext ==
    IF fn = "DeleteBootLUNs" THEN "namespace_unmap"
    ELSE IF want.api = "zapi" THEN "file_upload" ELSE "seed_create"

(* Leaves the file of the last seed in place.                              *)
FileDeleteBug == at = "file_delete" /\ Do(Nothing, FileDeleteNext)

FileDelete ==
    /\ at = "file_delete"
    /\ \/ Do(SetFile(FALSE), FileDeleteNext)
       \/ Nothing /\ Fault /\ Then(FileDeleteNext) /\ Step /\ UNCHANGED sp

FileUpload ==
    /\ at = "file_upload"
    /\ IF file THEN Refused ELSE Do(SetFile(TRUE), "seed_create")

(* ZAPI makes the LUN from the file, REST creates it and then writes it.   *)
SeedCreate ==
    /\ at = "seed_create"
    /\ IF want.api = "zapi" THEN Do(SetLun("seed", "new"), "seed_map")
       ELSE Do(SetLun("seed", "part"), "seed_write")

SeedWrite == at = "seed_write" /\ Do(SetLun("seed", "new"), "seed_map")

SeedMap ==
    /\ at = "seed_map"
    /\ IF CanMap("seed") THEN DoLast(Map("seed", Id("seed"))) ELSE Refused

-----------------------------------------------------------------------------
(* DeleteBootStorage, -HarvesterStorage and -EsxStorage, DeleteBootLUNs,   *)
(* RemapHarvesterStorage: unmap and destroy the LUNs one after the other.  *)
(* Then the first three remove the igroup, the NVMe storage (that of ESX   *)
(* hosts does not) and the volume, DeleteBootLUNs the seed file and the    *)
(* NVMe storage.  The remap keeps the boot LUN and maps it with ID 0.      *)

LunNames ==
    CASE want.kind = "server"    -> <<"boot", "data", "seed">>
      [] want.kind = "harvester" -> <<"boot", "bootstrap", "seed">>
      [] want.kind = "esx"       -> <<"boot">>

LunAt == LunNames[lunNo]

NextLun ==
    /\ at' = "lun_unmap"
    /\ lunNo' = lunNo + 1
    /\ UNCHANGED <<fn, phase, attempt, result>>

(* Also removes the igroup, as when the server is deleted.                 *)
AfterLunsBug == "igroup_destroy"

AfterLuns ==
    CASE fn = "DeleteBootLUNs"        -> "file_delete"
      [] fn = "RemapHarvesterStorage" -> "boot_remap"
      [] OTHER                        -> "igroup_destroy"

LunDone == IF lunNo < Len(LunNames) THEN NextLun ELSE Then(AfterLuns)

Kept(l) == fn = "RemapHarvesterStorage" /\ l = "boot"

LunUnmap ==
    LET A == IF lun[LunAt] = "none" \/ igroup = "none" THEN Nothing ELSE Unmap(LunAt)
    IN  /\ at = "lun_unmap"
        /\ \/ A /\ (IF Kept(LunAt) THEN LunDone ELSE Then("lun_destroy")) /\ UNCHANGED faults
           \/ Fails(A)
        /\ Step /\ UNCHANGED sp

LunDestroy ==
    /\ at = "lun_destroy"
    /\ IF LunAt \in mapped THEN Refused
       ELSE /\ \/ SetLun(LunAt, "none") /\ LunDone /\ UNCHANGED faults
               \/ Fails(SetLun(LunAt, "none"))
            /\ Step /\ UNCHANGED sp

BootRemap ==
    /\ at = "boot_remap"
    /\ IF CanMap("boot") THEN DoLast(Map("boot", 0)) ELSE Refused

(* Leaves the NVMe storage to the destruction of the volume.               *)
IgroupDestroyBug ==
    /\ at = "igroup_destroy"
    /\ IF volume THEN Do(SetIgroup("none"), "volume_destroy") ELSE DoLast(SetIgroup("none"))

(* Without a volume the function returns here.                             *)
IgroupDestroy ==
    /\ at = "igroup_destroy"
    /\ IF volume
       THEN Do(SetIgroup("none"),
               IF fn = "DeleteEsxStorage" THEN "volume_destroy" ELSE "namespace_unmap")
       ELSE DoLast(SetIgroup("none"))

VolumeDestroyed ==
    /\ volume' = FALSE /\ file' = FALSE
    /\ lun' = [l \in LUN |-> "none"]
    /\ mapped' = {} /\ first' = "none" /\ namespace' = "none" /\ served' = FALSE
    /\ UNCHANGED <<igroup, subsystem>>

VolumeDestroy == at = "volume_destroy" /\ DoLast(VolumeDestroyed)

-----------------------------------------------------------------------------
(* ucsm.CreateServer: the service profile may be left behind by a failure. *)
CreateServer ==
    /\ at = "server_create"
    /\ \/ sp' = TRUE /\ Return(TRUE) /\ UNCHANGED faults
       \/ sp' \in {sp, TRUE} /\ Return(FALSE) /\ Fault
    /\ UNCHANGED array
    /\ Step

(* ucsm.DeleteServer, as the clean-up of an ESX host calls it.             *)
DeleteServer ==
    /\ at = "server_delete"
    /\ sp' \in {sp, FALSE} /\ Return(TRUE)
    /\ UNCHANGED <<array, faults>>
    /\ Step

(* DiscoverBootStorage, -HarvesterStorage, -EsxStorage: what a refresh     *)
(* takes for the storage.                                                  *)
StorageExists ==
    /\ volume /\ lun["boot"] # "none"
    /\ want.kind = "server" => lun["seed"] # "none"

(* The next operation.  A refresh comes first: a server without profile or *)
(* storage is dropped from the state, and a profile that exists keeps a    *)
(* server from being created.                                              *)
Starts(o, f) ==
    /\ result # "running"
    /\ op' = o
    /\ Enter(f)
    /\ phase' = "boot" /\ attempt' = 0 /\ faults' = 0
    /\ lun' = [l \in LUN |-> IF lun[l] = "new" THEN "old" ELSE lun[l]]
    /\ namespace' = IF namespace = "new" THEN "old" ELSE namespace
    /\ UNCHANGED <<volume, igroup, maps, file, subsystem, served>>

StartCreate == ~sp /\ Starts("create", CreateStorage) /\ UNCHANGED <<sp, want>>

(* Data disks may come and go.  A server whose creation failed is not      *)
(* updated but replaced.                                                   *)
StartReimage ==
    /\ sp /\ StorageExists
    /\ ~(op = "create" /\ result = "error")
    /\ Starts("reimage", IF want.kind = "server" THEN "DeleteBootLUNs" ELSE DeleteStorage)
    /\ want' \in {c \in Configs : c.kind = want.kind /\ c.api = want.api /\ (c.nvme = "none" <=> want.nvme = "none")}
    /\ UNCHANGED sp

(* The first stage of the installation is over, the handler goes on.       *)
StartRemap ==
    /\ want.kind = "harvester"
    /\ op \in {"create", "reimage"} /\ result = "ok" /\ fn # "RemapHarvesterStorage"
    /\ Enter("RemapHarvesterStorage")
    /\ faults' = 0
    /\ UNCHANGED <<array, sp, want, op, phase, attempt>>

(* The service profile goes first, or stays when ucsm.DeleteServer fails.  *)
StartDelete ==
    /\ sp /\ StorageExists
    /\ Starts("delete", DeleteStorage)
    /\ sp' \in BOOLEAN
    /\ UNCHANGED want

(* A server with a profile and without storage is left to the operator.    *)
Idle ==
    /\ result # "running"
    /\ UNCHANGED vars

StorageCall ==
    \/ VolumeCreate \/ IgroupCreate \/ IgroupAddInitiator
    \/ LunCopy \/ LunResize \/ ImageMap
    \/ BootCreate \/ BootUpload \/ BootMap \/ BootRemap \/ DataCreate \/ DataMap \/ Discover
    \/ NvmeSkip \/ NvmeNamespaceUnmap \/ NvmeNamespaceDestroy
    \/ NvmeNamespaceCreate \/ NvmeSubsystemDestroy \/ NvmeSubsystemCreate
    \/ NvmeSubsystemAddHost \/ NvmeNamespaceMap \/ NvmeDiscover
    \/ SeedUnmap \/ SeedDestroy \/ FileDelete \/ FileUpload \/ SeedCreate
    \/ SeedWrite \/ SeedMap
    \/ LunUnmap \/ LunDestroy \/ IgroupDestroy \/ VolumeDestroy
    \/ CreateServer \/ DeleteServer

Call == result = "running" /\ StorageCall

Next == Call \/ StartCreate \/ StartReimage \/ StartRemap \/ StartDelete \/ Idle

Spec == Init /\ [][Next]_vars

(* A handler that has begun goes on.                                       *)
FairSpec == Spec /\ WF_vars(Call)

=============================================================================

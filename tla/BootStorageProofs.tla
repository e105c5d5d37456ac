-------------------------- MODULE BootStorageProofs --------------------------
(***************************************************************************)
(* The storage of servers, harvester nodes and ESX hosts, for every set of *)
(* configurations and any number of attempts: proofs of ReimagedIsNew,     *)
(* CreatedIsComplete, EveryAttemptCounts, DeletedIsGone and VolumeKept.    *)
(***************************************************************************)
EXTENDS BootStorageProperties, TLAPS

-----------------------------------------------------------------------------
(* The type of the state in two parts.                                     *)

ArrayOK ==
    /\ volume \in BOOLEAN /\ file \in BOOLEAN /\ served \in BOOLEAN
    /\ igroup \in {"none", "bare", "ready"} /\ subsystem \in {"none", "bare", "ready"}
    /\ lun \in [LUN -> {"none", "old", "part", "new"}]
    /\ mapped \subseteq LUN /\ first \in mapped \cup {"none"}
    /\ namespace \in {"none", "old", "new"}

HandlerOK ==
    /\ want \in Configs
    /\ op \in {"create", "reimage", "delete"}
    /\ fn \in Function /\ at \in Request /\ lunNo \in 1 .. 3
    /\ phase \in {"boot", "seed", "cleanup"}
    /\ attempt \in 0 .. Attempts - 1
    /\ result \in {"running", "ok", "error"}

LEMMA TypeParts ==
    TypeOK <=> ArrayOK /\ HandlerOK /\ sp \in BOOLEAN /\ faults \in 0 .. MaxFaults
BY DEF TypeOK, ArrayOK, HandlerOK

LEMMA TypeFromParts ==
    ArrayOK' /\ HandlerOK' /\ sp' \in BOOLEAN /\ faults' \in 0 .. MaxFaults => TypeOK'
BY DEF TypeOK, ArrayOK, HandlerOK

LEMMA Kinds ==
    ASSUME NEW c \in Configs
    PROVE  /\ c.kind \in {"server", "harvester", "esx"} /\ c.api \in {"rest", "zapi"}
           /\ c.data \in BOOLEAN /\ c.nvme \in {"none", "hosts", "disk"}
           /\ c.kind # "server" => ~c.data /\ c.nvme = "none"
BY ConfigsAssumption DEF ConfigType

(* The functions and LUNs of the three kinds.                              *)
LEMMA OfKind ==
    ASSUME want \in Configs
    PROVE  /\ want.kind = "server" =>
                 CreateStorage = "CreateBootStorage" /\ DeleteStorage = "DeleteBootStorage"
           /\ want.kind = "harvester" =>
                 CreateStorage = "CreateHarvesterStorage" /\ DeleteStorage = "DeleteHarvesterStorage"
           /\ want.kind = "esx" =>
                 CreateStorage = "CreateEsxStorage" /\ DeleteStorage = "DeleteEsxStorage"
           /\ want.kind \in {"server", "harvester", "esx"}
BY Kinds DEF CreateStorage, DeleteStorage

LEMMA OwnLuns ==
    ASSUME want \in Configs
    PROVE  /\ Len(LunNames) = IF want.kind = "esx" THEN 1 ELSE 3
           /\ lunNo = 1 => LunAt = "boot"
           /\ lunNo = 2 /\ want.kind = "server" => LunAt = "data"
           /\ lunNo = 2 /\ want.kind = "harvester" => LunAt = "bootstrap"
           /\ lunNo = 3 /\ want.kind # "esx" => LunAt = "seed"
<1>1. want.kind = "server" => LunNames = <<"boot", "data", "seed">>
  BY DEF LunNames
<1>2. want.kind = "harvester" => LunNames = <<"boot", "bootstrap", "seed">>
  BY DEF LunNames
<1>3. want.kind = "esx" => LunNames = <<"boot">>
  BY DEF LunNames
<1>. QED
  BY <1>1, <1>2, <1>3, Kinds DEF LunAt

-----------------------------------------------------------------------------
(* The kind of machine that a function is for.                             *)
LEMMA KindOf ==
    ASSUME HandlerOK, ControlInv
    PROVE  /\ fn \in { "CreateBootStorage", "DeleteBootStorage", "DeleteBootLUNs",
                       "CreateNvmeStorage", "DeleteNvmeStorage" } => want.kind = "server"
           /\ fn \in { "CreateHarvesterStorage", "DeleteHarvesterStorage",
                       "RemapHarvesterStorage" } => want.kind = "harvester"
           /\ fn \in {"CreateEsxStorage", "DeleteEsxStorage", "DeleteServer"} => want.kind = "esx"
           /\ fn = "CreateSeedStorage" => want.kind # "esx"
BY OfKind DEF HandlerOK, ControlInv, CreateCalls, ReimageCalls, Remapped

(* The course of a handler, whatever the requests do.                      *)

May(f, r) ==
    /\ r \in Request /\ Makes(f, r)
    /\ r \in NvmeRequests => want.api = "rest" /\ want.nvme # "none"

(* The function goes on with a request of its own, or returns.             *)
Moves ==
    \/ May(fn, at') /\ UNCHANGED <<fn, lunNo, phase, attempt, result>>
    \/ lunNo < Len(LunNames) /\ NextLun /\ May(fn, "lun_unmap")
    \/ Return(TRUE) \/ Return(FALSE)

LEMMA EntryIs == \A f \in Function : Entry(f) \in Request /\ Makes(f, Entry(f)) /\ Entry(f) \notin NvmeRequests
BY DEF Function, Entry, Request, Makes, Creators, Deleters, Nvme, NvmeRequests

(* Every request leads to one that its function makes.                     *)
LEMMA Successors ==
    ASSUME HandlerOK, ControlInv
    PROVE
      /\ at = "volume_create" =>
            IF fn = "CreateEsxStorage"
            THEN May(fn, "boot_create") ELSE May(fn, "igroup_create")
      /\ at = "igroup_create" => May(fn, AfterIgroup) /\ May(fn, "igroup_initiators")
      /\ at = "igroup_initiators" => May(fn, AfterIgroup)
      /\ at = "image_copy" => May(fn, "image_map") /\ May(fn, "image_resize")
      /\ at = "image_resize" => May(fn, "image_map")
      /\ at = "image_map" =>
            IF fn = "CreateHarvesterStorage"
            THEN May(fn, "boot_create") ELSE May(fn, "data_create") /\ May(fn, "discover")
      /\ at = "boot_create" =>
            IF fn = "CreateEsxStorage"
            THEN May(fn, "discover") ELSE May(fn, "boot_map")
      /\ at = "boot_upload" => May(fn, "igroup_create")
      /\ at = "boot_map" => May(fn, "discover")
      /\ at = "data_create" => May(fn, "discover") /\ May(fn, "data_map")
      /\ at = "data_map" => May(fn, "discover")
      /\ at = "discover" => (fn = "CreateEsxStorage" => May(fn, "boot_upload"))
      /\ at = "namespace_unmap" =>
            /\ fn = DeleteStorage => May(fn, "volume_destroy")
            /\ NvmeApplies => May(fn, "namespace_destroy")
      /\ at = "namespace_destroy" =>
            IF fn = "CreateNvmeStorage"
            THEN May(fn, "namespace_create") ELSE May(fn, "subsystem_destroy")
      /\ at = "namespace_create" => May(fn, "subsystem_destroy")
      /\ at = "subsystem_destroy" =>
            /\ fn = "CreateNvmeStorage" => May(fn, "subsystem_create")
            /\ fn = "DeleteBootStorage" => May(fn, "volume_destroy")
      /\ at = "subsystem_create" => May(fn, "subsystem_host")
      /\ at = "subsystem_host" => May(fn, "namespace_map")
      /\ at = "namespace_map" => May(fn, "nvme_discover")
      /\ at = "seed_unmap" => May(fn, "seed_destroy")
      /\ at = "seed_destroy" => May(fn, "file_delete")
      /\ at = "file_delete" => May(fn, FileDeleteNext)
      /\ at = "file_upload" => May(fn, "seed_create")
      /\ at = "seed_create" => May(fn, "seed_map") /\ May(fn, "seed_write")
      /\ at = "seed_write" => May(fn, "seed_map")
      /\ at = "lun_unmap" =>
            /\ May(fn, "lun_unmap") /\ May(fn, "lun_destroy")
            /\ May(fn, AfterLuns)
      /\ at = "lun_destroy" => May(fn, "lun_unmap") /\ May(fn, AfterLuns)
      /\ at = "igroup_destroy" =>
            IF fn = "DeleteEsxStorage"
            THEN May(fn, "volume_destroy") ELSE May(fn, "namespace_unmap")
<1>. USE DEF HandlerOK, ControlInv, May, Makes, Creators, Deleters, Nvme, NvmeRequests,
     Request
<1>1. at = "volume_create" =>
          IF fn = "CreateEsxStorage"
          THEN May(fn, "boot_create") ELSE May(fn, "igroup_create")
  OBVIOUS
<1>2. at = "igroup_create" => May(fn, AfterIgroup) /\ May(fn, "igroup_initiators")
  BY DEF AfterIgroup
<1>3. at = "igroup_initiators" => May(fn, AfterIgroup)
  BY DEF AfterIgroup
<1>4. at = "image_copy" => May(fn, "image_map") /\ May(fn, "image_resize")
  OBVIOUS
<1>5. at = "image_resize" => May(fn, "image_map")
  OBVIOUS
<1>6. at = "image_map" =>
          IF fn = "CreateHarvesterStorage"
          THEN May(fn, "boot_create") ELSE May(fn, "data_create") /\ May(fn, "discover")
  OBVIOUS
<1>7. at = "boot_create" =>
          IF fn = "CreateEsxStorage"
          THEN May(fn, "discover") ELSE May(fn, "boot_map")
  OBVIOUS
<1>8. at = "boot_upload" => May(fn, "igroup_create")
  OBVIOUS
<1>9. at = "boot_map" => May(fn, "discover")
  BY DEF Function
<1>10. at = "data_create" => May(fn, "discover") /\ May(fn, "data_map")
  OBVIOUS
<1>11. at = "data_map" => May(fn, "discover")
  OBVIOUS
<1>12. at = "discover" => (fn = "CreateEsxStorage" => May(fn, "boot_upload"))
  OBVIOUS
<1>13. at = "namespace_unmap" =>
          /\ fn = DeleteStorage => May(fn, "volume_destroy")
          /\ NvmeApplies => May(fn, "namespace_destroy")
  BY Kinds, OfKind, KindOf DEF NvmeApplies, Function
<1>14. at = "namespace_destroy" =>
          IF fn = "CreateNvmeStorage"
          THEN May(fn, "namespace_create") ELSE May(fn, "subsystem_destroy")
  OBVIOUS
<1>15. at = "namespace_create" => May(fn, "subsystem_destroy")
  OBVIOUS
<1>16. at = "subsystem_destroy" =>
          /\ fn = "CreateNvmeStorage" => May(fn, "subsystem_create")
          /\ fn = "DeleteBootStorage" => May(fn, "volume_destroy")
  OBVIOUS
<1>17. at = "subsystem_create" => May(fn, "subsystem_host")
  OBVIOUS
<1>18. at = "subsystem_host" => May(fn, "namespace_map")
  OBVIOUS
<1>19. at = "namespace_map" => May(fn, "nvme_discover")
  OBVIOUS
<1>20. at = "seed_unmap" => May(fn, "seed_destroy")
  OBVIOUS
<1>21. at = "seed_destroy" => May(fn, "file_delete")
  OBVIOUS
<1>22. at = "file_delete" => May(fn, FileDeleteNext)
  BY DEF FileDeleteNext
<1>23. at = "file_upload" => May(fn, "seed_create")
  OBVIOUS
<1>24. at = "seed_create" => May(fn, "seed_map") /\ May(fn, "seed_write")
  OBVIOUS
<1>25. at = "seed_write" => May(fn, "seed_map")
  OBVIOUS
<1>26. at = "lun_unmap" =>
          /\ May(fn, "lun_unmap") /\ May(fn, "lun_destroy")
          /\ May(fn, AfterLuns)
  BY DEF AfterLuns
<1>27. at = "lun_destroy" => May(fn, "lun_unmap") /\ May(fn, AfterLuns)
  BY DEF AfterLuns
<1>28. at = "igroup_destroy" =>
          IF fn = "DeleteEsxStorage"
          THEN May(fn, "volume_destroy") ELSE May(fn, "namespace_unmap")
  OBVIOUS
<1>. QED
  BY <1>1, <1>2, <1>3, <1>4, <1>5, <1>6, <1>7, <1>8, <1>9, <1>10, <1>11, <1>12, <1>13,
     <1>14, <1>15, <1>16, <1>17, <1>18, <1>19, <1>20, <1>21, <1>22, <1>23, <1>24, <1>25,
     <1>26, <1>27, <1>28

(* Every request leads to one of these moves.                              *)
LEMMA Courses ==
    ASSUME HandlerOK, ControlInv, StorageCall
    PROVE  Moves /\ UNCHANGED <<want, op>>
<1>. USE Successors, OfKind DEF Moves, Then
<1>1. VolumeCreate => Moves /\ UNCHANGED <<want, op>>
  BY DEF VolumeCreate, Do, Fails, Step, Nothing, SetVolume
<1>2. IgroupCreate => Moves /\ UNCHANGED <<want, op>>
  BY DEF IgroupCreate, Do, Fails, Step, DoAndIgnore, Nothing, SetIgroup, AfterIgroup
<1>3. IgroupAddInitiator => Moves /\ UNCHANGED <<want, op>>
  BY DEF IgroupAddInitiator, DoAndIgnore, Step, Nothing, SetIgroup, AfterIgroup
<1>4. LunCopy => Moves /\ UNCHANGED <<want, op>>
  BY DEF LunCopy, Do, Fails, Step, Nothing, SetLun, ImageLun
<1>5. LunResize => Moves /\ UNCHANGED <<want, op>>
  BY DEF LunResize, Do, Fails, Step, SetLun, ImageLun
<1>6. ImageMap => Moves /\ UNCHANGED <<want, op>>
  <2>1. CASE fn = "CreateHarvesterStorage"
    BY <2>1, Kinds, KindOf DEF HandlerOK, ImageMap, LunMap, Do, Fails, Refused, Step
  <2>2. CASE fn # "CreateHarvesterStorage" /\ want.data
    BY <2>2 DEF ImageMap, LunMap, Do, Fails, Refused, Step
  <2>3. CASE fn # "CreateHarvesterStorage" /\ ~want.data
    BY <2>3 DEF ImageMap, LunMap, Do, Fails, Refused, Step
  <2>. QED
    BY <2>1, <2>2, <2>3
<1>7. BootCreate => Moves /\ UNCHANGED <<want, op>>
  BY DEF BootCreate, Do, Fails, Step, Nothing, SetLun
<1>8. BootUpload => Moves /\ UNCHANGED <<want, op>>
  BY DEF BootUpload, Do, Fails, Step, Nothing, SetLun
<1>9. BootMap => Moves /\ UNCHANGED <<want, op>>
  BY DEF BootMap, Do, Fails, Step, DoLast, Refused, Nothing, LunMap, Map, CanMap, Id
<1>10. BootRemap => Moves /\ UNCHANGED <<want, op>>
  BY DEF BootRemap, DoLast, Fails, Refused, Step, Map, CanMap, Id
<1>11. DataCreate => Moves /\ UNCHANGED <<want, op>>
  BY DEF DataCreate, Do, Fails, Step, Nothing, SetLun
<1>12. DataMap => Moves /\ UNCHANGED <<want, op>>
  BY DEF DataMap, Do, Fails, Step, Refused, Nothing, LunMap, Map, CanMap, Id
<1>13. Discover => Moves /\ UNCHANGED <<want, op>>
  BY DEF Discover, Do, Fails, Step, DoLast, Nothing
<1>14. NvmeSkip => Moves /\ UNCHANGED <<want, op>>
  BY DEF NvmeSkip, NvmeApplies, Step
<1>15. NvmeNamespaceUnmap => Moves /\ UNCHANGED <<want, op>>
  BY DEF NvmeNamespaceUnmap, DoAndIgnore, Step, NvmeApplies, Nothing, Serve
<1>16. NvmeNamespaceDestroy => Moves /\ UNCHANGED <<want, op>>
  BY DEF NvmeNamespaceDestroy, Do, Fails, Step, Refused, SetNamespace
<1>17. NvmeNamespaceCreate => Moves /\ UNCHANGED <<want, op>>
  BY DEF NvmeNamespaceCreate, DoAndIgnore, Step, SetNamespace
<1>18. NvmeSubsystemDestroy => Moves /\ UNCHANGED <<want, op>>
  BY DEF NvmeSubsystemDestroy, Do, Fails, Step, DoLast, Refused, SetSubsystem
<1>19. NvmeSubsystemCreate => Moves /\ UNCHANGED <<want, op>>
  BY DEF NvmeSubsystemCreate, DoAndIgnore, Step, SetSubsystem
<1>20. NvmeSubsystemAddHost => Moves /\ UNCHANGED <<want, op>>
  BY DEF NvmeSubsystemAddHost, DoAndIgnore, Step, Refused, Nothing, SetSubsystem
<1>21. NvmeNamespaceMap => Moves /\ UNCHANGED <<want, op>>
  BY DEF NvmeNamespaceMap, DoAndIgnore, Step, Nothing, Serve
<1>22. NvmeDiscover => Moves /\ UNCHANGED <<want, op>>
  BY DEF NvmeDiscover, DoLast, Fails, Refused, Nothing, Step
<1>23. SeedUnmap => Moves /\ UNCHANGED <<want, op>>
  BY DEF SeedUnmap, DoAndIgnore, Step, Unmap
<1>24. SeedDestroy => Moves /\ UNCHANGED <<want, op>>
  BY DEF SeedDestroy, Do, Fails, Step, Refused, SetLun
<1>25. FileDelete => Moves /\ UNCHANGED <<want, op>>
  BY DEF FileDelete, Do, Fails, Step, Nothing, SetFile, FileDeleteNext
<1>26. FileUpload => Moves /\ UNCHANGED <<want, op>>
  BY DEF FileUpload, Do, Fails, Step, Refused, SetFile
<1>27. SeedCreate => Moves /\ UNCHANGED <<want, op>>
  BY DEF SeedCreate, Do, Fails, Step, SetLun
<1>28. SeedWrite => Moves /\ UNCHANGED <<want, op>>
  BY DEF SeedWrite, Do, Fails, Step, SetLun
<1>29. SeedMap => Moves /\ UNCHANGED <<want, op>>
  BY DEF SeedMap, DoLast, Fails, Step, Refused, Map, CanMap, Id
<1>30. LunUnmap => Moves /\ UNCHANGED <<want, op>>
  BY DEF LunUnmap, Fails, Step, Nothing, Unmap, LunDone, Kept, AfterLuns
<1>31. LunDestroy => Moves /\ UNCHANGED <<want, op>>
  BY DEF LunDestroy, Fails, Step, Refused, SetLun, LunDone, AfterLuns
<1>32. IgroupDestroy => Moves /\ UNCHANGED <<want, op>>
  BY DEF IgroupDestroy, Do, Fails, Step, DoLast, SetIgroup
<1>33. VolumeDestroy => Moves /\ UNCHANGED <<want, op>>
  BY DEF VolumeDestroy, DoLast, Fails, Step, VolumeDestroyed
<1>34. CreateServer => Moves /\ UNCHANGED <<want, op>>
  BY DEF CreateServer, Step
<1>35. DeleteServer => Moves /\ UNCHANGED <<want, op>>
  BY DEF DeleteServer, Step
<1>. QED
  BY <1>1, <1>2, <1>3, <1>4, <1>5, <1>6, <1>7, <1>8, <1>9, <1>10, <1>11, <1>12, <1>13,
     <1>14, <1>15, <1>16, <1>17, <1>18, <1>19, <1>20, <1>21, <1>22, <1>23, <1>24, <1>25,
     <1>26, <1>27, <1>28, <1>29, <1>30, <1>31, <1>32, <1>33, <1>34, <1>35 DEF StorageCall

-----------------------------------------------------------------------------
(* What always holds of the array is kept by every effect of a request     *)
(* under the conditions named here.                                        *)

LEMMA Same ==
    ASSUME ArrayOK, ArrayInv, want' = want, UNCHANGED array
    PROVE  ArrayOK' /\ ArrayInv'
BY DEF ArrayOK, ArrayInv, array, luns, nvme, maps, LUN

LEMMA VolumeSet ==
    ASSUME ArrayOK, ArrayInv, want' = want, SetVolume(TRUE)
    PROVE  ArrayOK' /\ ArrayInv'
BY DEF ArrayOK, ArrayInv, array, luns, nvme, maps, LUN, SetVolume

LEMMA IgroupSet ==
    ASSUME ArrayOK, ArrayInv, want' = want, NEW g \in {"none", "bare", "ready"}, SetIgroup(g),
           g = "none" => \A l \in LUN : lun[l] = "none"
    PROVE  ArrayOK' /\ ArrayInv'
BY DEF ArrayOK, ArrayInv, array, luns, nvme, maps, LUN, SetIgroup

LEMMA LunSet ==
    ASSUME ArrayOK, ArrayInv, want' = want, NEW l \in LUN, NEW s \in {"none", "part", "new"}, SetLun(l, s),
           s = "none" => l \notin mapped,
           s # "none" => /\ volume
                         /\ l = "data" => want.kind = "server"
                         /\ l = "bootstrap" => want.kind = "harvester"
                         /\ l = "seed" => want.kind # "esx" /\ igroup # "none"
    PROVE  ArrayOK' /\ ArrayInv'
BY DEF ArrayOK, ArrayInv, array, luns, nvme, maps, LUN, SetLun

LEMMA LunMapped ==
    ASSUME ArrayOK, ArrayInv, want' = want, NEW l \in LUN, Map(l, Id(l)), CanMap(l),
           fn = "CreateHarvesterStorage" => want.kind = "harvester"
    PROVE  ArrayOK' /\ ArrayInv'
BY DEF ArrayOK, ArrayInv, array, luns, nvme, maps, LUN, Map, CanMap, Id

LEMMA LunUnmapped ==
    ASSUME ArrayOK, ArrayInv, want' = want, NEW l \in LUN, Unmap(l)
    PROVE  ArrayOK' /\ ArrayInv'
BY DEF ArrayOK, ArrayInv, array, luns, nvme, maps, LUN, Unmap

LEMMA FileSet ==
    ASSUME ArrayOK, ArrayInv, want' = want, NEW f \in BOOLEAN, SetFile(f), f => volume
    PROVE  ArrayOK' /\ ArrayInv'
BY DEF ArrayOK, ArrayInv, array, luns, nvme, maps, LUN, SetFile

LEMMA NamespaceSet ==
    ASSUME ArrayOK, ArrayInv, want' = want, NEW s \in {"none", "new"}, SetNamespace(s),
           s = "new" => volume /\ want.api = "rest" /\ want.nvme # "none"
    PROVE  ArrayOK' /\ ArrayInv'
BY DEF ArrayOK, ArrayInv, array, luns, nvme, maps, LUN, SetNamespace

LEMMA SubsystemSet ==
    ASSUME ArrayOK, ArrayInv, want' = want, NEW s \in {"none", "bare", "ready"}, SetSubsystem(s),
           s # "none" => volume /\ want.api = "rest" /\ want.nvme # "none"
    PROVE  ArrayOK' /\ ArrayInv'
BY DEF ArrayOK, ArrayInv, array, luns, nvme, maps, LUN, SetSubsystem

LEMMA ServedSet ==
    ASSUME ArrayOK, ArrayInv, want' = want, NEW b \in BOOLEAN, Serve(b),
           b => want.api = "rest" /\ want.nvme # "none"
    PROVE  ArrayOK' /\ ArrayInv'
BY DEF ArrayOK, ArrayInv, array, luns, nvme, maps, LUN, Serve

LEMMA Destroyed ==
    ASSUME ArrayOK, ArrayInv, want' = want, VolumeDestroyed, subsystem = "none"
    PROVE  ArrayOK' /\ ArrayInv'
BY DEF ArrayOK, ArrayInv, array, luns, nvme, maps, LUN, VolumeDestroyed

LEMMA LunIs ==
    ASSUME HandlerOK, lunNo <= Len(LunNames)
    PROVE  LunAt \in LUN
<1>1. want \in Configs /\ lunNo \in 1 .. 3
  BY DEF HandlerOK
<1>2. lunNo = 1 \/ (want.kind # "esx" /\ lunNo \in {2, 3})
  BY <1>1, OwnLuns
<1>. QED
  BY <1>1, <1>2, OwnLuns, Kinds DEF LUN

LEMMA ArrayKept ==
    ASSUME ArrayOK, HandlerOK, ControlInv, ArrayInv, DeleteInv, CreateInv,
           result = "running", StorageCall
    PROVE  ArrayOK' /\ ArrayInv'
<1>. USE Same DEF HandlerOK, ControlInv, Makes, Running, Creators, Deleters, Nvme, LUN
<1>1. VolumeCreate => ArrayOK' /\ ArrayInv'
  BY VolumeSet DEF VolumeCreate, Do, Fails, Step, SetVolume, Nothing
<1>2. IgroupCreate => ArrayOK' /\ ArrayInv'
  BY IgroupSet DEF IgroupCreate, Do, Fails, Step, DoAndIgnore, SetIgroup, Nothing
<1>3. IgroupAddInitiator => ArrayOK' /\ ArrayInv'
  BY IgroupSet DEF IgroupAddInitiator, DoAndIgnore, Step, SetIgroup, Nothing
<1>4. LunCopy => ArrayOK' /\ ArrayInv'
  BY LunSet, KindOf DEF LunCopy, Do, Fails, Step, SetLun, Nothing, ImageLun, CreateInv
<1>5. LunResize => ArrayOK' /\ ArrayInv'
  BY LunSet, KindOf DEF LunResize, Do, Fails, Step, SetLun, Nothing, ImageLun, CreateInv
<1>6. ImageMap => ArrayOK' /\ ArrayInv'
  BY LunMapped, KindOf DEF ImageMap, Do, Fails, Step, Refused, Map, LunMap, CanMap, Id,
     Nothing, ImageLun
<1>7. BootCreate => ArrayOK' /\ ArrayInv'
  BY LunSet DEF BootCreate, Do, Fails, Step, SetLun, Nothing, CreateInv
<1>8. BootUpload => ArrayOK' /\ ArrayInv'
  BY LunSet DEF BootUpload, Do, Fails, Step, SetLun, Nothing, CreateInv
<1>9. BootMap => ArrayOK' /\ ArrayInv'
  BY LunMapped, KindOf DEF BootMap, Do, Fails, Step, DoLast, Refused, Map, LunMap, CanMap,
     Id, Nothing
<1>10. BootRemap => ArrayOK' /\ ArrayInv'
  BY LunMapped, KindOf DEF BootRemap, DoLast, Fails, Refused, Step, Map, CanMap, Id
<1>11. DataCreate => ArrayOK' /\ ArrayInv'
  BY LunSet, KindOf DEF DataCreate, Do, Fails, Step, SetLun, Nothing, CreateInv
<1>12. DataMap => ArrayOK' /\ ArrayInv'
  BY LunMapped, KindOf DEF DataMap, Do, Fails, Step, Refused, Map, LunMap, CanMap, Id,
     Nothing
<1>13. Discover => ArrayOK' /\ ArrayInv'
  BY DEF Discover, Do, Fails, Step, DoLast, Nothing
<1>14. NvmeSkip => ArrayOK' /\ ArrayInv'
  BY DEF NvmeSkip, NvmeApplies, Step
<1>15. NvmeNamespaceUnmap => ArrayOK' /\ ArrayInv'
  BY ServedSet DEF NvmeNamespaceUnmap, DoAndIgnore, Step, NvmeApplies, Serve, Nothing
<1>16. NvmeNamespaceDestroy => ArrayOK' /\ ArrayInv'
  BY NamespaceSet DEF NvmeNamespaceDestroy, Do, Fails, Step, Refused, SetNamespace
<1>17. NvmeNamespaceCreate => ArrayOK' /\ ArrayInv'
  BY NamespaceSet DEF NvmeNamespaceCreate, DoAndIgnore, Step, SetNamespace, CreateInv,
     NvmeRequests
<1>18. NvmeSubsystemDestroy => ArrayOK' /\ ArrayInv'
  BY SubsystemSet DEF NvmeSubsystemDestroy, Do, Fails, Step, DoLast, Refused, SetSubsystem
<1>19. NvmeSubsystemCreate => ArrayOK' /\ ArrayInv'
  BY SubsystemSet DEF NvmeSubsystemCreate, DoAndIgnore, Step, SetSubsystem, CreateInv,
     NvmeRequests
<1>20. NvmeSubsystemAddHost => ArrayOK' /\ ArrayInv'
  BY SubsystemSet DEF NvmeSubsystemAddHost, DoAndIgnore, Step, Refused, SetSubsystem,
     CreateInv, NvmeRequests, Nothing
<1>21. NvmeNamespaceMap => ArrayOK' /\ ArrayInv'
  BY ServedSet DEF NvmeNamespaceMap, DoAndIgnore, Step, Serve, Nothing, NvmeRequests
<1>22. NvmeDiscover => ArrayOK' /\ ArrayInv'
  BY DEF NvmeDiscover, DoLast, Fails, Refused, Step, Nothing
<1>23. SeedUnmap => ArrayOK' /\ ArrayInv'
  BY LunUnmapped DEF SeedUnmap, DoAndIgnore, Step, Unmap
<1>24. SeedDestroy => ArrayOK' /\ ArrayInv'
  BY LunSet DEF SeedDestroy, Do, Fails, Step, Refused, SetLun
<1>25. FileDelete => ArrayOK' /\ ArrayInv'
  BY FileSet DEF FileDelete, Do, Fails, Step, SetFile, Nothing
<1>26. FileUpload => ArrayOK' /\ ArrayInv'
  BY FileSet DEF FileUpload, Do, Fails, Step, Refused, SetFile, CreateInv
<1>27. SeedCreate => ArrayOK' /\ ArrayInv'
  BY LunSet, KindOf DEF SeedCreate, Do, Fails, Step, SetLun, CreateInv
<1>28. SeedWrite => ArrayOK' /\ ArrayInv'
  BY LunSet, KindOf DEF SeedWrite, Do, Fails, Step, SetLun, CreateInv
<1>29. SeedMap => ArrayOK' /\ ArrayInv'
  BY LunMapped, KindOf DEF SeedMap, DoLast, Fails, Step, Refused, Map, CanMap, Id
<1>30. LunUnmap => ArrayOK' /\ ArrayInv'
  BY LunUnmapped, LunIs DEF LunUnmap, Fails, Step, Unmap, Nothing
<1>31. LunDestroy => ArrayOK' /\ ArrayInv'
  BY LunSet, LunIs DEF LunDestroy, Fails, Step, Refused, SetLun
<1>32. IgroupDestroy => ArrayOK' /\ ArrayInv'
  BY IgroupSet DEF IgroupDestroy, Do, Fails, Step, DoLast, SetIgroup, DeleteInv
<1>33. VolumeDestroy => ArrayOK' /\ ArrayInv'
  BY Destroyed DEF VolumeDestroy, DoLast, Fails, Step, VolumeDestroyed, DeleteInv
<1>34. CreateServer => ArrayOK' /\ ArrayInv'
  BY DEF CreateServer, Step
<1>35. DeleteServer => ArrayOK' /\ ArrayInv'
  BY DEF DeleteServer, Step
<1>. QED
  BY <1>1, <1>2, <1>3, <1>4, <1>5, <1>6, <1>7, <1>8, <1>9, <1>10, <1>11, <1>12, <1>13,
     <1>14, <1>15, <1>16, <1>17, <1>18, <1>19, <1>20, <1>21, <1>22, <1>23, <1>24, <1>25,
     <1>26, <1>27, <1>28, <1>29, <1>30, <1>31, <1>32, <1>33, <1>34, <1>35 DEF StorageCall

-----------------------------------------------------------------------------
(* Which request an action makes.                                          *)
LEMMA Guards ==
    /\ NvmeNamespaceUnmap \/ NvmeSkip => at = "namespace_unmap"
    /\ VolumeCreate => at = "volume_create"
    /\ IgroupCreate => at = "igroup_create"
    /\ IgroupAddInitiator => at = "igroup_initiators"
    /\ LunCopy => at = "image_copy"
    /\ LunResize => at = "image_resize"
    /\ ImageMap => at = "image_map"
    /\ BootCreate => at = "boot_create"
    /\ BootUpload => at = "boot_upload"
    /\ BootMap => at = "boot_map"
    /\ BootRemap => at = "boot_remap"
    /\ DataCreate => at = "data_create"
    /\ DataMap => at = "data_map"
    /\ Discover => at = "discover"
    /\ NvmeNamespaceDestroy => at = "namespace_destroy"
    /\ NvmeNamespaceCreate => at = "namespace_create"
    /\ NvmeSubsystemDestroy => at = "subsystem_destroy"
    /\ NvmeSubsystemCreate => at = "subsystem_create"
    /\ NvmeSubsystemAddHost => at = "subsystem_host"
    /\ NvmeNamespaceMap => at = "namespace_map"
    /\ NvmeDiscover => at = "nvme_discover"
    /\ SeedUnmap => at = "seed_unmap"
    /\ SeedDestroy => at = "seed_destroy"
    /\ FileDelete => at = "file_delete"
    /\ FileUpload => at = "file_upload"
    /\ SeedCreate => at = "seed_create"
    /\ SeedWrite => at = "seed_write"
    /\ SeedMap => at = "seed_map"
    /\ LunUnmap => at = "lun_unmap"
    /\ LunDestroy => at = "lun_destroy"
    /\ IgroupDestroy => at = "igroup_destroy"
    /\ VolumeDestroy => at = "volume_destroy"
    /\ CreateServer => at = "server_create"
    /\ DeleteServer => at = "server_delete"
BY DEF VolumeCreate, IgroupCreate, IgroupAddInitiator, LunCopy, LunResize, ImageMap,
   BootCreate, BootUpload, BootMap, BootRemap, DataCreate, DataMap, Discover, NvmeSkip,
   NvmeNamespaceUnmap, NvmeNamespaceDestroy, NvmeNamespaceCreate, NvmeSubsystemDestroy,
   NvmeSubsystemCreate, NvmeSubsystemAddHost, NvmeNamespaceMap, NvmeDiscover, SeedUnmap,
   SeedDestroy, FileDelete, FileUpload, SeedCreate, SeedWrite, SeedMap, LunUnmap,
   LunDestroy, IgroupDestroy, VolumeDestroy, CreateServer, DeleteServer

(* What a function leaves on the array when it returns.                    *)

LeavesOnly(ls) ==
    /\ \A l \in LUN : lun'[l] = IF l \in ls THEN "new" ELSE "none"
    /\ mapped' = ls

Deleted(ok) ==
    fn \in Deleters /\ ok =>
        /\ \A l \in LUN : lun'[l] = "none"
        /\ fn # "DeleteBootLUNs" => ~volume' /\ igroup' = "none" /\ subsystem' = "none"

RemapDone(ok) ==
    Remapped /\ ok =>
        /\ volume' /\ igroup' # "none" /\ mapped' = {"boot"} /\ first' = "boot"
        /\ \A l \in LUN : lun'[l] = IF l = "boot" THEN lun["boot"] ELSE "none"
        /\ sp' = sp

Finishers == {"CreateServer", "CreateNvmeStorage", "CreateSeedStorage", "DeleteNvmeStorage"}

Created(ok) ==
    /\ fn \in Finishers \/ (ok /\ fn \in Creators) =>
        /\ volume'
        /\ \A l \in Wanted \ {"seed"} : l \in mapped'
        /\ want.kind = "esx" /\ Uploaded => lun'["boot"] = "new"
        /\ op = "create" /\ fn \in Finishers /\ (ok \/ fn # "CreateServer") => sp'
    /\ fn = "CreateSeedStorage" /\ ok => "seed" \in mapped' /\ lun'["seed"] = "new"

Reimaged(ok) ==
    op = "reimage" /\ ok =>
        /\ fn \in Creators /\ Uploaded => LeavesOnly(Wanted \ {"seed"})
        /\ fn = "CreateNvmeStorage" => LeavesOnly(Wanted \ {"seed"})
        /\ fn = "CreateSeedStorage" => LeavesOnly(Wanted)

LEMMA LunsLeft ==
    ASSUME HandlerOK, lunNo <= Len(LunNames)
    PROVE  \/ lunNo < Len(LunNames) /\ lunNo \in {1, 2}
           \/ lunNo = Len(LunNames) /\ ~(lunNo < Len(LunNames))
<1>1. lunNo \in 1 .. 3 /\ want \in Configs
  BY DEF HandlerOK
<1>2. PICK n \in {1, 3} : n = Len(LunNames)
  BY <1>1, OwnLuns
<1>3. lunNo <= n
  BY <1>2
<1>4. (lunNo < n /\ lunNo \in {1, 2}) \/ (lunNo = n /\ ~(lunNo < n))
  BY <1>1, <1>3
<1>. QED
  BY <1>2, <1>4

(* A delete function, step by step.                                        *)
LEMMA DeleteStage ==
    ASSUME ArrayOK, sp \in BOOLEAN, HandlerOK, ControlInv, ArrayInv, result = "running",
           DeleteInv, fn \in Deleters, StorageCall
    PROVE  \/ Return(TRUE) /\ Deleted(TRUE)
           \/ Return(FALSE) /\ Deleted(FALSE)
           \/ UNCHANGED <<fn, phase, attempt, result>> /\ DeleteInv'
<1> DEFINE Stage ==
        \/ Return(TRUE) /\ Deleted(TRUE)
        \/ Return(FALSE) /\ Deleted(FALSE)
        \/ UNCHANGED <<fn, phase, attempt, result>> /\ DeleteInv'
<1> SUFFICES Stage
  OBVIOUS
<1>. USE Kinds, OfKind, KindOf, OwnLuns DEF ArrayOK, HandlerOK, ControlInv, ArrayInv,
     DeleteInv, Deleted, Deleters, Running, Then, array, luns, nvme, maps, LUN
<1>1. LunUnmap => Stage
  <2>1. LunUnmap =>
          \/ Return(FALSE)
          \/ /\ at' = "lun_destroy" /\ LunAt \notin mapped' /\ lun' = lun
             /\ UNCHANGED <<fn, lunNo, phase, attempt, result, want>>
    BY LunIs, ZenonT(60) DEF LunUnmap, Fails, Step, Nothing, Unmap, Kept
  <2>2. UNCHANGED <<lunNo, want>> => LunAt' = LunAt
    BY DEF LunAt, LunNames
  <2>. QED
    BY <2>1, <2>2
<1>2. LunDestroy => Stage
  <2>1. LunDestroy =>
          \/ Return(FALSE)
          \/ /\ lun' = [lun EXCEPT ![LunAt] = "none"]
             /\ \/ lunNo < Len(LunNames) /\ NextLun
                \/ ~(lunNo < Len(LunNames)) /\ Then(AfterLuns)
    BY DEF LunDestroy, Fails, SetLun, Refused, LunDone
  <2>2. \/ lunNo < Len(LunNames) /\ lunNo \in {1, 2}
        \/ lunNo = Len(LunNames) /\ ~(lunNo < Len(LunNames))
    BY LunsLeft
  <2>3. lunNo = Len(LunNames) /\ lun' = [lun EXCEPT ![LunAt] = "none"] =>
          \A l \in LUN : lun'[l] = "none"
    BY OwnLuns
  <2>4. CASE lunNo = Len(LunNames) /\ LunDestroy
    <3>1. AfterLuns \notin {"lun_unmap", "lun_destroy", "volume_destroy"}
      BY DEF AfterLuns
    <3>2. AfterLuns = "igroup_destroy" \/ fn = "DeleteBootLUNs"
      BY DEF AfterLuns, Remapped
    <3>3. \/ Return(FALSE)
          \/ (\A l \in LUN : lun'[l] = "none") /\ Then(AfterLuns)
      <4>1. ~(lunNo < Len(LunNames))
        <5>1. PICK n \in {1, 3} : n = Len(LunNames)
          BY OwnLuns
        <5>2. lunNo = n
          BY <5>1, <2>4
        <5>. QED
          BY <5>1, <5>2
      <4>. QED
        BY <2>1, <2>3, <2>4, <4>1
    <3>4. CASE (\A l \in LUN : lun'[l] = "none") /\ Then(AfterLuns)
      BY <3>1, <3>2, <3>4
    <3>. QED
      BY <3>3, <3>4
  <2>5. CASE lunNo < Len(LunNames) /\ LunDestroy
    <3>1. lunNo = 1 => lun["boot"] = "none" \/ LunAt = "boot"
      BY OwnLuns
    <3>2. lunNo = 2 /\ lun' = [lun EXCEPT ![LunAt] = "none"] =>
             lun'["data"] = "none" /\ lun'["bootstrap"] = "none"
      BY OwnLuns
    <3>3. lun' = [lun EXCEPT ![LunAt] = "none"] =>
             \A l \in LUN : lun[l] = "none" => lun'[l] = "none"
      OBVIOUS
    <3>4. lunNo = 1 /\ lun' = [lun EXCEPT ![LunAt] = "none"] => lun'["boot"] = "none"
      BY <3>1
    <3>5. Return(FALSE) \/ (lun' = [lun EXCEPT ![LunAt] = "none"] /\ NextLun)
      BY <2>1, <2>5
    <3>6. lun' = [lun EXCEPT ![LunAt] = "none"] =>
             /\ lun'["boot"] = "none"
             /\ lunNo = 2 => lun'["data"] = "none" /\ lun'["bootstrap"] = "none"
      BY <3>2, <3>3, <3>4
    <3>7. CASE lun' = [lun EXCEPT ![LunAt] = "none"] /\ NextLun
      <4>1. lunNo' \in {2, 3} /\ (lunNo' = 3 => lunNo = 2) /\ at' = "lun_unmap"
        BY <3>7, <2>5, <2>2 DEF NextLun
      <4>2. DeleteInv'
        BY <3>6, <3>7, <4>1
      <4>. QED
        BY <3>7, <4>2 DEF NextLun
    <3>. QED
      BY <3>5, <3>7
  <2>. QED
    BY <2>2, <2>4, <2>5
<1>3. IgroupDestroy => Stage
  BY ZenonT(60) DEF IgroupDestroy, Do, Fails, Step, DoLast, SetIgroup
<1>4. VolumeDestroy => Stage
  BY ZenonT(60) DEF VolumeDestroy, DoLast, Fails, Step, VolumeDestroyed
<1>5. NvmeSkip => Stage
  BY ZenonT(60) DEF NvmeSkip, NvmeApplies, Step
<1>6. NvmeNamespaceUnmap => Stage
  BY DEF NvmeNamespaceUnmap, DoAndIgnore, Step, NvmeApplies, Nothing, Serve
<1>7. NvmeNamespaceDestroy => Stage
  BY DEF NvmeNamespaceDestroy, Do, Fails, Step, Refused, SetNamespace
<1>8. NvmeSubsystemDestroy => Stage
  <2>1. NvmeSubsystemDestroy /\ fn = "DeleteBootStorage" =>
          Return(FALSE) \/ (Then("volume_destroy") /\ SetSubsystem("none"))
    BY DEF NvmeSubsystemDestroy, Do, Fails, Refused
  <2>2. NvmeSubsystemDestroy /\ fn = "DeleteBootLUNs" =>
          Return(FALSE) \/ (Return(TRUE) /\ SetSubsystem("none"))
    BY DEF NvmeSubsystemDestroy, DoLast, Fails, Refused
  <2>3. NvmeSubsystemDestroy => fn \in {"DeleteBootStorage", "DeleteBootLUNs"}
    BY DEF NvmeSubsystemDestroy, Makes, Nvme
  <2>4. NvmeSubsystemDestroy => at = "subsystem_destroy"
    BY DEF NvmeSubsystemDestroy
  <2>. QED
    BY <2>1, <2>2, <2>3, <2>4 DEF SetSubsystem
<1>9. FileDelete => Stage
  BY DEF FileDelete, Do, Fails, Step, Nothing, SetFile, FileDeleteNext
<1>. QED
  BY <1>1, <1>2, <1>3, <1>4, <1>5, <1>6, <1>7, <1>8, <1>9, Guards DEF StorageCall, Makes,
     Request, Creators

LEMMA RemapLuns ==
    ASSUME HandlerOK, ControlInv, Remapped
    PROVE  /\ (lunNo < Len(LunNames)) <=> lunNo # 3
           /\ LunAt = IF lunNo = 1 THEN "boot" ELSE IF lunNo = 2 THEN "bootstrap" ELSE "seed"
<1>1. want.kind = "harvester" /\ want \in Configs /\ lunNo \in {1, 2, 3}
  BY KindOf DEF HandlerOK, Remapped
<1>2. PICK n \in {1, 3} : n = Len(LunNames)
  BY <1>1, OwnLuns
<1>3. n = 3
  BY <1>1, <1>2, OwnLuns
<1>4. (lunNo < n) <=> lunNo # 3
  BY <1>1, <1>3
<1>. QED
  BY <1>1, <1>2, <1>4, OwnLuns

(* The remap of a harvester node, step by step.                            *)
LEMMA RemapStage ==
    ASSUME ArrayOK, sp \in BOOLEAN, HandlerOK, ControlInv, ArrayInv, result = "running",
           RemapInv, Remapped, StorageCall
    PROVE  \/ Return(TRUE) /\ RemapDone(TRUE)
           \/ Return(FALSE) /\ RemapDone(FALSE)
           \/ UNCHANGED <<fn, phase, attempt, result>> /\ RemapInv'
<1> DEFINE Stage ==
        \/ Return(TRUE) /\ RemapDone(TRUE)
        \/ Return(FALSE) /\ RemapDone(FALSE)
        \/ UNCHANGED <<fn, phase, attempt, result>> /\ RemapInv'
<1> SUFFICES Stage
  OBVIOUS
<1>a. want.kind = "harvester" /\ want \in Configs /\ lunNo \in {1, 2, 3}
  BY KindOf DEF HandlerOK, Remapped
<1>b. /\ (lunNo < Len(LunNames)) <=> lunNo # 3
      /\ LunAt = IF lunNo = 1 THEN "boot" ELSE IF lunNo = 2 THEN "bootstrap" ELSE "seed"
  BY RemapLuns
<1>c. at \in {"lun_unmap", "lun_destroy", "boot_remap"} /\ at \in Request
  BY DEF HandlerOK, ControlInv, Remapped, Makes, Request, Creators, Deleters, Nvme, NvmeRequests
<1>. USE <1>a, <1>b, <1>c DEF ArrayOK, ArrayInv, RemapInv, RemapDone, Remapped, Running,
     Then, array, luns, nvme, maps, LUN
<1>1. LunUnmap => Stage
  <2>1. LunUnmap =>
          \/ Return(FALSE)
          \/ /\ IF Kept(LunAt) THEN LunDone ELSE Then("lun_destroy")
             /\ Unmap(LunAt) \/ (Nothing /\ lun[LunAt] = "none")
             /\ UNCHANGED <<sp, want, op>>
    BY DEF LunUnmap, Fails, Step
  <2>2. Unmap(LunAt) \/ (Nothing /\ lun[LunAt] = "none") =>
          /\ LunAt \notin mapped' /\ ("boot" \notin mapped => "boot" \notin mapped')
          /\ UNCHANGED <<lun, volume, igroup>>
    BY DEF Nothing, Unmap
  <2>3. UNCHANGED <<lunNo, want>> => LunAt' = LunAt
    BY DEF LunAt, LunNames
  <2>4. Kept(LunAt) <=> lunNo = 1
    BY DEF Kept
  <2>5. lunNo = 1 /\ LunDone => NextLun
    BY DEF LunDone
  <2>6. CASE Return(FALSE)
    BY <2>6
  <2>7. CASE LunUnmap /\ ~Return(FALSE) /\ lunNo = 1
    <3>1. NextLun /\ "boot" \notin mapped' /\ UNCHANGED <<lun, volume, igroup, sp, want, op>>
      BY <2>1, <2>2, <2>4, <2>5, <2>7
    <3>2. volume' /\ igroup' # "none" /\ lun'["boot"] # "none" /\ (op' = "create" => sp')
      BY <3>1
    <3>3. op' = "reimage" => lun'["boot"] = "new"
      BY <3>1
    <3>4. lunNo' = 2 /\ at' = "lun_unmap" /\ UNCHANGED <<fn, phase, attempt, result>>
      BY <2>7, <3>1 DEF NextLun
    <3>5. RemapInv'
      BY <3>1, <3>2, <3>3, <3>4
    <3>. QED
      BY <3>4, <3>5
  <2>8. CASE LunUnmap /\ ~Return(FALSE) /\ lunNo # 1
    <3>1. /\ Then("lun_destroy") /\ LunAt \notin mapped' /\ UNCHANGED <<lun, volume, igroup, sp, want, op>>
          /\ "boot" \notin mapped => "boot" \notin mapped'
      BY <2>1, <2>2, <2>4, <2>8
    <3>2. volume' /\ igroup' # "none" /\ lun'["boot"] # "none" /\ (op' = "create" => sp')
      BY <3>1
    <3>3. op' = "reimage" => lun'["boot"] = "new"
      BY <3>1
    <3>4. lunNo' = lunNo /\ lunNo' > 1 /\ at' = "lun_destroy" /\ UNCHANGED <<fn, phase, attempt, result>>
      BY <2>8, <3>1
    <3>5. RemapInv'
      BY <2>3, <3>1, <3>2, <3>3, <3>4
    <3>. QED
      BY <3>4, <3>5
  <2>. QED
    BY <2>6, <2>7, <2>8
<1>2. LunDestroy => Stage
  <2>1. LunDestroy =>
          \/ Return(FALSE)
          \/ lun' = [lun EXCEPT ![LunAt] = "none"] /\ LunDone
             /\ UNCHANGED <<mapped, volume, igroup, sp, want, op>>
    BY DEF LunDestroy, Fails, Step, SetLun, Refused
  <2>2. LunDone => IF lunNo # 3 THEN NextLun ELSE Then("boot_remap")
    BY DEF LunDone, AfterLuns
  <2>3. LunDestroy => lunNo \in {2, 3} /\ "boot" \notin mapped
    BY DEF LunDestroy
  <2>4. CASE Return(FALSE)
    BY <2>4
  <2>5. CASE LunDestroy /\ ~Return(FALSE) /\ lunNo = 2
    <3>1. /\ lun' = [lun EXCEPT !["bootstrap"] = "none"] /\ NextLun
          /\ UNCHANGED <<mapped, volume, igroup, sp, want, op>>
      <4>1. LunAt = "bootstrap"
        BY <2>5
      <4>. QED
        <5>1. /\ lun' = [lun EXCEPT ![LunAt] = "none"] /\ LunDone
              /\ UNCHANGED <<mapped, volume, igroup, sp, want, op>>
          BY <2>1, <2>5
        <5>2. NextLun
          BY <2>2, <2>5, <5>1
        <5>. QED
          BY <4>1, <5>1, <5>2
    <3>2. volume' /\ igroup' # "none" /\ lun'["boot"] # "none" /\ (op' = "create" => sp')
      BY <3>1
    <3>3. op' = "reimage" => lun'["boot"] = "new"
      BY <3>1
    <3>4. lunNo' = 3 /\ at' = "lun_unmap" /\ UNCHANGED <<fn, phase, attempt, result>>
      BY <2>5, <3>1 DEF NextLun
    <3>5. lun'["bootstrap"] = "none" /\ "boot" \notin mapped'
      BY <2>3, <2>5, <3>1
    <3>6. RemapInv'
      BY <3>1, <3>2, <3>3, <3>4, <3>5
    <3>. QED
      BY <3>4, <3>6
  <2>6. CASE LunDestroy /\ ~Return(FALSE) /\ lunNo = 3
    <3>1. /\ lun' = [lun EXCEPT !["seed"] = "none"] /\ Then("boot_remap")
          /\ UNCHANGED <<mapped, volume, igroup, sp, want, op>>
      <4>1. LunAt = "seed"
        BY <2>6
      <4>. QED
        BY <2>1, <2>2, <2>6, <4>1
    <3>2. volume' /\ igroup' # "none" /\ lun'["boot"] # "none" /\ (op' = "create" => sp')
      BY <3>1
    <3>3. op' = "reimage" => lun'["boot"] = "new"
      BY <3>1
    <3>4. lunNo' = 3 /\ at' = "boot_remap" /\ UNCHANGED <<fn, phase, attempt, result>>
      BY <2>6, <3>1
    <3>5. RemapInv'
      BY <2>3, <2>6, <3>1, <3>2, <3>3, <3>4
    <3>. QED
      BY <3>4, <3>5
  <2>. QED
    BY <2>3, <2>4, <2>5, <2>6
<1>3. BootRemap => Stage
  <2>1. BootRemap =>
          \/ Return(FALSE)
          \/ /\ Return(TRUE) /\ "boot" \notin mapped /\ UNCHANGED <<volume, igroup, lun, sp>>
             /\ mapped' = mapped \cup {"boot"} /\ first' = "boot"
    BY DEF BootRemap, DoLast, Fails, Refused, Map, CanMap
  <2>2. BootRemap => \A l \in LUN : l # "boot" => lun[l] = "none"
    BY DEF BootRemap
  <2>3. BootRemap /\ "boot" \notin mapped => mapped = {}
    BY <2>2
  <2>. QED
    BY <2>1, <2>2, <2>3
<1>. QED
  BY <1>1, <1>2, <1>3, Guards DEF StorageCall

(* A re-image of a server leaves the volume and the igroup alone.          *)
LEMMA KeepsVolume ==
    ASSUME HandlerOK, ControlInv, ReimageInv, want.kind = "server", op = "reimage",
           result = "running", StorageCall
    PROVE  volume' = volume /\ igroup' = igroup
<1>1. fn \in {"DeleteBootLUNs", "CreateBootStorage", "CreateNvmeStorage", "CreateSeedStorage"}
  BY DEF ControlInv, ReimageCalls, Remapped
<1>. USE <1>1, Guards, KindOf DEF HandlerOK, ControlInv, ReimageInv, Makes, Creators,
     Deleters, array, luns, nvme, maps, Step
<1>2. VolumeCreate => volume' = volume /\ igroup' = igroup
  BY DEF VolumeCreate, Do, Fails, Nothing, SetVolume
<1>3. IgroupCreate => volume' = volume /\ igroup' = igroup
  BY DEF IgroupCreate, Do, Fails, DoAndIgnore, Nothing, SetIgroup
<1>4. IgroupAddInitiator => volume' = volume /\ igroup' = igroup
  BY DEF IgroupAddInitiator, DoAndIgnore, Nothing, SetIgroup
<1>5. LunCopy => volume' = volume /\ igroup' = igroup
  BY DEF LunCopy, Do, Fails, Nothing, SetLun
<1>6. LunResize => volume' = volume /\ igroup' = igroup
  BY DEF LunResize, Do, Fails, SetLun
<1>7. ImageMap => volume' = volume /\ igroup' = igroup
  BY DEF ImageMap, Do, Fails, Refused, Nothing, LunMap, Map
<1>8. BootCreate => volume' = volume /\ igroup' = igroup
  BY DEF BootCreate, Do, Fails, Nothing, SetLun
<1>9. BootUpload => volume' = volume /\ igroup' = igroup
  BY DEF BootUpload, Do, Fails, Nothing, SetLun
<1>10. BootMap => volume' = volume /\ igroup' = igroup
  BY DEF BootMap, Do, Fails, DoLast, Refused, Nothing, LunMap, Map
<1>11. BootRemap => volume' = volume /\ igroup' = igroup
  BY DEF BootRemap, DoLast, Fails, Refused, Map
<1>12. DataCreate => volume' = volume /\ igroup' = igroup
  BY DEF DataCreate, Do, Fails, Nothing, SetLun
<1>13. DataMap => volume' = volume /\ igroup' = igroup
  BY DEF DataMap, Do, Fails, Refused, Nothing, LunMap, Map
<1>14. Discover => volume' = volume /\ igroup' = igroup
  BY DEF Discover, Do, Fails, DoLast, Nothing
<1>15. NvmeSkip => volume' = volume /\ igroup' = igroup
  BY DEF NvmeSkip, NvmeApplies
<1>16. NvmeNamespaceUnmap => volume' = volume /\ igroup' = igroup
  BY DEF NvmeNamespaceUnmap, DoAndIgnore, NvmeApplies, Nothing, Serve
<1>17. NvmeNamespaceDestroy => volume' = volume /\ igroup' = igroup
  BY DEF NvmeNamespaceDestroy, Do, Fails, Refused, SetNamespace
<1>18. NvmeNamespaceCreate => volume' = volume /\ igroup' = igroup
  BY DEF NvmeNamespaceCreate, DoAndIgnore, SetNamespace
<1>19. NvmeSubsystemDestroy => volume' = volume /\ igroup' = igroup
  BY DEF NvmeSubsystemDestroy, Do, Fails, DoLast, Refused, SetSubsystem
<1>20. NvmeSubsystemCreate => volume' = volume /\ igroup' = igroup
  BY DEF NvmeSubsystemCreate, DoAndIgnore, SetSubsystem
<1>21. NvmeSubsystemAddHost => volume' = volume /\ igroup' = igroup
  BY DEF NvmeSubsystemAddHost, DoAndIgnore, Refused, Nothing, SetSubsystem
<1>22. NvmeNamespaceMap => volume' = volume /\ igroup' = igroup
  BY DEF NvmeNamespaceMap, DoAndIgnore, Nothing, Serve
<1>23. NvmeDiscover => volume' = volume /\ igroup' = igroup
  BY DEF NvmeDiscover, DoLast, Fails, Refused, Nothing
<1>24. SeedUnmap => volume' = volume /\ igroup' = igroup
  BY DEF SeedUnmap, DoAndIgnore, Unmap
<1>25. SeedDestroy => volume' = volume /\ igroup' = igroup
  BY DEF SeedDestroy, Do, Fails, Refused, SetLun
<1>26. FileDelete => volume' = volume /\ igroup' = igroup
  BY DEF FileDelete, Do, Fails, Nothing, SetFile
<1>27. FileUpload => volume' = volume /\ igroup' = igroup
  BY DEF FileUpload, Do, Fails, Refused, SetFile
<1>28. SeedCreate => volume' = volume /\ igroup' = igroup
  BY DEF SeedCreate, Do, Fails, SetLun
<1>29. SeedWrite => volume' = volume /\ igroup' = igroup
  BY DEF SeedWrite, Do, Fails, SetLun
<1>30. SeedMap => volume' = volume /\ igroup' = igroup
  BY DEF SeedMap, DoLast, Fails, Refused, Map
<1>31. LunUnmap => volume' = volume /\ igroup' = igroup
  BY DEF LunUnmap, Fails, Nothing, Unmap
<1>32. LunDestroy => volume' = volume /\ igroup' = igroup
  BY DEF LunDestroy, Fails, Refused, SetLun
<1>33. IgroupDestroy => volume' = volume /\ igroup' = igroup
  BY DEF IgroupDestroy, Do, Fails, DoLast, SetIgroup
<1>34. VolumeDestroy => volume' = volume /\ igroup' = igroup
  BY DEF VolumeDestroy, DoLast, Fails, VolumeDestroyed
<1>35. CreateServer => volume' = volume /\ igroup' = igroup
  BY DEF CreateServer
<1>36. DeleteServer => volume' = volume /\ igroup' = igroup
  BY DEF DeleteServer
<1>. QED
  BY <1>2, <1>3, <1>4, <1>5, <1>6, <1>7, <1>8, <1>9, <1>10, <1>11, <1>12, <1>13, <1>14,
     <1>15, <1>16, <1>17, <1>18, <1>19, <1>20, <1>21, <1>22, <1>23, <1>24, <1>25, <1>26,
     <1>27, <1>28, <1>29, <1>30, <1>31, <1>32, <1>33, <1>34, <1>35, <1>36 DEF StorageCall

(* A create function, whatever it finds, step by step.                     *)
LEMMA CreateStage ==
    ASSUME ArrayOK, sp \in BOOLEAN, HandlerOK, ControlInv, ArrayInv, result = "running",
           CreateInv, fn \in Creators, StorageCall
    PROVE  \/ Return(TRUE) /\ Created(TRUE)
           \/ Return(FALSE) /\ Created(FALSE)
           \/ UNCHANGED <<fn, phase, attempt, result>> /\ CreateInv'
<1> DEFINE Stage ==
        \/ Return(TRUE) /\ Created(TRUE)
        \/ Return(FALSE) /\ Created(FALSE)
        \/ UNCHANGED <<fn, phase, attempt, result>> /\ CreateInv'
<1> SUFFICES Stage
  OBVIOUS
<1>a. /\ want.kind = IF fn = "CreateBootStorage" THEN "server"
                     ELSE IF fn = "CreateHarvesterStorage" THEN "harvester" ELSE "esx"
      /\ want.data \in BOOLEAN /\ (fn # "CreateBootStorage" => ~want.data)
  BY Kinds, KindOf DEF HandlerOK, Creators
<1>b. /\ at \in { "volume_create", "igroup_create", "igroup_initiators", "discover" }
                \cup (IF fn = "CreateEsxStorage" THEN {"boot_create", "boot_map", "boot_upload"}
                      ELSE {"image_copy", "image_resize", "image_map"})
                \cup (IF fn = "CreateBootStorage" THEN {"data_create", "data_map"}
                      ELSE {"boot_create", "boot_map"})
  BY DEF HandlerOK, ControlInv, Makes, Request, Creators, Deleters, Nvme, NvmeRequests
<1>. USE <1>a DEF ArrayOK, CreateInv, Created, Creators, Finishers, Running, Then, array,
     luns, nvme, maps, LUN
<1>1. VolumeCreate => Stage
  BY DEF VolumeCreate, Do, Fails, Step, Nothing, SetVolume
<1>2. IgroupCreate => Stage
  <2>1. IgroupCreate =>
          \/ Return(FALSE)
          \/ /\ at' \in {"boot_map", "image_copy", "igroup_initiators"} /\ UNCHANGED <<fn, phase, attempt, result, want>>
             /\ volume'
             /\ fn = "CreateEsxStorage" => (at' # "image_copy" /\ (Uploaded => lun'["boot"] = "new"))
             /\ fn # "CreateEsxStorage" => at' \notin {"boot_map"}
    BY DEF IgroupCreate, DoAndIgnore, Do, Fails, Step, Nothing, SetIgroup, AfterIgroup,
       ImageLun
  <2>2. CASE /\ at' \in {"boot_map", "image_copy", "igroup_initiators"} /\ UNCHANGED <<fn, phase, attempt, result, want>>
             /\ volume'
             /\ fn = "CreateEsxStorage" => (at' # "image_copy" /\ (Uploaded => lun'["boot"] = "new"))
             /\ fn # "CreateEsxStorage" => at' \notin {"boot_map"}
    BY <2>2 DEF Uploaded, ImageLun
  <2>. QED
    BY <2>1, <2>2
<1>3. IgroupAddInitiator => Stage
  <2>1. IgroupAddInitiator =>
          \/ Return(FALSE)
          \/ /\ at' \in {"boot_map", "image_copy"} /\ UNCHANGED <<fn, phase, attempt, result, want>>
             /\ volume'
             /\ fn = "CreateEsxStorage" => (at' # "image_copy" /\ (Uploaded => lun'["boot"] = "new"))
             /\ fn # "CreateEsxStorage" => at' \notin {"boot_map"}
    <3>1. IgroupAddInitiator => Then(AfterIgroup) /\ want' = want /\ volume' = volume /\ lun' = lun
      BY DEF IgroupAddInitiator, DoAndIgnore, Step, Nothing, SetIgroup
    <3>2. IgroupAddInitiator => at = "igroup_initiators"
      BY Guards
    <3>. QED
      BY <3>1, <3>2 DEF AfterIgroup
  <2>2. CASE /\ at' \in {"boot_map", "image_copy"} /\ UNCHANGED <<fn, phase, attempt, result, want>>
             /\ volume'
             /\ fn = "CreateEsxStorage" => (at' # "image_copy" /\ (Uploaded => lun'["boot"] = "new"))
             /\ fn # "CreateEsxStorage" => at' \notin {"boot_map"}
    BY <2>2 DEF Uploaded, ImageLun
  <2>. QED
    BY <2>1, <2>2
<1>4. LunCopy => Stage
  BY DEF LunCopy, Do, Fails, Step, Nothing, SetLun, ImageLun
<1>5. LunResize => Stage
  <2>1. LunResize =>
          \/ Return(FALSE)
          \/ /\ at' \in {"image_map"} /\ UNCHANGED <<fn, phase, attempt, result, want>>
             /\ volume'
    <3>1. LunResize => Return(FALSE) \/ (Then("image_map") /\ want' = want /\ volume' = volume)
      BY DEF LunResize, Do, Fails, Step, SetLun
    <3>2. LunResize => volume
      BY Guards
    <3>. QED
      BY <3>1, <3>2
  <2>2. CASE /\ at' \in {"image_map"} /\ UNCHANGED <<fn, phase, attempt, result, want>>
             /\ volume'
    BY <2>2 DEF Uploaded, ImageLun
  <2>. QED
    BY <2>1, <2>2
<1>6. ImageMap => Stage
  BY DEF ImageMap, Do, Fails, Step, Refused, Nothing, LunMap, Map, CanMap, Id, ImageLun,
     maps
<1>7. BootCreate => Stage
  <2>1. BootCreate =>
          \/ Return(FALSE)
          \/ /\ at' \in {"boot_map", "discover"} /\ UNCHANGED <<fn, phase, attempt, result, want>>
             /\ volume'
             /\ (fn = "CreateEsxStorage") <=> (at' = "discover")
             /\ fn # "CreateEsxStorage" => (fn = "CreateHarvesterStorage" /\ "bootstrap" \in mapped')
    BY <1>b DEF BootCreate, Do, Fails, Step, SetLun, Nothing, ImageLun
  <2>2. CASE /\ at' \in {"boot_map", "discover"} /\ UNCHANGED <<fn, phase, attempt, result, want>>
             /\ volume'
             /\ (fn = "CreateEsxStorage") <=> (at' = "discover")
             /\ fn # "CreateEsxStorage" => (fn = "CreateHarvesterStorage" /\ "bootstrap" \in mapped')
    BY <2>2 DEF Uploaded, ImageLun
  <2>. QED
    BY <2>1, <2>2
<1>8. BootUpload => Stage
  <2>1. BootUpload =>
          \/ Return(FALSE)
          \/ /\ at' \in {"igroup_create"} /\ UNCHANGED <<fn, phase, attempt, result, want>>
             /\ volume'
             /\ fn = "CreateEsxStorage" /\ (Uploaded => lun'["boot"] = "new")
    BY <1>b DEF BootUpload, Do, Fails, Step, SetLun, Nothing, Uploaded, ImageLun
  <2>2. CASE /\ at' \in {"igroup_create"} /\ UNCHANGED <<fn, phase, attempt, result, want>>
             /\ volume'
             /\ fn = "CreateEsxStorage" /\ (Uploaded => lun'["boot"] = "new")
    BY <2>2 DEF Uploaded, ImageLun
  <2>. QED
    BY <2>1, <2>2
<1>9. BootMap => Stage
  BY <1>b DEF BootMap, Do, Fails, Step, DoLast, Refused, Nothing, LunMap, Map, CanMap, Id,
     Wanted, Remapped, ImageLun
<1>10. DataCreate => Stage
  <2>1. DataCreate =>
          \/ Return(FALSE)
          \/ /\ at' \in {"data_map"} /\ UNCHANGED <<fn, phase, attempt, result, want>>
             /\ volume'
             /\ fn = "CreateBootStorage" /\ "boot" \in mapped'
    BY <1>b DEF DataCreate, Do, Fails, Step, SetLun, Nothing, ImageLun
  <2>2. CASE /\ at' \in {"data_map"} /\ UNCHANGED <<fn, phase, attempt, result, want>>
             /\ volume'
             /\ fn = "CreateBootStorage" /\ "boot" \in mapped'
    BY <2>2 DEF Uploaded, ImageLun
  <2>. QED
    BY <2>1, <2>2
<1>11. DataMap => Stage
  <2>1. DataMap =>
          \/ Return(FALSE)
          \/ /\ at' \in {"discover"} /\ UNCHANGED <<fn, phase, attempt, result, want>>
             /\ volume'
             /\ fn = "CreateBootStorage" /\ "boot" \in mapped' /\ "data" \in mapped'
    BY <1>b DEF DataMap, Do, Fails, Step, LunMap, Map, CanMap, Id, Refused, Nothing,
       ImageLun
  <2>2. CASE /\ at' \in {"discover"} /\ UNCHANGED <<fn, phase, attempt, result, want>>
             /\ volume'
             /\ fn = "CreateBootStorage" /\ "boot" \in mapped' /\ "data" \in mapped'
    BY <2>2 DEF Uploaded, ImageLun
  <2>. QED
    BY <2>1, <2>2
<1>12. Discover => Stage
  BY DEF Discover, Do, Fails, Step, DoLast, Nothing, Wanted, Remapped, ImageLun
<1>. QED
  BY <1>1, <1>2, <1>3, <1>4, <1>5, <1>6, <1>7, <1>8, <1>9, <1>10, <1>11, <1>12, Guards, <1>b DEF
     StorageCall

(* The requests of the functions that follow the boot storage.              *)
LEMMA FinishAt ==
    ASSUME HandlerOK, ControlInv, fn \in Finishers
    PROVE  /\ at \in { "server_create", "namespace_unmap", "namespace_destroy", "namespace_create",
                       "subsystem_destroy", "subsystem_create", "subsystem_host", "namespace_map",
                       "nvme_discover", "seed_unmap", "seed_destroy", "file_delete", "file_upload",
                       "seed_create", "seed_write", "seed_map" }
           /\ (at = "server_create") <=> (fn = "CreateServer")
           /\ (at \in { "seed_unmap", "seed_destroy", "file_delete", "file_upload", "seed_create",
                       "seed_write", "seed_map" }) <=> (fn = "CreateSeedStorage")
           /\ fn # DeleteStorage
BY OfKind DEF HandlerOK, ControlInv, Makes, Request, Creators, Deleters, Nvme, NvmeRequests, Finishers

(* They leave the other LUNs alone.                                        *)
LEMMA FinishKeeps ==
    ASSUME ArrayOK, sp \in BOOLEAN, HandlerOK, ControlInv, ArrayInv, result = "running",
           fn \in Finishers, StorageCall
    PROVE  /\ UNCHANGED <<volume, igroup>>
           /\ \A l \in LUN \ {"seed"} : lun'[l] = lun[l] /\ (l \in mapped' <=> l \in mapped)
           /\ sp' \in {sp, TRUE}
<1> DEFINE Goal ==
        /\ UNCHANGED <<volume, igroup>>
        /\ \A l \in LUN \ {"seed"} : lun'[l] = lun[l] /\ (l \in mapped' <=> l \in mapped)
        /\ sp' \in {sp, TRUE}
<1> SUFFICES Goal
  OBVIOUS
<1>a. fn \notin {"DeleteBootStorage"}
  BY DEF Finishers
<1>. USE DEF ArrayOK, array, luns, nvme, maps, LUN
<1>1. CreateServer => Goal
  BY DEF CreateServer, Step
<1>2. NvmeSkip => Goal
  BY DEF NvmeSkip, Step
<1>3. NvmeNamespaceUnmap => Goal
  BY DEF NvmeNamespaceUnmap, DoAndIgnore, Step, Nothing, Serve
<1>4. NvmeNamespaceDestroy => Goal
  BY DEF NvmeNamespaceDestroy, Do, Fails, Step, Refused, SetNamespace
<1>5. NvmeNamespaceCreate => Goal
  BY DEF NvmeNamespaceCreate, DoAndIgnore, Step, SetNamespace
<1>6. NvmeSubsystemDestroy => Goal
  BY DEF NvmeSubsystemDestroy, Do, Fails, Step, DoLast, Refused, SetSubsystem
<1>7. NvmeSubsystemCreate => Goal
  BY DEF NvmeSubsystemCreate, DoAndIgnore, Step, SetSubsystem
<1>8. NvmeSubsystemAddHost => Goal
  BY DEF NvmeSubsystemAddHost, DoAndIgnore, Step, Refused, Nothing, SetSubsystem
<1>9. NvmeNamespaceMap => Goal
  BY DEF NvmeNamespaceMap, DoAndIgnore, Step, Nothing, Serve
<1>10. NvmeDiscover => Goal
  BY DEF NvmeDiscover, DoLast, Fails, Refused, Nothing, Step
<1>11. SeedUnmap => Goal
  BY DEF SeedUnmap, DoAndIgnore, Step, Unmap
<1>12. SeedDestroy => Goal
  BY DEF SeedDestroy, Do, Fails, Step, Refused, SetLun
<1>13. FileDelete => Goal
  BY DEF FileDelete, Do, Fails, Step, Nothing, SetFile
<1>14. FileUpload => Goal
  BY DEF FileUpload, Do, Fails, Step, Refused, SetFile
<1>15. SeedCreate => Goal
  BY DEF SeedCreate, Do, Fails, Step, SetLun
<1>16. SeedWrite => Goal
  BY DEF SeedWrite, Do, Fails, Step, SetLun
<1>17. SeedMap => Goal
  BY DEF SeedMap, DoLast, Fails, Step, Refused, Map
<1> HIDE DEF Goal
<1>. QED
  BY <1>1, <1>2, <1>3, <1>4, <1>5, <1>6, <1>7, <1>8, <1>9, <1>10, <1>11, <1>12, <1>13,
     <1>14, <1>15, <1>16, <1>17, Guards, FinishAt DEF StorageCall

(* Step by step.                                                          *)
LEMMA FinishSteps ==
    ASSUME ArrayOK, sp \in BOOLEAN, HandlerOK, ControlInv, ArrayInv, result = "running",
           CreateInv, fn \in Finishers, StorageCall
    PROVE  \/ Return(FALSE)
           \/ /\ Return(TRUE)
              /\ fn = "CreateServer" => sp'
              /\ fn = "CreateSeedStorage" => "seed" \in mapped' /\ lun'["seed"] = "new"
           \/ /\ UNCHANGED <<fn, phase, attempt, result>> /\ fn # "CreateServer"
              /\ at' = "seed_map" => lun'["seed"] = "new"
<1> DEFINE Goal ==
        \/ Return(FALSE)
        \/ /\ Return(TRUE)
           /\ fn = "CreateServer" => sp'
           /\ fn = "CreateSeedStorage" => "seed" \in mapped' /\ lun'["seed"] = "new"
        \/ /\ UNCHANGED <<fn, phase, attempt, result>> /\ fn # "CreateServer"
           /\ at' = "seed_map" => lun'["seed"] = "new"
<1> SUFFICES Goal
  OBVIOUS
<1>a. /\ (at = "server_create") <=> (fn = "CreateServer")
      /\ at \in {"file_delete", "seed_write", "seed_map"} => fn = "CreateSeedStorage"
      /\ at \in {"namespace_unmap", "subsystem_destroy", "nvme_discover"} => fn # "CreateSeedStorage"
      /\ fn # DeleteStorage /\ fn # "DeleteBootStorage" /\ fn # "DeleteBootLUNs"
  BY FinishAt DEF Finishers
<1>. USE <1>a DEF ArrayOK, Then, array, luns, nvme, maps, LUN
<1>1. CreateServer => Goal
  BY DEF CreateServer, Step
<1>2. NvmeSkip => Goal
  BY DEF NvmeSkip, Step
<1>3. NvmeNamespaceUnmap => Goal
  BY DEF NvmeNamespaceUnmap, DoAndIgnore, Step, Nothing, Serve
<1>4. NvmeNamespaceDestroy => Goal
  BY DEF NvmeNamespaceDestroy, Do, Fails, Step, Refused, SetNamespace
<1>5. NvmeNamespaceCreate => Goal
  BY DEF NvmeNamespaceCreate, DoAndIgnore, Step, SetNamespace
<1>6. NvmeSubsystemDestroy => Goal
  <2>1. CASE fn = "CreateNvmeStorage"
    <3>1. NvmeSubsystemDestroy => Return(FALSE) \/ Then("subsystem_create")
      BY <2>1 DEF NvmeSubsystemDestroy, Do, Fails, Refused
    <3>. QED
      BY <2>1, <3>1
  <2>2. CASE fn # "CreateNvmeStorage"
    BY <2>2 DEF NvmeSubsystemDestroy, DoLast, Fails, Refused
  <2>. QED
    BY <2>1, <2>2
<1>7. NvmeSubsystemCreate => Goal
  BY DEF NvmeSubsystemCreate, DoAndIgnore, Step, SetSubsystem
<1>8. NvmeSubsystemAddHost => Goal
  BY DEF NvmeSubsystemAddHost, DoAndIgnore, Step, Refused, Nothing, SetSubsystem
<1>9. NvmeNamespaceMap => Goal
  BY DEF NvmeNamespaceMap, DoAndIgnore, Step, Nothing, Serve
<1>10. NvmeDiscover => Goal
  BY DEF NvmeDiscover, DoLast, Fails, Refused, Nothing, Step
<1>11. SeedUnmap => Goal
  BY DEF SeedUnmap, DoAndIgnore, Step, Unmap
<1>12. SeedDestroy => Goal
  BY DEF SeedDestroy, Do, Fails, Step, Refused, SetLun
<1>13. FileDelete => Goal
  BY DEF FileDelete, Do, Fails, Step, Nothing, SetFile, FileDeleteNext
<1>14. FileUpload => Goal
  BY DEF FileUpload, Do, Fails, Step, Refused, SetFile
<1>15. SeedCreate => Goal
  BY DEF SeedCreate, Do, Fails, Step, SetLun
<1>16. SeedWrite => Goal
  BY DEF SeedWrite, Do, Fails, Step, SetLun
<1>17. SeedMap => Goal
  BY DEF SeedMap, DoLast, Fails, Step, Refused, Map, CreateInv, Running, Id
<1> HIDE DEF Goal
<1>. QED
  BY <1>1, <1>2, <1>3, <1>4, <1>5, <1>6, <1>7, <1>8, <1>9, <1>10, <1>11, <1>12, <1>13,
     <1>14, <1>15, <1>16, <1>17, Guards, FinishAt DEF StorageCall

LEMMA FinishStage ==
    ASSUME ArrayOK, sp \in BOOLEAN, HandlerOK, ControlInv, ArrayInv, result = "running",
           CreateInv, fn \in Finishers, StorageCall
    PROVE  \/ Return(TRUE) /\ Created(TRUE)
           \/ Return(FALSE) /\ Created(FALSE)
           \/ UNCHANGED <<fn, phase, attempt, result>> /\ CreateInv'
<1>1. UNCHANGED <<want, op>>
  BY Courses
<1>2. /\ volume /\ igroup # "none" /\ (want.kind = "esx" /\ Uploaded => lun["boot"] = "new")
      /\ \A l \in Wanted \ {"seed"} : l \in mapped
      /\ op = "create" /\ fn # "CreateServer" => sp
      /\ fn \notin Creators
  BY DEF CreateInv, Running, Finishers, Creators
<1>3. Wanted \subseteq LUN
  BY Kinds DEF Wanted, LUN, HandlerOK
<1>4. /\ volume' /\ igroup' # "none" /\ (want.kind = "esx" /\ Uploaded => lun'["boot"] = "new")
      /\ \A l \in Wanted \ {"seed"} : l \in mapped'
      /\ op = "create" /\ fn # "CreateServer" => sp'
  BY <1>2, <1>3, FinishKeeps DEF LUN, ArrayOK
<1>5. CASE Return(FALSE)
  BY <1>2, <1>4, <1>5 DEF Created
<1>6. CASE Return(TRUE) /\ (fn = "CreateServer" => sp')
           /\ (fn = "CreateSeedStorage" => "seed" \in mapped' /\ lun'["seed"] = "new")
  BY <1>2, <1>4, <1>6 DEF Created
<1>7. CASE UNCHANGED <<fn, phase, attempt, result>> /\ fn # "CreateServer"
           /\ (at' = "seed_map" => lun'["seed"] = "new")
  <2>1. UNCHANGED Wanted /\ UNCHANGED Uploaded
    BY <1>1, <1>7 DEF Wanted, Uploaded, Remapped
  <2>. QED
    BY <1>1, <1>2, <1>4, <1>7, <2>1 DEF CreateInv, Running
<1>. QED
  BY <1>5, <1>6, <1>7, FinishSteps

(* What they do to the seed LUN.                                           *)
LEMMA SeedEffects ==
    ASSUME HandlerOK, ControlInv, fn \in {"CreateNvmeStorage", "CreateSeedStorage"}, StorageCall
    PROVE  \/ Return(FALSE)
           \/ /\ Return(TRUE) /\ UNCHANGED lun
              /\ mapped' = IF fn = "CreateSeedStorage" THEN mapped \cup {"seed"} ELSE mapped
              /\ fn = "CreateSeedStorage" => at = "seed_map"
           \/ /\ UNCHANGED <<fn, phase, attempt, result>>
              /\ IF at' = "seed_write" THEN at = "seed_create" /\ SetLun("seed", "part")
                 ELSE IF at' = "seed_map" THEN at \in {"seed_create", "seed_write"} /\ SetLun("seed", "new")
                 ELSE IF at = "seed_unmap"
                 THEN lun' = lun /\ mapped' \in {mapped, mapped \ {"seed"}}
                 ELSE IF at = "seed_destroy" THEN SetLun("seed", "none")
                 ELSE at \notin {"seed_create", "seed_write", "seed_map"} /\ UNCHANGED <<lun, mapped>>
<1> DEFINE Goal ==
        \/ Return(FALSE)
        \/ /\ Return(TRUE) /\ UNCHANGED lun
           /\ mapped' = IF fn = "CreateSeedStorage" THEN mapped \cup {"seed"} ELSE mapped
           /\ fn = "CreateSeedStorage" => at = "seed_map"
        \/ /\ UNCHANGED <<fn, phase, attempt, result>>
           /\ IF at' = "seed_write" THEN at = "seed_create" /\ SetLun("seed", "part")
              ELSE IF at' = "seed_map" THEN at \in {"seed_create", "seed_write"} /\ SetLun("seed", "new")
              ELSE IF at = "seed_unmap"
              THEN lun' = lun /\ mapped' \in {mapped, mapped \ {"seed"}}
              ELSE IF at = "seed_destroy" THEN SetLun("seed", "none")
              ELSE at \notin {"seed_create", "seed_write", "seed_map"} /\ UNCHANGED <<lun, mapped>>
<1> SUFFICES Goal
  OBVIOUS
<1>a. /\ (at \in {"seed_unmap", "seed_destroy", "file_delete", "file_upload", "seed_create", "seed_write", "seed_map"})
          <=> (fn = "CreateSeedStorage")
      /\ at \in Request /\ fn # DeleteStorage /\ at # "server_create"
  BY FinishAt DEF Finishers, HandlerOK
<1>. USE <1>a DEF Then, array, luns, nvme, maps, LUN
<1>1. NvmeSkip => Goal
  BY DEF NvmeSkip, Step
<1>2. NvmeNamespaceUnmap => Goal
  BY DEF NvmeNamespaceUnmap, DoAndIgnore, Step, Nothing, Serve
<1>3. NvmeNamespaceDestroy => Goal
  BY DEF NvmeNamespaceDestroy, Do, Fails, Step, Refused, SetNamespace
<1>4. NvmeNamespaceCreate => Goal
  BY DEF NvmeNamespaceCreate, DoAndIgnore, Step, SetNamespace
<1>5. NvmeSubsystemDestroy => Goal
  <2>1. CASE fn = "CreateNvmeStorage"
    <3>1. NvmeSubsystemDestroy => \/ Return(FALSE) 
                                  \/ /\ Then("subsystem_create") /\ UNCHANGED <<lun, mapped>>
                                     /\ at = "subsystem_destroy"
      BY <2>1 DEF NvmeSubsystemDestroy, Do, Fails, Refused, SetSubsystem
    <3>. QED
      BY <2>1, <3>1
  <2>2. CASE fn # "CreateNvmeStorage"
    BY <2>2 DEF NvmeSubsystemDestroy
  <2>. QED
    BY <2>1, <2>2
<1>6. NvmeSubsystemCreate => Goal
  BY DEF NvmeSubsystemCreate, DoAndIgnore, Step, SetSubsystem
<1>7. NvmeSubsystemAddHost => Goal
  BY DEF NvmeSubsystemAddHost, DoAndIgnore, Step, Refused, Nothing, SetSubsystem
<1>8. NvmeNamespaceMap => Goal
  BY DEF NvmeNamespaceMap, DoAndIgnore, Step, Nothing, Serve
<1>9. NvmeDiscover => Goal
  BY DEF NvmeDiscover, DoLast, Fails, Refused, Nothing, Step
<1>10. SeedUnmap => Goal
  BY DEF SeedUnmap, DoAndIgnore, Step, Unmap
<1>11. SeedDestroy => Goal
  BY DEF SeedDestroy, Do, Fails, Step, Refused, SetLun
<1>12. FileDelete => Goal
  BY DEF FileDelete, Do, Fails, Step, Nothing, SetFile, FileDeleteNext
<1>13. FileUpload => Goal
  BY DEF FileUpload, Do, Fails, Step, Refused, SetFile
<1>14. SeedCreate => Goal
  BY DEF SeedCreate, Do, Fails, Step, SetLun
<1>15. SeedWrite => Goal
  BY DEF SeedWrite, Do, Fails, Step, SetLun
<1>16. SeedMap => Goal
  BY DEF SeedMap, DoLast, Fails, Step, Refused, Map
<1> HIDE DEF Goal
<1>. QED
  BY <1>1, <1>2, <1>3, <1>4, <1>5, <1>6, <1>7, <1>8, <1>9, <1>10, <1>11, <1>12, <1>13,
     <1>14, <1>15, <1>16, Guards, <1>a, FinishAt DEF StorageCall, Finishers

(* A re-image knows them exactly.                                           *)
LEMMA SeedReimaged ==
    ASSUME ArrayOK, HandlerOK, ControlInv, ReimageInv, result = "running", op = "reimage",
           fn \in {"CreateNvmeStorage", "CreateSeedStorage"}, StorageCall
    PROVE  \/ Return(FALSE)
           \/ Return(TRUE) /\ Reimaged(TRUE)
           \/ UNCHANGED <<fn, phase, attempt, result>> /\ ReimagedSeed'
<1>1. UNCHANGED <<want, op>>
  BY Courses
<1>2. /\ Wanted \subseteq LUN /\ "seed" \in Wanted
      /\ want.kind # "esx" /\ ~Remapped /\ fn \notin Creators
  BY Kinds, KindOf DEF Wanted, LUN, HandlerOK, Remapped, Creators
<1> DEFINE others == Wanted \ {"seed"}
<1>3. UNCHANGED fn => others' = others
  BY <1>1 DEF Wanted, Remapped
<1>4. /\ at = "seed_write" => Exactly(others, {"seed"}, others)
      /\ at = "seed_map" => Exactly(Wanted, {}, others)
      /\ at \notin {"seed_write", "seed_map"} => Exactly(others, {}, others)
  <2>1. others \cup {"seed"} = Wanted
    BY <1>2
  <2>. QED
    BY <2>1 DEF ReimageInv, ReimagedSeed
<1>5. CASE Return(FALSE)
  BY <1>5
<1>6. CASE /\ Return(TRUE) /\ UNCHANGED lun
           /\ mapped' = IF fn = "CreateSeedStorage" THEN mapped \cup {"seed"} ELSE mapped
           /\ fn = "CreateSeedStorage" => at = "seed_map"
  <2>1. CASE fn = "CreateSeedStorage"
    <3>1. LeavesOnly(Wanted)
      BY <1>2, <1>4, <1>6, <2>1 DEF Exactly, LeavesOnly, LUN
    <3>. QED
      BY <1>2, <1>6, <2>1, <3>1 DEF Reimaged
  <2>2. CASE fn = "CreateNvmeStorage"
    <3>1. at \notin {"seed_write", "seed_map"}
      BY <2>2, FinishAt DEF Finishers
    <3>2. LeavesOnly(others)
      BY <1>2, <1>4, <1>6, <2>2, <3>1 DEF Exactly, LeavesOnly, LUN
    <3>. QED
      BY <1>2, <1>6, <2>2, <3>2 DEF Reimaged
  <2>. QED
    BY <2>1, <2>2
<1>7. ASSUME UNCHANGED <<fn, phase, attempt, result>>,
             IF at' = "seed_write" THEN at = "seed_create" /\ SetLun("seed", "part")
             ELSE IF at' = "seed_map" THEN at \in {"seed_create", "seed_write"} /\ SetLun("seed", "new")
             ELSE IF at = "seed_unmap"
             THEN lun' = lun /\ mapped' \in {mapped, mapped \ {"seed"}}
             ELSE IF at = "seed_destroy" THEN SetLun("seed", "none")
             ELSE at \notin {"seed_create", "seed_write", "seed_map"} /\ UNCHANGED <<lun, mapped>>
      PROVE  ReimagedSeed'
  <2>1. others' = others
    BY <1>3, <1>7
  <2>2. CASE at' = "seed_write"
    <3>1. \A l \in LUN : lun'[l] = IF l \in others THEN "new" ELSE IF l = "seed" THEN "part" ELSE "none"
      BY <1>2, <1>4, <1>7, <2>2 DEF Exactly, SetLun, ArrayOK
    <3>2. mapped' = others
      BY <1>4, <1>7, <2>2 DEF Exactly, SetLun, maps
    <3>3. Exactly(others, {"seed"}, others)'
      BY <2>1, <3>1, <3>2 DEF Exactly, LUN
    <3>. QED
      BY <2>2, <3>3 DEF ReimagedSeed
  <2>3. CASE at' = "seed_map"
    <3>1. \A l \in LUN : lun'[l] = IF l \in others \cup {"seed"} THEN "new" ELSE "none"
      BY <1>2, <1>4, <1>7, <2>3 DEF Exactly, SetLun, ArrayOK
    <3>2. mapped' = others
      BY <1>4, <1>7, <2>3 DEF Exactly, SetLun, maps
    <3>3. Exactly(others \cup {"seed"}, {}, others)'
      BY <2>1, <3>1, <3>2 DEF Exactly, LUN
    <3>. QED
      BY <2>3, <3>3 DEF ReimagedSeed
  <2>4. CASE at' \notin {"seed_write", "seed_map"}
    <3>1. at \notin {"seed_write", "seed_map"}
      BY <1>7, <2>4
    <3>2. \A l \in LUN : lun'[l] = IF l \in others THEN "new" ELSE "none"
      BY <1>2, <1>4, <1>7, <2>4, <3>1 DEF Exactly, SetLun, ArrayOK
    <3>3. mapped' = others
      BY <1>4, <1>7, <2>4, <3>1 DEF Exactly, SetLun, maps
    <3>4. Exactly(others, {}, others)'
      BY <2>1, <3>2, <3>3 DEF Exactly, LUN
    <3>. QED
      BY <2>4, <3>4 DEF ReimagedSeed
  <2>. QED
    BY <2>2, <2>3, <2>4
<1>. QED
  BY <1>5, <1>6, <1>7, SeedEffects

(* The LUNs that a re-image makes are complete and alone.                   *)
LEMMA BootReimagedServer ==
    ASSUME ArrayOK, HandlerOK, ControlInv, ReimageInv, result = "running", op = "reimage",
           fn = "CreateBootStorage", StorageCall
    PROVE  \/ Return(FALSE)
           \/ Return(TRUE) /\ (Uploaded => LeavesOnly(Wanted \ {"seed"}))
           \/ UNCHANGED <<fn, phase, attempt, result>> /\ ReimagedServer' /\ at' # "igroup_initiators"
<1> DEFINE Goal ==
        \/ Return(FALSE)
        \/ Return(TRUE) /\ (Uploaded => LeavesOnly(Wanted \ {"seed"}))
        \/ UNCHANGED <<fn, phase, attempt, result>> /\ ReimagedServer' /\ at' # "igroup_initiators"
<1> SUFFICES Goal
  OBVIOUS
<1>a. /\ want.kind = "server" /\ want' = want /\ want.data \in BOOLEAN
      /\ Wanted \ {"seed"} = IF want.data THEN {"boot", "data"} ELSE {"boot"}
      /\ volume /\ igroup # "none"
  BY Kinds, KindOf, Courses DEF HandlerOK, Wanted, Remapped, ReimageInv
<1>b. at \in {"volume_create", "igroup_create", "image_copy", "image_resize", "image_map", "data_create", "data_map", "discover"}
  BY <1>a DEF HandlerOK, ControlInv, Makes, Request, Creators, Deleters, Nvme, NvmeRequests,
     ReimageInv
<1>c. ReimagedServer
  BY DEF ReimageInv
<1>1. VolumeCreate => Goal
  <2>1. VolumeCreate => at = "volume_create" /\ Exactly({}, {}, {})
    BY <1>c, Guards DEF ReimagedServer
  <2>2. VolumeCreate =>
          \/ Return(FALSE)
          \/ /\ at' = "igroup_create" /\ UNCHANGED <<fn, phase, attempt, result>>
             /\ lun' = lun
             /\ mapped' = mapped
    BY <1>a, <2>1 DEF VolumeCreate, Do, Fails, Step, Nothing, SetVolume, array, luns, nvme,
       maps, LUN, Then, Exactly, ArrayOK, Id, CanMap, Map
  <2>3. ASSUME VolumeCreate,
               at' = "igroup_create" /\ UNCHANGED <<fn, phase, attempt, result>>,
               lun' = lun,
               mapped' = mapped
        PROVE  Goal
    <3>1. Exactly({}, {}, {})'
      BY <2>1, <2>3 DEF Exactly, ArrayOK, LUN
    <3>2. ReimagedServer'
      BY <1>a, <2>3, <3>1 DEF ReimagedServer
    <3>. QED
      BY <2>3, <3>2
  <2>. QED
    BY <2>2, <2>3
<1>2. IgroupCreate => Goal
  <2>1. IgroupCreate => at = "igroup_create" /\ Exactly({}, {}, {})
    BY <1>c, Guards DEF ReimagedServer
  <2>2. IgroupCreate =>
          \/ Return(FALSE)
          \/ /\ at' = "image_copy" /\ UNCHANGED <<fn, phase, attempt, result>>
             /\ lun' = lun
             /\ mapped' = mapped
    BY <1>a, <2>1 DEF IgroupCreate, Do, Fails, Step, DoAndIgnore, Nothing, SetIgroup,
       AfterIgroup, array, luns, nvme, maps, LUN, Then, Exactly, ArrayOK, Id, CanMap, Map
  <2>3. ASSUME IgroupCreate,
               at' = "image_copy" /\ UNCHANGED <<fn, phase, attempt, result>>,
               lun' = lun,
               mapped' = mapped
        PROVE  Goal
    <3>1. Exactly({}, {}, {})'
      BY <2>1, <2>3 DEF Exactly, ArrayOK, LUN
    <3>2. ReimagedServer'
      BY <1>a, <2>3, <3>1 DEF ReimagedServer
    <3>. QED
      BY <2>3, <3>2
  <2>. QED
    BY <2>2, <2>3
<1>3. LunCopy => Goal
  <2>1. LunCopy => at = "image_copy" /\ Exactly({}, {}, {})
    BY <1>c, Guards DEF ReimagedServer
  <2>2. LunCopy =>
          \/ Return(FALSE)
          \/ /\ at' = "image_resize" /\ UNCHANGED <<fn, phase, attempt, result>>
             /\ lun' = [lun EXCEPT !["boot"] = "part"]
             /\ mapped' = mapped
    BY <1>a, <2>1 DEF LunCopy, Do, Fails, Step, Nothing, SetLun, ImageLun, array, luns,
       nvme, maps, LUN, Then, Exactly, ArrayOK, Id, CanMap, Map
  <2>3. ASSUME LunCopy,
               at' = "image_resize" /\ UNCHANGED <<fn, phase, attempt, result>>,
               lun' = [lun EXCEPT !["boot"] = "part"],
               mapped' = mapped
        PROVE  Goal
    <3>1. Exactly({}, {"boot"}, {})'
      BY <2>1, <2>3 DEF Exactly, ArrayOK, LUN
    <3>2. ReimagedServer'
      BY <1>a, <2>3, <3>1 DEF ReimagedServer
    <3>. QED
      BY <2>3, <3>2
  <2>. QED
    BY <2>2, <2>3
<1>4. LunResize => Goal
  <2>1. LunResize => at = "image_resize" /\ Exactly({}, {"boot"}, {})
    BY <1>c, Guards DEF ReimagedServer
  <2>2. LunResize =>
          \/ Return(FALSE)
          \/ /\ at' = "image_map" /\ UNCHANGED <<fn, phase, attempt, result>>
             /\ lun' = [lun EXCEPT !["boot"] = "new"]
             /\ mapped' = mapped
    BY <1>a, <2>1 DEF LunResize, Do, Fails, Step, SetLun, ImageLun, array, luns, nvme, maps,
       LUN, Then, Exactly, ArrayOK, Id, CanMap, Map
  <2>3. ASSUME LunResize,
               at' = "image_map" /\ UNCHANGED <<fn, phase, attempt, result>>,
               lun' = [lun EXCEPT !["boot"] = "new"],
               mapped' = mapped
        PROVE  Goal
    <3>1. Exactly({"boot"}, {}, {})'
      BY <2>1, <2>3 DEF Exactly, ArrayOK, LUN
    <3>2. ReimagedServer'
      BY <1>a, <2>3, <3>1 DEF ReimagedServer
    <3>. QED
      BY <2>3, <3>2
  <2>. QED
    BY <2>2, <2>3
<1>5. ImageMap => Goal
  <2>1. ImageMap => at = "image_map" /\ Exactly({"boot"}, {}, {})
    BY <1>c, Guards DEF ReimagedServer
  <2>2. ImageMap =>
          \/ Return(FALSE)
          \/ /\ (IF want.data THEN at' = "data_create" ELSE at' = "discover") /\ UNCHANGED <<fn, phase, attempt, result>>
             /\ lun' = lun
             /\ mapped' = mapped \cup {"boot"}
    BY <1>a, <2>1 DEF ImageMap, Do, Fails, Step, Refused, Nothing, LunMap, Map, CanMap, Id,
       ImageLun, maps, array, luns, nvme, LUN, Then, Exactly, ArrayOK
  <2>3. ASSUME ImageMap,
               (IF want.data THEN at' = "data_create" ELSE at' = "discover") /\ UNCHANGED <<fn, phase, attempt, result>>,
               lun' = lun,
               mapped' = mapped \cup {"boot"}
        PROVE  Goal
    <3>1. Exactly({"boot"}, {}, {"boot"})'
      BY <2>1, <2>3 DEF Exactly, ArrayOK, LUN
    <3>2. ~want.data => (Wanted \ {"seed"})' = {"boot"}
      BY <1>a, <2>3 DEF Wanted, Remapped
    <3>3. ReimagedServer'
      BY <1>a, <2>3, <3>1, <3>2 DEF ReimagedServer, Exactly
    <3>. QED
      BY <2>3, <3>3
  <2>. QED
    BY <2>2, <2>3
<1>6. DataCreate => Goal
  <2>1. DataCreate => at = "data_create" /\ Exactly({"boot"}, {}, {"boot"})
    BY <1>c, Guards DEF ReimagedServer
  <2>2. DataCreate =>
          \/ Return(FALSE)
          \/ /\ at' = "data_map" /\ want.data /\ UNCHANGED <<fn, phase, attempt, result>>
             /\ lun' = [lun EXCEPT !["data"] = "new"]
             /\ mapped' = mapped
    BY <1>a, <2>1, <1>c DEF DataCreate, Do, Fails, Step, Nothing, SetLun, array, luns, nvme,
       maps, LUN, Then, Exactly, ArrayOK, Id, CanMap, Map, ReimagedServer
  <2>3. ASSUME DataCreate,
               at' = "data_map" /\ want.data /\ UNCHANGED <<fn, phase, attempt, result>>,
               lun' = [lun EXCEPT !["data"] = "new"],
               mapped' = mapped
        PROVE  Goal
    <3>1. Exactly({"boot", "data"}, {}, {"boot"})'
      BY <2>1, <2>3 DEF Exactly, ArrayOK, LUN
    <3>2. ReimagedServer'
      BY <1>a, <2>3, <3>1 DEF ReimagedServer
    <3>. QED
      BY <2>3, <3>2
  <2>. QED
    BY <2>2, <2>3
<1>7. DataMap => Goal
  <2>1. DataMap => at = "data_map" /\ Exactly({"boot", "data"}, {}, {"boot"})
    BY <1>c, Guards DEF ReimagedServer
  <2>2. DataMap =>
          \/ Return(FALSE)
          \/ /\ at' = "discover" /\ want.data /\ UNCHANGED <<fn, phase, attempt, result>>
             /\ lun' = lun
             /\ mapped' = mapped \cup {"data"}
    BY <1>a, <2>1, <1>c DEF DataMap, Do, Fails, Step, Refused, Nothing, LunMap, Map, CanMap,
       Id, array, luns, nvme, maps, LUN, Then, Exactly, ArrayOK, ReimagedServer
  <2>3. ASSUME DataMap,
               at' = "discover" /\ want.data /\ UNCHANGED <<fn, phase, attempt, result>>,
               lun' = lun,
               mapped' = mapped \cup {"data"}
        PROVE  Goal
    <3>1. Exactly({"boot", "data"}, {}, {"boot", "data"})'
      BY <2>1, <2>3 DEF Exactly, ArrayOK, LUN
    <3>2. (Wanted \ {"seed"})' = {"boot", "data"}
      BY <1>a, <2>3 DEF Wanted, Remapped
    <3>3. ReimagedServer'
      BY <1>a, <2>3, <3>1, <3>2 DEF ReimagedServer, Exactly
    <3>. QED
      BY <2>3, <3>3
  <2>. QED
    BY <2>2, <2>3
<1>8. Discover => Goal
  <2>1. Discover => at = "discover" /\ Exactly(Wanted \ {"seed"}, {}, Wanted \ {"seed"})
    BY <1>c, Guards DEF ReimagedServer
  <2>2. Discover => Return(FALSE) \/ (Return(TRUE) /\ lun' = lun /\ mapped' = mapped)
    BY <1>a, <2>1 DEF Discover, Do, Fails, Step, DoLast, Nothing, array, luns, nvme, maps,
       LUN, Then, Exactly, ArrayOK, Id, CanMap, Map
  <2>3. Discover /\ lun' = lun /\ mapped' = mapped => (Uploaded => LeavesOnly(Wanted \ {"seed"}))
    BY <1>a, <2>1 DEF LeavesOnly, Exactly, LUN
  <2>. QED
    BY <2>2, <2>3
<1> HIDE DEF Goal
<1>. QED
  BY <1>1, <1>2, <1>3, <1>4, <1>5, <1>6, <1>7, <1>8, <1>b, Guards DEF StorageCall

LEMMA BootReimagedNode ==
    ASSUME ArrayOK, HandlerOK, ControlInv, ReimageInv, result = "running", op = "reimage",
           fn = "CreateHarvesterStorage", StorageCall
    PROVE  \/ Return(FALSE)
           \/ Return(TRUE) /\ (Uploaded => LeavesOnly(Wanted \ {"seed"}))
           \/ UNCHANGED <<fn, phase, attempt, result>> /\ ReimagedNode'
<1> DEFINE Goal ==
        \/ Return(FALSE)
        \/ Return(TRUE) /\ (Uploaded => LeavesOnly(Wanted \ {"seed"}))
        \/ UNCHANGED <<fn, phase, attempt, result>> /\ ReimagedNode'
<1> SUFFICES Goal
  OBVIOUS
<1>a. /\ want.kind = "harvester" /\ want' = want /\ want.data \in BOOLEAN
      /\ Wanted \ {"seed"} = {"bootstrap", "boot"}
      /\ ~want.data /\ want.api \in {"rest", "zapi"}
  BY Kinds, KindOf, Courses DEF HandlerOK, Wanted, Remapped
<1>b. at \in {"volume_create", "igroup_create", "igroup_initiators", "image_copy", "image_resize", "image_map", "boot_create", "boot_map", "discover"}
  BY DEF HandlerOK, ControlInv, Makes, Request, Creators, Deleters, Nvme, NvmeRequests
<1>c. ReimagedNode
  BY DEF ReimageInv
<1>1. VolumeCreate => Goal
  <2>1. VolumeCreate => at = "volume_create" /\ Exactly({}, {}, {})
    BY <1>c, Guards DEF ReimagedNode
  <2>2. VolumeCreate =>
          \/ Return(FALSE)
          \/ /\ at' = "igroup_create" /\ UNCHANGED <<fn, phase, attempt, result>>
             /\ lun' = lun
             /\ mapped' = mapped
    BY <1>a, <2>1 DEF VolumeCreate, Do, Fails, Step, Nothing, SetVolume, array, luns, nvme,
       maps, LUN, Then, Exactly, ArrayOK, Id, CanMap, Map
  <2>3. ASSUME VolumeCreate,
               at' = "igroup_create" /\ UNCHANGED <<fn, phase, attempt, result>>,
               lun' = lun,
               mapped' = mapped
        PROVE  Goal
    <3>1. Exactly({}, {}, {})'
      BY <2>1, <2>3 DEF Exactly, ArrayOK, LUN
    <3>2. ReimagedNode'
      BY <1>a, <2>3, <3>1 DEF ReimagedNode
    <3>. QED
      BY <2>3, <3>2
  <2>. QED
    BY <2>2, <2>3
<1>2. IgroupCreate => Goal
  <2>1. IgroupCreate => at = "igroup_create" /\ Exactly({}, {}, {})
    BY <1>c, Guards DEF ReimagedNode
  <2>2. IgroupCreate =>
          \/ Return(FALSE)
          \/ /\ at' \in {"igroup_initiators", "image_copy"} /\ UNCHANGED <<fn, phase, attempt, result>>
             /\ lun' = lun
             /\ mapped' = mapped
    BY <1>a, <2>1 DEF IgroupCreate, Do, Fails, Step, DoAndIgnore, Nothing, SetIgroup,
       AfterIgroup, array, luns, nvme, maps, LUN, Then, Exactly, ArrayOK, Id, CanMap, Map
  <2>3. ASSUME IgroupCreate,
               at' \in {"igroup_initiators", "image_copy"} /\ UNCHANGED <<fn, phase, attempt, result>>,
               lun' = lun,
               mapped' = mapped
        PROVE  Goal
    <3>1. Exactly({}, {}, {})'
      BY <2>1, <2>3 DEF Exactly, ArrayOK, LUN
    <3>2. ReimagedNode'
      BY <1>a, <2>3, <3>1 DEF ReimagedNode
    <3>. QED
      BY <2>3, <3>2
  <2>. QED
    BY <2>2, <2>3
<1>3. IgroupAddInitiator => Goal
  <2>1. IgroupAddInitiator => at = "igroup_initiators" /\ Exactly({}, {}, {})
    BY <1>c, Guards DEF ReimagedNode
  <2>2. IgroupAddInitiator =>
          \/ Return(FALSE)
          \/ /\ at' = "image_copy" /\ UNCHANGED <<fn, phase, attempt, result>>
             /\ lun' = lun
             /\ mapped' = mapped
    BY <1>a, <2>1 DEF IgroupAddInitiator, DoAndIgnore, Step, Nothing, SetIgroup,
       AfterIgroup, array, luns, nvme, maps, LUN, Then, Exactly, ArrayOK, Id, CanMap, Map
  <2>3. ASSUME IgroupAddInitiator,
               at' = "image_copy" /\ UNCHANGED <<fn, phase, attempt, result>>,
               lun' = lun,
               mapped' = mapped
        PROVE  Goal
    <3>1. Exactly({}, {}, {})'
      BY <2>1, <2>3 DEF Exactly, ArrayOK, LUN
    <3>2. ReimagedNode'
      BY <1>a, <2>3, <3>1 DEF ReimagedNode
    <3>. QED
      BY <2>3, <3>2
  <2>. QED
    BY <2>2, <2>3
<1>4. LunCopy => Goal
  <2>1. LunCopy => at = "image_copy" /\ Exactly({}, {}, {})
    BY <1>c, Guards DEF ReimagedNode
  <2>2. LunCopy =>
          \/ Return(FALSE)
          \/ /\ at' = "image_resize" /\ UNCHANGED <<fn, phase, attempt, result>>
             /\ lun' = [lun EXCEPT !["bootstrap"] = "part"]
             /\ mapped' = mapped
    BY <1>a, <2>1 DEF LunCopy, Do, Fails, Step, Nothing, SetLun, ImageLun, array, luns,
       nvme, maps, LUN, Then, Exactly, ArrayOK, Id, CanMap, Map
  <2>3. ASSUME LunCopy,
               at' = "image_resize" /\ UNCHANGED <<fn, phase, attempt, result>>,
               lun' = [lun EXCEPT !["bootstrap"] = "part"],
               mapped' = mapped
        PROVE  Goal
    <3>1. Exactly({}, {"bootstrap"}, {})'
      BY <2>1, <2>3 DEF Exactly, ArrayOK, LUN
    <3>2. ReimagedNode'
      BY <1>a, <2>3, <3>1 DEF ReimagedNode
    <3>. QED
      BY <2>3, <3>2
  <2>. QED
    BY <2>2, <2>3
<1>5. LunResize => Goal
  <2>1. LunResize => at = "image_resize" /\ Exactly({}, {"bootstrap"}, {})
    BY <1>c, Guards DEF ReimagedNode
  <2>2. LunResize =>
          \/ Return(FALSE)
          \/ /\ at' = "image_map" /\ UNCHANGED <<fn, phase, attempt, result>>
             /\ lun' = [lun EXCEPT !["bootstrap"] = "new"]
             /\ mapped' = mapped
    BY <1>a, <2>1 DEF LunResize, Do, Fails, Step, SetLun, ImageLun, array, luns, nvme, maps,
       LUN, Then, Exactly, ArrayOK, Id, CanMap, Map
  <2>3. ASSUME LunResize,
               at' = "image_map" /\ UNCHANGED <<fn, phase, attempt, result>>,
               lun' = [lun EXCEPT !["bootstrap"] = "new"],
               mapped' = mapped
        PROVE  Goal
    <3>1. Exactly({"bootstrap"}, {}, {})'
      BY <2>1, <2>3 DEF Exactly, ArrayOK, LUN
    <3>2. ReimagedNode'
      BY <1>a, <2>3, <3>1 DEF ReimagedNode
    <3>. QED
      BY <2>3, <3>2
  <2>. QED
    BY <2>2, <2>3
<1>6. ImageMap => Goal
  <2>1. ImageMap => at = "image_map" /\ Exactly({"bootstrap"}, {}, {})
    BY <1>c, Guards DEF ReimagedNode
  <2>2. ImageMap =>
          \/ Return(FALSE)
          \/ /\ at' = "boot_create" /\ UNCHANGED <<fn, phase, attempt, result>>
             /\ lun' = lun
             /\ mapped' = mapped \cup {"bootstrap"}
    BY <1>a, <2>1 DEF ImageMap, Do, Fails, Step, Refused, Nothing, LunMap, Map, CanMap, Id,
       ImageLun, maps, array, luns, nvme, LUN, Then, Exactly, ArrayOK
  <2>3. ASSUME ImageMap,
               at' = "boot_create" /\ UNCHANGED <<fn, phase, attempt, result>>,
               lun' = lun,
               mapped' = mapped \cup {"bootstrap"}
        PROVE  Goal
    <3>1. Exactly({"bootstrap"}, {}, {"bootstrap"})'
      BY <2>1, <2>3 DEF Exactly, ArrayOK, LUN
    <3>2. ReimagedNode'
      BY <1>a, <2>3, <3>1 DEF ReimagedNode
    <3>. QED
      BY <2>3, <3>2
  <2>. QED
    BY <2>2, <2>3
<1>7. BootCreate => Goal
  <2>1. BootCreate => at = "boot_create" /\ Exactly({"bootstrap"}, {}, {"bootstrap"})
    BY <1>c, Guards DEF ReimagedNode
  <2>2. BootCreate =>
          \/ Return(FALSE)
          \/ /\ at' = "boot_map" /\ UNCHANGED <<fn, phase, attempt, result>>
             /\ lun' = [lun EXCEPT !["boot"] = "new"]
             /\ mapped' = mapped
    BY <1>a, <2>1 DEF BootCreate, Do, Fails, Step, Nothing, SetLun, array, luns, nvme, maps,
       LUN, Then, Exactly, ArrayOK, Id, CanMap, Map
  <2>3. ASSUME BootCreate,
               at' = "boot_map" /\ UNCHANGED <<fn, phase, attempt, result>>,
               lun' = [lun EXCEPT !["boot"] = "new"],
               mapped' = mapped
        PROVE  Goal
    <3>1. Exactly({"bootstrap", "boot"}, {}, {"bootstrap"})'
      BY <2>1, <2>3 DEF Exactly, ArrayOK, LUN
    <3>2. ReimagedNode'
      BY <1>a, <2>3, <3>1 DEF ReimagedNode
    <3>. QED
      BY <2>3, <3>2
  <2>. QED
    BY <2>2, <2>3
<1>8. BootMap => Goal
  <2>1. BootMap => at = "boot_map" /\ Exactly({"bootstrap", "boot"}, {}, {"bootstrap"})
    BY <1>c, Guards DEF ReimagedNode
  <2>2. BootMap =>
          \/ Return(FALSE)
          \/ /\ at' = "discover" /\ UNCHANGED <<fn, phase, attempt, result>>
             /\ lun' = lun
             /\ mapped' = mapped \cup {"boot"}
    BY <1>a, <2>1 DEF BootMap, Do, Fails, Step, DoLast, Refused, Nothing, LunMap, Map,
       CanMap, Id, array, luns, nvme, maps, LUN, Then, Exactly, ArrayOK
  <2>3. ASSUME BootMap,
               at' = "discover" /\ UNCHANGED <<fn, phase, attempt, result>>,
               lun' = lun,
               mapped' = mapped \cup {"boot"}
        PROVE  Goal
    <3>1. Exactly({"bootstrap", "boot"}, {}, {"bootstrap", "boot"})'
      BY <2>1, <2>3 DEF Exactly, ArrayOK, LUN
    <3>2. (Wanted \ {"seed"})' = {"bootstrap", "boot"}
      BY <1>a, <2>3 DEF Wanted, Remapped
    <3>3. ReimagedNode'
      BY <1>a, <2>3, <3>1, <3>2 DEF ReimagedNode, Exactly
    <3>. QED
      BY <2>3, <3>3
  <2>. QED
    BY <2>2, <2>3
<1>9. Discover => Goal
  <2>1. Discover => at = "discover" /\ Exactly({"bootstrap", "boot"}, {}, {"bootstrap", "boot"})
    BY <1>c, Guards DEF ReimagedNode
  <2>2. Discover => Return(FALSE) \/ (Return(TRUE) /\ lun' = lun /\ mapped' = mapped)
    BY <1>a, <2>1 DEF Discover, Do, Fails, Step, DoLast, Nothing, array, luns, nvme, maps,
       LUN, Then, Exactly, ArrayOK, Id, CanMap, Map
  <2>3. Discover /\ lun' = lun /\ mapped' = mapped => (Uploaded => LeavesOnly(Wanted \ {"seed"}))
    BY <1>a, <2>1 DEF LeavesOnly, Exactly, LUN
  <2>. QED
    BY <2>2, <2>3
<1> HIDE DEF Goal
<1>. QED
  BY <1>1, <1>2, <1>3, <1>4, <1>5, <1>6, <1>7, <1>8, <1>9, <1>b, Guards DEF StorageCall

LEMMA BootReimagedHost ==
    ASSUME ArrayOK, HandlerOK, ControlInv, ReimageInv, result = "running", op = "reimage",
           fn = "CreateEsxStorage", StorageCall
    PROVE  \/ Return(FALSE)
           \/ Return(TRUE) /\ (Uploaded => LeavesOnly(Wanted \ {"seed"}))
           \/ UNCHANGED <<fn, phase, attempt, result>> /\ ReimagedHost'
<1> DEFINE Goal ==
        \/ Return(FALSE)
        \/ Return(TRUE) /\ (Uploaded => LeavesOnly(Wanted \ {"seed"}))
        \/ UNCHANGED <<fn, phase, attempt, result>> /\ ReimagedHost'
<1> SUFFICES Goal
  OBVIOUS
<1>a. /\ want.kind = "esx" /\ want' = want /\ want.data \in BOOLEAN
      /\ Wanted \ {"seed"} = {"boot"}
      /\ ~want.data /\ want.api \in {"rest", "zapi"}
  BY Kinds, KindOf, Courses DEF HandlerOK, Wanted, Remapped
<1>b. at \in {"volume_create", "igroup_create", "igroup_initiators", "boot_create", "boot_map", "boot_upload", "discover"}
  BY DEF HandlerOK, ControlInv, Makes, Request, Creators, Deleters, Nvme, NvmeRequests
<1>c. ReimagedHost
  BY DEF ReimageInv
<1>1. VolumeCreate => Goal
  <2>1. VolumeCreate => at = "volume_create" /\ Exactly({}, {}, {})
    BY <1>c, Guards DEF ReimagedHost
  <2>2. VolumeCreate =>
          \/ Return(FALSE)
          \/ /\ at' = "boot_create" /\ UNCHANGED <<fn, phase, attempt, result>>
             /\ lun' = lun
             /\ mapped' = mapped
    BY <1>a, <2>1 DEF VolumeCreate, Do, Fails, Step, Nothing, SetVolume, array, luns, nvme,
       maps, LUN, Then, Exactly, ArrayOK, Id, CanMap, Map
  <2>3. ASSUME VolumeCreate,
               at' = "boot_create" /\ UNCHANGED <<fn, phase, attempt, result>>,
               lun' = lun,
               mapped' = mapped
        PROVE  Goal
    <3>1. Exactly({}, {}, {})'
      BY <2>1, <2>3 DEF Exactly, ArrayOK, LUN
    <3>2. Uploaded' = Uploaded
      BY <1>a DEF Uploaded
    <3>3. ReimagedHost'
      BY <2>3, <3>1, <3>2 DEF ReimagedHost
    <3>. QED
      BY <2>3, <3>3
  <2>. QED
    BY <2>2, <2>3
<1>2. BootCreate => Goal
  <2>1. BootCreate => at = "boot_create" /\ Exactly({}, {}, {})
    BY <1>c, Guards DEF ReimagedHost
  <2>2. BootCreate =>
          \/ Return(FALSE)
          \/ /\ at' = "discover" /\ UNCHANGED <<fn, phase, attempt, result>>
             /\ lun' = [lun EXCEPT !["boot"] = "part"]
             /\ mapped' = mapped
    BY <1>a, <2>1 DEF BootCreate, Do, Fails, Step, Nothing, SetLun, array, luns, nvme, maps,
       LUN, Then, Exactly, ArrayOK, Id, CanMap, Map
  <2>3. ASSUME BootCreate,
               at' = "discover" /\ UNCHANGED <<fn, phase, attempt, result>>,
               lun' = [lun EXCEPT !["boot"] = "part"],
               mapped' = mapped
        PROVE  Goal
    <3>1. Exactly({}, {"boot"}, {})'
      BY <2>1, <2>3 DEF Exactly, ArrayOK, LUN
    <3>2. Uploaded' = Uploaded
      BY <1>a DEF Uploaded
    <3>3. ReimagedHost'
      BY <2>3, <3>1, <3>2 DEF ReimagedHost
    <3>. QED
      BY <2>3, <3>3
  <2>. QED
    BY <2>2, <2>3
<1>3. Discover => Goal
  <2>1. Discover => at = "discover" /\ Exactly({}, {"boot"}, {})
    BY <1>c, Guards DEF ReimagedHost
  <2>2. Discover =>
          \/ Return(FALSE)
          \/ /\ at' = "boot_upload" /\ UNCHANGED <<fn, phase, attempt, result>>
             /\ lun' = lun
             /\ mapped' = mapped
    BY <1>a, <2>1 DEF Discover, Do, Fails, Step, DoLast, Nothing, array, luns, nvme, maps,
       LUN, Then, Exactly, ArrayOK, Id, CanMap, Map
  <2>3. ASSUME Discover,
               at' = "boot_upload" /\ UNCHANGED <<fn, phase, attempt, result>>,
               lun' = lun,
               mapped' = mapped
        PROVE  Goal
    <3>1. Exactly({}, {"boot"}, {})'
      BY <2>1, <2>3 DEF Exactly, ArrayOK, LUN
    <3>2. Uploaded' = Uploaded
      BY <1>a DEF Uploaded
    <3>3. ReimagedHost'
      BY <2>3, <3>1, <3>2 DEF ReimagedHost
    <3>. QED
      BY <2>3, <3>3
  <2>. QED
    BY <2>2, <2>3
<1>4. BootUpload => Goal
  <2>1. BootUpload => at = "boot_upload" /\ Exactly({}, {"boot"}, {})
    BY <1>c, Guards DEF ReimagedHost
  <2>2. BootUpload =>
          \/ Return(FALSE)
          \/ /\ at' = "igroup_create" /\ UNCHANGED <<fn, phase, attempt, result>>
             /\ lun' = (IF Uploaded THEN [lun EXCEPT !["boot"] = "new"] ELSE lun)
             /\ mapped' = mapped
    BY <1>a, <2>1 DEF BootUpload, Do, Fails, Step, Nothing, SetLun, array, luns, nvme, maps,
       LUN, Then, Exactly, ArrayOK, Id, CanMap, Map, Uploaded
  <2>3. ASSUME BootUpload,
               at' = "igroup_create" /\ UNCHANGED <<fn, phase, attempt, result>>,
               lun' = IF Uploaded THEN [lun EXCEPT !["boot"] = "new"] ELSE lun,
               mapped' = mapped
        PROVE  Goal
    <3>1. IF Uploaded THEN Exactly({"boot"}, {}, {})' ELSE Exactly({}, {"boot"}, {})'
      BY <2>1, <2>3 DEF Exactly, ArrayOK, LUN
    <3>2. Uploaded' = Uploaded
      BY <1>a DEF Uploaded
    <3>3. ReimagedHost'
      BY <2>3, <3>1, <3>2 DEF ReimagedHost
    <3>. QED
      BY <2>3, <3>3
  <2>. QED
    BY <2>2, <2>3
<1>5. IgroupCreate => Goal
  <2>1. IgroupCreate => at = "igroup_create" /\ (IF Uploaded THEN Exactly({"boot"}, {}, {}) ELSE Exactly({}, {"boot"}, {}))
    BY <1>c, Guards DEF ReimagedHost
  <2>2. IgroupCreate =>
          \/ Return(FALSE)
          \/ /\ at' \in {"igroup_initiators", "boot_map"} /\ UNCHANGED <<fn, phase, attempt, result>>
             /\ lun' = lun
             /\ mapped' = mapped
    BY <1>a, <2>1 DEF IgroupCreate, Do, Fails, Step, DoAndIgnore, Nothing, SetIgroup,
       AfterIgroup, array, luns, nvme, maps, LUN, Then, Exactly, ArrayOK, Id, CanMap, Map
  <2>3. ASSUME IgroupCreate,
               at' \in {"igroup_initiators", "boot_map"} /\ UNCHANGED <<fn, phase, attempt, result>>,
               lun' = lun,
               mapped' = mapped
        PROVE  Goal
    <3>1. IF Uploaded THEN Exactly({"boot"}, {}, {})' ELSE Exactly({}, {"boot"}, {})'
      BY <2>1, <2>3 DEF Exactly, ArrayOK, LUN
    <3>2. Uploaded' = Uploaded
      BY <1>a DEF Uploaded
    <3>3. ReimagedHost'
      BY <2>3, <3>1, <3>2 DEF ReimagedHost
    <3>. QED
      BY <2>3, <3>3
  <2>. QED
    BY <2>2, <2>3
<1>6. IgroupAddInitiator => Goal
  <2>1. IgroupAddInitiator => at = "igroup_initiators" /\ (IF Uploaded THEN Exactly({"boot"}, {}, {}) ELSE Exactly({}, {"boot"}, {}))
    BY <1>c, Guards DEF ReimagedHost
  <2>2. IgroupAddInitiator =>
          \/ Return(FALSE)
          \/ /\ at' = "boot_map" /\ UNCHANGED <<fn, phase, attempt, result>>
             /\ lun' = lun
             /\ mapped' = mapped
    BY <1>a, <2>1 DEF IgroupAddInitiator, DoAndIgnore, Step, Nothing, SetIgroup,
       AfterIgroup, array, luns, nvme, maps, LUN, Then, Exactly, ArrayOK, Id, CanMap, Map
  <2>3. ASSUME IgroupAddInitiator,
               at' = "boot_map" /\ UNCHANGED <<fn, phase, attempt, result>>,
               lun' = lun,
               mapped' = mapped
        PROVE  Goal
    <3>1. IF Uploaded THEN Exactly({"boot"}, {}, {})' ELSE Exactly({}, {"boot"}, {})'
      BY <2>1, <2>3 DEF Exactly, ArrayOK, LUN
    <3>2. Uploaded' = Uploaded
      BY <1>a DEF Uploaded
    <3>3. ReimagedHost'
      BY <2>3, <3>1, <3>2 DEF ReimagedHost
    <3>. QED
      BY <2>3, <3>3
  <2>. QED
    BY <2>2, <2>3
<1>7. BootMap => Goal
  <2>1. BootMap => at = "boot_map" /\ (IF Uploaded THEN Exactly({"boot"}, {}, {}) ELSE Exactly({}, {"boot"}, {}))
    BY <1>c, Guards DEF ReimagedHost
  <2>2. BootMap => Return(FALSE) \/ (Return(TRUE) /\ lun' = lun /\ mapped' = {"boot"})
    BY <1>a, <2>1 DEF BootMap, Do, Fails, Step, DoLast, Refused, Nothing, LunMap, Map,
       CanMap, Id, array, luns, nvme, maps, LUN, Then, Exactly, ArrayOK
  <2>3. BootMap /\ lun' = lun /\ mapped' = {"boot"} => (Uploaded => LeavesOnly(Wanted \ {"seed"}))
    BY <1>a, <2>1 DEF LeavesOnly, Exactly, LUN
  <2>. QED
    BY <2>2, <2>3
<1> HIDE DEF Goal
<1>. QED
  BY <1>1, <1>2, <1>3, <1>4, <1>5, <1>6, <1>7, <1>b, Guards DEF StorageCall

-----------------------------------------------------------------------------
(* What follows when a function returns: the handler ends, or enters the   *)
(* next function.                                                          *)

Finished(ok) ==
    \/ Finish("error")
    \/ /\ ok /\ Finish("ok")
       /\ \/ Remapped \/ op = "delete" \/ fn = "CreateSeedStorage"
          \/ want.kind = "esx" /\ fn = IF op = "create" THEN "CreateServer" ELSE "CreateEsxStorage"

Entered(ok) ==
    /\ fn' \in Function /\ at' = Entry(fn') /\ lunNo' = 1 /\ result' = "running"
    /\ phase' \in {"boot", "seed", "cleanup"} /\ attempt' \in 0 .. Attempts - 1
    /\ op # "delete" /\ ~Remapped /\ fn' # "RemapHarvesterStorage"
    /\ fn' # fn \/ phase' # phase \/ attempt' # attempt
    /\ IF op = "create" THEN CreateCalls' ELSE ReimageCalls'
    /\ fn' \in Creators /\ op = "reimage" => ok /\ fn \in Deleters
    /\ fn' \in Finishers =>
          /\ fn \in Finishers \/ (ok /\ fn \in Creators)
          /\ op = "create" => fn' = "CreateServer" \/ (fn \in Finishers /\ (ok \/ fn # "CreateServer"))
          /\ op = "reimage" => ok /\ fn \in Creators \cup {"CreateNvmeStorage"}

LEMMA Handlers ==
    ASSUME HandlerOK, ControlInv, UNCHANGED <<want, op>>, NEW ok \in BOOLEAN, Return(ok)
    PROVE  Finished(ok) \/ Entered(ok)
<1>1. /\ CreateStorage' = CreateStorage /\ DeleteStorage' = DeleteStorage
      /\ want \in Configs /\ attempt \in 0 .. Attempts - 1 /\ phase \in {"boot", "seed", "cleanup"}
  BY DEF CreateStorage, DeleteStorage, HandlerOK
<1>2. /\ want.kind = "server" =>
            CreateStorage = "CreateBootStorage" /\ DeleteStorage = "DeleteBootStorage"
      /\ want.kind = "harvester" =>
            CreateStorage = "CreateHarvesterStorage" /\ DeleteStorage = "DeleteHarvesterStorage"
      /\ want.kind = "esx" =>
            CreateStorage = "CreateEsxStorage" /\ DeleteStorage = "DeleteEsxStorage"
      /\ want.kind \in {"server", "harvester", "esx"}
  BY <1>1, OfKind
<1>3. \A f : TryAgain(f, "boot") \/ TryAgain(f, "seed") =>
             attempt' \in 0 .. Attempts - 1 /\ attempt' # attempt
  BY <1>1, AttemptsAssumption DEF TryAgain, LastAttempt
<1>4. 0 \in 0 .. Attempts - 1
  BY AttemptsAssumption
<1>. USE <1>1, <1>2, <1>4 DEF Finished, Entered, Creators, Deleters, Finishers, Remapped, Function
<1>5. CASE op = "delete" \/ fn = "RemapHarvesterStorage"
  BY <1>5 DEF Return
<1>6. ASSUME op = "create", fn # "RemapHarvesterStorage", want.kind = "esx", CreateEsxHost(ok)
      PROVE  Finished(ok) \/ Entered(ok)
  BY <1>6 DEF CreateEsxHost, Cleanup, GoOn, Enter, CreateCalls, ControlInv
<1>7. ASSUME op = "create", fn # "RemapHarvesterStorage", want.kind # "esx", phase = "boot",
             CreateBootLoop(ok)
      PROVE  Finished(ok) \/ Entered(ok)
  BY <1>3, <1>7 DEF CreateBootLoop, Cleanup, GoOn, TryAgain, Enter, CreateCalls
<1>8. ASSUME op = "create", fn # "RemapHarvesterStorage", want.kind = "server", phase = "seed",
             CreateSeedLoop(ok)
      PROVE  Finished(ok) \/ Entered(ok)
  BY <1>3, <1>8 DEF CreateSeedLoop, Cleanup, GoOn, TryAgain, Enter, CreateCalls
<1>9. ASSUME op = "create", fn # "RemapHarvesterStorage", want.kind = "harvester", phase = "seed",
             CreateNodeSeedLoop(ok)
      PROVE  Finished(ok) \/ Entered(ok)
  BY <1>3, <1>9 DEF CreateNodeSeedLoop, Cleanup, GoOn, TryAgain, Enter, CreateCalls
<1>10. ASSUME op = "reimage", fn # "RemapHarvesterStorage", want.kind = "server", ReimageReturns(ok)
       PROVE  Finished(ok) \/ Entered(ok)
  BY <1>3, <1>10 DEF ReimageReturns, GoOn, TryAgain, Enter, ReimageCalls, ControlInv
<1>11. ASSUME op = "reimage", fn # "RemapHarvesterStorage", want.kind # "server",
              ReimageHypervisorReturns(ok)
       PROVE  Finished(ok) \/ Entered(ok)
  BY <1>3, <1>11 DEF ReimageHypervisorReturns, Cleanup, GoOn, TryAgain, Enter, ReimageCalls,
     ControlInv
<1>. HIDE DEF Finished, Entered
<1>12. CASE op = "create" /\ fn # "RemapHarvesterStorage"
  <2>1. CreateReturns(ok)
    BY <1>12 DEF Return
  <2>2. Finish("error") => Finished(ok)
    BY DEF Finished
  <2>. QED
    BY <1>6, <1>7, <1>8, <1>9, <1>12, <2>1, <2>2 DEF CreateReturns
<1>13. CASE op = "reimage" /\ fn # "RemapHarvesterStorage"
  BY <1>10, <1>11, <1>13 DEF Return
<1>. QED
  BY <1>5, <1>12, <1>13 DEF HandlerOK

(* The course of the handlers is as ControlInv says.                       *)
LEMMA ControlKept ==
    ASSUME HandlerOK, ControlInv, result = "running", StorageCall
    PROVE  HandlerOK' /\ ControlInv'
<1>1. Moves /\ UNCHANGED <<want, op>>
  BY Courses
<1>2. /\ CreateStorage' = CreateStorage /\ DeleteStorage' = DeleteStorage
      /\ LunNames' = LunNames /\ want \in Configs
  BY <1>1 DEF CreateStorage, DeleteStorage, LunNames, HandlerOK
<1>3. PICK n \in {1, 3} : n = Len(LunNames)
  BY <1>2, OwnLuns
<1>4. CASE May(fn, at') /\ UNCHANGED <<fn, lunNo, phase, attempt, result>>
  <2>1. HandlerOK'
    BY <1>1, <1>4 DEF HandlerOK, May
  <2>2. CreateCalls' = CreateCalls /\ ReimageCalls' = ReimageCalls /\ Remapped' = Remapped
    BY <1>1, <1>2, <1>4 DEF CreateCalls, ReimageCalls, Remapped
  <2>. QED
    BY <1>1, <1>2, <1>4, <2>1, <2>2 DEF ControlInv, May
<1>5. CASE lunNo < Len(LunNames) /\ NextLun /\ May(fn, "lun_unmap")
  <2>1. lunNo' \in 1 .. 3 /\ lunNo' <= n
    BY <1>3, <1>5 DEF NextLun, HandlerOK
  <2>2. CreateCalls' = CreateCalls /\ ReimageCalls' = ReimageCalls /\ Remapped' = Remapped
    BY <1>1, <1>2, <1>5 DEF CreateCalls, ReimageCalls, Remapped, NextLun
  <2>3. HandlerOK'
    BY <1>1, <1>5, <2>1 DEF HandlerOK, May, NextLun
  <2>. QED
    BY <1>1, <1>2, <1>3, <1>5, <2>1, <2>2, <2>3 DEF ControlInv, May, NextLun
<1>6. ASSUME NEW ok \in BOOLEAN, Finished(ok)
      PROVE  HandlerOK' /\ ControlInv'
  <2>1. UNCHANGED <<fn, at, lunNo, phase, attempt>> /\ result' \in {"ok", "error"}
    BY <1>6 DEF Finished, Finish
  <2>2. CreateCalls' = CreateCalls /\ ReimageCalls' = ReimageCalls /\ Remapped' = Remapped
    BY <1>1, <1>2, <2>1 DEF CreateCalls, ReimageCalls, Remapped
  <2>3. HandlerOK'
    BY <1>1, <2>1 DEF HandlerOK
  <2>. QED
    BY <1>1, <1>2, <2>1, <2>2, <2>3 DEF ControlInv
<1>7. ASSUME NEW ok \in BOOLEAN, Entered(ok)
      PROVE  HandlerOK' /\ ControlInv'
  <2>1. at' \in Request /\ Makes(fn', at') /\ at' \notin NvmeRequests
    BY <1>7, EntryIs DEF Entered
  <2>2. HandlerOK'
    BY <1>1, <1>7, <2>1 DEF HandlerOK, Entered
  <2>3. op' \in {"create", "reimage"} /\ op' = op
    BY <1>1, <1>7 DEF Entered, HandlerOK
  <2>4. ~Remapped' /\ (IF op' = "create" THEN CreateCalls' ELSE ReimageCalls')
    BY <1>7, <2>3 DEF Entered, Remapped
  <2>5. (lunNo <= Len(LunNames))'
    BY <1>2, <1>3, <1>7 DEF Entered
  <2>. QED
    BY <2>1, <2>2, <2>3, <2>4, <2>5 DEF ControlInv
<1>8. ASSUME NEW ok \in BOOLEAN, Return(ok)
      PROVE  HandlerOK' /\ ControlInv'
  BY <1>1, <1>6, <1>7, <1>8, Handlers
<1>. QED
  BY <1>1, <1>4, <1>5, <1>8 DEF Moves

(* What a function leaves is what the next one, or the caller, relies on.  *)
LEMMA EndKept ==
    ASSUME HandlerOK, ControlInv, RemapInv, ReimageInv, ArrayOK', ArrayInv', sp' \in BOOLEAN,
           UNCHANGED <<want, op>>, result = "running",
           op = "reimage" /\ want.kind = "server" => UNCHANGED <<volume, igroup>>,
           NEW ok \in BOOLEAN, Finished(ok), Deleted(ok), RemapDone(ok), Created(ok), Reimaged(ok)
    PROVE  DeleteInv' /\ RemapInv' /\ CreateInv' /\ ReimageInv' /\ ResultInv'
<1>1. UNCHANGED <<fn, at, lunNo, phase, attempt>> /\ result' \in {"ok", "error"}
  BY DEF Finished, Finish
<1>2. /\ Wanted' = Wanted /\ BootLun' = BootLun /\ Remapped' = Remapped /\ Uploaded' = Uploaded
      /\ Wanted \subseteq LUN /\ want \in Configs
  BY <1>1, Kinds DEF Wanted, BootLun, Remapped, Uploaded, LUN, HandlerOK
<1>3. DeleteInv' /\ RemapInv' /\ CreateInv'
  BY <1>1 DEF DeleteInv, RemapInv, CreateInv, Running
<1>4. ReimageInv'
  BY <1>1 DEF ReimageInv
<1>5. CASE result' = "error"
  BY <1>3, <1>4, <1>5 DEF ResultInv, ReimagedIsNew, CreatedIsComplete, DeletedIsGone, Ended
<1>6. ASSUME result' = "ok"
      PROVE  ResultInv'
  <2>1. /\ ok
        /\ \/ Remapped \/ op = "delete" \/ fn = "CreateSeedStorage"
           \/ want.kind = "esx" /\ fn = IF op = "create" THEN "CreateServer" ELSE "CreateEsxStorage"
    BY <1>6 DEF Finished, Finish
  <2>2. DeletedIsGone'
    <3>1. CASE op = "delete"
      <4>1. fn \in Deleters /\ fn # "DeleteBootLUNs"
        BY <1>2, <3>1, OfKind DEF ControlInv, Remapped, Deleters
      <4>2. (\A l \in LUN : lun'[l] = "none") /\ ~volume' /\ igroup' = "none" /\ subsystem' = "none"
        BY <2>1, <4>1 DEF Deleted
      <4>3. mapped' = {} /\ namespace' = "none"
        BY <4>2 DEF ArrayInv, ArrayOK
      <4>. QED
        BY <4>2, <4>3 DEF DeletedIsGone
    <3>. QED
      BY <3>1 DEF DeletedIsGone, Ended
  <2>3. ASSUME op # "delete", Uploaded
        PROVE  /\ volume' /\ \A l \in Wanted : l \in mapped'
               /\ lun'["seed"] = IF "seed" \in Wanted THEN "new" ELSE "none"
               /\ want.kind = "esx" => lun'["boot"] = "new"
               /\ op = "create" => sp'
               /\ op = "reimage" =>
                     mapped' = Wanted /\ \A l \in LUN : lun'[l] = IF l \in Wanted THEN "new" ELSE "none"
    <3>1. CASE Remapped
      <4>1. Wanted = {"boot"} /\ want.kind = "harvester"
        BY <3>1, KindOf DEF Wanted, Remapped
      <4>2. /\ volume' /\ mapped' = {"boot"}
            /\ \A l \in LUN : lun'[l] = IF l = "boot" THEN lun["boot"] ELSE "none"
            /\ sp' = sp
        BY <2>1, <3>1 DEF RemapDone
      <4>3. (op = "create" => sp) /\ (op = "reimage" => lun["boot"] = "new")
        BY <3>1 DEF RemapInv, Running, Remapped
      <4>. QED
        BY <4>1, <4>2, <4>3 DEF LUN
    <3>2. CASE fn = "CreateSeedStorage"
      <4>1. want.kind # "esx" /\ ~Remapped /\ fn \in Finishers
        BY <3>2, KindOf DEF Remapped, Finishers
      <4>2. "seed" \in Wanted
        BY <4>1 DEF Wanted
      <4>3. /\ volume' /\ (\A l \in Wanted \ {"seed"} : l \in mapped') /\ (op = "create" => sp')
            /\ "seed" \in mapped' /\ lun'["seed"] = "new"
        BY <2>1, <3>2, <4>1 DEF Created
      <4>4. op = "reimage" => LeavesOnly(Wanted)
        BY <2>1, <3>2 DEF Reimaged
      <4>. QED
        BY <4>1, <4>2, <4>3, <4>4 DEF LeavesOnly
    <3>3. CASE want.kind = "esx" /\ fn = IF op = "create" THEN "CreateServer" ELSE "CreateEsxStorage"
      <4>1. Wanted = {"boot"} /\ "seed" \notin Wanted /\ Wanted \ {"seed"} = Wanted
        BY <3>3 DEF Wanted
      <4>2. /\ volume' /\ (\A l \in Wanted \ {"seed"} : l \in mapped') /\ lun'["boot"] = "new"
            /\ op = "create" => sp'
        BY <2>1, <2>3, <3>3 DEF Created, Finishers, Creators
      <4>3. op = "reimage" => LeavesOnly(Wanted \ {"seed"})
        BY <2>1, <2>3, <3>3 DEF Reimaged, Creators
      <4>4. lun'["seed"] = "none"
        BY <3>3 DEF ArrayInv
      <4>. QED
        BY <4>1, <4>2, <4>3, <4>4 DEF LeavesOnly
    <3>. QED
      BY <2>1, <2>3, <3>1, <3>2, <3>3
  <2>4. ASSUME op # "delete", Uploaded
        PROVE  /\ igroup' # "none" /\ first' = BootLun
               /\ \A l \in Wanted : lun'[l] # "none"
    <3>1. "boot" \in Wanted /\ BootLun \in Wanted
      BY <1>2, Kinds DEF Wanted, BootLun, Remapped
    <3>2. CASE Remapped
      BY <2>1, <2>3, <2>4, <3>1, <3>2 DEF RemapDone, ArrayInv, BootLun
    <3>3. CASE ~Remapped
      <4>1. CASE want.kind = "harvester"
        BY <2>3, <2>4, <3>1, <3>3, <4>1 DEF ArrayInv, BootLun
      <4>2. CASE want.kind # "harvester"
        BY <2>3, <2>4, <3>1, <3>3, <4>2 DEF ArrayInv, BootLun
      <4>. QED
        BY <4>1, <4>2
    <3>. QED
      BY <3>2, <3>3
  <2>5. Uploaded => CreatedIsComplete'
    BY <1>2, <2>3, <2>4 DEF CreatedIsComplete, Ended
  <2>6. Uploaded => ReimagedIsNew'
    <3>1. lun' = [l \in LUN |-> lun'[l]]
      BY DEF ArrayOK
    <3>2. op = "reimage" /\ Uploaded => lun' = [l \in LUN |-> IF l \in Wanted' THEN "new" ELSE "none"]
      BY <1>2, <2>3, <3>1
    <3>. QED
      BY <1>2, <2>3, <2>4, <3>2 DEF ReimagedIsNew, Ended
  <2>. QED
    BY <1>2, <2>2, <2>5, <2>6 DEF ResultInv
<1>. QED
  BY <1>1, <1>3, <1>4, <1>5, <1>6

LEMMA EntryKept ==
    ASSUME HandlerOK, HandlerOK', ControlInv', ArrayOK', ArrayInv', sp' \in BOOLEAN,
           UNCHANGED <<want, op>>, ReimageInv,
           op = "reimage" /\ want.kind = "server" => UNCHANGED <<volume, igroup>>,
           NEW ok \in BOOLEAN, Entered(ok), Deleted(ok), Created(ok), Reimaged(ok)
    PROVE  DeleteInv' /\ RemapInv' /\ CreateInv' /\ ReimageInv' /\ ResultInv'
<1>1. /\ fn' \in Function /\ at' = Entry(fn') /\ lunNo' = 1 /\ result' = "running"
      /\ op # "delete" /\ ~Remapped /\ fn' # "RemapHarvesterStorage"
  BY DEF Entered
<1>2. /\ Wanted' = Wanted /\ Uploaded' = Uploaded /\ ~Remapped' /\ CreateStorage' = CreateStorage
      /\ DeleteStorage' = DeleteStorage /\ Wanted \subseteq LUN /\ want \in Configs
  BY <1>1, Kinds DEF Wanted, Remapped, Uploaded, CreateStorage, DeleteStorage, LUN, HandlerOK
<1>3. /\ fn' \in Creators => at' = "volume_create"
      /\ fn' \in Deleters => at' = "lun_unmap"
      /\ at' \notin {"seed_map", "seed_write", "igroup_initiators"}
  BY <1>1 DEF Entry, Creators, Deleters, Function
<1>4. DeleteInv' /\ RemapInv' /\ ResultInv'
  BY <1>1, <1>3 DEF DeleteInv, RemapInv, ResultInv, Running, ReimagedIsNew, CreatedIsComplete,
     DeletedIsGone, Ended
<1>5. fn' \in Finishers =>
        /\ fn \in Finishers \/ (ok /\ fn \in Creators)
        /\ op = "create" => fn' = "CreateServer" \/ (fn \in Finishers /\ (ok \/ fn # "CreateServer"))
        /\ op = "reimage" => ok /\ fn \in Creators \cup {"CreateNvmeStorage"}
  BY DEF Entered
<1>6. CreateInv'
  <2>1. fn' \in Creators => fn' \notin Finishers
    BY DEF Creators, Finishers
  <2>2. ASSUME fn' \in Finishers
        PROVE  /\ volume' /\ igroup' # "none"
               /\ \A l \in Wanted \ {"seed"} : l \in mapped'
               /\ want.kind = "esx" /\ Uploaded => lun'["boot"] = "new"
               /\ op = "create" /\ fn' # "CreateServer" => sp'
    <3>1. /\ volume' /\ (\A l \in Wanted \ {"seed"} : l \in mapped')
          /\ want.kind = "esx" /\ Uploaded => lun'["boot"] = "new"
      BY <1>5, <2>2 DEF Created
    <3>2. op = "create" /\ fn' # "CreateServer" => sp'
      BY <1>5, <2>2 DEF Created
    <3>3. "boot" \in Wanted \ {"seed"}
      BY <1>1, <1>2, Kinds DEF Wanted
    <3>. QED
      BY <3>1, <3>2, <3>3 DEF ArrayInv
  <2>3. fn' \in Creators => CreateInv'
    BY <1>3, <2>1 DEF CreateInv, Running, Finishers
  <2>4. fn' \notin Creators => CreateInv'
    BY <1>2, <1>3, <2>2 DEF CreateInv, Running, Finishers
  <2>. QED
    BY <2>3, <2>4
<1>7. ReimageInv'
  <2>1. ASSUME op = "reimage", fn' \in Creators
        PROVE  Exactly({}, {}, {})'
    <3>1. ok /\ fn \in Deleters
      BY <2>1 DEF Entered
    <3>2. \A l \in LUN : lun'[l] = "none"
      BY <3>1 DEF Deleted
    <3>. QED
      BY <3>2 DEF ArrayInv, ArrayOK, Exactly, LUN
  <2>2. ASSUME op = "reimage", fn' \in {"CreateNvmeStorage", "CreateSeedStorage"}
        PROVE  Exactly(Wanted \ {"seed"}, {}, Wanted \ {"seed"})'
    <3>1. ok /\ fn \in Creators \cup {"CreateNvmeStorage"}
      BY <1>5, <2>2 DEF Finishers
    <3>2. Uploaded
      BY <1>1, <1>2, <2>2 DEF Uploaded, Entered, ReimageCalls, DeleteStorage, CreateStorage,
      HandlerOK
    <3>3. LeavesOnly(Wanted \ {"seed"})
      BY <2>2, <3>1, <3>2 DEF Reimaged
    <3>. QED
      BY <1>2, <3>3 DEF LeavesOnly, Exactly, LUN
  <2>3. op = "reimage" => ReimagedServer' /\ ReimagedNode' /\ ReimagedHost' /\ ReimagedSeed'
    BY <1>3, <2>1, <2>2 DEF ReimagedServer, ReimagedNode, ReimagedHost, ReimagedSeed, Creators
  <2>. QED
    BY <1>3, <2>3 DEF ReimageInv
<1>. QED
  BY <1>4, <1>6, <1>7

(* Both, whichever function it is.                                         *)
LEMMA ReturnKept ==
    ASSUME ArrayOK, HandlerOK, ControlInv, ArrayInv, DeleteInv, CreateInv, RemapInv, ReimageInv,
           sp' \in BOOLEAN, result = "running", StorageCall,
           NEW ok \in BOOLEAN, Return(ok), Deleted(ok), RemapDone(ok), Created(ok), Reimaged(ok)
    PROVE  DeleteInv' /\ RemapInv' /\ CreateInv' /\ ReimageInv' /\ ResultInv'
<1>1. UNCHANGED <<want, op>> /\ HandlerOK' /\ ControlInv' /\ ArrayOK' /\ ArrayInv'
  BY Courses, ControlKept, ArrayKept
<1>2. op = "reimage" /\ want.kind = "server" => UNCHANGED <<volume, igroup>>
  BY KeepsVolume
<1>3. Finished(ok) \/ Entered(ok)
  BY <1>1, Handlers
<1>. QED
  BY <1>1, <1>2, <1>3, EndKept, EntryKept

(* A step that returns cannot be taken for one that goes on.               *)
LEMMA ReturnMoves ==
    ASSUME HandlerOK, ControlInv, UNCHANGED <<want, op>>, result = "running",
           NEW ok \in BOOLEAN, Return(ok)
    PROVE  ~UNCHANGED <<fn, phase, attempt, result>>
<1>1. CASE Finished(ok)
  BY <1>1 DEF Finished, Finish
<1>2. CASE Entered(ok)
  BY <1>2 DEF Entered
<1>. QED
  BY <1>1, <1>2, Handlers

LEMMA StageKept ==
    ASSUME ArrayOK, HandlerOK, ControlInv, ArrayInv, DeleteInv, CreateInv, RemapInv, ReimageInv,
           sp \in BOOLEAN, sp' \in BOOLEAN, result = "running", StorageCall
    PROVE  DeleteInv' /\ RemapInv' /\ CreateInv' /\ ReimageInv' /\ ResultInv'
<1> DEFINE Goal == DeleteInv' /\ RemapInv' /\ CreateInv' /\ ReimageInv' /\ ResultInv'
<1>. HIDE DEF Goal
<1>. SUFFICES Goal
  BY DEF Goal
<1>1. UNCHANGED <<want, op>> /\ HandlerOK' /\ ControlInv' /\ ArrayOK' /\ ArrayInv'
  BY Courses, ControlKept, ArrayKept
<1>2. op = "reimage" /\ want.kind = "server" =>
        volume' = volume /\ igroup' = igroup /\ volume /\ igroup # "none"
  BY KeepsVolume DEF ReimageInv
<1>2a. ASSUME NEW ok \in BOOLEAN, Return(ok), Deleted(ok), RemapDone(ok), Created(ok), Reimaged(ok)
       PROVE  Goal
  BY <1>2a, ReturnKept DEF Goal
<1>3. /\ Return(TRUE) /\ Deleted(TRUE) /\ RemapDone(TRUE) /\ Created(TRUE) /\ Reimaged(TRUE) => Goal
      /\ Return(FALSE) /\ Deleted(FALSE) /\ RemapDone(FALSE) /\ Created(FALSE) /\ Reimaged(FALSE) => Goal
  BY <1>2a
<1>4. UNCHANGED <<fn, result>> => ResultInv'
  BY DEF ResultInv, ReimagedIsNew, CreatedIsComplete, DeletedIsGone, Ended
<1>5. fn \notin Creators /\ UNCHANGED fn => at' # "igroup_initiators"
  BY <1>1 DEF ControlInv, Makes
<1>6. CASE fn \in Deleters
  <2>1. fn \notin Creators \cup Finishers \cup {"RemapHarvesterStorage", "CreateSeedStorage", "CreateNvmeStorage"}
    BY <1>6 DEF Deleters, Creators, Finishers
  <2>2. /\ RemapDone(TRUE) /\ Created(TRUE) /\ Reimaged(TRUE)
      /\ RemapDone(FALSE) /\ Created(FALSE) /\ Reimaged(FALSE)
    BY <2>1 DEF RemapDone, Created, Reimaged, Remapped
  <2>3. ASSUME UNCHANGED <<fn, phase, attempt, result>>, DeleteInv'
        PROVE  Goal
    <3>1. RemapInv' /\ CreateInv'
      BY <2>1, <2>3 DEF RemapInv, CreateInv, Running, Finishers
    <3>2. ReimageInv'
      BY <1>1, <1>2, <1>5, <2>1, <2>3 DEF ReimageInv, ReimagedServer, ReimagedNode, ReimagedHost,
         ReimagedSeed, Creators
    <3>. QED
      BY <1>4, <2>3, <3>1, <3>2 DEF Goal
  <2>. QED
    BY <1>3, <1>6, <2>2, <2>3, DeleteStage
<1>7. CASE Remapped
  <2>1. fn \notin Creators \cup Finishers \cup Deleters \cup {"CreateSeedStorage", "CreateNvmeStorage"}
    BY <1>7 DEF Deleters, Creators, Finishers, Remapped
  <2>2. /\ Deleted(TRUE) /\ Created(TRUE) /\ Reimaged(TRUE)
      /\ Deleted(FALSE) /\ Created(FALSE) /\ Reimaged(FALSE)
    BY <2>1 DEF Deleted, Created, Reimaged
  <2>3. ASSUME UNCHANGED <<fn, phase, attempt, result>>, RemapInv'
        PROVE  Goal
    <3>1. DeleteInv' /\ CreateInv'
      BY <2>1, <2>3 DEF DeleteInv, CreateInv, Running, Finishers
    <3>2. ReimageInv'
      BY <1>1, <1>2, <1>5, <2>1, <2>3 DEF ReimageInv, ReimagedServer, ReimagedNode, ReimagedHost,
         ReimagedSeed, Creators
    <3>. QED
      BY <1>4, <2>3, <3>1, <3>2 DEF Goal
  <2>. QED
    BY <1>3, <1>7, <2>2, <2>3, RemapStage
<1>8. CASE fn \in Creators
  <2>1. fn \notin Deleters \cup Finishers \cup {"RemapHarvesterStorage", "CreateSeedStorage", "CreateNvmeStorage"}
    BY <1>8 DEF Deleters, Creators, Finishers
  <2>2. /\ Deleted(TRUE) /\ RemapDone(TRUE)
      /\ Deleted(FALSE) /\ RemapDone(FALSE)
    BY <2>1 DEF Deleted, RemapDone, Remapped
  <2>3. \/ Return(TRUE) /\ Created(TRUE)
        \/ Return(FALSE) /\ Created(FALSE)
        \/ UNCHANGED <<fn, phase, attempt, result>> /\ CreateInv'
    BY <1>8, CreateStage
  <2>4. Reimaged(FALSE) /\ Created(FALSE)
    BY <1>8, <2>1 DEF Reimaged, Created
  <2>5. op = "reimage" =>
          \/ Return(FALSE)
          \/ Return(TRUE) /\ Reimaged(TRUE)
          \/ /\ UNCHANGED <<fn, phase, attempt, result>>
             /\ ReimagedServer' /\ ReimagedNode' /\ ReimagedHost' /\ ReimagedSeed'
             /\ want.kind = "server" => at' # "igroup_initiators"
    <3>1. CASE op = "reimage" /\ fn = "CreateBootStorage"
      BY <2>1, <3>1, BootReimagedServer DEF Reimaged, ReimagedNode, ReimagedHost, ReimagedSeed
    <3>2. CASE op = "reimage" /\ fn = "CreateHarvesterStorage"
      BY <2>1, <3>2, BootReimagedNode, KindOf DEF Reimaged, ReimagedServer, ReimagedHost,
      ReimagedSeed
    <3>3. CASE op = "reimage" /\ fn = "CreateEsxStorage"
      BY <2>1, <3>3, BootReimagedHost, KindOf DEF Reimaged, ReimagedServer, ReimagedNode,
      ReimagedSeed
    <3>. QED
      BY <1>8, <3>1, <3>2, <3>3 DEF Creators
  <2>6. CASE Return(FALSE)
    BY <1>3, <2>2, <2>4, <2>6
  <2>7. CASE Return(TRUE) /\ ~Return(FALSE)
    <3>1. ~UNCHANGED <<fn, phase, attempt, result>>
      BY <1>1, <2>7, ReturnMoves
    <3>2. Created(TRUE) /\ Reimaged(TRUE)
      BY <2>3, <2>5, <2>7, <3>1 DEF Reimaged
    <3>. QED
      BY <1>3, <2>2, <2>7, <3>2
  <2>8. ASSUME ~Return(TRUE), ~Return(FALSE)
        PROVE  Goal
    <3>1. UNCHANGED <<fn, phase, attempt, result>> /\ CreateInv'
      BY <2>3, <2>8
    <3>2. DeleteInv' /\ RemapInv'
      BY <2>1, <3>1 DEF DeleteInv, RemapInv, Running
    <3>3. ReimageInv'
      BY <1>1, <1>2, <2>5, <2>8, <3>1 DEF ReimageInv
    <3>. QED
      BY <1>4, <3>1, <3>2, <3>3 DEF Goal
  <2>. QED
    BY <2>6, <2>7, <2>8
<1>9. CASE fn \in Finishers
  <2>1. fn \notin Deleters \cup Creators \cup {"RemapHarvesterStorage"}
    BY <1>9 DEF Deleters, Creators, Finishers
  <2>2. /\ Deleted(TRUE) /\ RemapDone(TRUE)
      /\ Deleted(FALSE) /\ RemapDone(FALSE)
    BY <2>1 DEF Deleted, RemapDone, Remapped
  <2>3. \/ Return(TRUE) /\ Created(TRUE)
        \/ Return(FALSE) /\ Created(FALSE)
        \/ UNCHANGED <<fn, phase, attempt, result>> /\ CreateInv'
    BY <1>9, FinishStage
  <2>4. Reimaged(FALSE) /\ (Created(TRUE) => Created(FALSE))
    BY <1>9, <2>1 DEF Reimaged, Created
  <2>5. op = "reimage" =>
          \/ Return(FALSE)
          \/ Return(TRUE) /\ Reimaged(TRUE)
          \/ UNCHANGED <<fn, phase, attempt, result>> /\ ReimagedSeed'
    <3>1. op = "reimage" => fn \in {"CreateNvmeStorage", "CreateSeedStorage"}
      BY <1>9, <2>1, OfKind DEF ControlInv, ReimageCalls, Remapped, Finishers, HandlerOK,
      Deleters, Creators
    <3>. QED
      BY <3>1, SeedReimaged
  <2>6. CASE Return(FALSE)
    <3>1. ~UNCHANGED <<fn, phase, attempt, result>>
      BY <1>1, <2>6, ReturnMoves
    <3>. QED
      BY <1>3, <2>2, <2>3, <2>4, <2>6, <3>1
  <2>7. CASE Return(TRUE) /\ ~Return(FALSE)
    <3>1. ~UNCHANGED <<fn, phase, attempt, result>>
      BY <1>1, <2>7, ReturnMoves
    <3>2. Created(TRUE) /\ Reimaged(TRUE)
      BY <2>3, <2>5, <2>7, <3>1 DEF Reimaged
    <3>. QED
      BY <1>3, <2>2, <2>7, <3>2
  <2>8. ASSUME ~Return(TRUE), ~Return(FALSE)
        PROVE  Goal
    <3>1. UNCHANGED <<fn, phase, attempt, result>> /\ CreateInv'
      BY <2>3, <2>8
    <3>2. DeleteInv' /\ RemapInv'
      BY <2>1, <3>1 DEF DeleteInv, RemapInv, Running
    <3>3. ReimageInv'
      BY <1>1, <1>2, <1>5, <2>1, <2>5, <2>8, <3>1 DEF ReimageInv, ReimagedServer, ReimagedNode,
         ReimagedHost, Creators
    <3>. QED
      BY <1>4, <3>1, <3>2, <3>3 DEF Goal
  <2>. QED
    BY <2>6, <2>7, <2>8
<1>10. CASE fn = "DeleteServer"
  <2>1. at = "server_delete"
    BY <1>10 DEF HandlerOK, ControlInv, Makes, Request, Creators, Deleters, Nvme, NvmeRequests
  <2>2. Return(TRUE)
    <3>1. DeleteServer
      BY <2>1, Guards DEF StorageCall
    <3>. QED
      BY <3>1 DEF DeleteServer
  <2>3. Deleted(TRUE) /\ RemapDone(TRUE) /\ Created(TRUE) /\ Reimaged(TRUE)
    BY <1>10 DEF Deleted, RemapDone, Created, Reimaged, Remapped, Deleters, Creators, Finishers
  <2>. QED
    BY <1>3, <2>2, <2>3
<1>. QED
  BY <1>6, <1>7, <1>8, <1>9, <1>10 DEF HandlerOK, Function, Deleters, Creators, Finishers, Remapped

-----------------------------------------------------------------------------
(* The faults of a re-image: an attempt fails by a fault of its own.       *)

LEMMA FaultCounts ==
    ASSUME faults \in 0 .. MaxFaults, attempt \in 0 .. Attempts - 1, Fault
    PROVE  /\ faults' \in 0 .. MaxFaults /\ faults' >= faults /\ faults' >= 1
           /\ faults >= attempt => faults' > attempt
BY MaxFaultsAssumption, AttemptsAssumption DEF Fault

(* What the array could refuse.                                            *)
LEMMA OutOfTheWay ==
    ASSUME ArrayOK, HandlerOK, ControlInv, ArrayInv, DeleteInv, CreateInv, ReimageInv,
           op = "reimage", ~Remapped, result = "running"
    PROVE  /\ at = "image_map" => CanMap(ImageLun) \/ ~ClearedInv
           /\ at = "boot_map" => CanMap("boot") \/ ~ClearedInv
           /\ at = "data_map" => CanMap("data")
           /\ at = "seed_map" => CanMap("seed")
           /\ at = "seed_destroy" => "seed" \notin mapped
           /\ at = "lun_destroy" => LunAt \notin mapped
<1>. USE DEF CanMap, Id, LUN, Exactly
<1>1. ReimagedServer /\ ReimagedNode /\ ReimagedHost /\ ReimagedSeed
  BY DEF ReimageInv
<1>2. want.kind = "server" => igroup # "none"
  BY DEF ReimageInv
<1>3. /\ at = "image_map" => fn \in {"CreateBootStorage", "CreateHarvesterStorage"}
      /\ at = "boot_map" => fn \in {"CreateHarvesterStorage", "CreateEsxStorage"}
      /\ at = "data_map" => fn = "CreateBootStorage"
      /\ at \in {"seed_map", "seed_destroy"} => fn = "CreateSeedStorage"
      /\ at = "lun_destroy" => fn \in Deleters
  BY DEF ControlInv, Makes, Creators, Deleters, Remapped
<1>4. mapped = {} => first = "none"
  BY DEF ArrayOK
<1>5. at = "image_map" => CanMap(ImageLun) \/ ~ClearedInv
  <2>1. CASE fn = "CreateBootStorage"
    BY <1>1, <1>2, <1>4, <2>1, KindOf DEF ImageLun, ReimagedServer
  <2>2. CASE fn = "CreateHarvesterStorage"
    BY <1>1, <1>4, <2>2 DEF ImageLun, ReimagedNode, ClearedInv
  <2>. QED
    BY <1>3, <2>1, <2>2
<1>6. at = "boot_map" => CanMap("boot") \/ ~ClearedInv
  <2>1. CASE fn = "CreateEsxStorage"
    BY <1>1, <1>4, <2>1 DEF ReimagedHost, ClearedInv
  <2>2. CASE fn = "CreateHarvesterStorage"
    BY <1>1, <2>2 DEF ReimagedNode, ClearedInv
  <2>. QED
    BY <1>3, <2>1, <2>2
<1>7. at = "data_map" => CanMap("data")
  BY <1>1, <1>2, <1>3, KindOf DEF ReimagedServer
<1>8. at \in {"seed_map", "seed_destroy"} => "seed" \notin mapped
  BY <1>1, <1>3 DEF ReimagedSeed
<1>9. at = "seed_map" => CanMap("seed")
  <2>1. at = "seed_map" => lun["seed"] = "new" /\ igroup # "none"
    BY <1>3 DEF CreateInv, Running
  <2>. QED
    BY <1>8, <2>1
<1>10. at = "lun_destroy" => LunAt \notin mapped
  BY <1>3 DEF DeleteInv, Running
<1>. QED
  BY <1>5, <1>6, <1>7, <1>8, <1>9, <1>10

(* A request succeeds, or meets a fault, or is refused for what an earlier *)
(* fault has left.                                                         *)
Counts ==
    \/ Return(FALSE) /\ (Fault \/ (UNCHANGED faults /\ ~ClearedInv))
    \/ Return(TRUE) /\ UNCHANGED faults
    \/ /\ UNCHANGED <<fn, phase, attempt, result>>
       /\ Fault \/ (UNCHANGED faults /\ (ClearedInv => ClearedInv'))

LEMMA RequestCounts ==
    ASSUME ArrayOK, HandlerOK, ControlInv, ArrayInv, DeleteInv, CreateInv, ReimageInv,
           op = "reimage", ~Remapped, result = "running", StorageCall
    PROVE  Counts
<1>0. /\ at = "image_map" => CanMap(ImageLun) \/ ~ClearedInv
      /\ at = "boot_map" => CanMap("boot") \/ ~ClearedInv
      /\ at = "data_map" => CanMap("data")
      /\ at = "seed_map" => CanMap("seed")
      /\ at = "seed_destroy" => "seed" \notin mapped
      /\ at = "lun_destroy" => LunAt \notin mapped
  BY OutOfTheWay
<1>1. Makes(fn, at)
  BY DEF ControlInv
<1>2. ~BootRemap /\ ~CreateServer /\ ~DeleteServer
  <2>1. fn \notin {"RemapHarvesterStorage", "CreateServer", "DeleteServer"}
    BY OfKind DEF HandlerOK, ControlInv, ReimageCalls, Remapped
  <2>. QED
    BY <1>1, <2>1 DEF BootRemap, CreateServer, DeleteServer, Makes
<1>3. VolumeCreate => Counts
  BY <1>0, <1>1 DEF VolumeCreate, Do, Fails, Step, Nothing, SetVolume, array, luns, nvme,
     maps, Then, ClearedInv, Counts, Makes, Creators, Deleters, Nvme
<1>4. IgroupCreate => Counts
  BY <1>0, <1>1 DEF IgroupCreate, Do, Fails, Step, DoAndIgnore, Nothing, SetIgroup,
     AfterIgroup, array, luns, nvme, maps, Then, ClearedInv, Counts, Makes, Creators,
     Deleters, Nvme
<1>5. IgroupAddInitiator => Counts
  BY <1>0, <1>1 DEF IgroupAddInitiator, DoAndIgnore, Step, Nothing, SetIgroup, AfterIgroup,
     array, luns, nvme, maps, Then, ClearedInv, Counts, Makes, Creators, Deleters, Nvme
<1>6. LunCopy => Counts
  BY <1>0, <1>1 DEF LunCopy, Do, Fails, Step, Nothing, SetLun, ImageLun, array, luns, nvme,
     maps, Then, ClearedInv, Counts, Makes, Creators, Deleters, Nvme
<1>7. LunResize => Counts
  BY <1>0, <1>1 DEF LunResize, Do, Fails, Step, SetLun, ImageLun, array, luns, nvme, maps,
     Then, ClearedInv, Counts, Makes, Creators, Deleters, Nvme
<1>8. ImageMap => Counts
  BY <1>0, <1>1 DEF ImageMap, Do, Fails, Step, Refused, Nothing, LunMap, Map, ImageLun,
     maps, array, luns, nvme, Then, ClearedInv, Counts, Makes, Creators, Deleters, Nvme
<1>9. BootCreate => Counts
  BY <1>0, <1>1 DEF BootCreate, Do, Fails, Step, Nothing, SetLun, array, luns, nvme, maps,
     Then, ClearedInv, Counts, Makes, Creators, Deleters, Nvme
<1>10. BootUpload => Counts
  BY <1>0, <1>1 DEF BootUpload, Do, Fails, Step, Nothing, SetLun, array, luns, nvme, maps,
     Then, ClearedInv, Counts, Makes, Creators, Deleters, Nvme
<1>11. BootMap => Counts
  BY <1>0, <1>1 DEF BootMap, Do, Fails, Step, DoLast, Refused, Nothing, LunMap, Map, array,
     luns, nvme, maps, Then, ClearedInv, Counts, Makes, Creators, Deleters, Nvme
<1>12. DataCreate => Counts
  BY <1>0, <1>1 DEF DataCreate, Do, Fails, Step, Nothing, SetLun, array, luns, nvme, maps,
     Then, ClearedInv, Counts, Makes, Creators, Deleters, Nvme
<1>13. DataMap => Counts
  BY <1>0, <1>1 DEF DataMap, Do, Fails, Step, Refused, Nothing, LunMap, Map, array, luns,
     nvme, maps, Then, ClearedInv, Counts, Makes, Creators, Deleters, Nvme
<1>14. Discover => Counts
  BY <1>0, <1>1 DEF Discover, Do, Fails, Step, DoLast, Nothing, array, luns, nvme, maps,
     Then, ClearedInv, Counts, Makes, Creators, Deleters, Nvme
<1>15. NvmeSkip => Counts
  BY <1>0, <1>1 DEF NvmeSkip, NvmeApplies, Step, array, luns, nvme, maps, Then, ClearedInv,
     Counts, Makes, Creators, Deleters, Nvme
<1>16. NvmeNamespaceUnmap => Counts
  BY <1>0, <1>1 DEF NvmeNamespaceUnmap, DoAndIgnore, Step, NvmeApplies, Nothing, Serve,
     array, luns, nvme, maps, Then, ClearedInv, Counts, Makes, Creators, Deleters, Nvme
<1>17. NvmeNamespaceDestroy => Counts
  BY <1>0, <1>1 DEF NvmeNamespaceDestroy, Do, Fails, Step, Refused, SetNamespace, array,
     luns, nvme, maps, Then, ClearedInv, Counts, Makes, Creators, Deleters, Nvme
<1>18. NvmeNamespaceCreate => Counts
  <2>1. NvmeNamespaceCreate =>
          /\ fn = "CreateNvmeStorage" /\ at = "namespace_create" /\ at' = "subsystem_destroy"
          /\ UNCHANGED <<fn, phase, attempt, result, served>>
          /\ Fault \/ (UNCHANGED faults /\ namespace' = "new")
    BY <1>1 DEF NvmeNamespaceCreate, DoAndIgnore, SetNamespace, Then, Makes, array, nvme
  <2>. QED
    BY <2>1 DEF Counts, ClearedInv
<1>19. NvmeSubsystemDestroy => Counts
  BY <1>0, <1>1 DEF NvmeSubsystemDestroy, Do, Fails, Step, DoLast, Refused, SetSubsystem,
     array, luns, nvme, maps, Then, ClearedInv, Counts, Makes, Creators, Deleters, Nvme
<1>20. NvmeSubsystemCreate => Counts
  BY <1>0, <1>1 DEF NvmeSubsystemCreate, DoAndIgnore, Step, SetSubsystem, array, luns, nvme,
     maps, Then, ClearedInv, Counts, Makes, Creators, Deleters, Nvme
<1>21. NvmeSubsystemAddHost => Counts
  BY <1>0, <1>1 DEF NvmeSubsystemAddHost, DoAndIgnore, Step, Refused, Nothing, SetSubsystem,
     array, luns, nvme, maps, Then, ClearedInv, Counts, Makes, Creators, Deleters, Nvme
<1>22. NvmeNamespaceMap => Counts
  BY <1>0, <1>1 DEF NvmeNamespaceMap, DoAndIgnore, Step, Nothing, Serve, array, luns, nvme,
     maps, Then, ClearedInv, Counts, Makes, Creators, Deleters, Nvme
<1>23. NvmeDiscover => Counts
  BY <1>0, <1>1 DEF NvmeDiscover, DoLast, Fails, Refused, Nothing, Step, array, luns, nvme,
     maps, Then, ClearedInv, Counts, Makes, Creators, Deleters, Nvme
<1>24. SeedUnmap => Counts
  BY <1>0, <1>1 DEF SeedUnmap, DoAndIgnore, Step, Unmap, array, luns, nvme, maps, Then,
     ClearedInv, Counts, Makes, Creators, Deleters, Nvme
<1>25. SeedDestroy => Counts
  BY <1>0, <1>1 DEF SeedDestroy, Do, Fails, Step, Refused, SetLun, array, luns, nvme, maps,
     Then, ClearedInv, Counts, Makes, Creators, Deleters, Nvme
<1>26. FileDelete => Counts
  BY <1>0, <1>1 DEF FileDelete, Do, Fails, Step, Nothing, SetFile, FileDeleteNext, array,
     luns, nvme, maps, Then, ClearedInv, Counts, Makes, Creators, Deleters, Nvme
<1>27. FileUpload => Counts
  BY <1>0, <1>1 DEF FileUpload, Do, Fails, Step, Refused, SetFile, array, luns, nvme, maps,
     Then, ClearedInv, Counts, Makes, Creators, Deleters, Nvme
<1>28. SeedCreate => Counts
  BY <1>0, <1>1 DEF SeedCreate, Do, Fails, Step, SetLun, array, luns, nvme, maps, Then,
     ClearedInv, Counts, Makes, Creators, Deleters, Nvme
<1>29. SeedWrite => Counts
  BY <1>0, <1>1 DEF SeedWrite, Do, Fails, Step, SetLun, array, luns, nvme, maps, Then,
     ClearedInv, Counts, Makes, Creators, Deleters, Nvme
<1>30. SeedMap => Counts
  BY <1>0, <1>1 DEF SeedMap, DoLast, Fails, Step, Refused, Map, array, luns, nvme, maps,
     Then, ClearedInv, Counts, Makes, Creators, Deleters, Nvme
<1>31. LunUnmap => Counts
  BY <1>0, <1>1 DEF LunUnmap, Fails, Step, Nothing, Unmap, LunDone, Kept, AfterLuns, array,
     luns, nvme, maps, NextLun, Then, ClearedInv, Counts, Makes, Creators, Deleters, Nvme
<1>32. LunDestroy => Counts
  BY <1>0, <1>1 DEF LunDestroy, Fails, Step, Refused, SetLun, LunDone, AfterLuns, array,
     luns, nvme, maps, NextLun, Then, ClearedInv, Counts, Makes, Creators, Deleters, Nvme
<1>33. IgroupDestroy => Counts
  BY <1>0, <1>1 DEF IgroupDestroy, Do, Fails, Step, DoLast, SetIgroup, array, luns, nvme,
     maps, Then, ClearedInv, Counts, Makes, Creators, Deleters, Nvme
<1>34. VolumeDestroy => Counts
  BY <1>0, <1>1 DEF VolumeDestroy, DoLast, Fails, Step, VolumeDestroyed, array, luns, nvme,
     maps, Then, ClearedInv, Counts, Makes, Creators, Deleters, Nvme
<1>. QED
  BY <1>2, <1>3, <1>4, <1>5, <1>6, <1>7, <1>8, <1>9, <1>10, <1>11, <1>12, <1>13, <1>14,
     <1>15, <1>16, <1>17, <1>18, <1>19, <1>20, <1>21, <1>22, <1>23, <1>24, <1>25, <1>26,
     <1>27, <1>28, <1>29, <1>30, <1>31, <1>32, <1>33, <1>34 DEF StorageCall

LEMMA ClearedAtEntry ==
    ASSUME NEW ok, Entered(ok)
    PROVE  ClearedInv'
BY DEF Entered, Entry, ClearedInv

LEMMA FaultReturns ==
    ASSUME HandlerOK, ControlInv, FaultInv, UNCHANGED <<want, op>>, op = "reimage", ~Remapped,
           result = "running", faults \in 0 .. MaxFaults, faults' \in 0 .. MaxFaults,
           NEW ok \in BOOLEAN, Return(ok), faults' >= faults, ok \/ faults' > attempt
    PROVE  FaultInv'
<1>1. /\ attempt \in 0 .. Attempts - 1 /\ Attempts \in Nat \ {0}
      /\ faults \in Nat /\ faults' \in Nat
      /\ faults >= attempt /\ (phase = "cleanup" => faults > attempt)
  BY AttemptsAssumption, MaxFaultsAssumption DEF HandlerOK, FaultInv
<1>2. ReimageCalls /\ fn # "RemapHarvesterStorage"
  BY DEF ControlInv, Remapped
<1>3. Finished(ok) \/ Entered(ok)
  BY Handlers
<1>4. /\ result' = "running" => faults' >= attempt' /\ (phase' = "cleanup" => faults' > attempt')
      /\ result' = "error" => faults' >= Attempts
  <2>1. CASE want.kind = "server"
    <3>1. ReimageReturns(ok)
      BY <1>2, <2>1 DEF Return
    <3>. QED
      BY <1>1, <1>2, <2>1, <3>1 DEF ReimageReturns, ReimageCalls, TryAgain, LastAttempt, GoOn,
      Enter, Finish
  <2>2. CASE want.kind # "server"
    <3>1. ReimageHypervisorReturns(ok)
      BY <1>2, <2>2 DEF Return
    <3>2. \A f : TryAgain(f, "boot") /\ faults' > attempt =>
              faults' >= attempt' /\ phase' = "boot" /\ result' = "running"
      BY <1>1 DEF TryAgain, Enter
    <3>3. LastAttempt /\ Finish("error") /\ faults' > attempt =>
              faults' >= Attempts /\ result' = "error"
      BY <1>1 DEF LastAttempt, Finish
    <3>4. phase = "cleanup" => faults' > attempt
      BY <1>1
    <3>5. phase = "boot" \/ fn = DeleteStorage
      BY <1>2, <2>2 DEF ReimageCalls
    <3>6. faults' >= attempt
      BY <1>1
    <3>7. CreateStorage # DeleteStorage /\ DeleteStorage # "CreateSeedStorage"
      BY <2>2, OfKind DEF HandlerOK
    <3>. QED
      BY <3>1, <3>2, <3>3, <3>4, <3>5, <3>6, <3>7
         DEF ReimageHypervisorReturns, Cleanup, GoOn, Enter, Finish
  <2>. QED
    BY <2>1, <2>2
<1>5. ~Remapped'
  BY <1>3 DEF Finished, Finish, Entered, Remapped
<1>6. result' = "running" => ClearedInv'
  BY <1>3, ClearedAtEntry DEF Finished, Finish
<1>. QED
  BY <1>4, <1>5, <1>6 DEF FaultInv

LEMMA RemapFaults ==
    ASSUME ArrayOK, HandlerOK, ControlInv, ArrayInv, RemapInv, Remapped, result = "running",
           StorageCall
    PROVE  result' # "error" \/ Fault
<1>1. /\ want.kind = "harvester" /\ fn = "RemapHarvesterStorage"
      /\ at \in {"lun_unmap", "lun_destroy", "boot_remap"}
  BY DEF ControlInv, Remapped, Makes, HandlerOK, Request, Creators, Deleters, Nvme, NvmeRequests
<1>2. /\ at = "lun_destroy" => LunAt \notin mapped
      /\ at = "boot_remap" => CanMap("boot")
  <2>1. at = "boot_remap" => mapped = {}
    BY <1>1 DEF RemapInv, Running, ArrayInv, ArrayOK, LUN
  <2>. QED
    BY <1>1, <2>1 DEF RemapInv, Running, ArrayOK, CanMap
<1>3. Return(TRUE) => result' = "ok"
  BY <1>1 DEF Return, Finish
<1>4. LunUnmap => result' # "error" \/ Fault
  BY DEF LunUnmap, Fails, LunDone, NextLun, Then
<1>5. LunDestroy => result' # "error" \/ Fault
  BY <1>2 DEF LunDestroy, Fails, LunDone, NextLun, Then
<1>6. BootRemap => result' # "error" \/ Fault
  BY <1>2, <1>3 DEF BootRemap, DoLast, Fails
<1>. QED
  BY <1>1, <1>4, <1>5, <1>6, Guards DEF StorageCall

LEMMA CallTypes ==
    ASSUME sp \in BOOLEAN, StorageCall
    PROVE  sp' \in BOOLEAN /\ (UNCHANGED faults \/ Fault)
<1>1. VolumeCreate => sp' \in BOOLEAN /\ (UNCHANGED faults \/ Fault)
  BY DEF VolumeCreate, Do, Fails
<1>2. IgroupCreate => sp' \in BOOLEAN /\ (UNCHANGED faults \/ Fault)
  BY DEF IgroupCreate, Do, Fails, DoAndIgnore
<1>3. IgroupAddInitiator => sp' \in BOOLEAN /\ (UNCHANGED faults \/ Fault)
  BY DEF IgroupAddInitiator, DoAndIgnore
<1>4. LunCopy => sp' \in BOOLEAN /\ (UNCHANGED faults \/ Fault)
  BY DEF LunCopy, Do, Fails
<1>5. LunResize => sp' \in BOOLEAN /\ (UNCHANGED faults \/ Fault)
  BY DEF LunResize, Do, Fails
<1>6. ImageMap => sp' \in BOOLEAN /\ (UNCHANGED faults \/ Fault)
  BY DEF ImageMap, Do, Fails, Refused, LunMap
<1>7. BootCreate => sp' \in BOOLEAN /\ (UNCHANGED faults \/ Fault)
  BY DEF BootCreate, Do, Fails
<1>8. BootUpload => sp' \in BOOLEAN /\ (UNCHANGED faults \/ Fault)
  BY DEF BootUpload, Do, Fails
<1>9. BootMap => sp' \in BOOLEAN /\ (UNCHANGED faults \/ Fault)
  BY DEF BootMap, Do, Fails, DoLast, Refused, LunMap
<1>10. BootRemap => sp' \in BOOLEAN /\ (UNCHANGED faults \/ Fault)
  BY DEF BootRemap, DoLast, Fails, Refused
<1>11. DataCreate => sp' \in BOOLEAN /\ (UNCHANGED faults \/ Fault)
  BY DEF DataCreate, Do, Fails
<1>12. DataMap => sp' \in BOOLEAN /\ (UNCHANGED faults \/ Fault)
  BY DEF DataMap, Do, Fails, Refused, LunMap
<1>13. Discover => sp' \in BOOLEAN /\ (UNCHANGED faults \/ Fault)
  BY DEF Discover, Do, Fails, DoLast
<1>14. NvmeSkip => sp' \in BOOLEAN /\ (UNCHANGED faults \/ Fault)
  BY DEF NvmeSkip
<1>15. NvmeNamespaceUnmap => sp' \in BOOLEAN /\ (UNCHANGED faults \/ Fault)
  BY DEF NvmeNamespaceUnmap, DoAndIgnore
<1>16. NvmeNamespaceDestroy => sp' \in BOOLEAN /\ (UNCHANGED faults \/ Fault)
  BY DEF NvmeNamespaceDestroy, Do, Fails, Refused
<1>17. NvmeNamespaceCreate => sp' \in BOOLEAN /\ (UNCHANGED faults \/ Fault)
  BY DEF NvmeNamespaceCreate, DoAndIgnore
<1>18. NvmeSubsystemDestroy => sp' \in BOOLEAN /\ (UNCHANGED faults \/ Fault)
  BY DEF NvmeSubsystemDestroy, Do, Fails, DoLast, Refused
<1>19. NvmeSubsystemCreate => sp' \in BOOLEAN /\ (UNCHANGED faults \/ Fault)
  BY DEF NvmeSubsystemCreate, DoAndIgnore
<1>20. NvmeSubsystemAddHost => sp' \in BOOLEAN /\ (UNCHANGED faults \/ Fault)
  BY DEF NvmeSubsystemAddHost, DoAndIgnore, Refused
<1>21. NvmeNamespaceMap => sp' \in BOOLEAN /\ (UNCHANGED faults \/ Fault)
  BY DEF NvmeNamespaceMap, DoAndIgnore
<1>22. NvmeDiscover => sp' \in BOOLEAN /\ (UNCHANGED faults \/ Fault)
  BY DEF NvmeDiscover, DoLast, Fails, Refused
<1>23. SeedUnmap => sp' \in BOOLEAN /\ (UNCHANGED faults \/ Fault)
  BY DEF SeedUnmap, DoAndIgnore
<1>24. SeedDestroy => sp' \in BOOLEAN /\ (UNCHANGED faults \/ Fault)
  BY DEF SeedDestroy, Do, Fails, Refused
<1>25. FileDelete => sp' \in BOOLEAN /\ (UNCHANGED faults \/ Fault)
  BY DEF FileDelete, Do, Fails
<1>26. FileUpload => sp' \in BOOLEAN /\ (UNCHANGED faults \/ Fault)
  BY DEF FileUpload, Do, Fails, Refused
<1>27. SeedCreate => sp' \in BOOLEAN /\ (UNCHANGED faults \/ Fault)
  BY DEF SeedCreate, Do, Fails
<1>28. SeedWrite => sp' \in BOOLEAN /\ (UNCHANGED faults \/ Fault)
  BY DEF SeedWrite, Do, Fails
<1>29. SeedMap => sp' \in BOOLEAN /\ (UNCHANGED faults \/ Fault)
  BY DEF SeedMap, DoLast, Fails, Refused
<1>30. LunUnmap => sp' \in BOOLEAN /\ (UNCHANGED faults \/ Fault)
  BY DEF LunUnmap, Fails
<1>31. LunDestroy => sp' \in BOOLEAN /\ (UNCHANGED faults \/ Fault)
  BY DEF LunDestroy, Fails, Refused
<1>32. IgroupDestroy => sp' \in BOOLEAN /\ (UNCHANGED faults \/ Fault)
  BY DEF IgroupDestroy, Do, Fails, DoLast
<1>33. VolumeDestroy => sp' \in BOOLEAN /\ (UNCHANGED faults \/ Fault)
  BY DEF VolumeDestroy, DoLast, Fails
<1>34. CreateServer => sp' \in BOOLEAN /\ (UNCHANGED faults \/ Fault)
  BY DEF CreateServer
<1>35. DeleteServer => sp' \in BOOLEAN /\ (UNCHANGED faults \/ Fault)
  BY DEF DeleteServer
<1>. QED
  BY <1>1, <1>2, <1>3, <1>4, <1>5, <1>6, <1>7, <1>8, <1>9, <1>10, <1>11, <1>12, <1>13,
     <1>14, <1>15, <1>16, <1>17, <1>18, <1>19, <1>20, <1>21, <1>22, <1>23, <1>24, <1>25,
     <1>26, <1>27, <1>28, <1>29, <1>30, <1>31, <1>32, <1>33, <1>34, <1>35 DEF StorageCall

LEMMA FaultKept ==
    ASSUME ArrayOK, HandlerOK, ControlInv, ArrayInv, DeleteInv, CreateInv, RemapInv, ReimageInv,
           FaultInv, faults \in 0 .. MaxFaults, sp \in BOOLEAN, result = "running", StorageCall
    PROVE  FaultInv' /\ faults' \in 0 .. MaxFaults
<1>1. UNCHANGED <<want, op>> /\ Moves
  BY Courses
<1>2. UNCHANGED faults \/ Fault
  BY CallTypes
<1>3. attempt \in 0 .. Attempts - 1 /\ faults \in Nat
  BY MaxFaultsAssumption DEF HandlerOK
<1>4. /\ faults' \in 0 .. MaxFaults /\ faults' >= faults
      /\ Fault => faults' >= 1 /\ (faults >= attempt => faults' > attempt)
  BY <1>2, <1>3, FaultCounts
<1>5. ~Remapped => ~Remapped'
  <2>1. ASSUME NEW ok \in BOOLEAN, Return(ok)
        PROVE  ~Remapped => ~Remapped'
    BY <1>1, <2>1, Handlers DEF Finished, Finish, Entered, Remapped
  <2>. QED
    BY <1>1, <2>1 DEF Moves, NextLun, Remapped
<1>6. CASE Remapped
  <2>1. result' # "error" \/ Fault
    BY <1>6, RemapFaults
  <2>2. Remapped'
    <3>1. ASSUME NEW ok \in BOOLEAN, Return(ok)
          PROVE  Remapped'
      BY <1>1, <1>6, <3>1, Handlers DEF Finished, Finish, Entered, Remapped
    <3>. QED
      BY <1>1, <1>6, <3>1 DEF Moves, NextLun, Remapped
  <2>. QED
    BY <1>4, <2>1, <2>2 DEF FaultInv
<1>7. CASE ~Remapped /\ op # "reimage"
  BY <1>1, <1>4, <1>5, <1>7 DEF FaultInv
<1>8. CASE ~Remapped /\ op = "reimage"
  <2>1. Counts
    BY <1>8, RequestCounts
  <2>2. /\ faults >= attempt /\ (phase = "cleanup" => faults > attempt)
        /\ phase = "boot" /\ faults = attempt => ClearedInv
    BY <1>8 DEF FaultInv
  <2>3. ~ClearedInv => faults > attempt
    <3>1. phase \in {"boot", "cleanup"}
      BY <1>8 DEF ControlInv, ReimageCalls
    <3>. QED
      BY <1>3, <2>2, <3>1
  <2>4. Return(FALSE) /\ (Fault \/ (UNCHANGED faults /\ ~ClearedInv)) => FaultInv'
    <3>1. Fault \/ (UNCHANGED faults /\ ~ClearedInv) => faults' > attempt
      BY <1>3, <1>4, <2>2, <2>3
    <3>. QED
      BY <1>1, <1>4, <1>8, <3>1, FaultReturns
  <2>5. Return(TRUE) /\ UNCHANGED faults => FaultInv'
    BY <1>1, <1>4, <1>8, FaultReturns
  <2>6. ASSUME UNCHANGED <<fn, phase, attempt, result>>,
               Fault \/ (UNCHANGED faults /\ (ClearedInv => ClearedInv'))
        PROVE  FaultInv'
    <3>1. faults' >= attempt' /\ (phase' = "cleanup" => faults' > attempt')
      BY <1>3, <1>4, <2>2, <2>6
    <3>2. phase' = "boot" /\ faults' = attempt' => ClearedInv'
      <4>1. Fault => faults' # attempt'
        BY <1>3, <1>4, <2>2, <2>6
      <4>. QED
        BY <2>2, <2>6, <4>1
    <3>3. result' = "running"
      BY <2>6
    <3>. QED
      BY <1>5, <1>8, <3>1, <3>2, <3>3 DEF FaultInv
  <2>7. FaultInv'
    BY <2>1, <2>4, <2>5, <2>6 DEF Counts
  <2>. QED
    BY <1>4, <2>7
<1>. QED
  BY <1>6, <1>7, <1>8

-----------------------------------------------------------------------------
(* The operations begin, and the invariant holds.                          *)

LEMMA CallKept ==
    ASSUME StorageInv, Call
    PROVE  StorageInv'
<1>1. /\ ArrayOK /\ HandlerOK /\ sp \in BOOLEAN /\ faults \in 0 .. MaxFaults
      /\ ControlInv /\ ArrayInv /\ DeleteInv /\ RemapInv /\ CreateInv /\ ReimageInv /\ FaultInv
      /\ result = "running" /\ StorageCall
  BY TypeParts DEF StorageInv, Call
<1>2. HandlerOK' /\ ControlInv' /\ ArrayOK' /\ ArrayInv' /\ sp' \in BOOLEAN
  BY <1>1, ControlKept, ArrayKept, CallTypes
<1>3. DeleteInv' /\ RemapInv' /\ CreateInv' /\ ReimageInv' /\ ResultInv'
  BY <1>1, <1>2, StageKept
<1>4. FaultInv' /\ faults' \in 0 .. MaxFaults
  BY <1>1, FaultKept
<1>5. TypeOK'
  BY <1>2, <1>4, TypeFromParts
<1>. QED
  BY <1>2, <1>3, <1>4, <1>5 DEF StorageInv

(* What the beginning of an operation makes of the array: nothing is new.  *)
LEMMA StartsArray ==
    ASSUME ArrayOK, ArrayInv, NEW o, NEW f, Starts(o, f), want'.kind = want.kind,
           want'.api = want.api, want'.nvme = "none" <=> want.nvme = "none"
    PROVE  ArrayOK' /\ ArrayInv'
<1>1. /\ lun' = [l \in LUN |-> IF lun[l] = "new" THEN "old" ELSE lun[l]]
      /\ namespace' = IF namespace = "new" THEN "old" ELSE namespace
      /\ UNCHANGED <<volume, igroup, mapped, first, file, subsystem, served>>
  BY DEF Starts, maps
<1>2. \A l \in LUN : lun'[l] = "none" <=> lun[l] = "none"
  BY <1>1
<1>3. lun' \in [LUN -> {"none", "old", "part", "new"}]
  BY <1>1 DEF ArrayOK
<1>4. ArrayOK'
  BY <1>1, <1>3 DEF ArrayOK
<1>5. ArrayInv'
  BY <1>1, <1>2 DEF ArrayInv, ArrayOK, LUN
<1>. QED
  BY <1>4, <1>5

LEMMA StartsHandler ==
    ASSUME HandlerOK, want' \in Configs, want'.kind = want.kind, sp' \in BOOLEAN, ArrayOK', ArrayInv',
           NEW o \in {"create", "reimage", "delete"}, NEW f, Starts(o, f),
           \/ o = "create" /\ f = CreateStorage
           \/ o = "delete" /\ f = DeleteStorage
           \/ /\ o = "reimage"
              /\ f = IF want.kind = "server" THEN "DeleteBootLUNs" ELSE DeleteStorage
              /\ want.kind = "server" => volume /\ igroup # "none"
    PROVE  StorageInv'
<1>1. /\ op' = o /\ fn' = f /\ at' = Entry(f) /\ lunNo' = 1 /\ result' = "running"
      /\ phase' = "boot" /\ attempt' = 0 /\ faults' = 0
      /\ UNCHANGED <<volume, igroup>>
  BY DEF Starts, Enter
<1>2. /\ want.kind = "server" =>
            /\ CreateStorage = "CreateBootStorage" /\ DeleteStorage = "DeleteBootStorage"
            /\ CreateStorage' = "CreateBootStorage" /\ DeleteStorage' = "DeleteBootStorage"
      /\ want.kind = "harvester" =>
            /\ CreateStorage = "CreateHarvesterStorage" /\ DeleteStorage = "DeleteHarvesterStorage"
            /\ CreateStorage' = "CreateHarvesterStorage" /\ DeleteStorage' = "DeleteHarvesterStorage"
      /\ want.kind = "esx" =>
            /\ CreateStorage = "CreateEsxStorage" /\ DeleteStorage = "DeleteEsxStorage"
            /\ CreateStorage' = "CreateEsxStorage" /\ DeleteStorage' = "DeleteEsxStorage"
      /\ want.kind \in {"server", "harvester", "esx"}
  BY Kinds DEF CreateStorage, DeleteStorage, HandlerOK
<1>3. f \in Creators \cup Deleters /\ (f \in Creators <=> o = "create")
  BY <1>2 DEF Creators, Deleters
<1>4. at' = IF f \in Creators THEN "volume_create" ELSE "lun_unmap"
  BY <1>1, <1>3 DEF Creators, Deleters, Entry
<1>5. f \in Function /\ f \notin {"RemapHarvesterStorage", "CreateSeedStorage", "CreateNvmeStorage"}
  BY <1>3 DEF Creators, Deleters, Function
<1>6. 0 \in 0 .. Attempts - 1 /\ 0 \in 0 .. MaxFaults /\ 1 \in 1 .. 3
  BY AttemptsAssumption, MaxFaultsAssumption
<1>7. HandlerOK' /\ TypeOK'
  <2>1. HandlerOK'
    BY <1>1, <1>4, <1>5, <1>6 DEF HandlerOK, Request
  <2>. QED
    BY <1>1, <1>6, <2>1, TypeFromParts
<1>8. ControlInv'
  <2>1. lunNo' <= Len(LunNames')
    <3>1. Len(LunNames') \in {1, 3}
      BY <1>2 DEF LunNames
    <3>. QED
      BY <1>1, <3>1, SMTT(30)
  <2>2. Makes(fn', at') /\ at' \notin NvmeRequests /\ ~Remapped'
    BY <1>1, <1>3, <1>4, <1>5 DEF Makes, Creators, Deleters, NvmeRequests, Remapped
  <2>3. CASE op' = "create"
      BY <1>1, <1>2, <2>1, <2>2, <2>3 DEF ControlInv, CreateCalls
  <2>4. CASE op' = "reimage"
      BY <1>1, <1>2, <2>1, <2>2, <2>4 DEF ControlInv, ReimageCalls
  <2>5. CASE op' = "delete"
      BY <1>1, <1>2, <2>1, <2>2, <2>5 DEF ControlInv
  <2>. QED
    BY <1>1, <2>3, <2>4, <2>5
<1>9. DeleteInv' /\ RemapInv' /\ CreateInv'
  BY <1>1, <1>3, <1>4, <1>5 DEF DeleteInv, RemapInv, CreateInv, Running, Creators, Deleters
<1>10. ReimageInv'
  BY <1>1, <1>3, <1>4, <1>5 DEF ReimageInv, ReimagedServer, ReimagedNode, ReimagedHost,
     ReimagedSeed,
     Creators, Deleters
<1>11. FaultInv'
  <2>1. ClearedInv'
    BY <1>1, <1>4, <1>3 DEF ClearedInv, Creators
  <2>. QED
    BY <1>1, <1>5, <2>1 DEF FaultInv, Remapped
<1>12. ResultInv'
  BY <1>1 DEF ResultInv, ReimagedIsNew, CreatedIsComplete, DeletedIsGone, Ended
<1>. QED
  BY <1>7, <1>8, <1>9, <1>10, <1>11, <1>12 DEF StorageInv

LEMMA StartKept ==
    ASSUME StorageInv, StartCreate \/ StartReimage \/ StartDelete
    PROVE  StorageInv'
<1>1. ArrayOK /\ HandlerOK /\ sp \in BOOLEAN /\ ArrayInv /\ want \in Configs
  BY TypeParts DEF StorageInv, HandlerOK
<1>2. CASE StartCreate
  <2>1. Starts("create", CreateStorage) /\ sp' \in BOOLEAN /\ want' = want
    BY <1>1, <1>2 DEF StartCreate
  <2>2. ArrayOK' /\ ArrayInv'
    BY <1>1, <2>1, StartsArray
  <2>. QED
    BY <1>1, <2>1, <2>2, StartsHandler
<1>3. CASE StartDelete
  <2>1. Starts("delete", DeleteStorage) /\ sp' \in BOOLEAN /\ want' = want
    BY <1>1, <1>3 DEF StartDelete
  <2>2. ArrayOK' /\ ArrayInv'
    BY <1>1, <2>1, StartsArray
  <2>. QED
    BY <1>1, <2>1, <2>2, StartsHandler
<1>4. CASE StartReimage
  <2> DEFINE f == IF want.kind = "server" THEN "DeleteBootLUNs" ELSE DeleteStorage
  <2>1. /\ Starts("reimage", f) /\ sp' \in BOOLEAN /\ StorageExists
        /\ want' \in Configs /\ want'.kind = want.kind /\ want'.api = want.api
        /\ want'.nvme = "none" <=> want.nvme = "none"
    BY <1>1, <1>4 DEF StartReimage
  <2>2. ArrayOK' /\ ArrayInv'
    BY <1>1, <2>1, StartsArray
  <2>3. want.kind = "server" => volume /\ igroup # "none"
    BY <1>1, <2>1 DEF StorageExists, ArrayInv
  <2>. HIDE DEF f
  <2>4. f = IF want.kind = "server" THEN "DeleteBootLUNs" ELSE DeleteStorage
    BY DEF f
  <2>. QED
    BY <1>1, <2>1, <2>2, <2>3, <2>4, StartsHandler
<1>. QED
  BY <1>2, <1>3, <1>4

LEMMA StartRemapKept ==
    ASSUME StorageInv, StartRemap
    PROVE  StorageInv'
<1>1. /\ ArrayOK /\ HandlerOK /\ sp \in BOOLEAN /\ ArrayInv /\ ResultInv
      /\ UNCHANGED <<array, sp, want, op, phase, attempt>>
      /\ want.kind = "harvester" /\ op \in {"create", "reimage"} /\ result = "ok" /\ ~Remapped
      /\ fn' = "RemapHarvesterStorage" /\ at' = "lun_unmap" /\ lunNo' = 1 /\ result' = "running"
      /\ faults' = 0
  BY TypeParts DEF StorageInv, StartRemap, Enter, Entry, Remapped
<1>2. HandlerOK' /\ TypeOK'
  <2>1. HandlerOK'
    BY <1>1 DEF HandlerOK, Function, Request
  <2>2. ArrayOK'
    BY <1>1 DEF ArrayOK, array, luns, nvme
  <2>3. faults' \in 0 .. MaxFaults
    BY <1>1, MaxFaultsAssumption
  <2>. QED
    BY <1>1, <2>1, <2>2, <2>3, TypeFromParts
<1>3. ArrayInv'
  BY <1>1 DEF ArrayInv, array, luns, nvme
<1>4. ControlInv'
  <2>1. Len(LunNames') = 3
    BY <1>1 DEF LunNames
  <2>. QED
    BY <1>1, <2>1 DEF ControlInv, Makes, Deleters, NvmeRequests, Remapped
<1>5. /\ volume /\ igroup # "none" /\ lun["boot"] # "none"
      /\ op = "reimage" => lun["boot"] = "new"
      /\ op = "create" => sp
  <2>1. Wanted = {"boot", "bootstrap", "seed"} /\ Uploaded
    BY <1>1 DEF Wanted, Uploaded
  <2>2. op = "reimage" => volume /\ lun["boot"] = "new" /\ "boot" \in mapped
    BY <1>1, <2>1 DEF ResultInv, ReimagedIsNew, Ended, LUN
  <2>3. op = "create" => volume /\ sp /\ igroup # "none" /\ lun["boot"] # "none"
    BY <1>1, <2>1 DEF ResultInv, CreatedIsComplete, Ended
  <2>. QED
    BY <1>1, <2>2, <2>3 DEF ArrayInv
<1>6. RemapInv'
  BY <1>1, <1>5 DEF RemapInv, Running, array, luns
<1>7. DeleteInv' /\ CreateInv' /\ ReimageInv'
  BY <1>1 DEF DeleteInv, CreateInv, ReimageInv, ReimagedServer, ReimagedNode, ReimagedHost,
     ReimagedSeed, Running, Creators, Deleters
<1>8. FaultInv' /\ ResultInv'
  BY <1>1 DEF FaultInv, Remapped, ResultInv, ReimagedIsNew, CreatedIsComplete, DeletedIsGone, Ended
<1>. QED
  BY <1>2, <1>3, <1>4, <1>6, <1>7, <1>8 DEF StorageInv

LEMMA StutterKept ==
    ASSUME StorageInv, UNCHANGED vars
    PROVE  StorageInv'
<1>1. /\ UNCHANGED <<volume, igroup, lun, mapped, first, file, namespace, subsystem, served>>
      /\ UNCHANGED <<sp, want, op, fn, at, lunNo, phase, attempt, result, faults>>
  BY DEF vars, array, luns, nvme, control
<1>2. TypeOK' /\ ArrayInv'
  BY <1>1 DEF StorageInv, TypeOK, ArrayInv
<1>3. ControlInv'
  BY <1>1 DEF StorageInv, ControlInv, CreateCalls, ReimageCalls, CreateStorage, DeleteStorage,
     LunNames,
     Remapped
<1>4. DeleteInv' /\ RemapInv'
  <2>1. LunAt' = LunAt
    BY <1>1 DEF LunAt, LunNames
  <2>. QED
    BY <1>1, <2>1 DEF StorageInv, DeleteInv, RemapInv, Running
<1>5. CreateInv' /\ ReimageInv'
  BY <1>1 DEF StorageInv, CreateInv, ReimageInv, ReimagedServer, ReimagedNode, ReimagedHost,
     ReimagedSeed, Exactly, Running, Uploaded, Wanted, Remapped, ImageLun
<1>6. FaultInv' /\ ResultInv'
  BY <1>1 DEF StorageInv, FaultInv, ClearedInv, ResultInv, ReimagedIsNew, CreatedIsComplete,
     DeletedIsGone, Ended, Uploaded, Wanted, BootLun, Remapped
<1>. QED
  BY <1>2, <1>3, <1>4, <1>5, <1>6 DEF StorageInv

LEMMA InitHolds ==
    ASSUME Init
    PROVE  StorageInv
<1>. USE DEF Init
<1>1. /\ want.kind = "server" => CreateStorage = "CreateBootStorage"
      /\ want.kind = "harvester" => CreateStorage = "CreateHarvesterStorage"
      /\ want.kind = "esx" => CreateStorage = "CreateEsxStorage"
      /\ want.kind \in {"server", "harvester", "esx"}
  BY OfKind
<1>2. TypeOK
  <2>1. 0 \in 0 .. Attempts - 1 /\ 0 \in 0 .. MaxFaults /\ 1 \in 1 .. 3
    BY AttemptsAssumption, MaxFaultsAssumption
  <2>. QED
    BY <1>1, <2>1 DEF TypeOK, Function, Request
<1>3. ControlInv
  <2>1. Len(LunNames) \in {1, 3}
    BY OwnLuns
  <2>2. lunNo <= Len(LunNames)
    BY <2>1
  <2>. QED
    BY <1>1, <2>2 DEF ControlInv, CreateCalls, Makes, Creators, NvmeRequests, Remapped
<1>4. ArrayInv
  BY DEF ArrayInv, LUN
<1>5. DeleteInv /\ RemapInv /\ CreateInv /\ ReimageInv
  BY <1>1 DEF DeleteInv, RemapInv, CreateInv, ReimageInv, Running, Creators, Deleters
<1>6. FaultInv /\ ResultInv
  BY <1>1 DEF FaultInv, Remapped, ResultInv, ReimagedIsNew, CreatedIsComplete, DeletedIsGone, Ended
<1>. QED
  BY <1>2, <1>3, <1>4, <1>5, <1>6 DEF StorageInv

LEMMA StorageInvKept == StorageInv /\ [Next]_vars => StorageInv'
<1>. SUFFICES ASSUME StorageInv, [Next]_vars PROVE StorageInv'
  OBVIOUS
<1>. QED
  BY CallKept, StartKept, StartRemapKept, StutterKept DEF Next, Idle

-----------------------------------------------------------------------------
(* The invariant of the storage functions and the handlers around them: in *)
(* every state that requests, faults and retries can lead to, what a       *)
(* function has passed is as it has left it.                               *)
THEOREM StorageInvariance == Spec => []StorageInv
<1>. QED
  BY InitHolds, StorageInvKept, PTL DEF Spec

(* The state keeps its type.                                               *)
THEOREM StorageTypes == Spec => []TypeOK
<1>1. StorageInv => TypeOK
  BY DEF StorageInv
<1>. QED
  BY <1>1, StorageInvariance, PTL

(* resourceDeleteServer, -HarvesterNode and -EsxHost: a deletion that      *)
(* reports success leaves nothing on the array, for every configuration,   *)
(* whatever earlier operations have left half done.                        *)
THEOREM StorageDeleted == Spec => []DeletedIsGone
<1>1. StorageInv => DeletedIsGone
  BY DEF StorageInv, ResultInv
<1>. QED
  BY <1>1, StorageInvariance, PTL

(* The retry loop of resourceUpdateServerStorage and its like gives up     *)
(* only after as many faults as it has attempts, a remap only for one of   *)
(* its own: no attempt is lost to what the one before it has left.         *)
THEOREM AttemptsCount == Spec => []EveryAttemptCounts
<1>1. StorageInv => EveryAttemptCounts
  <2>1. ASSUME StorageInv, Ended("reimage", "error"), ~Remapped
        PROVE  faults >= Attempts
    BY <2>1 DEF StorageInv, FaultInv, Ended
  <2>2. ASSUME StorageInv, Remapped, result = "error"
        PROVE  faults >= 1
    BY <2>2 DEF StorageInv, FaultInv
  <2>. QED
    BY <2>1, <2>2 DEF EveryAttemptCounts, Ended
<1>. QED
  BY <1>1, StorageInvariance, PTL

(* Every configured ESX host is on an array with the REST API: LunUpload   *)
(* of the ZAPI client returns without writing the installer                *)
(* (zapi.go:546), so neither of the next two holds for such a host.       *)
EveryHostUploaded == \A c \in Configs : c.kind = "esx" => c.api = "rest"

LEMMA ResultsHold == ASSUME EveryHostUploaded PROVE StorageInv => ReimagedIsNew /\ CreatedIsComplete
BY DEF EveryHostUploaded, StorageInv, TypeOK, ResultInv, Uploaded

(* What the storage update reports done is done: the LUNs are new, there   *)
(* is none beside them, and the machine boots the right one.               *)
THEOREM Reimage ==
    ASSUME EveryHostUploaded
    PROVE  Spec => []ReimagedIsNew
<1>1. StorageInv => ReimagedIsNew
  BY ResultsHold
<1>. QED
  BY <1>1, StorageInvariance, PTL

(* What the creation of a machine reports done is there: all of the LUNs,  *)
(* mapped, with a new seed or installer, and the profile that boots them.  *)
THEOREM Creation ==
    ASSUME EveryHostUploaded
    PROVE  Spec => []CreatedIsComplete
<1>1. StorageInv => CreatedIsComplete
  BY ResultsHold
<1>. QED
  BY <1>1, StorageInvariance, PTL

(* DeleteBootLUNs and the create functions that follow it in a re-image    *)
(* leave the volume and the igroup, and with them the snapshots.           *)
THEOREM SnapshotsStay == Spec => VolumeKept
<1>1. StorageInv /\ [Next]_vars =>
        [want.kind = "server" /\ op = "reimage" /\ result = "running"
         => volume' = volume /\ igroup' = igroup]_vars
  <2>. SUFFICES ASSUME StorageInv, Next, want.kind = "server", op = "reimage", result = "running"
                PROVE  volume' = volume /\ igroup' = igroup
    BY DEF vars
  <2>1. CASE Call
    <3>1. /\ ArrayOK /\ HandlerOK /\ ControlInv /\ ArrayInv /\ DeleteInv /\ ReimageInv /\ StorageCall
      BY <2>1, TypeParts DEF StorageInv, Call
    <3>. QED
      BY <3>1, KeepsVolume
  <2>2. CASE ~Call
    BY <2>2 DEF Next, StartCreate, StartReimage, StartRemap, StartDelete, Starts, Idle
  <2>. QED
    BY <2>1, <2>2
<1>. QED
  BY <1>1, StorageInvariance, PTL DEF VolumeKept, Spec

=============================================================================
